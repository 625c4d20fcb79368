----------------------------- MODULE MCGitPublish -----------------------------
(***************************************************************************)
(* GitPublish for TLC: a first commit and one that follows it.             *)
(***************************************************************************)
EXTENDS GitPublish, TLC

CONSTANTS c1, c2

Line == (c1 :> {}) @@ (c2 :> {c1})
\* A repository that is not announced yet, and one with a first commit on main.
NewOrOnePush == {NoRefs, [NoRefs EXCEPT ![MainRef] = c1]}
Symmetry == Permutations(Pushers) \cup Permutations(Announcers)
===============================================================================
