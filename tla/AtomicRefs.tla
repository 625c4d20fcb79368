------------------------------ MODULE AtomicRefs ------------------------------
(***************************************************************************)
(* What the relay promises to the clients that push to a hosted git        *)
(* repository: each push is one compare-and-swap of the refs it names, of  *)
(* all of them or of none.  It takes effect at most once and at a single   *)
(* instant; a client that is told "ok" of every ref knows that it did, a   *)
(* client that is refused, wholly or in part, that it never will, and a    *)
(* client that is told of an error knows neither.  A part refusal binds    *)
(* the refs that its report calls "ok", too: they are not updated.         *)
(***************************************************************************)
CONSTANTS Pushers, Refs, Commits, NoCommit

VARIABLES
    refs,      \* the commit of each ref, or NoCommit
    ask,       \* the update each client asks for: all refs, as seen and as wanted
    applied,   \* the pushes that have taken effect
    reply      \* the answer to each client

vars == <<refs, ask, applied, reply>>

Values == Commits \cup {NoCommit}
Updates == [old : [Refs -> Values], new : [Refs -> Values]]
NoUpdate == <<>>
Moved(u) == {r \in Refs : u.old[r] # u.new[r]}

Init ==
    /\ refs \in [Refs -> Values]
    /\ ask = [p \in Pushers |-> NoUpdate]
    /\ applied = {}
    /\ reply = [p \in Pushers |-> "none"]

\* The client states the values it saw and the ones it wants.
Ask(p) ==
    /\ ask[p] = NoUpdate /\ reply[p] = "none"
    /\ \E u \in Updates : ask' = [ask EXCEPT ![p] = u]
    /\ UNCHANGED <<refs, applied, reply>>

\* The update takes effect, possibly after the client was told of an error.
Effect(p) ==
    /\ ask[p] # NoUpdate /\ p \notin applied /\ reply[p] \in {"none", "error"}
    /\ \A r \in Moved(ask[p]) : refs[r] = ask[p].old[r]
    /\ refs' = [r \in Refs |-> IF r \in Moved(ask[p]) THEN ask[p].new[r] ELSE refs[r]]
    /\ applied' = applied \cup {p}
    /\ UNCHANGED <<ask, reply>>

Reply(p, r) ==
    /\ reply[p] = "none"
    /\ r = "ok" => p \in applied
    /\ r \in {"partial", "refused"} => p \notin applied
    /\ reply' = [reply EXCEPT ![p] = r]
    /\ UNCHANGED <<refs, ask, applied>>

Next ==
    \E p \in Pushers :
        \/ Ask(p)
        \/ Effect(p)
        \/ \E r \in {"ok", "partial", "refused", "error"} : Reply(p, r)

Spec == Init /\ [][Next]_vars
===============================================================================
