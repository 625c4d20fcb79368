------------------------------ MODULE GitPublish ------------------------------
(***************************************************************************)
(* One git repository of the relay on object storage                       *)
(* (buzz-relay/src/api/git and the announcement handler).  Packs and       *)
(* manifests are immutable and named by their content; the pointer object  *)
(* holds the digest of the current manifest and is written only by a       *)
(* conditional PUT.  Pushes and announcements run concurrently, on any     *)
(* number of relays, without a lock.                                       *)
(*                                                                         *)
(* A commit stands for the objects it introduces, a pack for the set of    *)
(* commits in it.  The digest of a manifest is its index in manifests,     *)
(* where equal manifests share one entry; the ETag of the pointer is a     *)
(* digest of its body, so it is the pointer's value.                       *)
(***************************************************************************)
EXTENDS Integers, Sequences, FiniteSets, Functions

CONSTANTS
    Pushers,      \* push requests
    Announcers,   \* kind:30617 announcements of the repository, all by its owner
    Refs,         \* branch names
    MainRef,      \* refs/heads/main
    Commits,
    Parents,      \* the parents of each commit
    NoCommit,     \* the value of an absent ref
    Start,        \* the refs there may be at first
    Threshold,    \* PACK_COMPACTION_THRESHOLD
    MaxPacks      \* MAX_MANIFEST_PACKS

Values == Commits \cup {NoCommit}
NoRefs == [r \in Refs |-> NoCommit]

ASSUME GitConstants ==
    /\ MainRef \in Refs
    /\ NoCommit \notin Commits
    /\ Parents \in [Commits -> SUBSET Commits]
    /\ Start \subseteq [Refs -> Values]
    /\ \A first \in Start : first = NoRefs \/ first[MainRef] \in Commits
    /\ Threshold \in Nat /\ MaxPacks \in Nat \ {0}
    /\ Threshold <= MaxPacks

VARIABLES
    pointer,      \* digest in the pointer object, 0 when it does not exist
    manifests,    \* manifest objects
    packs,        \* pack objects
    published,    \* history: the values of the pointer, in order
    push,         \* the state of each push
    ask,          \* the update each client sent
    applied,      \* history: pushes whose pointer write took effect
    reply,        \* the response to each client
    wire,         \* pushes whose conditional PUT is on its way to the store
    reserved,     \* the row of git_repo_names
    announce,     \* the state of each announcement
    latest        \* digest in the newest kind:30618 event, 0 for none

store == <<pointer, manifests, packs, published>>
pushes == <<push, ask, applied, reply, wire>>
names == <<reserved, announce>>
vars == <<store, pushes, names, latest>>

Updates == [old : [Refs -> Values], new : [Refs -> Values]]
NoUpdate == <<>>
\* The refs a push asks to move.
Moved(u) == {r \in Refs : u.old[r] # u.new[r]}
Tips(refs) == {refs[r] : r \in Refs} \cap Commits

\* All commits a set of tips leads to: the least set with them and their parents.
Reach(tips) ==
    {c \in Commits : \A S \in SUBSET Commits :
        tips \subseteq S /\ (\A d \in S : Parents[d] \subseteq S) => c \in S}

RefsOf(d) == IF d = 0 THEN NoRefs ELSE manifests[d].refs
PacksOf(d) == IF d = 0 THEN {} ELSE manifests[d].packs
HeadOf(d) == IF d = 0 THEN MainRef ELSE manifests[d].head

\* Mutant: the seed has the empty HEAD of ParentState::fresh.
HeadlessManifest == [refs |-> NoRefs, head |-> NoCommit, packs |-> {}, parent |-> 0]
EmptyManifest == [refs |-> NoRefs, head |-> MainRef, packs |-> {}, parent |-> 0]
Manifests == [refs : [Refs -> Values], head : Refs, packs : SUBSET SUBSET Commits,
              parent : Nat]

Idle == [pc |-> "idle", parent |-> 0, refs |-> NoRefs, packs |-> {},
         m |-> 0, resp |-> "none"]

PushStates ==
    [pc : {"idle", "asked", "hydrated", "received", "packed", "cas", "done"},
     parent : 0..Len(manifests), refs : [Refs -> Values],
     packs : SUBSET SUBSET Commits, m : 0..Len(manifests),
     resp : {"none", "won", "lost"}]
AnnounceStates ==
    [pc : {"idle", "claim", "ensure", "seed", "seeding", "seeded", "failed", "accepted",
           "rejected"},
     fresh : BOOLEAN, put : {"none", "sent", "won", "lost"}]

TypeOK ==
    /\ manifests \in Seq(Manifests)
    /\ pointer \in 0..Len(manifests)
    /\ packs \subseteq SUBSET Commits
    /\ published \in Seq(1..Len(manifests))
    /\ push \in [Pushers -> PushStates]
    /\ ask \in [Pushers -> {NoUpdate} \cup Updates]
    /\ applied \subseteq Pushers /\ wire \subseteq Pushers
    /\ reply \in [Pushers -> {"none", "ok", "partial", "refused", "error"}]
    /\ reserved \in BOOLEAN
    /\ announce \in [Announcers -> AnnounceStates]
    /\ latest \in 0..Len(manifests)

\* A repository without a pointer, whose name a failed announcement may have
\* left reserved, or one with the manifest of its first push.
FirstManifest(first) ==
    [refs |-> first, head |-> MainRef, packs |-> {Reach(Tips(first))}, parent |-> 0]
Holds(first) ==
    \/ /\ first = NoRefs
       /\ pointer = 0 /\ manifests = <<>> /\ packs = {} /\ published = <<>>
       /\ reserved \in BOOLEAN /\ latest = 0
    \/ /\ first # NoRefs
       /\ pointer = 1 /\ manifests = <<FirstManifest(first)>> /\ published = <<1>>
       /\ packs = {Reach(Tips(first))} /\ reserved = TRUE /\ latest = 1

Init ==
    /\ \E first \in Start : Holds(first)
    /\ push = [p \in Pushers |-> Idle]
    /\ ask = [p \in Pushers |-> NoUpdate]
    /\ applied = {} /\ wire = {}
    /\ reply = [p \in Pushers |-> "none"]
    /\ announce = [a \in Announcers |-> [pc |-> "idle", fresh |-> FALSE, put |-> "none"]]

\* put_manifest: create-only under the digest of the content.
StoreManifest(m, d) ==
    \/ d \in 1..Len(manifests) /\ manifests[d] = m /\ UNCHANGED manifests
    \/ d = Len(manifests) + 1 /\ m \notin Range(manifests) /\ manifests' = Append(manifests, m)

--------------------------------------------------------------------------------
(* A push *)

\* The response ends the request and drops its workspace; a conditional PUT
\* that is on its way keeps its body and its precondition.
Answer(p, r) ==
    /\ reply' = [reply EXCEPT ![p] = r]
    /\ push' = [push EXCEPT ![p] = IF p \in wire
                    THEN [Idle EXCEPT !.pc = "done", !.m = push[p].m, !.parent = push[p].parent]
                    ELSE [Idle EXCEPT !.pc = "done"]]

\* The client reads the advertised refs (load_manifest_for_read), or takes the
\* repository for new, and asks to move some of them.
Ask(p) ==
    /\ push[p].pc = "idle"
    /\ \E new \in [Refs -> Values] \ {RefsOf(pointer)} :
          ask' = [ask EXCEPT ![p] = [old |-> RefsOf(pointer), new |-> new]]
    /\ push' = [push EXCEPT ![p].pc = "asked"]
    /\ UNCHANGED <<store, applied, reply, wire, names, latest>>

\* hydrate_for_write: pointer, manifest and packs of one observation.
Hydrate(p) ==
    /\ push[p].pc = "asked"
    /\ push' = [push EXCEPT ![p].pc = "hydrated", ![p].parent = pointer]
    /\ UNCHANGED <<store, ask, applied, reply, wire, names, latest>>

\* The workspace after the client's pack, which holds what the advertised tips
\* do not lead to.
Workspace(p) ==
    (UNION PacksOf(push[p].parent)) \cup (Reach(Tips(ask[p].new)) \ Reach(Tips(ask[p].old)))

\* receive-pack cannot update a ref that no longer has the value the client
\* saw, or whose new value leads to an object that is missing.
Unable(p) ==
    {r \in Moved(ask[p]) :
        \/ RefsOf(push[p].parent)[r] # ask[p].old[r]
        \/ ~(Reach({ask[p].new[r]} \cap Commits) \subseteq Workspace(p))}

\* Every ref is updated.
ReceivePack(p) ==
    /\ push[p].pc = "hydrated" /\ Unable(p) = {}
    /\ push' = [push EXCEPT ![p].pc = "received",
                    ![p].refs = [r \in Refs |-> IF r \in Moved(ask[p]) THEN ask[p].new[r]
                                                ELSE RefsOf(push[p].parent)[r]]]
    /\ UNCHANGED <<store, ask, applied, reply, wire, names, latest>>

\* receive-pack refuses some refs, or the pre-receive hook all of them.  Nothing
\* is published, and git's own report is the answer: it says "ok" of the refs
\* that were not refused.
Decline(p) ==
    /\ push[p].pc = "hydrated"
    /\ \E ng \in SUBSET Moved(ask[p]) \ {{}} :
          /\ Unable(p) \subseteq ng
          /\ Answer(p, IF ng = Moved(ask[p]) THEN "refused" ELSE "partial")
    /\ UNCHANGED <<store, ask, applied, wire, names, latest>>

\* The packs that git may write for a set of objects: it splits large ones.
Splits(all) ==
    {S \in SUBSET (SUBSET all \ {{}}) :
        UNION S = all /\ \A x, y \in S : x # y => x \cap y = {}}

\* Mutant: the compacted set is taken from the refs before the push.
ParentClosure(p) == Splits(Reach(Tips(RefsOf(push[p].parent))))
\* capture_compacted_packs fails above the limit.
Compactions(p) == {S \in Splits(Reach(Tips(push[p].refs))) : Cardinality(S) <= MaxPacks}

\* The objects new to this push.  git writes a pack even when there are none;
\* only a repository left without refs gets no pack.
DeltaPack(p) ==
    IF Tips(push[p].refs) = {} THEN {}
    ELSE {Reach(Tips(push[p].refs)) \ Reach(Tips(RefsOf(push[p].parent)))}

\* should_compact and compacted_pack_set_is_usable, on the packs of the parent.
MayCompact(p, after) ==
    LET before == Cardinality(PacksOf(push[p].parent))
    IN  /\ before >= Threshold
        /\ Cardinality(after) < before \/ (before >= MaxPacks /\ Cardinality(after) <= MaxPacks)

\* The parent is compacted, or, where compaction does not apply or fails, one
\* more pack is added if the limit allows it.
PacksAfter(p) ==
    {after \in Compactions(p) : MayCompact(p, after)}
      \cup IF DeltaPack(p) = {} \/ Cardinality(PacksOf(push[p].parent)) < MaxPacks
           THEN {PacksOf(push[p].parent) \cup DeltaPack(p)} ELSE {}

\* Capture and upload of the packs, under a serving-write lease.
UploadPacks(p) ==
    /\ push[p].pc = "received"
    /\ \E after \in PacksAfter(p) :
          /\ packs' = packs \cup (after \ PacksOf(push[p].parent))
          /\ push' = [push EXCEPT ![p].pc = "packed", ![p].packs = after]
    /\ UNCHANGED <<pointer, manifests, published, ask, applied, reply, wire, names, latest>>

\* resolve_published_head: the hydrated HEAD if it is still a branch, else main,
\* else any branch.
HeadAfter(p) ==
    LET live == {r \in Refs : push[p].refs[r] # NoCommit}
        old == HeadOf(push[p].parent)
    IN  CASE old \in live -> old
          [] old \notin live /\ MainRef \in live -> MainRef
          [] live = {} -> old
          [] OTHER -> CHOOSE r \in live : TRUE

Composed(p) == [refs |-> push[p].refs, head |-> HeadAfter(p), packs |-> push[p].packs,
                parent |-> push[p].parent]

\* validate, put_manifest, and put_pointer is sent.
PutManifest(p) ==
    /\ push[p].pc = "packed"
    /\ Cardinality(push[p].packs) <= MaxPacks
    /\ \E d \in 1..Len(manifests) + 1 :
          /\ StoreManifest(Composed(p), d)
          /\ push' = [push EXCEPT ![p].pc = "cas", ![p].m = d, ![p].packs = {},
                                  ![p].refs = NoRefs]
    /\ wire' = wire \cup {p}
    /\ UNCHANGED <<pointer, packs, published, ask, applied, reply, names, latest>>

\* Limits reached or an invalid manifest: refused before the pointer is written.
Refuse(p) ==
    /\ push[p].pc \in {"received", "packed"}
    /\ Answer(p, "refused")
    /\ UNCHANGED <<store, ask, applied, wire, names, latest>>

\* Mutant: the pointer is written unconditionally.
NoPrecondition(p) == TRUE
\* If-Match with the ETag that was hydrated, or If-None-Match: * for a first push.
Precondition(p) == pointer = push[p].parent

\* The object store evaluates the conditional PUT.
StoreCas(p) ==
    /\ p \in wire /\ wire' = wire \ {p}
    /\ IF Precondition(p)
       THEN /\ pointer' = push[p].m /\ published' = Append(published, push[p].m)
            /\ applied' = applied \cup {p}
            /\ push' = [push EXCEPT ![p].resp = "won"]
       ELSE /\ push' = [push EXCEPT ![p].resp = "lost"]
            /\ UNCHANGED <<pointer, published, applied>>
    /\ UNCHANGED <<manifests, packs, ask, reply, names, latest>>

\* The PUT is lost on its way.
DropCas(p) ==
    /\ p \in wire /\ wire' = wire \ {p}
    /\ UNCHANGED <<store, push, ask, applied, reply, names, latest>>

\* 412: the winner is read and the client is told to pull; there is no retry.
CasLost(p) ==
    /\ push[p].pc = "cas" /\ push[p].resp = "lost"
    /\ Answer(p, "refused")
    /\ UNCHANGED <<store, ask, applied, wire, names, latest>>

\* Mutant: success is reported for the manifest that was stored.
FencePassed(p) == push[p].pc = "cas"
\* The success response exists only after the conditional PUT has succeeded.
Fence(p) == push[p].pc = "cas" /\ push[p].resp = "won"

\* kind:30618 is derived from the committed manifest, then the lease is
\* released and the response built.
Finish(p) ==
    /\ Fence(p)
    /\ latest' = IF push[p].m # push[p].parent THEN push[p].m ELSE latest
    /\ Answer(p, "ok")
    /\ UNCHANGED <<store, ask, applied, wire, names>>

\* The event could not be stored or the lease was lost: committed, but an error.
FinishFails(p) ==
    /\ push[p].pc = "cas" /\ push[p].resp = "won"
    /\ latest' \in {latest, push[p].m}
    /\ Answer(p, "error")
    /\ UNCHANGED <<store, ask, applied, wire, names>>

\* A backend error, a lost lease or response, or a crash of the relay; a PUT
\* that is under way stays so.
Fail(p) ==
    /\ push[p].pc \notin {"idle", "done"}
    /\ Answer(p, "error")
    /\ UNCHANGED <<store, ask, applied, wire, names, latest>>

--------------------------------------------------------------------------------
(* An announcement *)

\* An answer of the store reaches only an announcement that waits for it.
At(a, pc) ==
    announce' = [announce EXCEPT ![a].pc = pc, ![a].put = IF @ = "sent" THEN @ ELSE "none"]

\* repo_name_owner
Peek(a) ==
    /\ announce[a].pc = "idle"
    /\ At(a, IF reserved THEN "ensure" ELSE "claim")
    /\ UNCHANGED <<store, pushes, reserved, latest>>

\* reserve_repo_name: INSERT ... ON CONFLICT DO NOTHING
Reserve(a) ==
    /\ announce[a].pc = "claim"
    /\ announce' = [announce EXCEPT ![a].pc = IF reserved THEN "ensure" ELSE "seed",
                                    ![a].fresh = ~reserved]
    /\ reserved' = TRUE
    /\ UNCHANGED <<store, pushes, latest>>

\* The quota, a database error, or a row that is gone when its owner is read.
Reject(a) ==
    /\ announce[a].pc \in {"idle", "claim"}
    /\ At(a, "rejected")
    /\ UNCHANGED <<store, pushes, reserved, latest>>

\* ensure_manifest_pointer: any pointer will do, none is seeded.
Ensure(a) ==
    /\ announce[a].pc = "ensure"
    /\ At(a, IF pointer # 0 THEN "accepted" ELSE "seed")
    /\ UNCHANGED <<store, pushes, reserved, latest>>

\* seed_manifest_pointer: put_manifest, and the PUT of the pointer is sent.
SendSeed(a) ==
    /\ announce[a].pc = "seed"
    /\ \E d \in 1..Len(manifests) + 1 : StoreManifest(EmptyManifest, d)
    /\ announce' = [announce EXCEPT ![a].pc = "seeding", ![a].put = "sent"]
    /\ UNCHANGED <<pointer, packs, published, pushes, reserved, latest>>

IsEmpty(d) == d \in 1..Len(manifests) /\ manifests[d] = EmptyManifest

\* The object store evaluates If-None-Match: *.
StoreSeed(a) ==
    /\ announce[a].put = "sent"
    /\ announce' = [announce EXCEPT ![a].put =
                       IF announce[a].pc # "seeding" THEN "none"
                       ELSE IF pointer = 0 THEN "won" ELSE "lost"]
    /\ IF pointer = 0
       THEN \E d \in 1..Len(manifests) :
               IsEmpty(d) /\ pointer' = d /\ published' = Append(published, d)
       ELSE UNCHANGED <<pointer, published>>
    /\ UNCHANGED <<manifests, packs, pushes, reserved, latest>>

DropSeed(a) ==
    /\ announce[a].put = "sent"
    /\ announce' = [announce EXCEPT ![a].put = "none"]
    /\ UNCHANGED <<store, pushes, reserved, latest>>

\* After a lost race the pointer is read: only the empty manifest is accepted.
Seeded(a) ==
    /\ announce[a].pc = "seeding" /\ announce[a].put \in {"won", "lost"}
    /\ At(a, CASE announce[a].put = "lost" /\ ~IsEmpty(pointer) -> "failed"
              [] OTHER -> IF announce[a].fresh THEN "seeded" ELSE "accepted")
    /\ UNCHANGED <<store, pushes, reserved, latest>>

\* A backend error, or an answer that is lost; a PUT that is under way stays so.
SeedFails(a) ==
    /\ announce[a].pc \in {"ensure", "seed", "seeding"}
    /\ At(a, "failed")
    /\ UNCHANGED <<store, pushes, reserved, latest>>

\* emit_initial_ref_state, after a fresh claim only; its failure is ignored.
Emit(a) ==
    /\ announce[a].pc = "seeded"
    /\ At(a, "accepted")
    /\ latest' \in {latest} \cup {d \in 1..Len(manifests) : IsEmpty(d)}
    /\ UNCHANGED <<store, pushes, reserved>>

\* A fresh claim whose pointer could not be established releases the name.
Release(a) ==
    /\ announce[a].pc = "failed"
    /\ At(a, "rejected")
    /\ reserved' \in IF announce[a].fresh THEN {FALSE, reserved} ELSE {reserved}
    /\ UNCHANGED <<store, pushes, latest>>

--------------------------------------------------------------------------------
Finished ==
    /\ \A p \in Pushers : push[p].pc = "done"
    /\ \A a \in Announcers : announce[a].pc \in {"accepted", "rejected"}
    /\ wire = {} /\ \A a \in Announcers : announce[a].put # "sent"
    /\ UNCHANGED vars

PushStep(p) ==
    \/ Ask(p) \/ Hydrate(p) \/ ReceivePack(p) \/ Decline(p) \/ UploadPacks(p)
    \/ PutManifest(p) \/ Refuse(p) \/ StoreCas(p) \/ DropCas(p) \/ CasLost(p)
    \/ Finish(p) \/ FinishFails(p) \/ Fail(p)

AnnounceStep(a) ==
    \/ Peek(a) \/ Reserve(a) \/ Reject(a) \/ Ensure(a) \/ SendSeed(a) \/ StoreSeed(a)
    \/ DropSeed(a) \/ Seeded(a) \/ SeedFails(a) \/ Emit(a) \/ Release(a)

Next ==
    \/ \E p \in Pushers : PushStep(p)
    \/ \E a \in Announcers : AnnounceStep(a)
    \/ Finished

Spec == Init /\ [][Next]_vars

--------------------------------------------------------------------------------
(* Properties *)

\* Every manifest that was ever published stays cloneable: its packs are
\* stored, no more than hydration accepts, and hold all that its refs lead to,
\* and HEAD names one of its branches if there is one.  A reader may still hold
\* an old manifest.
PublishedCloneable ==
    \A i \in 1..Len(published) :
        LET m == manifests[published[i]]
        IN  /\ m.packs \subseteq packs
            /\ Reach(Tips(m.refs)) \subseteq UNION m.packs
            /\ Cardinality(m.packs) <= MaxPacks
            /\ Tips(m.refs) # {} => m.refs[m.head] # NoCommit

\* The pointer is the last of one history in which each manifest names the one
\* before it as its parent and none comes back, so that a content-derived ETag
\* never matches a later state (no fork, no lost update, no ABA).
OneHistory ==
    /\ pointer = IF published = <<>> THEN 0 ELSE published[Len(published)]
    /\ \A i \in 1..Len(published) :
          manifests[published[i]].parent = IF i = 1 THEN 0 ELSE published[i - 1]
    /\ \A i, j \in 1..Len(published) : published[i] = published[j] => i = j

\* A kind:30618 event states refs that were really published.
NotifiedWasPublished == latest = 0 \/ latest \in Range(published)

\* The protocol implements one compare-and-swap of several refs per push on an
\* atomic repository (docs/git-on-object-storage.md, Theorems 1 and 3), with
\* lost responses, late writes and crashes: all refs of a push move at once or
\* none does, and a push that is refused in part is refused altogether.
Atomic == INSTANCE AtomicRefs WITH refs <- RefsOf(pointer)
ImplementsAtomicRefs == Atomic!Spec

\* A client that reads "ok" of a ref is told of an update that was published: the
\* success response comes after the compare-and-swap only (comment at
\* finalize_push, Theorem 1).
OkMeansPublished == \A p \in Pushers : reply[p] \in {"ok", "partial"} => p \in applied

\* An announcement that was accepted keeps its name: the rollback of a sibling
\* releases only what no accepted announcement relies on (comment at the
\* rollback in handle_git_repo_announcement).
AcceptedKeepsName ==
    (\E a \in Announcers : announce[a].pc = "accepted") => reserved
===============================================================================
