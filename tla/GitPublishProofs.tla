--------------------------- MODULE GitPublishProofs ---------------------------
(***************************************************************************)
(* The safety of git publication for any number of pushes, announcements,  *)
(* refs and commits, and the refinement of AtomicRefs.                     *)
(***************************************************************************)
EXTENDS GitPublish, FiniteSetTheorems, TLAPS

(* The inductive invariant. *)

\* A manifest that a clone can be served from.
Cloneable(m, stored) ==
    /\ m.packs \subseteq stored
    /\ Reach(Tips(m.refs)) \subseteq UNION m.packs
    /\ Cardinality(m.packs) <= MaxPacks
    /\ Tips(m.refs) # {} => m.refs[m.head] # NoCommit

\* Every stored manifest is cloneable, published or not, and was stored after
\* its parent.
ManifestsSound ==
    \A d \in 1..Len(manifests) :
        manifests[d].parent < d /\ Cloneable(manifests[d], packs)

\* Equal manifests are one object.
ManifestsDistinct ==
    \A d, k \in 1..Len(manifests) : manifests[d] = manifests[k] => d = k

\* The pointer moved along a chain of parents, each stored after the one before.
HistorySound ==
    /\ published = <<>> => pointer = 0
    /\ published # <<>> => pointer = published[Len(published)]
    /\ \A i \in 1..Len(published) :
          manifests[published[i]].parent = IF i = 1 THEN 0 ELSE published[i - 1]
    /\ \A i, j \in 1..Len(published) : i < j => published[i] < published[j]

\* after is before with the update u, which saw the values before has.
Moves(before, u, after) ==
    /\ \A r \in Moved(u) : before[r] = u.old[r]
    /\ after = [r \in Refs |-> IF r \in Moved(u) THEN u.new[r] ELSE before[r]]

\* A push before its conditional PUT.
BeforeCas(p) ==
    push[p].pc \notin {"cas", "done"} =>
        push[p].resp = "none" /\ p \notin wire /\ p \notin applied

\* What the client has asked and heard.
Conversation(p) ==
    /\ push[p].pc # "done" => reply[p] = "none"
    /\ push[p].pc = "idle" => ask[p] = NoUpdate
    /\ push[p].pc # "idle" => ask[p] \in Updates

\* What the relay has prepared for the push.
Prepared(p) ==
    /\ push[p].pc \in {"received", "packed"} => Moves(RefsOf(push[p].parent), ask[p], push[p].refs)
    /\ push[p].pc = "packed" =>
          /\ push[p].packs \subseteq packs
          /\ Reach(Tips(push[p].refs)) \subseteq UNION push[p].packs

\* A conditional PUT on its way has not taken effect and carries the manifest
\* of the update; its client has not been given a definite answer.
InTransit(p) ==
    p \in wire =>
        /\ push[p].m \in 1..Len(manifests)
        /\ manifests[push[p].m].parent = push[p].parent
        /\ Moves(RefsOf(push[p].parent), ask[p], manifests[push[p].m].refs)
        /\ p \notin applied /\ push[p].resp = "none"
        /\ reply[p] \in {"none", "error"}

\* The store's response tells whether the push took effect.
Response(p) ==
    /\ push[p].resp = "won" => p \in applied /\ push[p].m \in Range(published)
    /\ push[p].resp = "lost" => p \notin applied /\ p \notin wire

PushSound(p) ==
    BeforeCas(p) /\ Conversation(p) /\ Prepared(p) /\ InTransit(p) /\ Response(p)

\* An announcement that goes on to emit has seen the empty manifest published.
SeedSound(a) ==
    announce[a].put = "won" \/ announce[a].pc = "seeded" =>
        \E d \in Range(published) : IsEmpty(d)

GitInv ==
    /\ TypeOK /\ ManifestsSound /\ ManifestsDistinct /\ HistorySound /\ NotifiedWasPublished
    /\ \A p \in Pushers : PushSound(p)
    /\ \A a \in Announcers : SeedSound(a)

--------------------------------------------------------------------------------
(* Operators. *)

LEMMA ReachIsSet == \A tips : Reach(tips) \subseteq Commits
  BY DEF Reach

LEMMA ReachEmpty == Reach({}) = {}
<1>1. \A d \in {} : Parents[d] \subseteq {}
  OBVIOUS
<1>2. {} \in SUBSET Commits
  OBVIOUS
<1>. QED
  BY <1>1, <1>2 DEF Reach

LEMMA UpdateIsNone == ASSUME NEW u \in Updates PROVE u # NoUpdate
<1>1. DOMAIN u = {"old", "new"}
  BY DEF Updates
<1>2. DOMAIN NoUpdate = {}
  BY DEF NoUpdate
<1>. QED
  BY <1>1, <1>2

LEMMA NoRefsType == NoRefs \in [Refs -> Values]
  BY DEF NoRefs, Values

LEMMA IdleType == Idle \in PushStates /\ [Idle EXCEPT !.pc = "done"] \in PushStates
  BY NoRefsType DEF Idle, PushStates

LEMMA RefsOfType == ASSUME TypeOK, NEW d \in 0..Len(manifests)
                    PROVE  /\ RefsOf(d) \in [Refs -> Values]
                           /\ PacksOf(d) \in SUBSET SUBSET Commits
                           /\ HeadOf(d) \in Refs
<1>1. CASE d = 0
  BY <1>1, NoRefsType, GitConstants DEF RefsOf, PacksOf, HeadOf
<1>2. CASE d # 0
  <2>1. d \in 1..Len(manifests)
    BY <1>2 DEF TypeOK
  <2>2. manifests[d] \in Manifests
    BY <2>1 DEF TypeOK
  <2>. QED
    BY <1>2, <2>2 DEF RefsOf, PacksOf, HeadOf, Manifests
<1>. QED
  BY <1>1, <1>2

LEMMA EmptyManifestType == EmptyManifest \in Manifests
  BY NoRefsType, GitConstants DEF EmptyManifest, Manifests

\* resolve_published_head yields a branch, and a live one if there is any.
LEMMA HeadAfterIsLive ==
    ASSUME TypeOK, NEW p \in Pushers
    PROVE  /\ HeadAfter(p) \in Refs
           /\ Tips(push[p].refs) # {} => push[p].refs[HeadAfter(p)] # NoCommit
<1>. DEFINE live == {r \in Refs : push[p].refs[r] # NoCommit}
            old == HeadOf(push[p].parent)
            some == CHOOSE r \in live : TRUE
<1>1. old \in Refs /\ MainRef \in Refs
  <2>1. push[p].parent \in 0..Len(manifests)
    BY DEF TypeOK, PushStates
  <2>. QED
    BY <2>1, RefsOfType, GitConstants
<1>2. live # {} => some \in live
  OBVIOUS
<1>3. Tips(push[p].refs) # {} => live # {}
  BY GitConstants DEF Tips
<1>4. HeadAfter(p) = IF old \in live THEN old
                     ELSE IF MainRef \in live THEN MainRef
                     ELSE IF live = {} THEN old ELSE some
  BY DEF HeadAfter
<1>. HIDE DEF some
<1>. QED
  BY <1>1, <1>2, <1>3, <1>4

--------------------------------------------------------------------------------
(* What a step does to the store. *)

\* Objects are never overwritten or removed, and neither is history.
Grows ==
    /\ manifests' \in Seq(Manifests) /\ Len(manifests) <= Len(manifests')
    /\ \A d \in 1..Len(manifests) : manifests'[d] = manifests[d]
    /\ packs \subseteq packs' /\ packs' \subseteq SUBSET Commits
    /\ published' \in Seq(1..Len(manifests')) /\ Range(published) \subseteq Range(published')

LEMMA SameStoreGrows == ASSUME TypeOK, UNCHANGED store PROVE Grows
  BY DEF TypeOK, store, Grows

LEMMA StoreManifestEffect ==
    ASSUME TypeOK, NEW m \in Manifests, NEW d \in 1..Len(manifests) + 1, StoreManifest(m, d)
    PROVE  /\ manifests' \in Seq(Manifests) /\ Len(manifests) <= Len(manifests')
           /\ \A k \in 1..Len(manifests) : manifests'[k] = manifests[k]
           /\ \A k \in 1..Len(manifests') : k = d \/ k \in 1..Len(manifests)
           /\ d \in 1..Len(manifests') /\ manifests'[d] = m
           /\ ManifestsDistinct => ManifestsDistinct'
<1>. USE DEF TypeOK
<1>1. CASE d \in 1..Len(manifests) /\ manifests[d] = m /\ UNCHANGED manifests
  BY <1>1 DEF ManifestsDistinct
<1>2. CASE d = Len(manifests) + 1 /\ m \notin Range(manifests) /\ manifests' = Append(manifests, m)
  <2>1. \A k \in 1..Len(manifests) : manifests[k] # m
    BY <1>2 DEF Range
  <2>2. /\ Len(manifests') = Len(manifests) + 1 /\ manifests'[Len(manifests) + 1] = m
        /\ \A k \in 1..Len(manifests) : manifests'[k] = manifests[k]
        /\ manifests' \in Seq(Manifests) /\ Len(manifests) \in Nat
    BY <1>2
  <2>3. ManifestsDistinct => ManifestsDistinct'
    <3>. SUFFICES ASSUME ManifestsDistinct, NEW k \in 1..Len(manifests'),
                         NEW l \in 1..Len(manifests'),
                         manifests'[k] = manifests'[l]
                  PROVE  k = l
      BY DEF ManifestsDistinct
    <3>1. k \in 1..Len(manifests) \/ k = Len(manifests) + 1
      BY <2>2
    <3>2. l \in 1..Len(manifests) \/ l = Len(manifests) + 1
      BY <2>2
    <3>. QED
      BY <2>1, <2>2, <3>1, <3>2 DEF ManifestsDistinct
  <2>. QED
    BY <1>2, <2>2, <2>3
<1>. QED
  BY <1>1, <1>2 DEF StoreManifest

LEMMA PublishEffect ==
    ASSUME TypeOK, Len(manifests') \in Nat, Len(manifests) <= Len(manifests'),
           NEW d \in 1..Len(manifests'), published' = Append(published, d)
    PROVE  /\ published' \in Seq(1..Len(manifests'))
           /\ Len(published') = Len(published) + 1 /\ published'[Len(published) + 1] = d
           /\ \A i \in 1..Len(published) : published'[i] = published[i]
           /\ Range(published) \subseteq Range(published') /\ d \in Range(published')
<1>. DEFINE T == 1..Len(manifests')
<1>1. published \in Seq(T) /\ d \in T
  <2>1. 1..Len(manifests) \subseteq T
    BY DEF TypeOK
  <2>2. Len(published) \in Nat /\ published \in [1..Len(published) -> 1..Len(manifests)]
    BY DEF TypeOK
  <2>3. published \in [1..Len(published) -> T]
    BY <2>1, <2>2
  <2>. QED
    BY <2>2, <2>3
<1>. HIDE DEF T
<1>2. /\ published' \in Seq(T)
      /\ Len(published') = Len(published) + 1 /\ published'[Len(published) + 1] = d
      /\ \A i \in 1..Len(published) : published'[i] = published[i]
  BY <1>1
<1>3. DOMAIN published = 1..Len(published) /\ DOMAIN published' = 1..Len(published) + 1
      /\ Len(published) \in Nat
  BY <1>1, <1>2
<1>4. Range(published) \subseteq Range(published') /\ d \in Range(published')
  BY <1>2, <1>3 DEF Range
<1>. QED
  BY <1>2, <1>4 DEF T

LEMMA ComposedType ==
    ASSUME TypeOK, NEW p \in Pushers PROVE Composed(p) \in Manifests
<1>1. push[p] \in PushStates
  BY DEF TypeOK
<1>2. HeadAfter(p) \in Refs
  BY HeadAfterIsLive
<1>3. Len(manifests) \in Nat
  BY DEF TypeOK
<1>. QED
  BY <1>1, <1>2, <1>3 DEF Composed, Manifests, PushStates

LEMMA UploadedType ==
    ASSUME TypeOK, NEW p \in Pushers
    PROVE  PacksAfter(p) \subseteq SUBSET SUBSET Commits
<1>1. push[p].parent \in 0..Len(manifests)
  BY DEF TypeOK, PushStates
<1>2. PacksOf(push[p].parent) \cup DeltaPack(p) \in SUBSET SUBSET Commits
  BY <1>1, RefsOfType, ReachIsSet DEF DeltaPack
<1>3. \A S \in Compactions(p) : S \in SUBSET SUBSET Commits
  BY ReachIsSet DEF Compactions, Splits
<1>. QED
  BY <1>2, <1>3 DEF PacksAfter

\* Each step either leaves the store alone, adds to it, or moves the pointer.
LEMMA PutManifestEffect ==
    ASSUME TypeOK, NEW p \in Pushers, PutManifest(p)
    PROVE  /\ Grows
           /\ \E d \in 1..Len(manifests') :
                 /\ manifests'[d] = Composed(p)
                 /\ \A k \in 1..Len(manifests') : k = d \/ k \in 1..Len(manifests)
                 /\ push' = [push EXCEPT ![p].pc = "cas", ![p].m = d, ![p].packs = {},
                                         ![p].refs = NoRefs]
<1>1. PICK d \in 1..Len(manifests) + 1 :
         /\ StoreManifest(Composed(p), d)
         /\ push' = [push EXCEPT ![p].pc = "cas", ![p].m = d, ![p].packs = {},
                                 ![p].refs = NoRefs]
  BY DEF PutManifest
<1>2. /\ manifests' \in Seq(Manifests) /\ Len(manifests) <= Len(manifests')
      /\ \A k \in 1..Len(manifests) : manifests'[k] = manifests[k]
      /\ \A k \in 1..Len(manifests') : k = d \/ k \in 1..Len(manifests)
      /\ d \in 1..Len(manifests') /\ manifests'[d] = Composed(p)
  BY <1>1, ComposedType, StoreManifestEffect
<1>3. UNCHANGED <<packs, published>>
  BY DEF PutManifest
<1>4. published' \in Seq(1..Len(manifests'))
  <2>1. Len(published) \in Nat /\ published \in [1..Len(published) -> 1..Len(manifests)]
    BY DEF TypeOK
  <2>2. 1..Len(manifests) \subseteq 1..Len(manifests')
    BY <1>2 DEF TypeOK
  <2>. QED
    BY <1>3, <2>1, <2>2
<1>. QED
  BY <1>1, <1>2, <1>3, <1>4 DEF Grows, TypeOK

\* The empty manifest is stored, the pointer stays.
LEMMA SendSeedEffect ==
    ASSUME TypeOK, NEW a \in Announcers, SendSeed(a)
    PROVE  /\ Grows /\ (ManifestsDistinct => ManifestsDistinct')
           /\ \E d \in 1..Len(manifests') :
                 /\ manifests'[d] = EmptyManifest
                 /\ \A k \in 1..Len(manifests') : k = d \/ k \in 1..Len(manifests)
<1>1. PICK d \in 1..Len(manifests) + 1 : StoreManifest(EmptyManifest, d)
  BY DEF SendSeed
<1>2. /\ manifests' \in Seq(Manifests) /\ Len(manifests) <= Len(manifests')
      /\ \A k \in 1..Len(manifests) : manifests'[k] = manifests[k]
      /\ \A k \in 1..Len(manifests') : k = d \/ k \in 1..Len(manifests)
      /\ d \in 1..Len(manifests') /\ manifests'[d] = EmptyManifest
      /\ ManifestsDistinct => ManifestsDistinct'
  BY <1>1, EmptyManifestType, StoreManifestEffect
<1>3. UNCHANGED <<packs, published>>
  BY DEF SendSeed
<1>4. published' \in Seq(1..Len(manifests'))
  <2>1. Len(published) \in Nat /\ published \in [1..Len(published) -> 1..Len(manifests)]
    BY DEF TypeOK
  <2>2. 1..Len(manifests) \subseteq 1..Len(manifests')
    BY <1>2 DEF TypeOK
  <2>. QED
    BY <1>3, <2>1, <2>2
<1>. QED
  BY <1>2, <1>3, <1>4 DEF Grows, TypeOK

\* The empty manifest becomes the first of the history, or nothing happens.
LEMMA StoreSeedEffect ==
    ASSUME TypeOK, NEW a \in Announcers, StoreSeed(a)
    PROVE  /\ Grows /\ UNCHANGED manifests
           /\ \/ \E d \in 1..Len(manifests) :
                    /\ manifests[d] = EmptyManifest /\ pointer = 0 /\ pointer' = d
                    /\ published' = Append(published, d) /\ d \in Range(published')
              \/ pointer # 0 /\ UNCHANGED <<pointer, published>>
<1>1. UNCHANGED <<manifests, packs>>
  BY DEF StoreSeed
<1>2. CASE pointer = 0
  <2>1. PICK d \in 1..Len(manifests) :
           IsEmpty(d) /\ pointer' = d /\ published' = Append(published, d)
    BY <1>2 DEF StoreSeed
  <2>2. Len(manifests') \in Nat /\ Len(manifests) <= Len(manifests') /\ d \in 1..Len(manifests')
    BY <1>1 DEF TypeOK
  <2>3. /\ published' \in Seq(1..Len(manifests')) /\ d \in Range(published')
        /\ Range(published) \subseteq Range(published')
    BY <2>1, <2>2, PublishEffect
  <2>. QED
    BY <1>1, <1>2, <2>1, <2>2, <2>3 DEF Grows, TypeOK, IsEmpty
<1>3. CASE pointer # 0
  <2>1. UNCHANGED <<pointer, published>>
    BY <1>3 DEF StoreSeed
  <2>. QED
    BY <1>1, <1>3, <2>1 DEF Grows, TypeOK
<1>. QED
  BY <1>2, <1>3

\* The steps that neither write the store nor move the pointer.
QuietStep(p) ==
    \/ Ask(p) \/ Hydrate(p) \/ ReceivePack(p) \/ Decline(p) \/ Refuse(p)
    \/ DropCas(p) \/ CasLost(p) \/ Finish(p) \/ FinishFails(p) \/ Fail(p)
QuietAnnounce(a) ==
    \/ Peek(a) \/ Reserve(a) \/ Reject(a) \/ Ensure(a) \/ DropSeed(a) \/ Seeded(a)
    \/ SeedFails(a) \/ Emit(a) \/ Release(a)

LEMMA StepKinds ==
    ASSUME [Next]_vars
    PROVE  \/ \E p \in Pushers : QuietStep(p) \/ UploadPacks(p) \/ PutManifest(p) \/ StoreCas(p)
           \/ \E a \in Announcers : QuietAnnounce(a) \/ SendSeed(a) \/ StoreSeed(a)
           \/ UNCHANGED vars
  BY DEF Next, PushStep, AnnounceStep, QuietStep, QuietAnnounce, Finished

LEMMA QuietKeepsStore ==
    ASSUME NEW p \in Pushers, QuietStep(p)
    PROVE  UNCHANGED <<store, names>>
  BY DEF QuietStep, Ask, Hydrate, ReceivePack, Decline, Refuse, DropCas, CasLost,
         Finish, FinishFails, Fail

LEMMA AnnounceKeepsStore ==
    ASSUME NEW a \in Announcers, QuietAnnounce(a)
    PROVE  UNCHANGED <<store, pushes>>
  BY DEF QuietAnnounce, Peek, Reserve, Reject, Ensure, DropSeed, Seeded, SeedFails, Emit,
         Release

LEMMA UploadEffect ==
    ASSUME TypeOK, NEW p \in Pushers, UploadPacks(p)
    PROVE  /\ Grows
           /\ \E after \in SUBSET SUBSET Commits :
                 /\ after \in PacksAfter(p)
                 /\ packs' = packs \cup (after \ PacksOf(push[p].parent))
                 /\ push' = [push EXCEPT ![p].pc = "packed", ![p].packs = after]
<1>1. PICK after \in PacksAfter(p) :
         /\ packs' = packs \cup (after \ PacksOf(push[p].parent))
         /\ push' = [push EXCEPT ![p].pc = "packed", ![p].packs = after]
  BY DEF UploadPacks
<1>2. after \in SUBSET SUBSET Commits
  BY <1>1, UploadedType
<1>3. UNCHANGED <<pointer, manifests, published>>
  BY DEF UploadPacks
<1>4. Grows
  BY <1>1, <1>2, <1>3 DEF Grows, TypeOK
<1>. QED
  BY <1>1, <1>2, <1>4, Zenon

\* The store evaluates a conditional PUT.
CasWon(p) ==
    /\ Precondition(p) /\ pointer' = push[p].m /\ published' = Append(published, push[p].m)
    /\ applied' = applied \cup {p} /\ push' = [push EXCEPT ![p].resp = "won"]
CasMissed(p) ==
    ~Precondition(p) /\ push' = [push EXCEPT ![p].resp = "lost"]
    /\ UNCHANGED <<pointer, published, applied>>

LEMMA CasEffect ==
    ASSUME TypeOK, NEW p \in Pushers, InTransit(p), StoreCas(p)
    PROVE  /\ Grows /\ p \in wire /\ wire' = wire \ {p}
           /\ UNCHANGED <<manifests, packs, ask, reply, names, latest>>
           /\ (CasWon(p) /\ push[p].m \in Range(published')) \/ CasMissed(p)
<1>1. /\ p \in wire /\ wire' = wire \ {p}
      /\ UNCHANGED <<manifests, packs, ask, reply, names, latest>>
      /\ CasWon(p) \/ CasMissed(p)
  BY DEF StoreCas, CasWon, CasMissed
<1>2. CASE CasWon(p)
  <2>1. push[p].m \in 1..Len(manifests') /\ Len(manifests') \in Nat
    BY <1>1 DEF InTransit, TypeOK
  <2>2. /\ published' \in Seq(1..Len(manifests')) /\ push[p].m \in Range(published')
        /\ Range(published) \subseteq Range(published')
    BY <1>1, <1>2, <2>1, PublishEffect DEF CasWon, TypeOK
  <2>. QED
    BY <1>1, <1>2, <2>2 DEF Grows, TypeOK
<1>3. CASE CasMissed(p)
  BY <1>1, <1>3 DEF CasMissed, Grows, TypeOK
<1>. QED
  BY <1>1, <1>2, <1>3

LEMMA EveryStepGrows ==
    ASSUME GitInv, [Next]_vars PROVE Grows
<1>1. TypeOK /\ \A p \in Pushers : InTransit(p)
  BY DEF GitInv, PushSound
<1>2. ASSUME NEW p \in Pushers, QuietStep(p) \/ UploadPacks(p) \/ PutManifest(p) \/ StoreCas(p)
      PROVE  Grows
  BY <1>1, <1>2, QuietKeepsStore, SameStoreGrows, UploadEffect, PutManifestEffect, CasEffect
     DEF names
<1>3. ASSUME NEW a \in Announcers, QuietAnnounce(a) \/ SendSeed(a) \/ StoreSeed(a) PROVE Grows
  BY <1>1, <1>3, AnnounceKeepsStore, SameStoreGrows, SendSeedEffect, StoreSeedEffect
<1>4. CASE UNCHANGED vars
  BY <1>1, <1>4, SameStoreGrows DEF vars
<1>. QED
  BY <1>2, <1>3, <1>4, StepKinds

--------------------------------------------------------------------------------
(* Types. *)

LEMMA GrownTypes ==
    ASSUME TypeOK, Grows
    PROVE  /\ Len(manifests) \in Nat /\ Len(manifests') \in Nat
           /\ 0..Len(manifests) \subseteq 0..Len(manifests')
           /\ PushStates \subseteq PushStates'
           /\ \A d \in 0..Len(manifests) :
                 RefsOf(d)' = RefsOf(d) /\ PacksOf(d)' = PacksOf(d)
<1>1. Len(manifests) \in Nat /\ Len(manifests') \in Nat
  BY DEF TypeOK, Grows
<1>2. 0..Len(manifests) \subseteq 0..Len(manifests')
  BY <1>1 DEF Grows
<1>3. PushStates \subseteq PushStates'
  BY <1>2 DEF PushStates
<1>4. ASSUME NEW d \in 0..Len(manifests)
      PROVE  RefsOf(d)' = RefsOf(d) /\ PacksOf(d)' = PacksOf(d)
  <2>1. d = 0 \/ d \in 1..Len(manifests)
    BY <1>1
  <2>. QED
    BY <2>1 DEF Grows, RefsOf, PacksOf
<1>. QED
  BY <1>1, <1>2, <1>3, <1>4

\* Answer ends the request; what is in transit stays as it is.
LEMMA AnswerEffect ==
    ASSUME TypeOK, NEW p \in Pushers, NEW r \in {"ok", "partial", "refused", "error"}, Answer(p, r)
    PROVE  /\ push' \in [Pushers -> PushStates]
           /\ \A q \in Pushers \ {p} : push'[q] = push[q] /\ reply'[q] = reply[q]
           /\ push'[p].pc = "done" /\ push'[p].resp = "none" /\ reply'[p] = r
           /\ p \in wire => push'[p].m = push[p].m /\ push'[p].parent = push[p].parent
           /\ reply' \in [Pushers -> {"none", "ok", "partial", "refused", "error"}]
<1>. DEFINE v == IF p \in wire
                 THEN [Idle EXCEPT !.pc = "done", !.m = push[p].m, !.parent = push[p].parent]
                 ELSE [Idle EXCEPT !.pc = "done"]
<1>1. push[p].m \in 0..Len(manifests) /\ push[p].parent \in 0..Len(manifests)
  BY DEF TypeOK, PushStates
<1>2. /\ v \in PushStates /\ v.pc = "done" /\ v.resp = "none"
      /\ p \in wire => v.m = push[p].m /\ v.parent = push[p].parent
  BY <1>1, IdleType, NoRefsType DEF PushStates, Idle
<1>3. push' = [push EXCEPT ![p] = v] /\ reply' = [reply EXCEPT ![p] = r]
  BY DEF Answer
<1>4. push \in [Pushers -> PushStates]
      /\ reply \in [Pushers -> {"none", "ok", "partial", "refused", "error"}]
  BY DEF TypeOK
<1>. HIDE DEF v
<1>. QED
  BY <1>2, <1>3, <1>4

\* A value for the push that acts is all a type proof has to supply.
LEMMA PushType ==
    ASSUME TypeOK, Grows, NEW p \in Pushers, NEW v \in PushStates',
           push' = [push EXCEPT ![p] = v]
    PROVE  push' \in [Pushers -> PushStates'] /\ push'[p] = v
           /\ \A q \in Pushers \ {p} : push'[q] = push[q]
<1>1. PushStates \subseteq PushStates' /\ push \in [Pushers -> PushStates]
  BY GrownTypes DEF TypeOK
<1>. QED
  BY <1>1

\* Git's report refuses every ref of the push, or some.
LEMMA DeclineAnswers ==
    ASSUME NEW p \in Pushers, Decline(p)
    PROVE  Answer(p, "refused") \/ Answer(p, "partial")
  BY DEF Decline

LEMMA QuietType ==
    ASSUME TypeOK, NEW p \in Pushers, Conversation(p), QuietStep(p)
    PROVE  /\ push' \in [Pushers -> PushStates]
           /\ ask' \in [Pushers -> {NoUpdate} \cup Updates]
           /\ applied' = applied /\ wire' \subseteq wire
           /\ reply' \in [Pushers -> {"none", "ok", "partial", "refused", "error"}]
           /\ latest' \in {latest, push[p].m}
           /\ \A q \in Pushers \ {p} :
                 /\ push'[q] = push[q] /\ ask'[q] = ask[q] /\ reply'[q] = reply[q]
                 /\ q \in wire' <=> q \in wire
<1>. DEFINE Goal == /\ push' \in [Pushers -> PushStates]
                    /\ ask' \in [Pushers -> {NoUpdate} \cup Updates]
                    /\ applied' = applied /\ wire' \subseteq wire
                    /\ reply' \in [Pushers -> {"none", "ok", "partial", "refused", "error"}]
                    /\ latest' \in {latest, push[p].m}
                    /\ \A q \in Pushers \ {p} :
                          /\ push'[q] = push[q] /\ ask'[q] = ask[q] /\ reply'[q] = reply[q]
                          /\ q \in wire' <=> q \in wire
<1>. SUFFICES Goal
  OBVIOUS
<1>0. /\ push \in [Pushers -> PushStates] /\ ask \in [Pushers -> {NoUpdate} \cup Updates]
      /\ reply \in [Pushers -> {"none", "ok", "partial", "refused", "error"}]
      /\ push[p] \in PushStates /\ pointer \in 0..Len(manifests)
      /\ RefsOf(pointer) \in [Refs -> Values]
      /\ RefsOf(push[p].parent) \in [Refs -> Values]
  BY RefsOfType DEF TypeOK, PushStates
<1>1. ASSUME NEW r \in {"ok", "partial", "refused", "error"}, Answer(p, r),
             UNCHANGED <<ask, applied, wire>>, latest' \in {latest, push[p].m}
      PROVE  Goal
  BY <1>0, <1>1, AnswerEffect
<1>2. CASE Ask(p)
  <2>1. PICK new \in [Refs -> Values] :
           /\ ask' = [ask EXCEPT ![p] = [old |-> RefsOf(pointer), new |-> new]]
           /\ push' = [push EXCEPT ![p].pc = "asked"]
    BY <1>2 DEF Ask
  <2>. DEFINE u == [old |-> RefsOf(pointer), new |-> new]
              v == [push[p] EXCEPT !.pc = "asked"]
  <2>2. u \in Updates
    BY <1>0 DEF Updates
  <2>3. v \in PushStates
    BY <1>0 DEF PushStates
  <2>4. ask' = [ask EXCEPT ![p] = u] /\ push' = [push EXCEPT ![p] = v]
    BY <2>1
  <2>. HIDE DEF u, v
  <2>. QED
    BY <1>0, <1>2, <2>2, <2>3, <2>4 DEF Ask
<1>3. CASE Hydrate(p)
  <2>. DEFINE v == [push[p] EXCEPT !.pc = "hydrated", !.parent = pointer]
  <2>1. v \in PushStates
    BY <1>0 DEF PushStates
  <2>2. push' = [push EXCEPT ![p] = v]
    BY <1>3 DEF Hydrate
  <2>. HIDE DEF v
  <2>. QED
    BY <1>0, <1>3, <2>1, <2>2 DEF Hydrate
<1>4. CASE ReceivePack(p)
  <2>. DEFINE w == [r \in Refs |-> IF r \in Moved(ask[p]) THEN ask[p].new[r]
                                    ELSE RefsOf(push[p].parent)[r]]
              v == [push[p] EXCEPT !.pc = "received", !.refs = w]
  <2>0. w \in [Refs -> Values]
    <3>1. ask[p].new \in [Refs -> Values]
      BY <1>4 DEF ReceivePack, Conversation, Updates
    <3>. QED
      BY <1>0, <3>1
  <2>1. v \in PushStates
    <3>. HIDE DEF w
    <3>. QED
      BY <1>0, <2>0 DEF PushStates
  <2>2. push' = [push EXCEPT ![p] = v]
    BY <1>4 DEF ReceivePack
  <2>3. UNCHANGED <<ask, applied, reply, wire, latest>>
    BY <1>4 DEF ReceivePack
  <2>. HIDE DEF v
  <2>. QED
    BY <1>0, <2>1, <2>2, <2>3
<1>5. CASE DropCas(p)
  BY <1>0, <1>5 DEF DropCas
<1>. HIDE DEF Goal
<1>6. CASE Decline(p) \/ Refuse(p) \/ CasLost(p)
  <2>1. /\ Answer(p, "refused") \/ Answer(p, "partial")
        /\ UNCHANGED <<ask, applied, wire, latest>>
    BY <1>6, DeclineAnswers DEF Decline, Refuse, CasLost
  <2>. QED
    BY <1>1, <2>1
<1>7. CASE Finish(p)
  <2>1. Answer(p, "ok") /\ UNCHANGED <<ask, applied, wire>> /\ latest' \in {latest, push[p].m}
    BY <1>7 DEF Finish
  <2>. QED
    BY <1>1, <2>1
<1>8. CASE FinishFails(p) \/ Fail(p)
  <2>1. Answer(p, "error") /\ UNCHANGED <<ask, applied, wire>>
        /\ latest' \in {latest, push[p].m}
    BY <1>8 DEF FinishFails, Fail
  <2>. QED
    BY <1>1, <2>1
<1>. QED
  BY <1>2, <1>3, <1>4, <1>5, <1>6, <1>7, <1>8 DEF QuietStep

LEMMA UploadType ==
    ASSUME TypeOK, NEW p \in Pushers, UploadPacks(p)
    PROVE  /\ push' \in [Pushers -> PushStates'] /\ push'[p].pc = "packed"
           /\ push'[p].parent = push[p].parent /\ push'[p].resp = push[p].resp
           /\ push'[p].refs = push[p].refs /\ push'[p].packs \in PacksAfter(p)
           /\ packs' = packs \cup (push'[p].packs \ PacksOf(push[p].parent))
           /\ \A q \in Pushers \ {p} : push'[q] = push[q]
<1>1. PICK after \in SUBSET SUBSET Commits :
         /\ after \in PacksAfter(p)
         /\ packs' = packs \cup (after \ PacksOf(push[p].parent))
         /\ push' = [push EXCEPT ![p].pc = "packed", ![p].packs = after]
  BY UploadEffect
<1>. DEFINE v == [push[p] EXCEPT !.pc = "packed", !.packs = after]
<1>2. Grows /\ push[p] \in PushStates
  BY UploadEffect DEF TypeOK
<1>3. /\ v \in PushStates /\ v.pc = "packed" /\ v.parent = push[p].parent
      /\ v.resp = push[p].resp /\ v.refs = push[p].refs /\ v.packs = after
  BY <1>2 DEF PushStates
<1>4. push' = [push EXCEPT ![p] = v]
  BY <1>1
<1>. HIDE DEF v
<1>5. v \in PushStates'
  BY <1>2, <1>3, GrownTypes
<1>6. push' \in [Pushers -> PushStates'] /\ push'[p] = v
      /\ \A q \in Pushers \ {p} : push'[q] = push[q]
  BY <1>2, <1>4, <1>5, PushType
<1>. QED
  BY <1>1, <1>3, <1>6

LEMMA PutManifestType ==
    ASSUME TypeOK, NEW p \in Pushers, PutManifest(p)
    PROVE  /\ push' \in [Pushers -> PushStates'] /\ push'[p].pc = "cas"
           /\ push'[p].parent = push[p].parent /\ push'[p].resp = push[p].resp
           /\ push'[p].m \in 1..Len(manifests') /\ manifests'[push'[p].m] = Composed(p)
           /\ \A k \in 1..Len(manifests') : k = push'[p].m \/ k \in 1..Len(manifests)
           /\ \A q \in Pushers \ {p} : push'[q] = push[q]
<1>1. PICK d \in 1..Len(manifests') :
         /\ manifests'[d] = Composed(p)
         /\ \A k \in 1..Len(manifests') : k = d \/ k \in 1..Len(manifests)
         /\ push' = [push EXCEPT ![p].pc = "cas", ![p].m = d, ![p].packs = {},
                                 ![p].refs = NoRefs]
  BY PutManifestEffect
<1>. DEFINE v == [push[p] EXCEPT !.pc = "cas", !.m = d, !.packs = {}, !.refs = NoRefs]
<1>2. Grows /\ push[p] \in PushStates
  BY PutManifestEffect DEF TypeOK
<1>3. push[p] \in PushStates' /\ d \in 0..Len(manifests')
  BY <1>2, GrownTypes
<1>4. /\ v \in PushStates' /\ v.pc = "cas" /\ v.parent = push[p].parent
      /\ v.resp = push[p].resp /\ v.m = d
  BY <1>3, NoRefsType DEF PushStates
<1>5. push' = [push EXCEPT ![p] = v]
  BY <1>1
<1>. HIDE DEF v
<1>6. push' \in [Pushers -> PushStates'] /\ push'[p] = v
      /\ \A q \in Pushers \ {p} : push'[q] = push[q]
  BY <1>2, <1>4, <1>5, PushType
<1>. QED
  BY <1>1, <1>4, <1>6

LEMMA CasType ==
    ASSUME TypeOK, NEW p \in Pushers, InTransit(p), StoreCas(p)
    PROVE  /\ push' \in [Pushers -> PushStates'] /\ push'[p].pc = push[p].pc
           /\ push'[p].parent = push[p].parent /\ push'[p].m = push[p].m
           /\ push'[p].refs = push[p].refs /\ push'[p].packs = push[p].packs
           /\ push'[p].resp = IF CasWon(p) THEN "won" ELSE "lost"
           /\ \A q \in Pushers \ {p} : push'[q] = push[q]
<1>1. Grows /\ push[p] \in PushStates
  BY CasEffect DEF TypeOK
<1>. DEFINE r == IF CasWon(p) THEN "won" ELSE "lost"
            v == [push[p] EXCEPT !.resp = r]
<1>2. r \in {"won", "lost"}
  OBVIOUS
<1>3. push' = [push EXCEPT ![p].resp = r]
  BY CasEffect DEF CasWon, CasMissed
<1>. HIDE DEF r
<1>4. /\ v \in PushStates /\ v.pc = push[p].pc /\ v.parent = push[p].parent
      /\ v.m = push[p].m /\ v.resp = r /\ v.refs = push[p].refs /\ v.packs = push[p].packs
  BY <1>1, <1>2 DEF PushStates
<1>5. push' = [push EXCEPT ![p] = v]
  BY <1>3
<1>. HIDE DEF v
<1>6. v \in PushStates'
  BY <1>1, <1>4, GrownTypes
<1>7. push' \in [Pushers -> PushStates'] /\ push'[p] = v
      /\ \A q \in Pushers \ {p} : push'[q] = push[q]
  BY <1>1, <1>5, <1>6, PushType
<1>. QED
  BY <1>4, <1>7 DEF r

LEMMA AtType ==
    ASSUME TypeOK, NEW a \in Announcers, NEW pc, At(a, pc),
           pc \in {"claim", "ensure", "seed", "seeded", "failed", "accepted", "rejected"}
    PROVE  announce' \in [Announcers -> AnnounceStates]
<1>. DEFINE put == IF announce[a].put = "sent" THEN announce[a].put ELSE "none"
            v == [announce[a] EXCEPT !.pc = pc, !.put = put]
<1>1. announce \in [Announcers -> AnnounceStates]
  BY DEF TypeOK
<1>2. announce[a] \in AnnounceStates
  BY <1>1
<1>3. put \in {"sent", "none"}
  OBVIOUS
<1>4. announce' = [announce EXCEPT ![a] = v]
  BY DEF At
<1>5. v \in AnnounceStates
  <2>. HIDE DEF put
  <2>. QED
    BY <1>2, <1>3 DEF AnnounceStates
<1>. HIDE DEF v
<1>. QED
  BY <1>1, <1>4, <1>5

LEMMA AnnounceType ==
    ASSUME TypeOK, NEW a \in Announcers, QuietAnnounce(a) \/ SendSeed(a) \/ StoreSeed(a)
    PROVE  announce' \in [Announcers -> AnnounceStates] /\ reserved' \in BOOLEAN
<1>0. announce \in [Announcers -> AnnounceStates] /\ reserved \in BOOLEAN
  BY DEF TypeOK
<1>1. CASE Peek(a)
  <2>1. At(a, "ensure") \/ At(a, "claim")
    BY <1>1 DEF Peek
  <2>. QED
    BY <1>0, <1>1, <2>1, AtType DEF Peek
<1>2. CASE Reserve(a)
  <2>. DEFINE v == [announce[a] EXCEPT !.pc = IF reserved THEN "ensure" ELSE "seed",
                                       !.fresh = ~reserved]
  <2>0. v \in AnnounceStates
    <3>1. announce[a] \in AnnounceStates
      BY <1>0
    <3>. QED
      BY <1>0, <3>1 DEF AnnounceStates
  <2>1. announce' \in [Announcers -> AnnounceStates]
    <3>1. announce' = [announce EXCEPT ![a] = v]
      BY <1>2 DEF Reserve
    <3>. HIDE DEF v
    <3>. QED
      BY <1>0, <2>0, <3>1
  <2>. QED
    BY <1>0, <1>2, <2>1 DEF Reserve
<1>3. CASE Reject(a)
  BY <1>0, <1>3, AtType DEF Reject
<1>4. CASE Ensure(a)
  <2>1. At(a, "accepted") \/ At(a, "seed")
    BY <1>4 DEF Ensure
  <2>. QED
    BY <1>0, <1>4, <2>1, AtType DEF Ensure
<1>5. CASE DropSeed(a)
  BY <1>0, <1>5 DEF DropSeed, AnnounceStates
<1>6. CASE Seeded(a)
  <2>1. At(a, "failed") \/ At(a, "seeded") \/ At(a, "accepted")
    BY <1>6 DEF Seeded
  <2>. QED
    BY <1>0, <1>6, <2>1, AtType DEF Seeded
<1>7. CASE SeedFails(a)
  BY <1>0, <1>7, AtType DEF SeedFails
<1>8. CASE Emit(a)
  BY <1>0, <1>8, AtType DEF Emit
<1>9. CASE Release(a)
  BY <1>0, <1>9, AtType DEF Release
<1>10. CASE SendSeed(a)
  BY <1>0, <1>10 DEF SendSeed, AnnounceStates
<1>11. CASE StoreSeed(a)
  <2>1. PICK w \in {"none", "won", "lost"} : announce' = [announce EXCEPT ![a].put = w]
    BY <1>11 DEF StoreSeed
  <2>. QED
    BY <1>0, <1>11, <2>1 DEF StoreSeed, AnnounceStates
<1>. QED
  BY <1>1, <1>2, <1>3, <1>4, <1>5, <1>6, <1>7, <1>8, <1>9, <1>10, <1>11 DEF QuietAnnounce

\* The initial event names the empty manifest, which has been published.
LEMMA LatestType ==
    ASSUME TypeOK, ManifestsDistinct, NEW a \in Announcers, SeedSound(a), QuietAnnounce(a)
    PROVE  latest' = latest \/ (latest' \in Range(published) /\ latest' \in 1..Len(manifests))
<1>1. CASE Emit(a)
  <2>1. PICK d \in Range(published) : IsEmpty(d)
    BY <1>1 DEF Emit, SeedSound
  <2>2. latest' = latest \/ IsEmpty(latest')
    BY <1>1 DEF Emit
  <2>3. IsEmpty(latest') => latest' = d
    BY <2>1 DEF IsEmpty, ManifestsDistinct
  <2>. QED
    BY <2>1, <2>2, <2>3 DEF IsEmpty
<1>2. CASE ~Emit(a)
  BY <1>2 DEF QuietAnnounce, Peek, Reserve, Reject, Ensure, DropSeed, Seeded, SeedFails, Release
<1>. QED
  BY <1>1, <1>2

LEMMA TypeStep == GitInv /\ [Next]_vars => TypeOK'
<1>. SUFFICES ASSUME GitInv, [Next]_vars PROVE TypeOK'
  OBVIOUS
<1>1. /\ TypeOK /\ Grows /\ \A p \in Pushers : InTransit(p) /\ Conversation(p)
      /\ ManifestsDistinct /\ \A a \in Announcers : SeedSound(a)
  BY EveryStepGrows DEF GitInv, PushSound
<1>2. /\ Len(manifests) \in Nat /\ Len(manifests') \in Nat
      /\ 0..Len(manifests) \subseteq 0..Len(manifests')
      /\ push \in [Pushers -> PushStates']
  BY <1>1, GrownTypes DEF TypeOK
<1>3. /\ manifests' \in Seq(Manifests) /\ packs' \subseteq SUBSET Commits
      /\ published' \in Seq(1..Len(manifests'))
  BY <1>1 DEF Grows
<1>4. \A p \in Pushers : push[p].m \in 0..Len(manifests)
  BY <1>1 DEF TypeOK, PushStates
<1>5. ASSUME NEW p \in Pushers, QuietStep(p) PROVE TypeOK'
  <2>1. UNCHANGED <<store, names>>
    BY <1>5, QuietKeepsStore
  <2>2. PushStates' = PushStates
    BY <2>1 DEF store, PushStates
  <2>3. /\ push' \in [Pushers -> PushStates]
        /\ ask' \in [Pushers -> {NoUpdate} \cup Updates]
        /\ applied' = applied /\ wire' \subseteq wire
        /\ reply' \in [Pushers -> {"none", "ok", "partial", "refused", "error"}]
        /\ latest' \in {latest, push[p].m}
    BY <1>1, <1>5, QuietType
  <2>. QED
    BY <1>1, <1>4, <2>1, <2>2, <2>3 DEF TypeOK, store, names
<1>6. ASSUME NEW p \in Pushers, UploadPacks(p) PROVE TypeOK'
  <2>1. UNCHANGED <<pointer, ask, applied, reply, wire, names, latest>>
    BY <1>6 DEF UploadPacks
  <2>. QED
    BY <1>1, <1>2, <1>3, <1>6, <2>1, UploadType DEF TypeOK, names
<1>7. ASSUME NEW p \in Pushers, PutManifest(p) PROVE TypeOK'
  <2>1. UNCHANGED <<pointer, ask, applied, reply, names, latest>> /\ wire' = wire \cup {p}
    BY <1>7 DEF PutManifest
  <2>. QED
    BY <1>1, <1>2, <1>3, <1>7, <2>1, PutManifestType DEF TypeOK, names
<1>8. ASSUME NEW p \in Pushers, StoreCas(p) PROVE TypeOK'
  <2>1. /\ wire' = wire \ {p} /\ UNCHANGED <<ask, reply, names, latest>>
        /\ pointer' \in {pointer, push[p].m} /\ applied' \in {applied, applied \cup {p}}
    BY <1>1, <1>8, CasEffect DEF CasWon, CasMissed
  <2>. QED
    BY <1>1, <1>2, <1>3, <1>4, <1>8, <2>1, CasType DEF TypeOK, names
<1>9. ASSUME NEW a \in Announcers, QuietAnnounce(a) PROVE TypeOK'
  <2>1. UNCHANGED <<store, pushes>> /\ latest' \in 0..Len(manifests)
    BY <1>1, <1>9, AnnounceKeepsStore, LatestType DEF TypeOK
  <2>. QED
    BY <1>1, <1>2, <1>3, <1>9, <2>1, AnnounceType DEF TypeOK, store, pushes
<1>10. ASSUME NEW a \in Announcers, SendSeed(a) \/ StoreSeed(a) PROVE TypeOK'
  <2>1. UNCHANGED <<pushes, latest>>
    BY <1>10 DEF SendSeed, StoreSeed
  <2>2. pointer' \in 0..Len(manifests')
    <3>1. CASE SendSeed(a)
      BY <1>1, <1>2, <3>1 DEF SendSeed, TypeOK
    <3>2. CASE StoreSeed(a)
      BY <1>1, <1>2, <3>2, StoreSeedEffect DEF TypeOK
    <3>. QED
      BY <1>10, <3>1, <3>2
  <2>. QED
    BY <1>1, <1>2, <1>3, <1>10, <2>1, <2>2, AnnounceType DEF TypeOK, pushes
<1>11. CASE UNCHANGED vars
  BY <1>1, <1>2, <1>3, <1>11 DEF TypeOK, vars, store, pushes, names
<1>. QED
  BY <1>5, <1>6, <1>7, <1>8, <1>9, <1>10, <1>11, StepKinds

--------------------------------------------------------------------------------
(* The store and its history. *)

LEMMA CloneableStays ==
    ASSUME NEW m, NEW before, NEW after, before \subseteq after, Cloneable(m, before)
    PROVE  Cloneable(m, after)
  BY DEF Cloneable

\* A new manifest is as sound as the old ones.
LEMMA ManifestAdded ==
    ASSUME TypeOK, Grows, ManifestsSound, NEW d \in 1..Len(manifests'),
           \A k \in 1..Len(manifests') : k = d \/ k \in 1..Len(manifests),
           manifests'[d].parent \in 0..Len(manifests), Cloneable(manifests'[d], packs')
    PROVE  ManifestsSound'
<1>1. ASSUME NEW k \in 1..Len(manifests)
      PROVE  manifests'[k].parent < k /\ Cloneable(manifests'[k], packs')
  <2>1. manifests'[k] = manifests[k] /\ manifests[k].parent < k /\ Cloneable(manifests[k], packs)
    BY DEF Grows, ManifestsSound
  <2>2. packs \subseteq packs'
    BY DEF Grows
  <2>. QED
    BY <2>1, <2>2, CloneableStays
<1>2. d \notin 1..Len(manifests) => manifests'[d].parent < d
  BY DEF TypeOK
<1>. QED
  BY <1>1, <1>2 DEF ManifestsSound

LEMMA UploadCovers ==
    ASSUME TypeOK, ManifestsSound, NEW p \in Pushers, NEW after \in PacksAfter(p)
    PROVE  Reach(Tips(push[p].refs)) \subseteq UNION after
<1>. DEFINE new == Reach(Tips(push[p].refs))
            old == Reach(Tips(RefsOf(push[p].parent)))
<1>1. old \subseteq UNION PacksOf(push[p].parent)
  <2>1. push[p].parent \in 0..Len(manifests) /\ Len(manifests) \in Nat
    BY DEF TypeOK, PushStates
  <2>2. CASE push[p].parent = 0
    <3>1. Tips(NoRefs) = {}
      BY GitConstants DEF Tips, NoRefs
    <3>. QED
      BY <2>2, <3>1, ReachEmpty DEF RefsOf
  <2>3. CASE push[p].parent \in 1..Len(manifests)
    <3>1. /\ RefsOf(push[p].parent) = manifests[push[p].parent].refs
          /\ PacksOf(push[p].parent) = manifests[push[p].parent].packs
      BY <2>1, <2>3 DEF RefsOf, PacksOf
    <3>2. Cloneable(manifests[push[p].parent], packs)
      BY <2>3 DEF ManifestsSound
    <3>. QED
      BY <3>1, <3>2 DEF Cloneable
  <2>. QED
    BY <2>1, <2>2, <2>3
<1>2. CASE after \in Compactions(p)
  BY <1>2 DEF Compactions, Splits
<1>3. CASE after = PacksOf(push[p].parent) \cup DeltaPack(p)
  <2>1. CASE Tips(push[p].refs) = {}
    BY <2>1, ReachEmpty
  <2>2. CASE Tips(push[p].refs) # {}
    <3>1. DeltaPack(p) = {new \ old}
      BY <2>2 DEF DeltaPack
    <3>. HIDE DEF new, old
    <3>2. new \subseteq UNION after
      BY <1>1, <1>3, <3>1
    <3>. QED
      BY <3>2 DEF new
  <2>. QED
    BY <2>1, <2>2
<1>. QED
  BY <1>2, <1>3 DEF PacksAfter

LEMMA ParentPacksStored ==
    ASSUME TypeOK, ManifestsSound, NEW d \in 0..Len(manifests)
    PROVE  PacksOf(d) \subseteq packs
<1>1. d = 0 \/ d \in 1..Len(manifests)
  BY DEF TypeOK
<1>. QED
  BY <1>1 DEF PacksOf, ManifestsSound, Cloneable

LEMMA ManifestsStep == GitInv /\ [Next]_vars => ManifestsSound'
<1>. SUFFICES ASSUME GitInv, [Next]_vars PROVE ManifestsSound'
  OBVIOUS
<1>1. /\ TypeOK /\ Grows /\ ManifestsSound
      /\ \A p \in Pushers : InTransit(p) /\ Prepared(p)
  BY EveryStepGrows DEF GitInv, PushSound
<1>2. ASSUME UNCHANGED manifests PROVE ManifestsSound'
  <2>1. \A k \in 1..Len(manifests) : manifests[k].parent < k /\ Cloneable(manifests[k], packs')
    BY <1>1, <1>2, CloneableStays DEF ManifestsSound, Grows
  <2>. QED
    BY <1>2, <2>1 DEF ManifestsSound
<1>3. ASSUME NEW p \in Pushers, PutManifest(p) PROVE ManifestsSound'
  <2>. DEFINE d == push'[p].m
  <2>1. /\ d \in 1..Len(manifests') /\ manifests'[d] = Composed(p)
        /\ \A k \in 1..Len(manifests') : k = d \/ k \in 1..Len(manifests)
    BY <1>1, <1>3, PutManifestType
  <2>2. Composed(p).parent \in 0..Len(manifests)
    BY <1>1 DEF Composed, TypeOK, PushStates
  <2>3. Cloneable(Composed(p), packs)
    <3>1. /\ push[p].packs \subseteq packs
          /\ Reach(Tips(push[p].refs)) \subseteq UNION push[p].packs
          /\ Cardinality(push[p].packs) <= MaxPacks
      BY <1>1, <1>3 DEF PutManifest, Prepared
    <3>2. Tips(push[p].refs) # {} => push[p].refs[HeadAfter(p)] # NoCommit
      BY <1>1, HeadAfterIsLive
    <3>. QED
      BY <3>1, <3>2 DEF Cloneable, Composed
  <2>4. Cloneable(manifests'[d], packs')
    BY <1>1, <2>1, <2>3, CloneableStays DEF Grows
  <2>. HIDE DEF d
  <2>. QED
    BY <1>1, <2>1, <2>2, <2>4, ManifestAdded
<1>4. ASSUME NEW a \in Announcers, SendSeed(a) PROVE ManifestsSound'
  <2>1. PICK d \in 1..Len(manifests') :
           /\ manifests'[d] = EmptyManifest
           /\ \A k \in 1..Len(manifests') : k = d \/ k \in 1..Len(manifests)
    BY <1>1, <1>4, SendSeedEffect
  <2>2. EmptyManifest.parent \in 0..Len(manifests)
    BY <1>1 DEF EmptyManifest, TypeOK
  <2>3. Cloneable(EmptyManifest, packs)
    <3>1. Tips(NoRefs) = {}
      BY GitConstants DEF Tips, NoRefs
    <3>2. Cardinality({}) = 0
      BY FS_EmptySet
    <3>3. EmptyManifest.refs = NoRefs /\ EmptyManifest.packs = {}
      BY DEF EmptyManifest
    <3>4. Reach(Tips(NoRefs)) = {}
      BY <3>1, ReachEmpty
    <3>5. Cardinality(EmptyManifest.packs) <= MaxPacks
      BY <3>2, <3>3, GitConstants
    <3>6. EmptyManifest.packs \subseteq packs
      BY <3>3
    <3>7. Reach(Tips(EmptyManifest.refs)) \subseteq UNION EmptyManifest.packs
      BY <3>3, <3>4
    <3>8. Tips(EmptyManifest.refs) = {}
      BY <3>1, <3>3
    <3>. QED
      BY <3>5, <3>6, <3>7, <3>8 DEF Cloneable
  <2>4. Cloneable(manifests'[d], packs')
    BY <1>1, <2>1, <2>3, CloneableStays DEF Grows
  <2>. QED
    BY <1>1, <2>1, <2>2, <2>4, ManifestAdded
<1>5. ASSUME NEW p \in Pushers, QuietStep(p) \/ UploadPacks(p) \/ StoreCas(p)
      PROVE  UNCHANGED manifests
  BY <1>1, <1>5, QuietKeepsStore, CasEffect DEF store, UploadPacks
<1>6. ASSUME NEW a \in Announcers, QuietAnnounce(a) \/ StoreSeed(a) PROVE UNCHANGED manifests
  BY <1>6, AnnounceKeepsStore DEF store, StoreSeed
<1>7. CASE UNCHANGED vars
  BY <1>2, <1>7 DEF vars, store
<1>. QED
  BY <1>2, <1>3, <1>4, <1>5, <1>6, <1>7, StepKinds

LEMMA DistinctStep == GitInv /\ [Next]_vars => ManifestsDistinct'
<1>. SUFFICES ASSUME GitInv, [Next]_vars PROVE ManifestsDistinct'
  OBVIOUS
<1>1. TypeOK /\ ManifestsDistinct /\ \A p \in Pushers : InTransit(p)
  BY DEF GitInv, PushSound
<1>2. ASSUME UNCHANGED manifests PROVE ManifestsDistinct'
  BY <1>1, <1>2 DEF ManifestsDistinct
<1>3. ASSUME NEW p \in Pushers, PutManifest(p) PROVE ManifestsDistinct'
  <2>1. PICK d \in 1..Len(manifests) + 1 : StoreManifest(Composed(p), d)
    BY <1>3 DEF PutManifest
  <2>. QED
    BY <1>1, <2>1, ComposedType, StoreManifestEffect
<1>4. ASSUME NEW a \in Announcers, SendSeed(a) PROVE ManifestsDistinct'
  BY <1>1, <1>4, SendSeedEffect
<1>5. ASSUME NEW p \in Pushers, QuietStep(p) \/ UploadPacks(p) \/ StoreCas(p)
      PROVE  UNCHANGED manifests
  BY <1>5, QuietKeepsStore DEF store, UploadPacks, StoreCas
<1>6. ASSUME NEW a \in Announcers, QuietAnnounce(a) \/ StoreSeed(a) PROVE UNCHANGED manifests
  BY <1>6, AnnounceKeepsStore DEF store, StoreSeed
<1>7. CASE UNCHANGED vars
  BY <1>2, <1>7 DEF vars, store
<1>. QED
  BY <1>2, <1>3, <1>4, <1>5, <1>6, <1>7, StepKinds

\* A pointer that exists is the last of the history.
LEMMA PointerPublished ==
    ASSUME TypeOK, HistorySound, pointer # 0 PROVE pointer \in Range(published)
<1>1. published # <<>> /\ pointer = published[Len(published)]
  BY DEF HistorySound
<1>2. Len(published) \in 1..Len(published) /\ DOMAIN published = 1..Len(published)
  BY <1>1 DEF TypeOK
<1>. QED
  BY <1>1, <1>2 DEF Range

\* What an announcement knows of the seed stays true as the store grows.
LEMMA SeedStays ==
    ASSUME TypeOK, Grows, NEW d \in Range(published), IsEmpty(d)
    PROVE  d \in Range(published') /\ IsEmpty(d)'
  BY GrownTypes DEF Grows, IsEmpty

LEMMA AnnouncesStep == GitInv /\ [Next]_vars => \A b \in Announcers : SeedSound(b)'
<1>. SUFFICES ASSUME GitInv, [Next]_vars, NEW b \in Announcers PROVE SeedSound(b)'
  OBVIOUS
<1>. DEFINE Known == \E d \in Range(published) : IsEmpty(d)
<1>1. TypeOK /\ Grows /\ HistorySound /\ SeedSound(b)
  BY EveryStepGrows DEF GitInv
<1>2. ASSUME Known PROVE SeedSound(b)'
  BY <1>1, <1>2, SeedStays DEF SeedSound
<1>3. ASSUME announce'[b].put \in {announce[b].put, "none", "sent", "lost"},
             announce'[b].pc \in {announce[b].pc, "idle", "claim", "ensure", "seed", "seeding",
                                  "failed", "accepted", "rejected"}
      PROVE  SeedSound(b)'
  BY <1>1, <1>2, <1>3 DEF SeedSound
<1>. HIDE DEF Known
<1>4. ASSUME NEW a \in Announcers, QuietAnnounce(a) \/ SendSeed(a) \/ StoreSeed(a)
      PROVE  SeedSound(b)'
  <2>0. announce \in [Announcers -> AnnounceStates]
    BY <1>1 DEF TypeOK
  <2>1. CASE a # b
    <3>1. announce'[b] = announce[b]
      BY <1>4, <2>0, <2>1 DEF QuietAnnounce, Peek, Reserve, Reject, Ensure, DropSeed, Seeded,
                              SeedFails, Emit, Release, SendSeed, StoreSeed, At
    <3>. QED
      BY <1>3, <3>1
  <2>2. ASSUME NEW pc, At(b, pc), pc # "seeded" => pc \in {"idle", "claim", "ensure", "seed",
                                         "seeding", "failed", "accepted", "rejected"},
               pc = "seeded" => Known
        PROVE  SeedSound(b)'
    <3>1. announce'[b].pc = pc /\ announce'[b].put \in {"sent", "none", announce[b].put}
      BY <2>0, <2>2 DEF At, AnnounceStates
    <3>. QED
      BY <1>2, <1>3, <2>2, <3>1
  <2>3. CASE a = b /\ (Peek(b) \/ Reject(b) \/ Ensure(b) \/ SeedFails(b) \/ Emit(b) \/ Release(b))
    <3>1. \E pc \in {"claim", "ensure", "seed", "failed", "accepted", "rejected"} : At(b, pc)
      BY <2>3 DEF Peek, Reject, Ensure, SeedFails, Emit, Release
    <3>. QED
      BY <2>2, <3>1
  <2>4. CASE a = b /\ (Reserve(b) \/ DropSeed(b) \/ SendSeed(b))
    <3>1. /\ announce'[b].put \in {announce[b].put, "none", "sent"}
          /\ announce'[b].pc \in {announce[b].pc, "ensure", "seed", "seeding"}
      BY <2>0, <2>4 DEF Reserve, DropSeed, SendSeed, AnnounceStates
    <3>. QED
      BY <1>3, <3>1
  <2>5. CASE a = b /\ Seeded(b)
    <3>1. CASE announce[b].put = "won"
      <4>1. Known
        BY <1>1, <3>1 DEF SeedSound, Known
      <4>. QED
        BY <1>2, <4>1
    <3>2. CASE announce[b].put = "lost" /\ ~IsEmpty(pointer)
      <4>1. At(b, "failed")
        BY <2>5, <3>2 DEF Seeded
      <4>. QED
        BY <2>2, <4>1
    <3>3. CASE announce[b].put = "lost" /\ IsEmpty(pointer)
      <4>1. pointer # 0
        BY <3>3 DEF IsEmpty
      <4>2. Known
        BY <1>1, <3>3, <4>1, PointerPublished DEF Known
      <4>. QED
        BY <1>2, <4>2
    <3>. QED
      BY <2>5, <3>1, <3>2, <3>3 DEF Seeded
  <2>6. CASE a = b /\ StoreSeed(b)
    <3>1. CASE pointer = 0
      <4>1. PICK d \in 1..Len(manifests) : manifests[d] = EmptyManifest /\ d \in Range(published')
        BY <1>1, <2>6, <3>1, StoreSeedEffect
      <4>2. d \in Range(published') /\ IsEmpty(d)'
        BY <1>1, <4>1, GrownTypes DEF Grows, IsEmpty
      <4>. QED
        BY <4>2 DEF SeedSound
    <3>2. CASE pointer # 0
      <4>1. announce'[b].put \in {"none", "lost"} /\ announce'[b].pc = announce[b].pc
        BY <2>0, <2>6, <3>2 DEF StoreSeed, AnnounceStates
      <4>. QED
        BY <1>3, <4>1
    <3>. QED
      BY <3>1, <3>2
  <2>. QED
    BY <1>4, <2>1, <2>3, <2>4, <2>5, <2>6 DEF QuietAnnounce
<1>5. ASSUME UNCHANGED announce PROVE SeedSound(b)'
  BY <1>3, <1>5
<1>6. ASSUME NEW p \in Pushers, QuietStep(p) \/ UploadPacks(p) \/ PutManifest(p) \/ StoreCas(p)
      PROVE  UNCHANGED announce
  BY <1>6, QuietKeepsStore DEF names, UploadPacks, PutManifest, StoreCas
<1>7. CASE UNCHANGED vars
  BY <1>5, <1>7 DEF vars, names
<1>. QED
  BY <1>4, <1>5, <1>6, <1>7, StepKinds

\* The history when the pointer moves from the manifest's parent to it.
LEMMA HistoryGrows ==
    ASSUME TypeOK, Grows, ManifestsSound', HistorySound,
           NEW d \in 1..Len(manifests'), manifests'[d].parent = pointer,
           published' = Append(published, d), pointer' = d
    PROVE  HistorySound'
<1>. DEFINE n == Len(published)
<1>1. /\ n \in Nat /\ Len(published') = n + 1 /\ published'[n + 1] = d
      /\ \A i \in 1..n : published'[i] = published[i]
      /\ \A i \in 1..n : published[i] \in 1..Len(manifests)
      /\ Len(manifests) \in Nat /\ Len(manifests') \in Nat
  BY PublishEffect, GrownTypes DEF TypeOK, Grows
<1>2. n = 0 <=> published = <<>>
  BY DEF TypeOK
<1>3. /\ n = 0 => pointer = 0
      /\ n # 0 => pointer = published[n]
      /\ pointer < d
  BY <1>2 DEF HistorySound, ManifestsSound
<1>4. published' # <<>> /\ pointer' = published'[Len(published')]
  <2>1. published' \in Seq(1..Len(manifests'))
    BY DEF Grows
  <2>. QED
    BY <1>1, <2>1
<1>5. ASSUME NEW i \in 1..n + 1
      PROVE  manifests'[published'[i]].parent = IF i = 1 THEN 0 ELSE published'[i - 1]
  <2>1. CASE i = n + 1
    BY <1>1, <1>3, <2>1
  <2>2. CASE i \in 1..n
    <3>1. published'[i] = published[i] /\ manifests'[published[i]] = manifests[published[i]]
      BY <1>1, <2>2 DEF Grows
    <3>2. manifests[published[i]].parent = IF i = 1 THEN 0 ELSE published[i - 1]
      BY <2>2 DEF HistorySound
    <3>3. i # 1 => published'[i - 1] = published[i - 1]
      BY <1>1, <2>2
    <3>. QED
      BY <3>1, <3>2, <3>3
  <2>. QED
    BY <1>1, <2>1, <2>2
<1>6. ASSUME NEW i \in 1..n + 1, NEW j \in 1..n + 1, i < j
      PROVE  published'[i] < published'[j]
  <2>1. i \in 1..n
    BY <1>1, <1>6
  <2>2. CASE j \in 1..n
    BY <1>1, <1>6, <2>1, <2>2 DEF HistorySound
  <2>3. CASE j = n + 1
    <3>0. n \in 1..n /\ (i = n \/ i < n)
      BY <1>1, <2>1
    <3>1. i = n \/ published[i] < published[n]
      <4>1. \A k, l \in 1..n : k < l => published[k] < published[l]
        BY DEF HistorySound
      <4>. HIDE DEF n
      <4>. QED
        BY <2>1, <3>0, <4>1
    <3>. QED
      BY <1>1, <1>3, <2>1, <2>3, <3>1
  <2>. QED
    BY <1>1, <2>2, <2>3
<1>. HIDE DEF n
<1>. QED
  BY <1>1, <1>4, <1>5, <1>6 DEF HistorySound

LEMMA HistoryStep == GitInv /\ [Next]_vars => HistorySound' /\ NotifiedWasPublished'
<1>. SUFFICES ASSUME GitInv, [Next]_vars PROVE HistorySound' /\ NotifiedWasPublished'
  OBVIOUS
<1>1. /\ TypeOK /\ Grows /\ HistorySound /\ NotifiedWasPublished /\ ManifestsSound'
      /\ \A p \in Pushers : InTransit(p) /\ Response(p) /\ Conversation(p)
      /\ ManifestsDistinct /\ \A a \in Announcers : SeedSound(a)
  BY EveryStepGrows, ManifestsStep DEF GitInv, PushSound
<1>2. ASSUME UNCHANGED <<pointer, published>> PROVE HistorySound'
  <2>1. \A i \in 1..Len(published) : manifests'[published[i]] = manifests[published[i]]
    <3>1. \A i \in 1..Len(published) : published[i] \in 1..Len(manifests)
      BY <1>1 DEF TypeOK
    <3>. QED
      BY <1>1, <3>1 DEF Grows
  <2>. QED
    BY <1>1, <1>2, <2>1 DEF HistorySound
<1>3. ASSUME UNCHANGED latest PROVE NotifiedWasPublished'
  BY <1>1, <1>3 DEF NotifiedWasPublished, Grows
<1>4. ASSUME NEW p \in Pushers, QuietStep(p) PROVE HistorySound' /\ NotifiedWasPublished'
  <2>1. UNCHANGED <<pointer, published>>
    BY <1>4, QuietKeepsStore DEF store
  <2>2. CASE Finish(p) \/ FinishFails(p)
    <3>1. push[p].m \in Range(published) /\ latest' \in {latest, push[p].m}
      BY <1>1, <1>4, <2>2, QuietType DEF Finish, FinishFails, Fence, Response
    <3>. QED
      BY <1>1, <1>2, <2>1, <3>1 DEF NotifiedWasPublished
  <2>3. CASE UNCHANGED latest
    BY <1>2, <1>3, <2>1, <2>3
  <2>. QED
    BY <1>4, <2>2, <2>3 DEF QuietStep, Ask, Hydrate, ReceivePack, Decline, Refuse,
                            DropCas, CasLost, Fail
<1>5. ASSUME NEW p \in Pushers, UploadPacks(p) \/ PutManifest(p)
      PROVE  HistorySound' /\ NotifiedWasPublished'
  BY <1>2, <1>3, <1>5 DEF UploadPacks, PutManifest
<1>6. ASSUME NEW p \in Pushers, StoreCas(p) PROVE HistorySound' /\ NotifiedWasPublished'
  <2>1. NotifiedWasPublished'
    BY <1>1, <1>3, <1>6, CasEffect
  <2>2. CASE CasWon(p)
    <3>1. push[p].m \in 1..Len(manifests) /\ manifests[push[p].m].parent = push[p].parent
      BY <1>1, <1>6, CasEffect DEF InTransit
    <3>2. push[p].m \in 1..Len(manifests') /\ manifests'[push[p].m].parent = pointer
      BY <1>1, <1>6, <2>2, <3>1, CasEffect DEF CasWon, Precondition
    <3>. QED
      BY <1>1, <2>1, <2>2, <3>2, HistoryGrows DEF CasWon
  <2>3. CASE CasMissed(p)
    BY <1>2, <2>1, <2>3 DEF CasMissed
  <2>. QED
    BY <1>1, <1>6, <2>2, <2>3, CasEffect
<1>7. ASSUME NEW a \in Announcers, QuietAnnounce(a)
      PROVE  HistorySound' /\ NotifiedWasPublished'
  <2>1. UNCHANGED <<pointer, published>>
    BY <1>7, AnnounceKeepsStore DEF store
  <2>2. latest' = latest \/ latest' \in Range(published)
    BY <1>1, <1>7, LatestType
  <2>3. NotifiedWasPublished'
    BY <1>1, <2>1, <2>2 DEF NotifiedWasPublished
  <2>. QED
    BY <1>2, <2>1, <2>3
<1>8. ASSUME NEW a \in Announcers, SendSeed(a) \/ StoreSeed(a)
      PROVE  HistorySound' /\ NotifiedWasPublished'
  <2>1. NotifiedWasPublished'
    BY <1>3, <1>8 DEF SendSeed, StoreSeed
  <2>2. CASE UNCHANGED <<pointer, published>>
    BY <1>2, <2>1, <2>2
  <2>3. CASE \E d \in 1..Len(manifests) :
                /\ manifests[d] = EmptyManifest /\ UNCHANGED manifests /\ pointer = 0
                /\ pointer' = d /\ published' = Append(published, d)
    <3>1. PICK d \in 1..Len(manifests') :
             /\ manifests'[d] = EmptyManifest /\ pointer = 0 /\ pointer' = d
             /\ published' = Append(published, d)
      BY <2>3
    <3>2. manifests'[d].parent = pointer
      BY <3>1 DEF EmptyManifest
    <3>. QED
      BY <1>1, <2>1, <3>1, <3>2, HistoryGrows
  <2>. QED
    BY <1>1, <1>8, <2>2, <2>3, StoreSeedEffect DEF SendSeed
<1>9. CASE UNCHANGED vars
  BY <1>2, <1>3, <1>9 DEF vars, store
<1>. QED
  BY <1>4, <1>5, <1>6, <1>7, <1>8, <1>9, StepKinds

--------------------------------------------------------------------------------
(* The pushes. *)

\* What a step of another request does not touch stays sound.
LEMMA OthersStaySound ==
    ASSUME TypeOK, Grows, NEW q \in Pushers, PushSound(q),
           push'[q] = push[q], ask'[q] = ask[q], reply'[q] = reply[q],
           q \in wire' <=> q \in wire, q \in applied' <=> q \in applied
    PROVE  PushSound(q)'
<1>. DEFINE par == push[q].parent
<1>1. push[q] \in PushStates /\ par \in 0..Len(manifests)
  BY DEF TypeOK, PushStates
<1>2. RefsOf(push[q].parent)' = RefsOf(par)
  BY <1>1, GrownTypes DEF RefsOf
<1>3. BeforeCas(q)' /\ Conversation(q)'
  BY DEF PushSound, BeforeCas, Conversation
<1>4. Prepared(q)'
  BY <1>2 DEF PushSound, Prepared, Grows
<1>5. InTransit(q)'
  <2>. SUFFICES ASSUME q \in wire' PROVE InTransit(q)'
    BY DEF InTransit
  <2>1. /\ push[q].m \in 1..Len(manifests)
        /\ manifests[push[q].m].parent = push[q].parent
        /\ Moves(RefsOf(par), ask[q], manifests[push[q].m].refs)
        /\ q \notin applied /\ push[q].resp = "none"
        /\ reply[q] \in {"none", "error"}
    BY DEF PushSound, InTransit
  <2>2. manifests'[push[q].m] = manifests[push[q].m] /\ push[q].m \in 1..Len(manifests')
    BY <2>1, GrownTypes DEF Grows
  <2>. QED
    BY <1>2, <2>1, <2>2 DEF InTransit
<1>6. Response(q)'
  BY DEF PushSound, Response, Grows
<1>. QED
  BY <1>3, <1>4, <1>5, <1>6 DEF PushSound

\* A request that ends: its reply is definite only if nothing is in transit.
LEMMA AnsweredIsSound ==
    ASSUME TypeOK, NEW p \in Pushers, PushSound(p), NEW r \in {"ok", "partial", "refused", "error"},
           Answer(p, r), UNCHANGED <<store, ask, applied, wire>>,
           push[p].pc \notin {"idle", "done"}, p \in wire => r = "error"
    PROVE  PushSound(p)'
<1>1. /\ push'[p].pc = "done" /\ push'[p].resp = "none" /\ reply'[p] = r
      /\ p \in wire => push'[p].m = push[p].m /\ push'[p].parent = push[p].parent
  BY AnswerEffect
<1>2. BeforeCas(p)' /\ Conversation(p)' /\ Prepared(p)' /\ Response(p)'
  BY <1>1 DEF PushSound, BeforeCas, Conversation, Prepared, Response
<1>3. InTransit(p)'
  BY <1>1 DEF PushSound, InTransit, RefsOf, store
<1>. QED
  BY <1>2, <1>3 DEF PushSound

LEMMA QuietIsSound ==
    ASSUME TypeOK, NEW p \in Pushers, PushSound(p), QuietStep(p)
    PROVE  PushSound(p)'
<1>0. UNCHANGED store /\ push[p] \in PushStates
  BY QuietKeepsStore DEF TypeOK
<1>1. CASE Ask(p)
  <2>1. push'[p].pc = "asked" /\ push'[p].resp = push[p].resp /\ ask'[p] \in Updates
    <3>1. PICK new \in [Refs -> Values] :
             /\ ask' = [ask EXCEPT ![p] = [old |-> RefsOf(pointer), new |-> new]]
             /\ push' = [push EXCEPT ![p].pc = "asked"]
      BY <1>1 DEF Ask
    <3>2. RefsOf(pointer) \in [Refs -> Values]
      BY RefsOfType DEF TypeOK
    <3>. QED
      BY <3>1, <3>2 DEF TypeOK, PushStates, Updates
  <2>2. push[p].pc = "idle" /\ UNCHANGED <<applied, reply, wire>>
    BY <1>1 DEF Ask
  <2>. QED
    BY <2>1, <2>2 DEF PushSound, BeforeCas, Conversation, Prepared, InTransit, Response
<1>2. CASE Hydrate(p)
  <2>1. push'[p].pc = "hydrated" /\ push'[p].resp = push[p].resp
    BY <1>0, <1>2 DEF Hydrate, TypeOK, PushStates
  <2>2. push[p].pc = "asked" /\ UNCHANGED <<ask, applied, reply, wire>>
    BY <1>2 DEF Hydrate
  <2>. QED
    BY <2>1, <2>2 DEF PushSound, BeforeCas, Conversation, Prepared, InTransit, Response
<1>3. CASE ReceivePack(p)
  <2>. DEFINE w == [r \in Refs |-> IF r \in Moved(ask[p]) THEN ask[p].new[r]
                                    ELSE RefsOf(push[p].parent)[r]]
  <2>1. push' = [push EXCEPT ![p].pc = "received", ![p].refs = w]
    BY <1>3 DEF ReceivePack
  <2>. HIDE DEF w
  <2>2. /\ push'[p].pc = "received" /\ push'[p].resp = push[p].resp
        /\ push'[p].refs = w /\ push'[p].parent = push[p].parent
    BY <1>0, <2>1 DEF TypeOK, PushStates
  <2>3. /\ push[p].pc = "hydrated" /\ UNCHANGED <<ask, applied, reply, wire>>
        /\ \A r \in Moved(ask[p]) : RefsOf(push[p].parent)[r] = ask[p].old[r]
    BY <1>3 DEF ReceivePack, Unable
  <2>4. Moves(RefsOf(push[p].parent), ask[p], push[p].refs)'
    <3>1. RefsOf(push[p].parent)' = RefsOf(push[p].parent)
      BY <1>0, <2>2 DEF RefsOf, store
    <3>. QED
      BY <2>2, <2>3, <3>1 DEF Moves, w
  <2>. QED
    BY <2>2, <2>3, <2>4 DEF PushSound, BeforeCas, Conversation, Prepared, InTransit, Response
<1>4. CASE Decline(p) \/ Refuse(p) \/ CasLost(p)
  <2>1. /\ Answer(p, "refused") \/ Answer(p, "partial")
        /\ UNCHANGED <<ask, applied, wire>> /\ push[p].pc \notin {"idle", "done"}
        /\ push[p].pc \notin {"cas", "done"} \/ push[p].resp = "lost"
    BY <1>4, DeclineAnswers DEF Decline, Refuse, CasLost
  <2>2. p \notin wire
    BY <2>1 DEF PushSound, BeforeCas, Response
  <2>. QED
    BY <1>0, <2>1, <2>2, AnsweredIsSound
<1>5. CASE Finish(p)
  <2>1. /\ Answer(p, "ok") /\ UNCHANGED <<ask, applied, wire>>
        /\ push[p].pc = "cas" /\ push[p].resp = "won"
    BY <1>5 DEF Finish, Fence
  <2>2. p \notin wire
    BY <2>1 DEF PushSound, InTransit
  <2>. QED
    BY <1>0, <2>1, <2>2, AnsweredIsSound
<1>6. CASE FinishFails(p) \/ Fail(p)
  <2>1. /\ Answer(p, "error") /\ UNCHANGED <<ask, applied, wire>>
        /\ push[p].pc \notin {"idle", "done"}
    BY <1>6 DEF FinishFails, Fail
  <2>. QED
    BY <1>0, <2>1, AnsweredIsSound
<1>7. CASE DropCas(p)
  <2>1. UNCHANGED <<push, ask, applied, reply>> /\ p \notin wire'
    BY <1>7 DEF DropCas
  <2>. QED
    BY <1>0, <2>1 DEF PushSound, BeforeCas, Conversation, Prepared, InTransit, Response,
                      RefsOf, store
<1>. QED
  BY <1>1, <1>2, <1>3, <1>4, <1>5, <1>6, <1>7 DEF QuietStep

LEMMA UploadIsSound ==
    ASSUME TypeOK, ManifestsSound, NEW p \in Pushers, PushSound(p), UploadPacks(p)
    PROVE  PushSound(p)'
<1>1. /\ push'[p].pc = "packed" /\ push'[p].parent = push[p].parent
      /\ push'[p].resp = push[p].resp /\ push'[p].refs = push[p].refs
      /\ push'[p].packs \in PacksAfter(p)
      /\ packs' = packs \cup (push'[p].packs \ PacksOf(push[p].parent))
  BY UploadType
<1>2. push[p].pc = "received" /\ UNCHANGED <<manifests, published, ask, applied, reply, wire>>
  BY DEF UploadPacks
<1>3. push'[p].packs \subseteq packs'
  <2>1. PacksOf(push[p].parent) \subseteq packs
    BY ParentPacksStored DEF TypeOK, PushStates
  <2>. QED
    BY <1>1, <2>1
<1>4. Reach(Tips(push'[p].refs)) \subseteq UNION push'[p].packs
  BY <1>1, UploadCovers
<1>5. Moves(RefsOf(push[p].parent), ask[p], push[p].refs)'
  BY <1>1, <1>2 DEF PushSound, Prepared, Moves, RefsOf
<1>. QED
  BY <1>1, <1>2, <1>3, <1>4, <1>5
     DEF PushSound, BeforeCas, Conversation, Prepared, InTransit, Response

LEMMA PutManifestIsSound ==
    ASSUME TypeOK, NEW p \in Pushers, PushSound(p), PutManifest(p)
    PROVE  PushSound(p)'
<1>1. /\ push'[p].pc = "cas" /\ push'[p].parent = push[p].parent
      /\ push'[p].resp = push[p].resp /\ push'[p].m \in 1..Len(manifests')
      /\ manifests'[push'[p].m] = Composed(p)
  BY PutManifestType
<1>2. push[p].pc = "packed" /\ UNCHANGED <<ask, applied, reply>>
  BY DEF PutManifest
<1>3. /\ p \notin applied /\ push[p].resp = "none" /\ reply[p] = "none"
      /\ Moves(RefsOf(push[p].parent), ask[p], push[p].refs)
  BY <1>2 DEF PushSound, BeforeCas, Conversation, Prepared
<1>4. RefsOf(push[p].parent)' = RefsOf(push[p].parent)
  <2>1. push[p].parent \in 0..Len(manifests)
    BY DEF TypeOK, PushStates
  <2>. QED
    BY <1>1, <2>1, PutManifestEffect, GrownTypes DEF RefsOf
<1>5. InTransit(p)'
  <2>1. manifests'[push'[p].m].parent = push[p].parent
        /\ manifests'[push'[p].m].refs = push[p].refs
    BY <1>1 DEF Composed
  <2>. QED
    BY <1>1, <1>2, <1>3, <1>4, <2>1 DEF InTransit
<1>. QED
  BY <1>1, <1>2, <1>3, <1>5
     DEF PushSound, BeforeCas, Conversation, Prepared, Response

LEMMA CasIsSound ==
    ASSUME TypeOK, NEW p \in Pushers, PushSound(p), StoreCas(p)
    PROVE  PushSound(p)'
<1>1. InTransit(p)
  BY DEF PushSound
<1>2. /\ p \in wire /\ wire' = wire \ {p} /\ UNCHANGED <<manifests, packs, ask, reply>>
      /\ (CasWon(p) /\ push[p].m \in Range(published')) \/ CasMissed(p)
  BY <1>1, CasEffect
<1>3. /\ push'[p].pc = push[p].pc /\ push'[p].parent = push[p].parent
      /\ push'[p].m = push[p].m /\ push'[p].refs = push[p].refs
      /\ push'[p].packs = push[p].packs
      /\ push'[p].resp = IF CasWon(p) THEN "won" ELSE "lost"
  BY <1>1, CasType
<1>4. push[p].pc \in {"cas", "done"} /\ p \notin applied
  BY <1>1, <1>2 DEF PushSound, BeforeCas, InTransit
<1>5. /\ CasWon(p) => p \in applied' /\ push[p].m \in Range(published')
      /\ ~CasWon(p) => p \notin applied'
  BY <1>2, <1>4 DEF CasWon, CasMissed
<1>. QED
  BY <1>2, <1>3, <1>4, <1>5
     DEF PushSound, BeforeCas, Conversation, Prepared, InTransit, Response

LEMMA PushesStep == GitInv /\ [Next]_vars => \A q \in Pushers : PushSound(q)'
<1>. SUFFICES ASSUME GitInv, [Next]_vars, NEW q \in Pushers PROVE PushSound(q)'
  OBVIOUS
<1>1. TypeOK /\ Grows /\ ManifestsSound /\ \A p \in Pushers : PushSound(p)
  BY EveryStepGrows DEF GitInv
<1>2. \A p \in Pushers : InTransit(p) /\ Conversation(p)
  BY <1>1 DEF PushSound
<1>3. ASSUME UNCHANGED pushes PROVE PushSound(q)'
  BY <1>1, <1>3, OthersStaySound DEF pushes
<1>4. ASSUME NEW p \in Pushers, QuietStep(p) PROVE PushSound(q)'
  <2>1. CASE q = p
    BY <1>1, <1>4, <2>1, QuietIsSound
  <2>2. CASE q # p
    BY <1>1, <1>2, <1>4, <2>2, QuietType, OthersStaySound
  <2>. QED
    BY <2>1, <2>2
<1>5. ASSUME NEW p \in Pushers, UploadPacks(p) PROVE PushSound(q)'
  <2>1. CASE q = p
    BY <1>1, <1>5, <2>1, UploadIsSound
  <2>2. CASE q # p
    BY <1>1, <1>5, <2>2, UploadType, OthersStaySound DEF UploadPacks
  <2>. QED
    BY <2>1, <2>2
<1>6. ASSUME NEW p \in Pushers, PutManifest(p) PROVE PushSound(q)'
  <2>1. CASE q = p
    BY <1>1, <1>6, <2>1, PutManifestIsSound
  <2>2. CASE q # p
    BY <1>1, <1>6, <2>2, PutManifestType, OthersStaySound DEF PutManifest
  <2>. QED
    BY <2>1, <2>2
<1>7. ASSUME NEW p \in Pushers, StoreCas(p) PROVE PushSound(q)'
  <2>1. CASE q = p
    BY <1>1, <1>7, <2>1, CasIsSound
  <2>2. CASE q # p
    <3>1. /\ wire' = wire \ {p} /\ UNCHANGED <<ask, reply>> /\ push'[q] = push[q]
          /\ applied' \in {applied, applied \cup {p}}
      BY <1>1, <1>2, <1>7, <2>2, CasEffect, CasType DEF CasWon, CasMissed
    <3>. QED
      BY <1>1, <2>2, <3>1, OthersStaySound
  <2>. QED
    BY <2>1, <2>2
<1>8. ASSUME NEW a \in Announcers, QuietAnnounce(a) \/ SendSeed(a) \/ StoreSeed(a)
      PROVE  UNCHANGED pushes
  BY <1>8, AnnounceKeepsStore DEF SendSeed, StoreSeed
<1>9. CASE UNCHANGED vars
  BY <1>3, <1>9 DEF vars
<1>. QED
  BY <1>3, <1>4, <1>5, <1>6, <1>7, <1>8, <1>9, StepKinds

--------------------------------------------------------------------------------
(* The theorems. *)

LEMMA GitInit == Init => GitInv
<1>. SUFFICES ASSUME Init PROVE GitInv
  OBVIOUS
<1>1. PICK first \in Start : Holds(first)
  BY DEF Init
<1>2. /\ manifests \in Seq(Manifests) /\ pointer \in 0..Len(manifests)
      /\ published \in Seq(1..Len(manifests)) /\ latest \in 0..Len(manifests)
      /\ packs \subseteq SUBSET Commits /\ reserved \in BOOLEAN
      /\ ManifestsSound /\ ManifestsDistinct /\ HistorySound /\ NotifiedWasPublished
  <2>1. CASE first = NoRefs
    <3>1. /\ pointer = 0 /\ manifests = <<>> /\ packs = {} /\ published = <<>> /\ latest = 0
          /\ reserved \in BOOLEAN
      BY <1>1, <2>1, Zenon DEF Holds
    <3>2. manifests \in Seq(Manifests) /\ published \in Seq(1..Len(manifests)) /\ Len(manifests) = 0
      BY <3>1
    <3>3. ManifestsSound /\ ManifestsDistinct /\ HistorySound /\ NotifiedWasPublished
      BY <3>1, <3>2 DEF ManifestsSound, ManifestsDistinct, HistorySound, NotifiedWasPublished
    <3>4. /\ pointer \in 0..Len(manifests) /\ latest \in 0..Len(manifests)
          /\ packs \subseteq SUBSET Commits
      BY <3>1, <3>2
    <3>. QED
      BY <3>1, <3>2, <3>3, <3>4, Zenon
  <2>2. CASE first # NoRefs
    <3>. DEFINE m == FirstManifest(first)
                all == Reach(Tips(first))
    <3>1. /\ pointer = 1 /\ manifests = <<m>> /\ published = <<1>> /\ packs = {all}
          /\ reserved = TRUE /\ latest = 1
      BY <1>1, <2>2, Zenon DEF Holds
    <3>2. first \in [Refs -> Values] /\ first[MainRef] \in Commits
      BY <2>2, GitConstants
    <3>3. all \subseteq Commits
      BY ReachIsSet
    <3>4. m.refs = first /\ m.head = MainRef /\ m.packs = {all} /\ m.parent = 0
      BY DEF FirstManifest
    <3>5. m \in Manifests
      <4>1. {all} \in SUBSET SUBSET Commits
        BY <3>3
      <4>2. m = [refs |-> first, head |-> MainRef, packs |-> {all}, parent |-> 0]
        BY DEF FirstManifest
      <4>. HIDE DEF m, all
      <4>. QED
        BY <3>2, <4>1, <4>2, GitConstants DEF Manifests
    <3>6. Cloneable(m, packs)
      <4>1. Cardinality({all}) = 1
        BY FS_Singleton
      <4>2. Cardinality(m.packs) <= MaxPacks
        BY <3>4, <4>1, GitConstants
      <4>3. m.refs[m.head] # NoCommit
        BY <3>2, <3>4, GitConstants
      <4>4. Reach(Tips(m.refs)) \subseteq UNION m.packs /\ m.packs \subseteq packs
        BY <3>1, <3>4
      <4>. QED
        BY <4>2, <4>3, <4>4 DEF Cloneable
    <3>. HIDE DEF m, all
    <3>7. /\ manifests \in Seq(Manifests) /\ Len(manifests) = 1 /\ manifests[1] = m
          /\ Len(published) = 1 /\ published[1] = 1 /\ published # <<>>
      BY <3>1, <3>5
    <3>8. published \in Seq(1..Len(manifests))
      BY <3>1, <3>7
    <3>9. ManifestsSound /\ ManifestsDistinct /\ HistorySound
      BY <3>1, <3>4, <3>6, <3>7 DEF ManifestsSound, ManifestsDistinct, HistorySound
    <3>10. NotifiedWasPublished
      BY <3>1, <3>7, <3>8 DEF NotifiedWasPublished, Range
    <3>11. /\ pointer \in 0..Len(manifests) /\ latest \in 0..Len(manifests)
           /\ packs \subseteq SUBSET Commits
      BY <3>1, <3>3, <3>7
    <3>. QED
      BY <3>1, <3>7, <3>8, <3>9, <3>10, <3>11, Zenon
  <2>. QED
    BY <2>1, <2>2
<1>. USE DEF Init
<1>4. TypeOK
  <2>2. push \in [Pushers -> PushStates]
    <3>1. Idle \in PushStates
      BY <1>2, IdleType
    <3>. QED
      BY <3>1
  <2>3. announce \in [Announcers -> AnnounceStates]
    BY DEF AnnounceStates
  <2>4. /\ ask \in [Pushers -> {NoUpdate} \cup Updates]
        /\ reply \in [Pushers -> {"none", "ok", "partial", "refused", "error"}]
    OBVIOUS
  <2>5. applied \subseteq Pushers /\ wire \subseteq Pushers
    OBVIOUS
  <2>. QED
    BY <1>2, <2>2, <2>3, <2>4, <2>5, Zenon DEF TypeOK
<1>5. \A a \in Announcers : SeedSound(a)
  BY DEF SeedSound
<1>3. ASSUME NEW p \in Pushers PROVE PushSound(p)
  <2>1. push[p] = Idle /\ ask[p] = NoUpdate /\ reply[p] = "none"
    OBVIOUS
  <2>2. push[p].pc = "idle" /\ push[p].resp = "none"
    BY <2>1 DEF Idle
  <2>. QED
    BY <2>1, <2>2 DEF PushSound, BeforeCas, Conversation, Prepared, InTransit, Response
<1>. QED
  BY <1>2, <1>3, <1>4, <1>5 DEF GitInv

LEMMA GitStep == GitInv /\ [Next]_vars => GitInv'
  BY TypeStep, ManifestsStep, DistinctStep, HistoryStep, PushesStep, AnnouncesStep DEF GitInv

\* The combination of the invariants that is inductive.
THEOREM GitInvariant == Spec => []GitInv
  BY GitInit, GitStep, PTL DEF Spec

\* Every variable of the publication keeps its type; in particular the pointer,
\* the history and the newest event name stored manifests only.
THEOREM TypeCorrect == Spec => []TypeOK
<1>1. GitInv => TypeOK
  BY DEF GitInv
<1>. QED
  BY <1>1, GitInvariant, PTL

\* The published manifests form one chain without repetition, however pushes,
\* seeds, lost responses and late writes interleave (put_pointer).
THEOREM HistoryIsLinear == Spec => []OneHistory
<1>1. GitInv => OneHistory
  <2>. SUFFICES ASSUME GitInv PROVE OneHistory
    OBVIOUS
  <2>1. HistorySound /\ TypeOK
    BY DEF GitInv
  <2>2. ASSUME NEW i \in 1..Len(published), NEW j \in 1..Len(published),
               published[i] = published[j]
        PROVE  i = j
    <3>1. published[i] \in Int /\ published[j] \in Int
      BY <2>1 DEF TypeOK
    <3>2. ~(i < j) /\ ~(j < i)
      BY <2>1, <2>2, <3>1 DEF HistorySound
    <3>. QED
      BY <3>2
  <2>. QED
    BY <2>1, <2>2 DEF OneHistory, HistorySound
<1>. QED
  BY <1>1, GitInvariant, PTL

\* Whatever is published can be cloned then and ever after, with and without
\* compaction (capture_pack, capture_compacted_packs, resolve_published_head).
THEOREM PublishedStaysCloneable == Spec => []PublishedCloneable
<1>1. GitInv => PublishedCloneable
  <2>. SUFFICES ASSUME GitInv, NEW i \in 1..Len(published)
                PROVE  Cloneable(manifests[published[i]], packs)
    BY DEF PublishedCloneable, Cloneable
  <2>1. published[i] \in 1..Len(manifests)
    BY DEF GitInv, TypeOK
  <2>. QED
    BY <2>1 DEF GitInv, ManifestsSound
<1>. QED
  BY <1>1, GitInvariant, PTL

\* No event announces refs that were only prepared, lost the race or were never
\* written (the fence in front of the kind:30618 event).
THEOREM EventsAreTrue == Spec => []NotifiedWasPublished
<1>1. GitInv => NotifiedWasPublished
  BY DEF GitInv
<1>. QED
  BY <1>1, GitInvariant, PTL

--------------------------------------------------------------------------------
(* The refinement of AtomicRefs. *)

LEMMA RefsStay ==
    ASSUME TypeOK, Grows, UNCHANGED pointer
    PROVE  RefsOf(pointer)' = RefsOf(pointer)
<1>1. pointer \in 0..Len(manifests)
  BY DEF TypeOK
<1>. QED
  BY <1>1, GrownTypes DEF RefsOf

\* A step that touches nothing a client can see.
LEMMA InvisibleStep ==
    ASSUME TypeOK, Grows, UNCHANGED <<pointer, ask, applied, reply>>
    PROVE  UNCHANGED Atomic!vars
  BY RefsStay DEF Atomic!vars

LEMMA AskRefines ==
    ASSUME TypeOK, NEW p \in Pushers, PushSound(p), Ask(p)
    PROVE  Atomic!Ask(p)
<1>1. PICK new \in [Refs -> Values] :
         ask' = [ask EXCEPT ![p] = [old |-> RefsOf(pointer), new |-> new]]
  BY DEF Ask
<1>2. [old |-> RefsOf(pointer), new |-> new] \in Atomic!Updates
  BY RefsOfType DEF TypeOK, Atomic!Updates, Atomic!Values, Values
<1>3. ask[p] = Atomic!NoUpdate /\ reply[p] = "none"
  BY DEF Ask, PushSound, Conversation, NoUpdate, Atomic!NoUpdate
<1>4. UNCHANGED <<pointer, manifests, applied, reply>>
  BY DEF Ask, store
<1>. QED
  BY <1>1, <1>2, <1>3, <1>4 DEF Atomic!Ask, RefsOf

\* The instant a push takes effect is the store's evaluation of the PUT.
LEMMA CasRefines ==
    ASSUME TypeOK, NEW p \in Pushers, PushSound(p), StoreCas(p), CasWon(p)
    PROVE  Atomic!Effect(p)
<1>1. InTransit(p)
  BY DEF PushSound
<1>2. /\ p \in wire /\ pointer = push[p].parent /\ pointer' = push[p].m
      /\ applied' = applied \cup {p} /\ UNCHANGED <<manifests, ask, reply>>
  BY <1>1, CasEffect DEF CasWon, Precondition
<1>3. /\ push[p].m \in 1..Len(manifests)
      /\ Moves(RefsOf(pointer), ask[p], manifests[push[p].m].refs)
      /\ p \notin applied /\ reply[p] \in {"none", "error"}
  BY <1>1, <1>2 DEF InTransit
<1>4. ask[p] # NoUpdate
  <2>1. ask[p] \in Updates
    BY <1>2 DEF PushSound, BeforeCas, Conversation
  <2>. QED
    BY <2>1, UpdateIsNone
<1>5. RefsOf(pointer)' = manifests[push[p].m].refs
  BY <1>2, <1>3 DEF RefsOf, TypeOK
<1>. QED
  BY <1>2, <1>3, <1>4, <1>5 DEF Atomic!Effect, Moves, NoUpdate, Atomic!NoUpdate, Moved,
                                  Atomic!Moved

LEMMA AnswerRefines ==
    ASSUME TypeOK, NEW p \in Pushers, PushSound(p), NEW r \in {"ok", "partial", "refused", "error"},
           Answer(p, r), UNCHANGED <<store, ask, applied>>, push[p].pc # "done",
           r = "ok" => push[p].resp = "won",
           r \in {"partial", "refused"} =>
               push[p].resp = "lost" \/ push[p].pc \notin {"cas", "done"}
    PROVE  Atomic!Reply(p, r)
<1>1. reply[p] = "none" /\ (r = "ok" => p \in applied)
      /\ (r \in {"partial", "refused"} => p \notin applied)
  BY DEF PushSound, BeforeCas, Conversation, Response
<1>2. UNCHANGED RefsOf(pointer)
  BY DEF store, RefsOf
<1>. QED
  BY <1>1, <1>2 DEF Atomic!Reply, Answer

LEMMA StepRefines == GitInv /\ [Next]_vars => [Atomic!Next]_(Atomic!vars)
<1>. SUFFICES ASSUME GitInv, [Next]_vars PROVE Atomic!Next \/ UNCHANGED Atomic!vars
  OBVIOUS
<1>1. TypeOK /\ Grows /\ \A p \in Pushers : PushSound(p) /\ InTransit(p)
  BY EveryStepGrows DEF GitInv, PushSound
<1>2. ASSUME UNCHANGED <<pointer, ask, applied, reply>> PROVE UNCHANGED Atomic!vars
  BY <1>1, <1>2, InvisibleStep
<1>3. ASSUME NEW p \in Pushers, NEW r \in {"ok", "partial", "refused", "error"}, Atomic!Reply(p, r)
      PROVE  Atomic!Next
  BY <1>3 DEF Atomic!Next
<1>4. ASSUME NEW p \in Pushers, QuietStep(p) PROVE Atomic!Next \/ UNCHANGED Atomic!vars
  <2>0. UNCHANGED store
    BY <1>4, QuietKeepsStore
  <2>1. CASE Ask(p)
    <3>1. Atomic!Ask(p)
      BY <1>1, <2>1, AskRefines
    <3>. QED
      BY <3>1 DEF Atomic!Next
  <2>2. CASE Hydrate(p) \/ ReceivePack(p) \/ DropCas(p)
    BY <1>2, <2>2 DEF Hydrate, ReceivePack, DropCas, store
  <2>3. CASE Decline(p) \/ Refuse(p) \/ CasLost(p)
    <3>1. /\ Answer(p, "refused") \/ Answer(p, "partial")
          /\ UNCHANGED <<ask, applied>> /\ push[p].pc # "done"
          /\ push[p].resp = "lost" \/ push[p].pc \notin {"cas", "done"}
      BY <2>3, DeclineAnswers DEF Decline, Refuse, CasLost
    <3>2. Atomic!Reply(p, "refused") \/ Atomic!Reply(p, "partial")
      BY <1>1, <2>0, <3>1, AnswerRefines
    <3>. QED
      BY <1>3, <3>2
  <2>4. CASE Finish(p)
    <3>1. /\ Answer(p, "ok") /\ UNCHANGED <<ask, applied>> /\ push[p].pc # "done"
          /\ push[p].resp = "won"
      BY <2>4 DEF Finish, Fence
    <3>2. Atomic!Reply(p, "ok")
      BY <1>1, <2>0, <3>1, AnswerRefines
    <3>. QED
      BY <1>3, <3>2
  <2>5. CASE FinishFails(p) \/ Fail(p)
    <3>1. Answer(p, "error") /\ UNCHANGED <<ask, applied>> /\ push[p].pc # "done"
      BY <2>5 DEF FinishFails, Fail
    <3>2. Atomic!Reply(p, "error")
      BY <1>1, <2>0, <3>1, AnswerRefines
    <3>. QED
      BY <1>3, <3>2
  <2>. QED
    BY <1>4, <2>1, <2>2, <2>3, <2>4, <2>5 DEF QuietStep
<1>5. ASSUME NEW p \in Pushers, UploadPacks(p) \/ PutManifest(p)
      PROVE  UNCHANGED Atomic!vars
  BY <1>2, <1>5 DEF UploadPacks, PutManifest
<1>6. ASSUME NEW p \in Pushers, StoreCas(p) PROVE Atomic!Next \/ UNCHANGED Atomic!vars
  <2>1. CASE CasWon(p)
    <3>1. Atomic!Effect(p)
      BY <1>1, <1>6, <2>1, CasRefines
    <3>. QED
      BY <3>1 DEF Atomic!Next
  <2>2. CASE CasMissed(p)
    BY <1>1, <1>2, <1>6, <2>2, CasEffect DEF CasMissed
  <2>. QED
    BY <1>1, <1>6, <2>1, <2>2, CasEffect
<1>7. ASSUME NEW a \in Announcers, QuietAnnounce(a) PROVE UNCHANGED Atomic!vars
  BY <1>2, <1>7, AnnounceKeepsStore DEF store, pushes
<1>8. ASSUME NEW a \in Announcers, SendSeed(a) \/ StoreSeed(a) PROVE UNCHANGED Atomic!vars
  <2>1. UNCHANGED <<ask, applied, reply>>
    BY <1>8 DEF SendSeed, StoreSeed, pushes
  <2>2. CASE UNCHANGED pointer
    BY <1>2, <2>1, <2>2
  <2>3. CASE StoreSeed(a) /\ pointer' # pointer
    <3>1. PICK d \in 1..Len(manifests) :
             manifests[d] = EmptyManifest /\ pointer = 0 /\ pointer' = d /\ UNCHANGED manifests
      BY <1>1, <2>3, StoreSeedEffect
    <3>2. RefsOf(pointer) = NoRefs /\ RefsOf(pointer)' = NoRefs
      BY <3>1 DEF RefsOf, EmptyManifest
    <3>. QED
      BY <2>1, <3>2 DEF Atomic!vars
  <2>. QED
    BY <1>8, <2>2, <2>3 DEF SendSeed
<1>9. CASE UNCHANGED vars
  BY <1>2, <1>9 DEF vars, store, pushes
<1>. QED
  BY <1>4, <1>5, <1>6, <1>7, <1>8, <1>9, StepKinds

\* The lock-free protocol over an object store implements one compare-and-swap
\* of several refs per push: an update takes effect at most once, of all its refs
\* at one instant, "ok" of every ref means that it did, and a refusal, of every
\* ref or of some, that none of it ever will (cas_publish, finalize_push).
THEOREM PublicationIsAtomic == Spec => ImplementsAtomicRefs
<1>1. Init => Atomic!Init
  <2>. SUFFICES ASSUME Init PROVE Atomic!Init
    OBVIOUS
  <2>1. RefsOf(pointer) \in [Refs -> Values]
    BY GitInit, RefsOfType DEF GitInv, TypeOK
  <2>. QED
    BY <2>1 DEF Init, Atomic!Init, NoUpdate, Atomic!NoUpdate, Values, Atomic!Values
<1>. QED
  BY <1>1, GitInvariant, StepRefines, PTL DEF Spec, ImplementsAtomicRefs, Atomic!Spec
===============================================================================
