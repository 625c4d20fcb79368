------------------------ MODULE CommunityDeletionProofs ------------------------
(***************************************************************************)
(* The safety invariants of CommunityDeletion for every number of          *)
(* executors, writers, keys, requests, retries and faults.                 *)
(***************************************************************************)
EXTENDS CommunityDeletion, TLAPS

(* The inductive invariant. *)

\* The stage of the request and the state of the community move together.
Lifecycle ==
    /\ request.stage \in {"submitted", "inventoried", "aborted"} =>
          community.state = "active"
    /\ request.stage = "approved" => community.state \in {"active", "quiescing"}
    /\ request.stage \in {"fenced", "drained", "bindings_removed"} =>
          community.state = "fenced"
    /\ request.stage \in {"postgres_purged", "cache_purged", "logically_verified",
                          "retention_pending"} => community.state = "tombstone"

\* A request raises the fence generation twice at most: by its fence and by
\* its abort.
FenceCount ==
    /\ request.stage = "aborted" => community.gen <= 2 * request.id
    /\ request.stage \in {"submitted", "inventoried", "approved"} =>
          request.id > 0 /\ community.gen + 2 <= 2 * request.id
    /\ request.stage \notin {"submitted", "inventoried", "approved", "aborted"} =>
          request.id > 0 /\ community.gen + 1 <= 2 * request.id

\* No write is admitted or under a live lease behind the fence.
FencedIsDrained == community.state \in {"fenced", "tombstone"} => WritesDrained

\* Deletes are sent, and objects lost, only from the point of no return.
Destroying == {"drained", "bindings_removed", "postgres_purged", "cache_purged",
               "logically_verified", "retention_pending"}
DestroyedLate == removed # {} \/ deletes # {} => request.stage \in Destroying

\* The archive flag is the users' own until the request has saved it.
ArchiveSaved ==
    /\ community.state = "active" => community.archived = WasArchived
    /\ community.state # "active" => request.quiesced
    /\ request.quiesced => request.pre = WasArchived

\* Nothing is stamped before deletion begins.
StampedLate ==
    request.stage \in {"submitted", "inventoried", "approved", "fenced"} => stamped = {}

\* No key list is frozen before the fence.
FrozenLate ==
    request.stage \in {"submitted", "inventoried", "approved"} => ~request.frozen

\* What the executor that holds the claim has established so far.
ScanIsSound(e) ==
    Owns(e) /\ request.stage = "fenced" /\ exec[e].pc = "scanning" =>
        objects \cap exec[e].scanned \subseteq exec[e].found \cup late
AckIsSound(e) ==
    Owns(e) /\ request.stage = "drained" /\ exec[e].pc = "deleting" /\ exec[e].acked =>
        objects \cap exec[e].chunk \subseteq late
AbsenceIsSound(e) ==
    Owns(e) /\ request.stage = "cache_purged" /\ exec[e].pc = "listing" =>
        objects \cap exec[e].scanned \subseteq unseen
ScanStartsEmpty(e) == exec[e].pc \notin {"scanning", "listing"} => exec[e].scanned = {}

HolderIsSound ==
    \A e \in Executors :
        ScanIsSound(e) /\ AckIsSound(e) /\ AbsenceIsSound(e) /\ ScanStartsEmpty(e)

DeletionInv ==
    /\ TypeOK /\ Lifecycle /\ FenceCount /\ FencedIsDrained
    /\ DestroyedLate /\ ArchiveSaved /\ StampedLate /\ FrozenLate
    /\ HolderIsSound
    /\ FrozenIsComplete /\ VerifiedIsGone /\ PurgedStaysEmpty

--------------------------------------------------------------------------------
(* What each kind of step leaves alone. *)

OperatorStep == Submit \/ Prepare \/ Abort \/ Unblock \/ BlockUnclaimed \/ ClaimExpires

\* Steps about the claim itself.
ClaimStep(e) ==
    \/ Claim(e) \/ Begin(e) \/ GiveUp(e) \/ NotDrained(e) \/ \E k \in Keys : StillPresent(e, k)
    \/ TransientError(e) \/ PermanentError(e) \/ Stop(e)

\* Steps that advance the request and touch neither keys nor objects.
StageStep(e) ==
    \/ Quiesce(e) \/ Fence(e) \/ Disconnect(e) \/ FreezeManifest(e) \/ MarkDrained(e)
    \/ MarkBindingsRemoved(e) \/ PurgeCache(e) \/ MarkRetentionPending(e)

\* Steps on keys, objects and rows.
DataStep(e) ==
    \/ ClearChunks(e) \/ SendDelete(e) \/ StampChunk(e) \/ PurgePostgres(e)
    \/ VerifyRows(e) \/ MarkVerified(e)
    \/ \E k \in Keys : ScanKey(e, k) \/ Delete(e, k) \/ ListPrefix(e, k)

LEMMA StepKinds ==
    [Next]_vars => \/ \E w \in Writers : ServingStep(w)
                   \/ WriteRow \/ OperatorStep
                   \/ \E e \in Executors : ClaimStep(e) \/ StageStep(e) \/ DataStep(e)
                   \/ UNCHANGED vars
  BY DEF Next, Progress, OperatorStep, ClaimStep, StageStep, DataStep

LEMMA ServingFrame ==
    ASSUME NEW w \in Writers, ServingStep(w)
    PROVE  UNCHANGED <<community, request, chunks, stamped, exec, deletes, removed, faults>>
  BY DEF ServingStep, Acquire, SendPut, SeedPointer, Put, PutRow, Finish, DropGuard, LeaseEnds,
         db, relays, history

LEMMA WriteRowFrame ==
    ASSUME WriteRow
    PROVE  UNCHANGED <<community, request, chunks, stamped, exec, deletes, serving, lease,
                       objects, removed, late, unseen, faults>>
  BY DEF WriteRow, db, relays, history

LEMMA OperatorFrame ==
    ASSUME OperatorStep
    PROVE  UNCHANGED <<exec, deletes, serving, lease, objects, rows, removed, unseen>>
  BY DEF OperatorStep, Submit, Prepare, Abort, Unblock, BlockUnclaimed, ClaimExpires,
         relays, history

LEMMA ClaimFrame ==
    ASSUME NEW e \in Executors, ClaimStep(e)
    PROVE  UNCHANGED <<community, chunks, stamped, deletes, serving, lease, objects, rows,
                       removed, late, unseen>>
  BY DEF ClaimStep, Claim, Begin, GiveUp, NotDrained, StillPresent, TransientError,
         PermanentError, Stop, Retry, db, external, relays, history

LEMMA StageFrame ==
    ASSUME NEW e \in Executors, StageStep(e)
    PROVE  UNCHANGED <<chunks, stamped, deletes, serving, lease, objects, rows, removed,
                       late, unseen, faults>>
  BY DEF StageStep, Quiesce, Fence, Disconnect, FreezeManifest, MarkDrained,
         MarkBindingsRemoved, PurgeCache, MarkRetentionPending, db, external, relays, history

LEMMA DataFrame ==
    ASSUME NEW e \in Executors, DataStep(e)
    PROVE  UNCHANGED <<serving, lease, faults>>
  BY DEF DataStep, ClearChunks, SendDelete, StampChunk, PurgePostgres, VerifyRows, ListPrefix,
         MarkVerified, ScanKey, Delete, db, external, relays, history

--------------------------------------------------------------------------------
(* Who holds the claim. *)

\* The request stays where it is.
Unmoved ==
    /\ request'.id = request.id /\ request'.stage = request.stage
    /\ request'.frozen = request.frozen /\ request'.fence = request.fence
    /\ request'.quiesced = request.quiesced /\ request'.pre = request.pre

LEMMA RetryKeeps ==
    ASSUME TypeOK, NEW e \in Executors, Retry(e)
    PROVE  /\ Unmoved /\ request'.owner = NoExecutor
           /\ exec' = [exec EXCEPT ![e] = Resting]
  BY DEF Retry, Unmoved, TypeOK, Requests

\* A step about the claim moves the executor to a fresh start, and leaves what
\* the others hold.
LEMMA ClaimKeeps ==
    ASSUME TypeOK, NEW e \in Executors, ClaimStep(e)
    PROVE  /\ Unmoved
           /\ request'.owner \in {request.owner, e, NoExecutor}
           /\ \A x \in Executors \ {e} :
                 exec'[x] = exec[x] /\ (Owns(x)' => Owns(x))
           /\ exec'[e].pc \notin {"scanning", "deleting", "listing"}
           /\ exec'[e].scanned = {}
<1>. USE DeletionConstants
<1>1. CASE Claim(e)
  BY <1>1 DEF Claim, Unmoved, TypeOK, Requests, Resting, Owns
<1>2. CASE Begin(e)
  BY <1>2 DEF Begin, db, Unmoved, TypeOK, Requests, Resting, Owns, Runnable
<1>3. CASE GiveUp(e)
  BY <1>3 DEF GiveUp, db, Unmoved, TypeOK, Resting, Owns
<1>4. CASE NotDrained(e) \/ (\E k \in Keys : StillPresent(e, k)) \/ TransientError(e)
  <2>1. Retry(e)
    BY <1>4 DEF NotDrained, StillPresent, TransientError
  <2>. QED
    BY <2>1, RetryKeeps DEF TypeOK, Resting, Owns
<1>5. CASE PermanentError(e)
  BY <1>5 DEF PermanentError, Unmoved, TypeOK, Requests, Resting, Owns
<1>6. CASE Stop(e)
  BY <1>6 DEF Stop, Unmoved, TypeOK, Requests, Resting, Owns
<1>. QED
  BY <1>1, <1>2, <1>3, <1>4, <1>5, <1>6 DEF ClaimStep

\* No operator gives a claim to anyone.
LEMMA OperatorKeeps ==
    ASSUME TypeOK, OperatorStep, NEW x \in Executors
    PROVE  Owns(x)' => Owns(x)
<1>. USE DeletionConstants DEF TypeOK, Requests, Owns
<1>1. CASE Submit
  BY <1>1 DEF Submit, Submitted
<1>2. CASE Prepare
  BY <1>2 DEF Prepare
<1>3. CASE Abort
  BY <1>3 DEF Abort
<1>4. CASE Unblock
  BY <1>4 DEF Unblock
<1>5. CASE BlockUnclaimed
  BY <1>5 DEF BlockUnclaimed
<1>6. CASE ClaimExpires
  BY <1>6 DEF ClaimExpires
<1>. QED
  BY <1>1, <1>2, <1>3, <1>4, <1>5, <1>6 DEF OperatorStep

\* A step of a stage is taken under the claim, which no other executor has.
LEMMA StageKeeps ==
    ASSUME TypeOK, NEW e \in Executors, StageStep(e)
    PROVE  /\ Owns(e) /\ request.stage \in Runnable
           /\ request'.id = request.id
           /\ request'.owner \in {request.owner, NoExecutor}
           /\ \A x \in Executors \ {e} : exec'[x] = exec[x] /\ ~Owns(x)'
           /\ exec'[e].pc \notin {"scanning", "deleting", "listing"}
           /\ exec[e].scanned = {} \/ exec[e].pc = "scanning" => exec'[e].scanned = {}
           /\ exec[e].pc # "listing"
<1>. USE DeletionConstants DEF TypeOK, Requests, Owns, VerifyLease, VerifyFence, Runnable
<1>1. CASE Quiesce(e)
  BY <1>1 DEF Quiesce, At, ExecStates
<1>2. CASE Fence(e)
  BY <1>2 DEF Fence, ToTop, Resting
<1>3. CASE Disconnect(e)
  BY <1>3 DEF Disconnect, db, ExecStates
<1>4. CASE FreezeManifest(e)
  BY <1>4 DEF FreezeManifest, ExecStates
<1>5. CASE MarkDrained(e)
  BY <1>5 DEF MarkDrained, Advance, ToTop, Resting
<1>6. CASE MarkBindingsRemoved(e)
  BY <1>6 DEF MarkBindingsRemoved, Advance, ToTop, Resting
<1>7. CASE PurgeCache(e)
  BY <1>7 DEF PurgeCache, Advance, ToTop, Resting
<1>8. CASE MarkRetentionPending(e)
  BY <1>8 DEF MarkRetentionPending, Resting
<1>. QED
  BY <1>1, <1>2, <1>3, <1>4, <1>5, <1>6, <1>7, <1>8 DEF StageStep

--------------------------------------------------------------------------------
(* Types. *)

LEMMA RetryType ==
    ASSUME TypeOK, NEW e \in Executors, Retry(e), Busy(e)
    PROVE  request' \in Requests /\ (request'.blocked \/ request'.retries < RetryLimit)
<1>. DEFINE s == StageOf(e)
            n == IF request.failed = s
                 THEN IF request.retries < RetryLimit THEN request.retries + 1 ELSE RetryLimit
                 ELSE 1
            x == Exhausted(n)
<1>1. s \in Runnable /\ request \in Requests
  BY DEF TypeOK, ExecStates, StageOf, Busy, Runnable
<1>2. n \in 1..RetryLimit
  BY <1>1, DeletionConstants DEF Requests
<1>3. request' = [request EXCEPT !.retries = n, !.failed = s, !.blocked = x,
                                 !.owner = NoExecutor, !.live = FALSE]
  BY DEF Retry
<1>4. x \in BOOLEAN /\ (x <=> n >= RetryLimit)
  BY DEF Exhausted
<1>. HIDE DEF s, n, x
<1>5. n \in 0..RetryLimit /\ (x \/ n < RetryLimit)
  BY <1>2, <1>4, DeletionConstants
<1>. QED
  BY <1>1, <1>3, <1>4, <1>5 DEF Requests

LEMMA CommunityType ==
    ASSUME TypeOK, FenceCount, [Next]_vars
    PROVE  community' \in Communities
<1>1. CASE Abort
  <2>. DEFINE g == community.gen + 1
              f == IF request.quiesced THEN request.pre ELSE community.archived
  <2>1. g \in Generations /\ f \in BOOLEAN
    BY <1>1, DeletionConstants
       DEF Abort, Abortable, TypeOK, FenceCount, Communities, Requests, Generations
  <2>2. community' = [state |-> "active", gen |-> g, archived |-> f]
    BY <1>1 DEF Abort
  <2>. HIDE DEF g, f
  <2>. QED
    BY <2>1, <2>2 DEF Communities
<1>2. ASSUME NEW e \in Executors, Quiesce(e) PROVE community' \in Communities
  BY <1>2 DEF Quiesce, TypeOK, Communities
<1>3. ASSUME NEW e \in Executors, Fence(e) PROVE community' \in Communities
  <2>. DEFINE g == community.gen + 1
  <2>1. g \in Generations
    BY <1>3, DeletionConstants
       DEF Fence, VerifyLease, TypeOK, FenceCount, Communities, Requests, Generations
  <2>2. community' = [community EXCEPT !.state = "fenced", !.gen = g]
    BY <1>3 DEF Fence, TypeOK, Communities
  <2>. HIDE DEF g
  <2>. QED
    BY <2>1, <2>2 DEF Communities, TypeOK
<1>4. ASSUME NEW e \in Executors, PurgePostgres(e) PROVE community' \in Communities
  BY <1>4 DEF PurgePostgres, TypeOK, Communities
<1>5. CASE UNCHANGED community
  BY <1>5 DEF TypeOK
<1>6. ASSUME NEW e \in Executors, StageStep(e), ~Quiesce(e), ~Fence(e)
      PROVE  UNCHANGED community
  BY <1>6 DEF StageStep, Disconnect, FreezeManifest, MarkDrained, MarkBindingsRemoved,
              PurgeCache, MarkRetentionPending, db
<1>7. ASSUME NEW e \in Executors, DataStep(e), ~PurgePostgres(e)
      PROVE  UNCHANGED community
  BY <1>7 DEF DataStep, ClearChunks, SendDelete, StampChunk, VerifyRows, ListPrefix, MarkVerified,
              ScanKey, Delete, db
<1>8. ASSUME OperatorStep, ~Abort PROVE UNCHANGED community
  BY <1>8 DEF OperatorStep, Submit, Prepare, Unblock, BlockUnclaimed, ClaimExpires
<1>. QED
  BY <1>1, <1>2, <1>3, <1>4, <1>5, <1>6, <1>7, <1>8, StepKinds, ServingFrame,
     WriteRowFrame, ClaimFrame DEF vars, db

LEMMA RequestType ==
    ASSUME TypeOK, FenceCount, [Next]_vars
    PROVE  request' \in Requests /\ (request'.blocked \/ request'.retries < RetryLimit)
<1>. DEFINE Goal == request' \in Requests /\ (request'.blocked \/ request'.retries < RetryLimit)
<1>0. 0 \in 0..RetryLimit /\ 0 < RetryLimit
  BY DeletionConstants
<1>1. CASE Submit
  <2>1. /\ "submitted" \in Stages /\ 0 \in Generations /\ 0 \in 0..RetryLimit
        /\ request.id + 1 \in 0..MaxRequests
    BY <1>0, <1>1, DeletionConstants DEF Submit, TypeOK, Requests, Stages, Generations
  <2>. QED
    BY <1>0, <1>1, <2>1 DEF Submit, Submitted, Requests
<1>2. CASE Prepare
  <2>. DEFINE s == IF request.stage = "submitted" THEN "inventoried" ELSE "approved"
  <2>1. s \in Stages /\ request \in Requests
    BY DEF Stages, Runnable, TypeOK
  <2>2. request' = [request EXCEPT !.stage = s]
    BY <1>2, <2>1 DEF Prepare, Requests
  <2>. HIDE DEF s
  <2>. QED
    BY <2>1, <2>2 DEF Requests, TypeOK
<1>3. CASE Abort
  <2>. DEFINE g == community.gen + 1
  <2>1. g \in Generations
    BY <1>3, DeletionConstants DEF Abort, Abortable, TypeOK, FenceCount, Communities, Requests, Generations
  <2>2. request' = [request EXCEPT !.stage = "aborted", !.fence = g,
                     !.owner = NoExecutor, !.live = FALSE, !.blocked = FALSE,
                     !.retries = 0, !.failed = "none"]
    BY <1>3 DEF Abort
  <2>3. "aborted" \in Stages /\ request \in Requests
    BY DEF Stages, TypeOK
  <2>. HIDE DEF g
  <2>. QED
    BY <1>0, <2>1, <2>2, <2>3 DEF Requests
<1>4. CASE Unblock \/ BlockUnclaimed \/ ClaimExpires
  BY <1>0, <1>4 DEF Unblock, BlockUnclaimed, ClaimExpires, TypeOK, Requests
<1>5. ASSUME NEW e \in Executors, ClaimStep(e) PROVE Goal
  <2>1. CASE Claim(e)
    BY <2>1 DEF Claim, TypeOK, Requests
  <2>2. CASE Begin(e) \/ GiveUp(e)
    BY <2>2 DEF Begin, GiveUp, db, TypeOK
  <2>3. CASE NotDrained(e) \/ (\E k \in Keys : StillPresent(e, k)) \/ TransientError(e)
    BY <2>3, RetryType DEF NotDrained, StillPresent, TransientError, Busy
  <2>4. CASE PermanentError(e)
    BY <2>4 DEF PermanentError, TypeOK, Requests
  <2>5. CASE Stop(e)
    BY <2>5 DEF Stop, TypeOK, Requests
  <2>. HIDE DEF Goal
  <2>. QED
    BY <1>5, <2>1, <2>2, <2>3, <2>4, <2>5 DEF ClaimStep
<1>6. ASSUME NEW e \in Executors, Quiesce(e) PROVE Goal
  <2>. DEFINE f == Saved
  <2>1. f \in BOOLEAN
    BY DEF Saved, TypeOK, Requests, Communities
  <2>2. request' = [request EXCEPT !.pre = f, !.quiesced = TRUE]
    BY <1>6 DEF Quiesce
  <2>. HIDE DEF f
  <2>. QED
    BY <2>1, <2>2 DEF TypeOK, Requests
<1>7. ASSUME NEW e \in Executors, Fence(e) PROVE Goal
  <2>. DEFINE g == community.gen + 1
  <2>1. g \in Generations
    BY <1>7, DeletionConstants
       DEF Fence, VerifyLease, TypeOK, FenceCount, Communities, Requests, Generations
  <2>2. request' = [request EXCEPT !.stage = "fenced", !.fence = g,
                     !.retries = 0, !.failed = "none"]
    BY <1>7 DEF Fence
  <2>3. "fenced" \in Stages /\ request \in Requests
    BY DEF Stages, Runnable, TypeOK
  <2>. HIDE DEF g
  <2>. QED
    BY <1>0, <2>1, <2>2, <2>3 DEF Requests
<1>8. ASSUME NEW e \in Executors, NEW s \in Runnable, Advance(e, s) PROVE Goal
  <2>1. s \in Stages /\ request \in Requests
    BY DEF Stages, TypeOK
  <2>2. request' = [request EXCEPT !.stage = s, !.retries = 0, !.failed = "none"]
    BY <1>8 DEF Advance
  <2>. QED
    BY <1>0, <2>1, <2>2 DEF Requests
<1>9. ASSUME NEW e \in Executors, StageStep(e) PROVE Goal
  <2>1. CASE Disconnect(e) \/ FreezeManifest(e)
    BY <2>1 DEF Disconnect, FreezeManifest, db, TypeOK, Requests
  <2>2. CASE MarkRetentionPending(e)
    <3>1. "retention_pending" \in Stages /\ request \in Requests
      BY DEF Stages, TypeOK
    <3>. QED
      BY <1>0, <2>2, <3>1 DEF MarkRetentionPending, Requests
  <2>3. CASE MarkDrained(e) \/ MarkBindingsRemoved(e) \/ PurgeCache(e)
    BY <2>3, <1>8 DEF MarkDrained, MarkBindingsRemoved, PurgeCache, Runnable
  <2>. HIDE DEF Goal
  <2>. QED
    BY <1>6, <1>7, <1>9, <2>1, <2>2, <2>3 DEF StageStep
<1>10. ASSUME NEW e \in Executors, DataStep(e) PROVE Goal
  <2>1. CASE PurgePostgres(e) \/ MarkVerified(e)
    BY <2>1, <1>8 DEF PurgePostgres, MarkVerified, Runnable
  <2>2. CASE UNCHANGED request
    BY <2>2 DEF TypeOK
  <2>. QED
    BY <1>10, <2>1, <2>2 DEF DataStep, ClearChunks, SendDelete, StampChunk, VerifyRows, ListPrefix,
                             ScanKey, Delete, db
<1>11. CASE UNCHANGED request
  BY <1>11 DEF TypeOK
<1>. QED
  BY <1>1, <1>2, <1>3, <1>4, <1>5, <1>9, <1>10, <1>11, StepKinds, ServingFrame,
     WriteRowFrame DEF OperatorStep, vars, db

LEMMA ExecType ==
    ASSUME TypeOK, [Next]_vars
    PROVE  exec' \in [Executors -> ExecStates]
<1>. DEFINE Goal == exec' \in [Executors -> ExecStates]
<1>0. Resting \in ExecStates
  BY DeletionConstants DEF Resting, ExecStates, Generations
<1>1. ASSUME NEW e \in Executors, ClaimStep(e) PROVE Goal
  <2>1. CASE Claim(e)
    BY <1>0, <2>1 DEF Claim, TypeOK, ExecStates, Requests
  <2>2. CASE Begin(e)
    BY <1>0, <2>2 DEF Begin, TypeOK, ExecStates, Requests
  <2>3. CASE exec' = [exec EXCEPT ![e] = Resting]
    BY <1>0, <2>3 DEF TypeOK
  <2>. QED
    BY <1>1, <2>1, <2>2, <2>3
       DEF ClaimStep, GiveUp, NotDrained, StillPresent, TransientError, PermanentError,
           Stop, Retry
<1>2. ASSUME NEW e \in Executors, ToTop(e) PROVE Goal
  BY <1>0, <1>2 DEF ToTop, TypeOK, ExecStates
<1>3. ASSUME NEW e \in Executors, StageStep(e) PROVE Goal
  <2>1. CASE Quiesce(e)
    BY <2>1 DEF Quiesce, At, TypeOK, ExecStates
  <2>2. CASE Disconnect(e)
    <3>1. PICK l \in {"marking", "clearing"} :
             exec' = [exec EXCEPT ![e].pc = l, ![e].frozen = FALSE]
      BY <2>2 DEF Disconnect
    <3>. DEFINE r == [exec[e] EXCEPT !.pc = l, !.frozen = FALSE]
    <3>2. r \in ExecStates
      BY DEF TypeOK, ExecStates
    <3>3. exec' = [exec EXCEPT ![e] = r]
      BY <3>1
    <3>. HIDE DEF r
    <3>. QED
      BY <3>2, <3>3 DEF TypeOK
  <2>3. CASE FreezeManifest(e)
    <3>. DEFINE r == [exec[e] EXCEPT !.pc = "marking", !.scanned = {}, !.found = {}]
    <3>1. r \in ExecStates
      BY DEF TypeOK, ExecStates
    <3>2. exec' = [exec EXCEPT ![e] = r]
      BY <2>3 DEF FreezeManifest
    <3>. HIDE DEF r
    <3>. QED
      BY <3>1, <3>2 DEF TypeOK
  <2>4. CASE MarkRetentionPending(e)
    BY <1>0, <2>4 DEF MarkRetentionPending, TypeOK
  <2>. QED
    BY <1>2, <1>3, <2>1, <2>2, <2>3, <2>4
       DEF StageStep, Fence, MarkDrained, MarkBindingsRemoved, PurgeCache, Advance
<1>4. ASSUME NEW e \in Executors, DataStep(e) PROVE Goal
  <2>1. CASE ClearChunks(e) \/ VerifyRows(e)
    BY <2>1 DEF ClearChunks, VerifyRows, At, TypeOK, ExecStates
  <2>2. CASE SendDelete(e)
    <3>1. PICK k \in Keys : exec' = [exec EXCEPT ![e].pc = "deleting", ![e].chunk = {k},
                                                 ![e].acked = FALSE]
      BY <2>2 DEF SendDelete, TypeOK
    <3>. DEFINE r == [exec[e] EXCEPT !.pc = "deleting", !.chunk = {k}, !.acked = FALSE]
    <3>2. r \in ExecStates
      BY DEF TypeOK, ExecStates
    <3>3. exec' = [exec EXCEPT ![e] = r]
      BY <3>1
    <3>. HIDE DEF r
    <3>. QED
      BY <3>2, <3>3 DEF TypeOK
  <2>3. CASE StampChunk(e)
    BY <2>3 DEF StampChunk, TypeOK, ExecStates, Runnable
  <2>4. ASSUME NEW k \in Keys, ScanKey(e, k) PROVE Goal
    BY <2>4 DEF ScanKey, TypeOK, ExecStates
  <2>5. ASSUME NEW k \in Keys, Delete(e, k) PROVE Goal
    <3>. DEFINE a == exec[e].acked \/ (exec[e].pc = "deleting" /\ exec[e].chunk = {k})
    <3>1. a \in BOOLEAN
      OBVIOUS
    <3>2. exec' = [exec EXCEPT ![e].acked = a]
      BY <2>5 DEF Delete, TypeOK
    <3>. HIDE DEF a
    <3>. QED
      BY <3>1, <3>2 DEF TypeOK, ExecStates
  <2>6. ASSUME NEW k \in Keys, ListPrefix(e, k) PROVE Goal
    BY <2>6 DEF ListPrefix, TypeOK, ExecStates
  <2>. QED
    BY <1>2, <1>4, <2>1, <2>2, <2>3, <2>4, <2>5, <2>6
       DEF DataStep, PurgePostgres, MarkVerified, Advance
<1>5. CASE UNCHANGED exec
  BY <1>5 DEF TypeOK
<1>. QED
  BY <1>1, <1>3, <1>4, <1>5, StepKinds, ServingFrame, WriteRowFrame, OperatorFrame DEF vars

\* The remaining variables.
LEMMA DataType ==
    ASSUME TypeOK, [Next]_vars
    PROVE  /\ (stamped \subseteq chunks)' /\ (chunks \subseteq Keys)'
           /\ (deletes \subseteq Executors \X Keys)'
           /\ serving' \in [Writers -> WriterStates]
           /\ lease' \in [Writers -> {"none", "live", "expired"}]
           /\ (objects \subseteq Keys)' /\ rows' \in BOOLEAN
           /\ (removed \subseteq Keys)' /\ (late \subseteq Keys)' /\ (unseen \subseteq Keys)'
           /\ faults' \in 0..MaxFaults
<1>. DEFINE Goal ==
           /\ (stamped \subseteq chunks)' /\ (chunks \subseteq Keys)'
           /\ (deletes \subseteq Executors \X Keys)'
           /\ serving' \in [Writers -> WriterStates]
           /\ lease' \in [Writers -> {"none", "live", "expired"}]
           /\ (objects \subseteq Keys)' /\ rows' \in BOOLEAN
           /\ (removed \subseteq Keys)' /\ (late \subseteq Keys)' /\ (unseen \subseteq Keys)'
           /\ faults' \in 0..MaxFaults
<1>. USE DeletionConstants DEF TypeOK, db, relays, history, external
<1>1. ASSUME NEW w \in Writers, ServingStep(w) PROVE Goal
  <2>. USE DEF WriterStates
  <2>1. CASE Acquire(w)
    <3>. DEFINE g == community.gen
    <3>1. g \in Generations
      BY DEF Communities
    <3>2. serving' = [serving EXCEPT ![w].pc = "held", ![w].gen = g]
      BY <2>1 DEF Acquire
    <3>. HIDE DEF g
    <3>3. serving' \in [Writers -> WriterStates]
      BY <3>1, <3>2
    <3>. QED
      BY <2>1, <3>3 DEF Acquire
  <2>2. CASE SendPut(w)
    <3>1. PICK k \in Keys : serving' = [serving EXCEPT ![w].pc = "sent", ![w].wire = {k}]
      BY <2>2 DEF SendPut
    <3>. DEFINE r == {k}
    <3>2. r \in SUBSET Keys /\ serving' = [serving EXCEPT ![w].pc = "sent", ![w].wire = r]
      BY <3>1
    <3>. HIDE DEF r
    <3>3. serving' \in [Writers -> WriterStates]
      BY <3>2
    <3>. QED
      BY <2>2, <3>3 DEF SendPut
  <2>3. CASE Put(w)
    BY <2>3 DEF Put
  <2>4. CASE PutRow(w)
    BY <2>4 DEF PutRow
  <2>5. CASE Finish(w) \/ DropGuard(w)
    BY <2>5 DEF Finish, DropGuard, Generations
  <2>6. CASE LeaseEnds(w)
    BY <2>6 DEF LeaseEnds
  <2>7. CASE SeedPointer(w)
    <3>1. PICK k \in Keys : serving' = [serving EXCEPT ![w].pc = "done", ![w].wire = {k}]
      BY <2>7 DEF SeedPointer
    <3>. DEFINE r == {k}
    <3>2. r \in SUBSET Keys /\ serving' = [serving EXCEPT ![w].pc = "done", ![w].wire = r]
      BY <3>1
    <3>. HIDE DEF r
    <3>3. serving' \in [Writers -> WriterStates]
      BY <3>2
    <3>. QED
      BY <2>7, <3>3 DEF SeedPointer
  <2>. QED
    BY <1>1, <2>1, <2>2, <2>3, <2>4, <2>5, <2>6, <2>7 DEF ServingStep
<1>2. CASE WriteRow
  BY <1>2 DEF WriteRow
<1>3. CASE OperatorStep
  <2>1. CASE Submit
    BY <2>1 DEF Submit
  <2>2. CASE Prepare \/ Abort \/ BlockUnclaimed
    BY <2>2 DEF Prepare, Abort, BlockUnclaimed
  <2>3. CASE Unblock \/ ClaimExpires
    BY <2>3 DEF Unblock, ClaimExpires
  <2>. QED
    BY <1>3, <2>1, <2>2, <2>3 DEF OperatorStep
<1>4. ASSUME NEW e \in Executors, ClaimStep(e) PROVE Goal
  <2>1. faults' \in 0..MaxFaults
    BY <1>4 DEF ClaimStep, Claim, Begin, GiveUp, NotDrained, StillPresent, TransientError,
                PermanentError, Stop, Retry
  <2>. QED
    BY <1>4, <2>1, ClaimFrame
<1>5. ASSUME NEW e \in Executors, StageStep(e) PROVE Goal
  BY <1>5, StageFrame
<1>6. ASSUME NEW e \in Executors, DataStep(e) PROVE Goal
  <2>1. CASE ClearChunks(e) \/ MarkVerified(e) \/ VerifyRows(e)
    BY <2>1 DEF ClearChunks, MarkVerified, VerifyRows
  <2>2. CASE SendDelete(e)
    BY <2>2 DEF SendDelete
  <2>3. CASE StampChunk(e)
    BY <2>3 DEF StampChunk
  <2>4. CASE PurgePostgres(e)
    BY <2>4 DEF PurgePostgres
  <2>5. ASSUME NEW k \in Keys, ScanKey(e, k) PROVE Goal
    BY <2>5 DEF ScanKey
  <2>6. ASSUME NEW k \in Keys, Delete(e, k) PROVE Goal
    BY <2>6 DEF Delete
  <2>7. ASSUME NEW k \in Keys, ListPrefix(e, k) PROVE Goal
    BY <2>7 DEF ListPrefix
  <2>. QED
    BY <1>6, <2>1, <2>2, <2>3, <2>4, <2>5, <2>6, <2>7 DEF DataStep
<1>7. CASE UNCHANGED vars
  BY <1>7 DEF vars
<1>. QED
  BY <1>1, <1>2, <1>3, <1>4, <1>5, <1>6, <1>7, StepKinds

LEMMA TypeStep == TypeOK /\ FenceCount /\ [Next]_vars => TypeOK'
  BY CommunityType, RequestType, ExecType, DataType DEF TypeOK

--------------------------------------------------------------------------------
(* The stages. *)

\* Neither the stage of the request nor the community changes.
Settled ==
    /\ request'.id = request.id /\ request'.stage = request.stage
    /\ request'.quiesced = request.quiesced /\ request'.pre = request.pre
    /\ UNCHANGED community

LEMMA StageMoves ==
    ASSUME TypeOK, [Next]_vars
    PROVE  \/ Settled \/ Submit \/ Prepare \/ Abort
           \/ \E e \in Executors :
                \/ Quiesce(e) \/ Fence(e) \/ MarkDrained(e) \/ MarkBindingsRemoved(e)
                \/ PurgePostgres(e) \/ PurgeCache(e) \/ MarkVerified(e)
                \/ MarkRetentionPending(e)
<1>1. ASSUME UNCHANGED <<community, request>> PROVE Settled
  BY <1>1 DEF Settled
<1>2. ASSUME Unblock \/ BlockUnclaimed \/ ClaimExpires PROVE Settled
  BY <1>2 DEF Unblock, BlockUnclaimed, ClaimExpires, Settled, TypeOK, Requests
<1>3. ASSUME NEW e \in Executors, ClaimStep(e) PROVE Settled
  BY <1>3, ClaimKeeps, ClaimFrame DEF Settled, Unmoved
<1>4. ASSUME NEW e \in Executors, Disconnect(e) \/ FreezeManifest(e) PROVE Settled
  BY <1>4 DEF Disconnect, FreezeManifest, db, Settled, TypeOK, Requests
<1>5. ASSUME NEW e \in Executors, DataStep(e), ~PurgePostgres(e), ~MarkVerified(e)
      PROVE  UNCHANGED <<community, request>>
  BY <1>5 DEF DataStep, ClearChunks, SendDelete, StampChunk, VerifyRows, ListPrefix, ScanKey, Delete, db
<1>. QED
  BY <1>1, <1>2, <1>3, <1>4, <1>5, StepKinds, ServingFrame, WriteRowFrame
     DEF OperatorStep, StageStep, vars, db

\* The stages a step of the request leads from and to.
LEMMA StageEffect ==
    ASSUME TypeOK, NEW e \in Executors
    PROVE  /\ MarkDrained(e) => request.stage = "fenced" /\ request'.stage = "drained"
           /\ MarkBindingsRemoved(e) =>
                request.stage = "drained" /\ request'.stage = "bindings_removed"
           /\ PurgePostgres(e) =>
                request.stage = "bindings_removed" /\ request'.stage = "postgres_purged"
           /\ PurgeCache(e) =>
                request.stage = "postgres_purged" /\ request'.stage = "cache_purged"
           /\ MarkVerified(e) =>
                request.stage = "cache_purged" /\ request'.stage = "logically_verified"
           /\ MarkRetentionPending(e) =>
                request.stage = "logically_verified" /\ request'.stage = "retention_pending"
  BY DEF MarkDrained, MarkBindingsRemoved, PurgePostgres, PurgeCache, MarkVerified,
         MarkRetentionPending, Advance, VerifyFence, VerifyLease, TypeOK, Requests

LEMMA LifecycleStep ==
    ASSUME TypeOK, Lifecycle, FenceCount, ArchiveSaved, [Next]_vars
    PROVE  Lifecycle' /\ FenceCount' /\ ArchiveSaved'
<1>. DEFINE Goal == Lifecycle' /\ FenceCount' /\ ArchiveSaved'
<1>0. community.gen \in Nat /\ request.id \in Nat
  BY DeletionConstants DEF TypeOK, Communities, Requests, Generations
<1>1. CASE Settled
  BY <1>1 DEF Settled, Lifecycle, FenceCount, ArchiveSaved
<1>2. CASE Submit
  BY <1>0, <1>2 DEF Submit, Submitted, Lifecycle, FenceCount, ArchiveSaved
<1>3. CASE Prepare
  BY <1>3 DEF Prepare, TypeOK, Requests, Lifecycle, FenceCount, ArchiveSaved
<1>4. CASE Abort
  <2>1. /\ request'.stage = "aborted" /\ request'.id = request.id
        /\ request'.quiesced = request.quiesced /\ request'.pre = request.pre
        /\ community'.state = "active" /\ community'.gen = community.gen + 1
        /\ community'.archived = IF request.quiesced THEN request.pre ELSE community.archived
        /\ request.stage \in {"approved", "fenced"}
    BY <1>4 DEF Abort, Abortable, TypeOK, Requests
  <2>. QED
    BY <1>0, <2>1 DEF Lifecycle, FenceCount, ArchiveSaved
<1>5. ASSUME NEW e \in Executors, Quiesce(e) PROVE Goal
  <2>1. /\ request'.stage = request.stage /\ request'.id = request.id
        /\ request'.quiesced = TRUE /\ request'.pre = Saved
        /\ community'.state = "quiescing" /\ community'.gen = community.gen
        /\ request.stage = "approved"
    BY <1>5 DEF Quiesce, VerifyLease, TypeOK, Requests, Communities
  <2>2. Saved = WasArchived
    BY <1>5 DEF Quiesce, Saved, ArchiveSaved
  <2>. QED
    BY <2>1, <2>2 DEF Lifecycle, FenceCount, ArchiveSaved
<1>6. ASSUME NEW e \in Executors, Fence(e) PROVE Goal
  <2>1. /\ request'.stage = "fenced" /\ request'.id = request.id
        /\ request'.quiesced = request.quiesced /\ request'.pre = request.pre
        /\ community'.state = "fenced" /\ community'.gen = community.gen + 1
        /\ request.stage = "approved" /\ community.state = "quiescing"
    BY <1>6 DEF Fence, VerifyLease, TypeOK, Requests, Communities
  <2>. QED
    BY <1>0, <2>1 DEF Lifecycle, FenceCount, ArchiveSaved
<1>7. ASSUME NEW e \in Executors,
             MarkDrained(e) \/ MarkBindingsRemoved(e) \/ PurgeCache(e) \/ MarkVerified(e)
               \/ MarkRetentionPending(e)
      PROVE  Goal
  <2>1. /\ request'.id = request.id /\ UNCHANGED community
        /\ request'.quiesced = request.quiesced /\ request'.pre = request.pre
    BY <1>7 DEF MarkDrained, MarkBindingsRemoved, PurgeCache, MarkVerified,
                MarkRetentionPending, Advance, TypeOK, Requests
  <2>. QED
    BY <1>7, <2>1, StageEffect DEF Lifecycle, FenceCount, ArchiveSaved
<1>8. ASSUME NEW e \in Executors, PurgePostgres(e) PROVE Goal
  <2>1. /\ request'.id = request.id /\ community'.gen = community.gen
        /\ request'.quiesced = request.quiesced /\ request'.pre = request.pre
        /\ community'.state = "tombstone" /\ community.state = "fenced"
    BY <1>8 DEF PurgePostgres, Advance, TypeOK, Requests, Communities
  <2>. QED
    BY <1>8, <2>1, StageEffect DEF Lifecycle, FenceCount, ArchiveSaved
<1>. HIDE DEF Goal
<1>. QED
  BY <1>1, <1>2, <1>3, <1>4, <1>5, <1>6, <1>7, <1>8, StageMoves DEF Goal

LEMMA DrainedStep ==
    ASSUME TypeOK, FencedIsDrained, [Next]_vars
    PROVE  FencedIsDrained'
<1>. USE DEF FencedIsDrained, WritesDrained
<1>1. ASSUME NEW w \in Writers, ServingStep(w) PROVE FencedIsDrained'
  BY <1>1, ServingFrame DEF ServingStep, Acquire, WriteAllowed, SendPut, SeedPointer, Put, PutRow, Finish,
                            DropGuard, LeaseEnds, relays, TypeOK
<1>2. ASSUME NEW e \in Executors, Fence(e) PROVE FencedIsDrained'
  BY <1>2 DEF Fence, external, relays
<1>3. CASE UNCHANGED lease /\ (UNCHANGED community \/ community'.state \in {"active", "quiescing"})
  BY <1>3
<1>4. ASSUME NEW e \in Executors, PurgePostgres(e) PROVE FencedIsDrained'
  BY <1>4 DEF PurgePostgres, relays
<1>5. ASSUME Abort \/ Submit \/ Prepare PROVE UNCHANGED community \/ community'.state = "active"
  BY <1>5 DEF Abort, Submit, Prepare
<1>6. ASSUME NEW e \in Executors, Quiesce(e) PROVE community'.state = "quiescing"
  BY <1>6 DEF Quiesce, TypeOK, Communities
<1>7. ASSUME NEW e \in Executors,
             MarkDrained(e) \/ MarkBindingsRemoved(e) \/ PurgeCache(e) \/ MarkVerified(e)
               \/ MarkRetentionPending(e)
      PROVE  UNCHANGED community
  BY <1>7 DEF MarkDrained, MarkBindingsRemoved, PurgeCache, MarkVerified, MarkRetentionPending
<1>8. (\E w \in Writers : ServingStep(w)) \/ UNCHANGED lease
  BY StepKinds, WriteRowFrame, OperatorFrame, ClaimFrame, StageFrame, DataFrame
     DEF vars, relays
<1>. QED
  BY <1>1, <1>2, <1>3, <1>4, <1>5, <1>6, <1>7, <1>8, StageMoves DEF Settled

--------------------------------------------------------------------------------
(* Objects, keys and rows. *)

LEMMA DestroyedStep ==
    ASSUME TypeOK, DestroyedLate, [Next]_vars
    PROVE  DestroyedLate'
<1>. USE DEF DestroyedLate, Destroying
<1>1. ASSUME NEW e \in Executors, SendDelete(e) PROVE DestroyedLate'
  BY <1>1 DEF SendDelete, VerifyFence, VerifyLease, db
<1>2. ASSUME NEW e \in Executors, NEW k \in Keys, Delete(e, k) PROVE DestroyedLate'
  BY <1>2 DEF Delete, db
<1>3. \/ UNCHANGED <<removed, deletes>>
      \/ \E e \in Executors : SendDelete(e) \/ \E k \in Keys : Delete(e, k)
  <2>1. ASSUME NEW e \in Executors, DataStep(e)
        PROVE  \/ UNCHANGED <<removed, deletes>> \/ SendDelete(e)
               \/ \E k \in Keys : Delete(e, k)
    BY <2>1 DEF DataStep, ClearChunks, StampChunk, PurgePostgres, VerifyRows, ListPrefix, MarkVerified,
                ScanKey, external, history
  <2>. QED
    BY <2>1, StepKinds, ServingFrame, WriteRowFrame, OperatorFrame, ClaimFrame, StageFrame
       DEF vars, history
<1>4. request.stage \in Destroying => request'.stage \in Destroying
  <2>1. ASSUME Submit \/ Prepare \/ Abort PROVE request.stage \notin Destroying
    BY <2>1 DEF Submit, Prepare, Abort, Abortable
  <2>2. ASSUME NEW e \in Executors, Quiesce(e) \/ Fence(e)
        PROVE  request.stage \notin Destroying
    BY <2>2 DEF Quiesce, Fence, VerifyLease
  <2>. QED
    BY <2>1, <2>2, StageMoves, StageEffect DEF Settled
<1>. QED
  BY <1>1, <1>2, <1>3, <1>4

LEMMA StampedStep ==
    ASSUME TypeOK, StampedLate, Lifecycle, [Next]_vars
    PROVE  StampedLate'
<1>. USE DEF StampedLate
<1>1. ASSUME NEW e \in Executors, StampChunk(e) PROVE StampedLate'
  BY <1>1 DEF StampChunk, VerifyFence, VerifyLease
<1>2. stamped' \in {stamped, {}} \/ \E e \in Executors : StampChunk(e)
  <2>1. CASE OperatorStep
    BY <2>1 DEF OperatorStep, Submit, Prepare, Abort, Unblock, BlockUnclaimed, ClaimExpires
  <2>2. ASSUME NEW e \in Executors, DataStep(e), ~StampChunk(e)
        PROVE  stamped' \in {stamped, {}}
    BY <2>2 DEF DataStep, ClearChunks, SendDelete, PurgePostgres, VerifyRows, ListPrefix, MarkVerified,
                ScanKey, Delete, db
  <2>. QED
    BY <2>1, <2>2, StepKinds, ServingFrame, WriteRowFrame, ClaimFrame, StageFrame DEF vars, db
<1>3. CASE Submit
  BY <1>3 DEF Submit
<1>4. \/ Submit
      \/ request'.stage \in {"submitted", "inventoried", "approved", "fenced"} =>
            request.stage \in {"submitted", "inventoried", "approved", "fenced"}
  <2>1. ASSUME Prepare PROVE request.stage \in {"submitted", "inventoried"}
    BY <2>1 DEF Prepare
  <2>2. ASSUME Abort PROVE request'.stage = "aborted"
    BY <2>2 DEF Abort, TypeOK, Requests
  <2>3. ASSUME NEW e \in Executors, Quiesce(e) \/ Fence(e) PROVE request.stage = "approved"
    BY <2>3 DEF Quiesce, Fence, VerifyLease
  <2>. QED
    BY <2>1, <2>2, <2>3, StageMoves, StageEffect DEF Settled
<1>. QED
  BY <1>1, <1>2, <1>3, <1>4

LEMMA PurgedStep ==
    ASSUME TypeOK, PurgedStaysEmpty, [Next]_vars
    PROVE  PurgedStaysEmpty'
<1>. USE DEF PurgedStaysEmpty
<1>1. ASSUME NEW w \in Writers, ServingStep(w) PROVE PurgedStaysEmpty'
  <2>1. community' = community
    BY <1>1, ServingFrame
  <2>2. CASE PutRow(w)
    BY <2>1, <2>2 DEF PutRow, LeaseValid
  <2>3. CASE UNCHANGED rows
    BY <2>1, <2>3
  <2>. QED
    BY <1>1, <2>2, <2>3 DEF ServingStep, Acquire, SendPut, SeedPointer, Put, Finish, DropGuard, LeaseEnds
<1>2. CASE WriteRow
  BY <1>2, WriteRowFrame DEF WriteRow, WriteAllowed
<1>3. ASSUME NEW e \in Executors, PurgePostgres(e) PROVE PurgedStaysEmpty'
  BY <1>3 DEF PurgePostgres
<1>4. ASSUME NEW e \in Executors, DataStep(e), ~PurgePostgres(e)
      PROVE  UNCHANGED <<community, rows>>
  BY <1>4 DEF DataStep, ClearChunks, SendDelete, StampChunk, VerifyRows, ListPrefix, MarkVerified,
              ScanKey, Delete, db, external
<1>5. ASSUME NEW e \in Executors, StageStep(e)
      PROVE  UNCHANGED rows /\ (UNCHANGED community \/ community'.state # "tombstone")
  <2>1. CASE Quiesce(e) \/ Fence(e)
    BY <2>1 DEF Quiesce, Fence, external, TypeOK, Communities
  <2>. QED
    BY <1>5, <2>1 DEF StageStep, Disconnect, FreezeManifest, MarkDrained,
                      MarkBindingsRemoved, PurgeCache, MarkRetentionPending, db, external
<1>6. CASE OperatorStep
  BY <1>6 DEF OperatorStep, Submit, Prepare, Abort, Unblock, BlockUnclaimed, ClaimExpires
<1>. QED
  BY <1>1, <1>2, <1>3, <1>4, <1>5, <1>6, StepKinds, ClaimFrame DEF vars, db

\* A PUT behind the fence is late, and unseen once the rows are gone.
LEMMA PutEffect ==
    ASSUME TypeOK, FencedIsDrained, NEW w \in Writers, ServingStep(w)
    PROVE  /\ community.state \in {"fenced", "tombstone"} =>
                objects' \ objects \subseteq late' /\ late \subseteq late'
           /\ community.state = "tombstone" => objects' \ objects \subseteq unseen'
                                              /\ unseen \subseteq unseen'
<1>1. CASE Put(w)
  <2>1. community.state \in {"fenced", "tombstone"} => lease[w] # "live"
    BY DEF FencedIsDrained, WritesDrained
  <2>. QED
    BY <1>1, <2>1 DEF Put
<1>2. CASE UNCHANGED <<objects, late, unseen>>
  BY <1>2
<1>. QED
  BY <1>1, <1>2 DEF ServingStep, Acquire, SendPut, SeedPointer, PutRow, Finish, DropGuard, LeaseEnds, history

\* Apart from PUTs, objects only disappear.
LEMMA ObjectsShrink ==
    ASSUME [Next]_vars
    PROVE  objects' \subseteq objects \/ \E w \in Writers : ServingStep(w)
<1>1. ASSUME NEW e \in Executors, DataStep(e) PROVE objects' \subseteq objects
  BY <1>1 DEF DataStep, ClearChunks, SendDelete, StampChunk, PurgePostgres, VerifyRows, ListPrefix,
              MarkVerified, ScanKey, Delete, external
<1>. QED
  BY <1>1, StepKinds, WriteRowFrame, OperatorFrame, ClaimFrame, StageFrame DEF vars

LEMMA HolderStep ==
    ASSUME TypeOK, Lifecycle, FencedIsDrained, HolderIsSound, [Next]_vars
    PROVE  HolderIsSound'
<1>. DEFINE Sound(x) == ScanIsSound(x) /\ AckIsSound(x) /\ AbsenceIsSound(x)
                        /\ ScanStartsEmpty(x)
<1>. SUFFICES ASSUME NEW x \in Executors PROVE Sound(x)'
  BY DEF HolderIsSound
<1>0. Sound(x)
  BY DEF HolderIsSound
<1>a. USE DEF ScanIsSound, AckIsSound, AbsenceIsSound, ScanStartsEmpty
<1>1. ASSUME NEW w \in Writers, ServingStep(w) PROVE Sound(x)'
  <2>1. UNCHANGED <<request, exec, community>> /\ (Owns(x)' <=> Owns(x))
    BY <1>1, ServingFrame DEF Owns
  <2>2. Owns(x) /\ request.stage \in {"fenced", "drained"} =>
          objects' \ objects \subseteq late' /\ late \subseteq late'
    BY <1>1, PutEffect DEF Lifecycle
  <2>3. request.stage = "cache_purged" =>
          objects' \ objects \subseteq unseen' /\ unseen \subseteq unseen'
    BY <1>1, PutEffect DEF Lifecycle
  <2>. QED
    BY <1>0, <2>1, <2>2, <2>3
<1>2. CASE WriteRow \/ UNCHANGED vars
  <2>1. UNCHANGED <<request, exec, objects, late, unseen>> /\ (Owns(x)' <=> Owns(x))
    BY <1>2, WriteRowFrame DEF vars, db, history, Owns
  <2>. QED
    BY <1>0, <2>1
<1>3. CASE OperatorStep
  <2>1. UNCHANGED <<exec, objects, unseen>> /\ (Owns(x)' => Owns(x))
    BY <1>3, OperatorFrame, OperatorKeeps
  <2>2. request'.stage \in {"fenced", "drained", "cache_purged"} =>
          request'.stage = request.stage /\ UNCHANGED late
    <3>1. CASE Submit
      BY <3>1 DEF Submit, Submitted
    <3>2. CASE Prepare
      BY <3>2 DEF Prepare, TypeOK, Requests
    <3>3. CASE Abort
      BY <3>3 DEF Abort, TypeOK, Requests
    <3>4. CASE Unblock \/ BlockUnclaimed \/ ClaimExpires
      BY <3>4 DEF Unblock, BlockUnclaimed, ClaimExpires, history, TypeOK, Requests
    <3>. QED
      BY <1>3, <3>1, <3>2, <3>3, <3>4 DEF OperatorStep
  <2>. QED
    BY <1>0, <2>1, <2>2
<1>4. ASSUME NEW e \in Executors, ClaimStep(e) PROVE Sound(x)'
  <2>1. UNCHANGED <<objects, late, unseen>> /\ request'.stage = request.stage
    BY <1>4, ClaimFrame, ClaimKeeps DEF Unmoved
  <2>2. CASE x = e
    BY <1>4, <2>2, ClaimKeeps
  <2>3. CASE x # e
    <3>1. exec'[x] = exec[x] /\ (Owns(x)' => Owns(x))
      BY <1>4, <2>3, ClaimKeeps
    <3>. QED
      BY <1>0, <2>1, <3>1
  <2>. QED
    BY <2>2, <2>3
<1>5. ASSUME NEW e \in Executors, StageStep(e) PROVE Sound(x)'
  <2>1. CASE x = e
    <3>1. exec[e].scanned = {} \/ exec[e].pc = "scanning"
      BY <1>0, <1>5, <2>1, StageKeeps
    <3>. QED
      BY <1>5, <2>1, <3>1, StageKeeps
  <2>2. CASE x # e
    <3>1. exec'[x] = exec[x] /\ ~Owns(x)'
      BY <1>5, <2>2, StageKeeps
    <3>. QED
      BY <1>0, <3>1
  <2>. QED
    BY <2>1, <2>2
<1>6. ASSUME NEW e \in Executors, DataStep(e) PROVE Sound(x)'
  <2>1. ASSUME UNCHANGED request PROVE Owns(x)' => exec'[x].id = request.id /\ request.owner = x
    BY <2>1 DEF Owns
  <2>2. CASE ClearChunks(e)
    <3>1. request' = request /\ objects' = objects /\ unseen' = unseen /\ request.owner = e
      BY <2>2 DEF ClearChunks, VerifyFence, VerifyLease, Owns
    <3>2. exec[e].scanned = {}
      BY <2>2 DEF ClearChunks, HolderIsSound
    <3>3. exec' = [exec EXCEPT ![e].pc = "scanning"]
      BY <2>2 DEF ClearChunks, At
    <3>. QED
      BY <1>0, <2>1, <3>1, <3>2, <3>3 DEF TypeOK, ExecStates
  <2>3. CASE SendDelete(e)
    <3>1. UNCHANGED <<request, objects, late, unseen>> /\ (Owns(x)' => Owns(x))
      BY <2>3 DEF SendDelete, db, history, Owns, TypeOK, ExecStates
    <3>2. PICK k \in Keys : exec' = [exec EXCEPT ![e].pc = "deleting", ![e].chunk = {k},
                                                 ![e].acked = FALSE]
      BY <2>3 DEF SendDelete, TypeOK
    <3>3. exec[e].pc = "drained"
      BY <2>3 DEF SendDelete
    <3>4. CASE x = e
      BY <1>0, <3>2, <3>3, <3>4 DEF TypeOK, ExecStates
    <3>5. CASE x # e
      BY <1>0, <3>1, <3>2, <3>5 DEF TypeOK
    <3>. QED
      BY <3>4, <3>5
  <2>4. CASE StampChunk(e)
    <3>1. UNCHANGED <<request, objects, late, unseen>> /\ (Owns(x)' => Owns(x))
      BY <2>4 DEF StampChunk, external, history, Owns, TypeOK, ExecStates
    <3>2. exec' = [exec EXCEPT ![e].pc = "drained", ![e].chunk = {}, ![e].acked = FALSE]
      BY <2>4 DEF StampChunk
    <3>3. exec[e].pc = "deleting"
      BY <2>4 DEF StampChunk
    <3>4. CASE x = e
      BY <1>0, <3>2, <3>3, <3>4 DEF TypeOK, ExecStates
    <3>5. CASE x # e
      BY <1>0, <3>1, <3>2, <3>5 DEF TypeOK
    <3>. QED
      BY <3>4, <3>5
  <2>5. CASE PurgePostgres(e) \/ MarkVerified(e)
    <3>1. request'.stage \notin {"fenced", "drained", "cache_purged"}
      BY <2>5, StageEffect
    <3>2. exec'[x] = exec[x] \/ exec'[x].scanned = {}
      <4>1. exec' = [exec EXCEPT ![e] = [Resting EXCEPT !.pc = "top", !.id = exec[e].id]]
        BY <2>5 DEF PurgePostgres, MarkVerified, Advance, ToTop
      <4>2. [Resting EXCEPT !.pc = "top", !.id = exec[e].id].scanned = {}
        BY DEF Resting
      <4>. QED
        BY <4>1, <4>2 DEF TypeOK
    <3>. QED
      BY <1>0, <3>1, <3>2
  <2>6. CASE VerifyRows(e)
    <3>1. UNCHANGED <<request, objects, late, unseen>> /\ (Owns(x)' => Owns(x))
      BY <2>6 DEF VerifyRows, At, db, external, history, Owns, TypeOK, ExecStates
    <3>2. exec' = [exec EXCEPT ![e].pc = "listing"] /\ exec[e].pc = "cache_purged"
      BY <2>6 DEF VerifyRows, At
    <3>3. exec[e].scanned = {}
      BY <3>2 DEF HolderIsSound
    <3>. QED
      BY <1>0, <3>1, <3>2, <3>3 DEF TypeOK, ExecStates
  <2>7. ASSUME NEW k \in Keys, ScanKey(e, k) PROVE Sound(x)'
    <3>1. UNCHANGED <<request, objects, late, unseen>> /\ (Owns(x)' => Owns(x))
      BY <2>7 DEF ScanKey, external, history, Owns, TypeOK, ExecStates
    <3>2. exec[e].pc = "scanning"
      BY <2>7 DEF ScanKey
    <3>3. CASE x = e
      <4>1. /\ exec'[e].pc = "scanning" /\ exec'[e].scanned = exec[e].scanned \cup {k}
            /\ exec[e].found \subseteq exec'[e].found
            /\ k \in objects => k \in exec'[e].found
        BY <2>7 DEF ScanKey, TypeOK, ExecStates
      <4>. QED
        BY <1>0, <3>1, <3>2, <3>3, <4>1
    <3>4. CASE x # e
      <4>1. exec'[x] = exec[x]
        BY <2>7, <3>4 DEF ScanKey, TypeOK
      <4>. QED
        BY <1>0, <3>1, <4>1
    <3>. QED
      BY <3>3, <3>4
  <2>8. ASSUME NEW k \in Keys, Delete(e, k) PROVE Sound(x)'
    <3>1. /\ UNCHANGED <<request, late, unseen>> /\ objects' = objects \ {k}
          /\ (Owns(x)' => Owns(x))
      BY <2>8 DEF Delete, db, Owns, TypeOK, ExecStates
    <3>2. /\ exec'[x].pc = exec[x].pc /\ exec'[x].scanned = exec[x].scanned
          /\ exec'[x].found = exec[x].found /\ exec'[x].chunk = exec[x].chunk
          /\ exec'[x].acked => exec[x].acked \/ exec[x].chunk = {k}
      BY <2>8 DEF Delete, TypeOK, ExecStates
    <3>. QED
      BY <1>0, <3>1, <3>2
  <2>9. ASSUME NEW k \in Keys, ListPrefix(e, k) PROVE Sound(x)'
    <3>1. /\ UNCHANGED <<request, objects, late>> /\ unseen' = unseen \ {k}
          /\ k \notin objects /\ (Owns(x)' => Owns(x))
      BY <2>9 DEF ListPrefix, Absent, db, Owns, TypeOK, ExecStates
    <3>2. exec' = [exec EXCEPT ![e].scanned = exec[e].scanned \cup {k}] /\ exec[e].pc = "listing"
      BY <2>9 DEF ListPrefix
    <3>. QED
      BY <1>0, <3>1, <3>2 DEF TypeOK, ExecStates
  <2>. QED
    BY <1>6, <2>2, <2>3, <2>4, <2>5, <2>6, <2>7, <2>8, <2>9 DEF DataStep
<1>. QED
  BY <1>1, <1>2, <1>3, <1>4, <1>5, <1>6, StepKinds

LEMMA FrozenLateStep ==
    ASSUME TypeOK, FrozenLate, [Next]_vars
    PROVE  FrozenLate'
<1>. USE DEF FrozenLate, TypeOK, Requests
<1>1. CASE Submit
  BY <1>1 DEF Submit, Submitted
<1>2. CASE Prepare
  BY <1>2 DEF Prepare
<1>3. CASE Abort
  BY <1>3 DEF Abort
<1>4. CASE Unblock \/ BlockUnclaimed \/ ClaimExpires
  BY <1>4 DEF Unblock, BlockUnclaimed, ClaimExpires
<1>5. ASSUME NEW e \in Executors, ClaimStep(e) PROVE FrozenLate'
  BY <1>5, ClaimKeeps DEF Unmoved
<1>6. ASSUME NEW e \in Executors, StageStep(e) PROVE FrozenLate'
  <2>1. CASE Quiesce(e)
    BY <2>1 DEF Quiesce
  <2>2. CASE Fence(e)
    BY <2>2 DEF Fence
  <2>3. CASE FreezeManifest(e)
    BY <2>3 DEF FreezeManifest, VerifyFence, VerifyLease
  <2>4. CASE Disconnect(e)
    BY <2>4 DEF Disconnect, db
  <2>. QED
    BY <1>6, <2>1, <2>2, <2>3, <2>4, StageEffect DEF StageStep
<1>7. ASSUME NEW e \in Executors, DataStep(e) PROVE FrozenLate'
  <2>1. CASE UNCHANGED request
    BY <2>1
  <2>. QED
    BY <1>7, <2>1, StageEffect DEF DataStep, ClearChunks, SendDelete, StampChunk,
                                   VerifyRows, ListPrefix, ScanKey, Delete, db
<1>8. CASE UNCHANGED request
  BY <1>8
<1>. QED
  BY <1>1, <1>2, <1>3, <1>4, <1>5, <1>6, <1>7, <1>8, StepKinds, ServingFrame, WriteRowFrame
     DEF OperatorStep, vars, db

\* The frozen key list is in use.
ListInUse ==
    /\ request.frozen
    /\ request.stage \in {"fenced", "drained", "bindings_removed", "postgres_purged",
                          "cache_purged"}

\* A step of a stage keeps the list in use, or freezes it.
LEMMA ListKept ==
    ASSUME TypeOK, FrozenLate, NEW e \in Executors, StageStep(e), ListInUse'
    PROVE  ListInUse \/ FreezeManifest(e)
<1>. USE DEF ListInUse, TypeOK, Requests, VerifyFence, VerifyLease
<1>1. CASE Quiesce(e)
  BY <1>1 DEF Quiesce
<1>2. CASE Fence(e)
  BY <1>2 DEF Fence, FrozenLate
<1>3. CASE Disconnect(e)
  BY <1>3 DEF Disconnect, db
<1>4. CASE MarkDrained(e) \/ MarkBindingsRemoved(e) \/ PurgeCache(e)
  BY <1>4 DEF MarkDrained, MarkBindingsRemoved, PurgeCache, Advance
<1>5. CASE MarkRetentionPending(e)
  BY <1>5 DEF MarkRetentionPending
<1>. QED
  BY <1>1, <1>2, <1>3, <1>4, <1>5 DEF StageStep

LEMMA FrozenStep ==
    ASSUME TypeOK, Lifecycle, FencedIsDrained, StampedLate, FrozenLate, HolderIsSound,
           FrozenIsComplete, [Next]_vars
    PROVE  FrozenIsComplete'
<1>. DEFINE Complete == objects \subseteq chunks \cup late /\ objects \cap stamped \subseteq late
<1>0. ListInUse => Complete
  BY DEF FrozenIsComplete, ListInUse
<1>. SUFFICES ASSUME ListInUse' PROVE Complete'
  BY DEF FrozenIsComplete, ListInUse
<1>1. ASSUME NEW w \in Writers, ServingStep(w) PROVE Complete'
  <2>1. UNCHANGED <<request, chunks, stamped>> /\ ListInUse
    BY <1>1, ServingFrame DEF ListInUse
  <2>2. objects' \ objects \subseteq late' /\ late \subseteq late'
    BY <1>1, <2>1, PutEffect DEF Lifecycle, ListInUse
  <2>. QED
    BY <1>0, <2>1, <2>2
<1>2. CASE WriteRow \/ UNCHANGED vars
  BY <1>0, <1>2, WriteRowFrame DEF vars, db, history, ListInUse
<1>3. CASE OperatorStep
  <2>1. CASE Submit
    BY <2>1 DEF Submit, Submitted, ListInUse
  <2>2. CASE Prepare
    BY <2>2 DEF Prepare, ListInUse, TypeOK, Requests
  <2>3. CASE Abort
    BY <2>3 DEF Abort, ListInUse, TypeOK, Requests
  <2>4. CASE Unblock \/ BlockUnclaimed \/ ClaimExpires
    <3>1. UNCHANGED <<chunks, stamped, objects, late>> /\ ListInUse
      BY <2>4 DEF Unblock, BlockUnclaimed, ClaimExpires, history, ListInUse, TypeOK, Requests
    <3>. QED
      BY <1>0, <3>1
  <2>. QED
    BY <1>3, <2>1, <2>2, <2>3, <2>4 DEF OperatorStep
<1>4. ASSUME NEW e \in Executors, ClaimStep(e) PROVE Complete'
  BY <1>0, <1>4, ClaimFrame, ClaimKeeps DEF Unmoved, ListInUse
<1>5. ASSUME NEW e \in Executors, FreezeManifest(e) PROVE Complete'
  <2>1. /\ UNCHANGED <<chunks, stamped, objects, late>>
        /\ chunks = exec[e].found /\ exec[e].scanned = Keys /\ exec[e].pc = "scanning"
        /\ Owns(e) /\ request.stage = "fenced"
    BY <1>5 DEF FreezeManifest, VerifyFence, VerifyLease, external, history
  <2>2. objects \cap exec[e].scanned \subseteq exec[e].found \cup late
    BY <2>1 DEF HolderIsSound, ScanIsSound
  <2>3. stamped = {}
    BY <2>1 DEF StampedLate
  <2>. QED
    BY <2>1, <2>2, <2>3 DEF TypeOK
<1>6. ASSUME NEW e \in Executors, StageStep(e) PROVE Complete'
  <2>1. CASE ListInUse
    BY <1>0, <1>6, <2>1, StageFrame
  <2>. QED
    BY <1>5, <1>6, <2>1, ListKept
<1>7. ASSUME NEW e \in Executors, DataStep(e) PROVE Complete'
  <2>1. CASE ClearChunks(e)
    BY <2>1 DEF ClearChunks, ListInUse
  <2>2. CASE SendDelete(e) \/ VerifyRows(e) \/ \E k \in Keys : ListPrefix(e, k)
    BY <1>0, <2>2 DEF SendDelete, VerifyRows, ListPrefix, db, external, history, ListInUse
  <2>3. CASE StampChunk(e)
    <3>1. /\ UNCHANGED <<request, chunks, objects, late>>
          /\ stamped' = stamped \cup exec[e].chunk
          /\ exec[e].pc = "deleting" /\ exec[e].acked /\ Owns(e) /\ request.stage = "drained"
      BY <2>3 DEF StampChunk, VerifyFence, VerifyLease, external, history
    <3>2. objects \cap exec[e].chunk \subseteq late
      BY <3>1 DEF HolderIsSound, AckIsSound
    <3>. QED
      BY <1>0, <3>1, <3>2 DEF ListInUse
  <2>4. CASE PurgePostgres(e)
    <3>1. UNCHANGED <<chunks, stamped, objects, late>> /\ ListInUse
      BY <2>4 DEF PurgePostgres, Advance, VerifyFence, VerifyLease, history, ListInUse,
                  TypeOK, Requests
    <3>. QED
      BY <1>0, <3>1
  <2>5. CASE MarkVerified(e)
    BY <2>5, StageEffect DEF ListInUse
  <2>6. ASSUME NEW k \in Keys, ScanKey(e, k) PROVE Complete'
    BY <1>0, <2>6 DEF ScanKey, external, history, ListInUse
  <2>7. ASSUME NEW k \in Keys, Delete(e, k) PROVE Complete'
    BY <1>0, <2>7 DEF Delete, db, ListInUse
  <2>. QED
    BY <1>7, <2>1, <2>2, <2>3, <2>4, <2>5, <2>6, <2>7 DEF DataStep
<1>. QED
  BY <1>1, <1>2, <1>3, <1>4, <1>6, <1>7, StepKinds

LEMMA VerifiedStep ==
    ASSUME TypeOK, Lifecycle, FencedIsDrained, HolderIsSound, VerifiedIsGone, [Next]_vars
    PROVE  VerifiedIsGone'
<1>. DEFINE Done == request.stage \in {"logically_verified", "retention_pending"}
<1>0. Done => objects \subseteq unseen
  BY DEF VerifiedIsGone
<1>. SUFFICES ASSUME Done' PROVE objects' \subseteq unseen'
  BY DEF VerifiedIsGone
<1>1. ASSUME NEW e \in Executors, MarkVerified(e) PROVE objects' \subseteq unseen'
  <2>1. UNCHANGED <<objects, unseen>> /\ Owns(e) /\ request.stage = "cache_purged"
        /\ exec[e].pc = "listing" /\ exec[e].scanned = Keys
    BY <1>1 DEF MarkVerified, VerifyFence, VerifyLease, external, history
  <2>. QED
    BY <2>1 DEF HolderIsSound, AbsenceIsSound, TypeOK
<1>2. Done \/ \E e \in Executors : MarkVerified(e)
  <2>1. ASSUME Submit \/ Prepare \/ Abort PROVE ~Done'
    <3>1. CASE Submit
      BY <3>1 DEF Submit, Submitted
    <3>2. CASE Prepare
      BY <3>2 DEF Prepare, TypeOK, Requests
    <3>3. CASE Abort
      BY <3>3 DEF Abort, TypeOK, Requests
    <3>. QED
      BY <2>1, <3>1, <3>2, <3>3
  <2>2. ASSUME NEW e \in Executors, Quiesce(e) \/ Fence(e) PROVE ~Done'
    BY <2>2 DEF Quiesce, Fence, VerifyLease, TypeOK, Requests
  <2>. QED
    BY <2>1, <2>2, StageMoves, StageEffect DEF Settled
<1>3. ASSUME Done PROVE objects' \subseteq unseen'
  <2>1. community.state = "tombstone" /\ objects \subseteq unseen
    BY <1>0, <1>3 DEF Lifecycle
  <2>2. ASSUME NEW w \in Writers, ServingStep(w) PROVE objects' \subseteq unseen'
    BY <2>1, <2>2, PutEffect
  <2>3. ASSUME NEW e \in Executors, DataStep(e) PROVE objects' \subseteq unseen'
    <3>1. ASSUME NEW k \in Keys, ListPrefix(e, k) PROVE objects' \subseteq unseen'
      BY <2>1, <3>1 DEF ListPrefix, Absent
    <3>2. CASE objects' \subseteq objects /\ UNCHANGED unseen
      BY <2>1, <3>2
    <3>. QED
      BY <2>3, <3>1, <3>2 DEF DataStep, ClearChunks, SendDelete, StampChunk, PurgePostgres,
                              VerifyRows, MarkVerified, ScanKey, Delete, external, history
  <2>. QED
    BY <2>1, <2>2, <2>3, StepKinds, WriteRowFrame, OperatorFrame, ClaimFrame, StageFrame
       DEF vars, history
<1>. QED
  BY <1>1, <1>2, <1>3

--------------------------------------------------------------------------------
(* The theorems. *)

LEMMA DeletionInit == Init => DeletionInv
<1>. SUFFICES ASSUME Init PROVE DeletionInv
  OBVIOUS
<1>. USE DeletionConstants DEF Init, Submitted
<1>1. TypeOK
  <2>1. community \in Communities
    BY DEF Communities, Generations
  <2>2. request \in Requests /\ request.retries < RetryLimit
    <3>1. 0 \in 0..RetryLimit /\ 0 < RetryLimit /\ 0 \in 0..MaxRequests /\ 0 \in Generations
      BY DEF Generations
    <3>2. request = [id |-> 0, stage |-> "aborted", owner |-> NoExecutor, live |-> FALSE,
                     blocked |-> FALSE, retries |-> 0, failed |-> "none", fence |-> 0,
                     frozen |-> FALSE, quiesced |-> FALSE, pre |-> FALSE]
      OBVIOUS
    <3>3. request.retries < RetryLimit
      BY <3>1, <3>2
    <3>. QED
      BY <3>1, <3>2, <3>3, Zenon DEF Requests, Stages
  <2>3. exec \in [Executors -> ExecStates]
    BY DEF ExecStates, Resting, Generations
  <2>4. serving \in [Writers -> WriterStates]
    BY DEF WriterStates, Generations
  <2>. QED
    BY <2>1, <2>2, <2>3, <2>4 DEF TypeOK
<1>2. Lifecycle /\ FenceCount /\ FencedIsDrained /\ ArchiveSaved
  BY DEF Lifecycle, FenceCount, FencedIsDrained, ArchiveSaved
<1>3. DestroyedLate /\ StampedLate /\ FrozenLate
  BY DEF DestroyedLate, StampedLate, FrozenLate
<1>4. HolderIsSound
  BY DEF HolderIsSound, ScanIsSound, AckIsSound, AbsenceIsSound, ScanStartsEmpty, Resting
<1>5. FrozenIsComplete /\ VerifiedIsGone /\ PurgedStaysEmpty
  BY DEF FrozenIsComplete, VerifiedIsGone, PurgedStaysEmpty
<1>. QED
  BY <1>1, <1>2, <1>3, <1>4, <1>5 DEF DeletionInv

LEMMA DeletionStep == DeletionInv /\ [Next]_vars => DeletionInv'
  BY TypeStep, LifecycleStep, DrainedStep, DestroyedStep, StampedStep, FrozenLateStep,
     HolderStep, FrozenStep, VerifiedStep, PurgedStep DEF DeletionInv

\* The combination of the invariants that is inductive.
THEOREM DeletionInvariant == Spec => []DeletionInv
  BY DeletionInit, DeletionStep, PTL DEF Spec

\* Every variable keeps its type; in particular a request that has used up its
\* retries is blocked, and no more than two fence generations are spent on each.
THEOREM TypeCorrect == Spec => []TypeOK
<1>1. DeletionInv => TypeOK
  BY DEF DeletionInv
<1>. QED
  BY <1>1, DeletionInvariant, PTL

\* Whatever deletes are in flight and however claims expire, a community that is
\* not fenced has lost nothing, and an abort gives it back as it was (begin_quiescing, abort).
THEOREM ActiveCommunityIsWhole == Spec => []ActiveIsWhole
<1>1. DeletionInv => ActiveIsWhole
  BY DEF DeletionInv, ActiveIsWhole, DestroyedLate, Destroying, Lifecycle, ArchiveSaved
<1>. QED
  BY <1>1, DeletionInvariant, PTL

\* Once frozen, the key list holds every object but those of writes without a
\* live lease (one that was lost, or the announcement that takes none), although
\* the listing is not atomic and a stale executor may run beside the live one.
THEOREM FrozenListIsComplete == Spec => []FrozenIsComplete
<1>1. DeletionInv => FrozenIsComplete
  BY DEF DeletionInv
<1>. QED
  BY <1>1, DeletionInvariant, PTL

\* No write brings rows back to a purged community (purge_postgres, the trigger).
THEOREM PurgedCommunityStaysEmpty == Spec => []PurgedStaysEmpty
<1>1. DeletionInv => PurgedStaysEmpty
  BY DEF DeletionInv
<1>. QED
  BY <1>1, DeletionInvariant, PTL

\* A verified deletion left no object behind: what is stored was written after its
\* own prefix had been listed as empty (verify_storage_absence).
THEOREM VerifiedDeletionIsGone == Spec => []VerifiedIsGone
<1>1. DeletionInv => VerifiedIsGone
  BY DEF DeletionInv
<1>. QED
  BY <1>1, DeletionInvariant, PTL
================================================================================
