--------------------------- MODULE CommunityDeletion ---------------------------
(***************************************************************************)
(* Whole-community deletion (buzz-db/src/deletion.rs, buzz-deletion,       *)
(* migrations 0029 and 0030): a request that operators approve, abort or   *)
(* unblock and that executors on any host carry through its stages under   *)
(* an expiring claim, while relays go on serving writes under leases of    *)
(* their own.                                                              *)
(*                                                                         *)
(* Every database transaction is one action; its row locks and the         *)
(* advisory lock of the community make it atomic.  Calls to object storage *)
(* take effect on their own, possibly after their caller has lost its      *)
(* claim, its lease or its life.  Leases are kept as live or expired: a    *)
(* heartbeat keeps one live, and it may be missed at any time.  A claim is *)
(* identified by its holder, since an executor holds one at a time.        *)
(***************************************************************************)
EXTENDS Integers, FiniteSets

CONSTANTS
    Executors,
    Writers,       \* external effects of the relays
    Keys,          \* object keys of the community
    Old,           \* the keys that are stored at first
    WasArchived,   \* whether the users have archived the community
    NoExecutor,
    RetryLimit,    \* failures of one stage that block the request (8)
    MaxRequests,   \* bound: requests for this community
    MaxFaults      \* bound: expired claims, stopped executors, lifted blocks

ASSUME DeletionConstants ==
    /\ Old \subseteq Keys /\ NoExecutor \notin Executors
    /\ WasArchived \in BOOLEAN
    /\ RetryLimit \in Nat \ {0} /\ MaxRequests \in Nat
    /\ MaxFaults \in Nat

VARIABLES
    community,   \* its lifecycle state, fence generation and archive flag
    request,     \* the request that is not aborted, or the last one
    chunks,      \* keys of the destructive manifest, one to a chunk
    stamped,     \* the chunks recorded as deleted
    exec,        \* executors
    deletes,     \* bulk deletes on their way to the object store
    serving,     \* writers: progress, and the fence generation of the lease
    lease,       \* rows of community_serving_write_leases
    objects,     \* keys in the object store
    rows,        \* whether the community has rows in its tables
    removed,     \* history: keys taken from the object store by a deletion
    late,        \* history: keys written by a PUT without a live lease, since the
                 \* last listing for the manifest began
    unseen,      \* history: keys written since they were last listed as absent
    faults

db == <<community, request, chunks, stamped>>
relays == <<serving, lease>>
history == <<removed, late, unseen>>
vars == <<db, exec, deletes, relays, objects, rows, history, faults>>

Runnable == {"approved", "fenced", "drained", "bindings_removed", "postgres_purged",
             "cache_purged", "logically_verified"}
Stages == Runnable \cup {"submitted", "inventoried", "retention_pending", "aborted"}

Resting == [pc |-> "idle", id |-> 0, fence |-> 0, frozen |-> FALSE, scanned |-> {},
            found |-> {}, chunk |-> {}, acked |-> FALSE]

\* Request n, just submitted; the zeroth stands for none.
Submitted(n) ==
    [id |-> n, stage |-> "submitted", owner |-> NoExecutor, live |-> FALSE,
     blocked |-> FALSE, retries |-> 0, failed |-> "none", fence |-> 0,
     frozen |-> FALSE, quiesced |-> FALSE, pre |-> FALSE]

Generations == 0..2 * MaxRequests

Communities == [state : {"active", "quiescing", "fenced", "tombstone"},
                gen : Generations, archived : BOOLEAN]

Requests == [id : 0..MaxRequests, stage : Stages,
             owner : Executors \cup {NoExecutor}, live : BOOLEAN,
             blocked : BOOLEAN, retries : 0..RetryLimit,
             failed : Runnable \cup {"none"}, fence : Generations,
             frozen : BOOLEAN, quiesced : BOOLEAN, pre : BOOLEAN]

ExecStates == [pc : {"idle", "top", "quiesced", "clearing", "scanning", "marking",
                     "deleting", "listing"} \cup Runnable,
               id : 0..MaxRequests, fence : Generations, frozen : BOOLEAN,
               scanned : SUBSET Keys, found : SUBSET Keys, chunk : SUBSET Keys,
               acked : BOOLEAN]

WriterStates == [pc : {"idle", "held", "sent", "done"}, gen : Generations,
                 wire : SUBSET Keys]

TypeOK ==
    /\ community \in Communities
    /\ request \in Requests
    /\ request.blocked \/ request.retries < RetryLimit
    /\ stamped \subseteq chunks /\ chunks \subseteq Keys
    /\ exec \in [Executors -> ExecStates]
    /\ deletes \subseteq Executors \X Keys
    /\ serving \in [Writers -> WriterStates]
    /\ lease \in [Writers -> {"none", "live", "expired"}]
    /\ objects \subseteq Keys /\ rows \in BOOLEAN
    /\ removed \subseteq Keys /\ late \subseteq Keys /\ unseen \subseteq Keys
    /\ faults \in 0..MaxFaults

Init ==
    /\ community = [state |-> "active", gen |-> 0, archived |-> WasArchived]
    /\ request = [Submitted(0) EXCEPT !.stage = "aborted"]
    /\ chunks = {} /\ stamped = {}
    /\ exec = [e \in Executors |-> Resting]
    /\ deletes = {}
    /\ serving = [w \in Writers |-> [pc |-> "idle", gen |-> 0, wire |-> {}]]
    /\ lease = [w \in Writers |-> "none"]
    /\ objects = Old /\ rows = TRUE
    /\ removed = {} /\ late = {} /\ unseen = {}
    /\ faults = 0

--------------------------------------------------------------------------------
(* Serving *)

\* Mutant: the tombstone is forgotten.
NotFenced == community.state \notin {"quiescing", "fenced"}
\* assert_community_write_allowed, for a write without a serving lease.
WriteAllowed == community.state = "active"

\* acquire_serving_write_lease: an active community only.
Acquire(w) ==
    /\ serving[w].pc = "idle" /\ WriteAllowed
    /\ serving' = [serving EXCEPT ![w].pc = "held", ![w].gen = community.gen]
    /\ lease' = [lease EXCEPT ![w] = "live"]
    /\ UNCHANGED <<db, exec, deletes, objects, rows, history, faults>>

\* verify_serving_write_lease
LeaseValid(w) ==
    /\ lease[w] = "live"
    /\ community.state \in {"active", "quiescing"}
    /\ community.gen = serving[w].gen

\* protect: the lease is verified and the PUT of an object is sent.
SendPut(w) ==
    /\ serving[w].pc = "held" /\ LeaseValid(w)
    /\ \E k \in Keys : serving' = [serving EXCEPT ![w].pc = "sent", ![w].wire = {k}]
    /\ UNCHANGED <<db, exec, deletes, lease, objects, rows, history, faults>>

\* is_serving_active, read without a lock.
ServingActive == community.state = "active" /\ ~community.archived

\* An announcement is admitted, and seed_manifest_pointer sends the PUT of a
\* manifest pointer; there is no lease, so a drain does not wait for it.  The
\* step ends when the PUT is sent: it may take effect at any time after.
SeedPointer(w) ==
    /\ serving[w].pc = "idle" /\ ServingActive
    /\ \E k \in Keys : serving' = [serving EXCEPT ![w].pc = "done", ![w].wire = {k}]
    /\ UNCHANGED <<db, exec, deletes, lease, objects, rows, history, faults>>

\* The PUT takes effect, also when the writer has given up.
Put(w) ==
    /\ serving[w].wire # {}
    /\ objects' = objects \cup serving[w].wire
    /\ serving' = [serving EXCEPT ![w].wire = {}]
    /\ late' = IF lease[w] = "live" \/ community.state \in {"active", "quiescing"}
               THEN late ELSE late \cup serving[w].wire
    /\ unseen' = IF community.state = "tombstone" THEN unseen \cup serving[w].wire ELSE {}
    /\ UNCHANGED <<db, exec, deletes, lease, rows, removed, faults>>

\* The rows of an effect, in a transaction that checks its lease.
PutRow(w) ==
    /\ serving[w].pc = "sent" /\ serving[w].wire = {} /\ LeaseValid(w)
    /\ rows' = TRUE
    /\ UNCHANGED <<db, exec, deletes, relays, objects, history, faults>>

\* Any other write is admitted or refused by the trigger of its table.
WriteRow ==
    /\ WriteAllowed /\ rows' = TRUE
    /\ UNCHANGED <<db, exec, deletes, relays, objects, history, faults>>

\* finish, after the answer of the store.
Finish(w) ==
    /\ serving[w].pc = "sent" /\ serving[w].wire = {}
    /\ serving' = [serving EXCEPT ![w].pc = "done", ![w].gen = 0]
    /\ lease' = [lease EXCEPT ![w] = "none"]
    /\ UNCHANGED <<db, exec, deletes, objects, rows, history, faults>>

\* The guard is dropped, as when the client hangs up: the lease is released at
\* once, and a PUT may still be on its way.
DropGuard(w) ==
    /\ serving[w].pc \in {"held", "sent"}
    /\ serving' = [serving EXCEPT ![w].pc = "done", ![w].gen = 0]
    /\ lease' = [lease EXCEPT ![w] = "none"]
    /\ UNCHANGED <<db, exec, deletes, objects, rows, history, faults>>

\* No heartbeat came through for the time of the lease; an operation
\* that is under way goes on until the loss is noticed.
LeaseEnds(w) ==
    /\ lease[w] = "live"
    /\ lease' = [lease EXCEPT ![w] = "expired"]
    /\ UNCHANGED <<db, exec, deletes, serving, objects, rows, history, faults>>

--------------------------------------------------------------------------------
(* Operators *)

\* submit: one request that is not aborted, on an active community.
Submit ==
    /\ community.state = "active" /\ request.stage = "aborted"
    /\ request.id < MaxRequests
    /\ request' = Submitted(request.id + 1)
    /\ chunks' = {} /\ stamped' = {} /\ late' = {}
    /\ UNCHANGED <<community, exec, deletes, relays, objects, rows, removed, unseen,
                   faults>>

\* freeze_inventory, then approve.
Prepare ==
    /\ request.stage \in {"submitted", "inventoried"} /\ ~request.blocked
    /\ request' = [request EXCEPT !.stage =
                      IF @ = "submitted" THEN "inventoried" ELSE "approved"]
    /\ UNCHANGED <<community, chunks, stamped, exec, deletes, relays, objects, rows,
                   history, faults>>

\* No serving lease is live (serving_writes_drained).
\* Mutant: the leases are not waited for.
DrainedAtOnce == TRUE
WritesDrained == \A w \in Writers : lease[w] # "live"

\* Mutant: a request may be aborted while its chunks are deleted.
AbortableLate == request.stage \in {"approved", "fenced", "drained"}
Abortable == request.stage \in {"approved", "fenced"}

\* Terminal: the community is restored under a new fence generation.
Abort ==
    /\ Abortable /\ WritesDrained
    /\ community' = [state |-> "active", gen |-> community.gen + 1,
                     archived |-> IF request.quiesced THEN request.pre
                                  ELSE community.archived]
    /\ request' = [request EXCEPT !.stage = "aborted", !.fence = community.gen + 1,
                     !.owner = NoExecutor, !.live = FALSE, !.blocked = FALSE,
                     !.retries = 0, !.failed = "none"]
    /\ UNCHANGED <<chunks, stamped, exec, deletes, relays, objects, rows, history, faults>>

Leased == request.owner # NoExecutor /\ request.live
Terminal == request.stage \in {"retention_pending", "aborted"}

Unblock ==
    /\ request.blocked /\ ~Terminal /\ ~Leased /\ faults < MaxFaults
    /\ request' = [request EXCEPT !.blocked = FALSE, !.retries = 0, !.failed = "none",
                     !.owner = NoExecutor, !.live = FALSE]
    /\ faults' = faults + 1
    /\ UNCHANGED <<community, chunks, stamped, exec, deletes, relays, objects, rows,
                   history>>

\* block_preclaim_setup, or a claim that finds the catalog changed.  The latter
\* also clears an expired claim; nothing reads one while the request is blocked.
BlockUnclaimed ==
    /\ ~Terminal /\ ~Leased /\ ~request.blocked
    /\ request' = [request EXCEPT !.blocked = TRUE, !.owner = NoExecutor, !.live = FALSE]
    /\ UNCHANGED <<community, chunks, stamped, exec, deletes, relays, objects, rows,
                   history, faults>>

--------------------------------------------------------------------------------
(* Executors: claims *)

At(e, pc) == exec' = [exec EXCEPT ![e].pc = pc]
ToTop(e) == exec' = [exec EXCEPT ![e] = [Resting EXCEPT !.pc = "top", !.id = exec[e].id]]
external == <<deletes, relays, objects, rows, history, faults>>

Claim(e) ==
    /\ exec[e].pc = "idle"
    /\ request.stage \in Runnable /\ ~request.blocked /\ ~Leased
    /\ request' = [request EXCEPT !.owner = e, !.live = TRUE]
    /\ exec' = [exec EXCEPT ![e] = [Resting EXCEPT !.pc = "top", !.id = request.id]]
    /\ UNCHANGED <<community, chunks, stamped, external>>

Owns(e) ==
    /\ request.id = exec[e].id /\ request.owner = e /\ request.live /\ ~request.blocked

VerifyLease(e, stage) == Owns(e) /\ request.stage = stage

VerifyFence(e, stage) ==
    /\ VerifyLease(e, stage)
    /\ request.fence = exec[e].fence /\ community.gen = exec[e].fence
    /\ community.state \in {"fenced", "tombstone"}

\* The head of the loop: the request is read and the claim renewed; what is to
\* be done follows from the request that was read.
Begin(e) ==
    /\ exec[e].pc = "top" /\ Owns(e) /\ request.stage \in Runnable
    /\ exec' = [exec EXCEPT ![e] = [Resting EXCEPT !.pc = request.stage,
                    !.id = request.id, !.fence = request.fence, !.frozen = request.frozen]]
    /\ UNCHANGED <<db, external>>

\* advance_request_tx
Advance(e, stage) ==
    /\ request' = [request EXCEPT !.stage = stage, !.retries = 0, !.failed = "none"]
    /\ ToTop(e)

Busy(e) == exec[e].pc \notin {"idle", "top"}

\* The stage the executor believes it is in.
StageOf(e) ==
    CASE exec[e].pc = "quiesced" -> "approved"
      [] exec[e].pc \in {"clearing", "scanning", "marking"} -> "fenced"
      [] exec[e].pc = "deleting" -> "drained"
      [] exec[e].pc = "listing" -> "cache_purged"
      [] OTHER -> exec[e].pc

\* Mutant: a failing stage is retried for ever.
NeverExhausted(n) == FALSE
Exhausted(n) == n >= RetryLimit

\* record_retry, for as long as the claim is held.
Retry(e) ==
    LET n == IF request.failed = StageOf(e)
             THEN IF request.retries < RetryLimit THEN request.retries + 1 ELSE RetryLimit
             ELSE 1
    IN  /\ VerifyLease(e, StageOf(e))
        /\ request' = [request EXCEPT !.retries = n, !.failed = StageOf(e),
                         !.blocked = Exhausted(n), !.owner = NoExecutor, !.live = FALSE]
        /\ exec' = [exec EXCEPT ![e] = Resting]
        /\ UNCHANGED <<community, chunks, stamped, external>>

\* A dependency fails.
TransientError(e) == Busy(e) /\ Retry(e)

\* block: a safety check or a permanent error.
PermanentError(e) ==
    /\ Busy(e) /\ VerifyLease(e, StageOf(e))
    /\ request' = [request EXCEPT !.blocked = TRUE, !.owner = NoExecutor, !.live = FALSE]
    /\ exec' = [exec EXCEPT ![e] = Resting]
    /\ UNCHANGED <<community, chunks, stamped, external>>

\* The claim turns out to be lost, at a check of a transaction or of the
\* heartbeat; nothing is recorded.
GiveUp(e) ==
    /\ exec[e].pc # "idle"
    /\ IF Busy(e) THEN ~VerifyLease(e, StageOf(e)) ELSE ~(Owns(e) /\ request.stage \in Runnable)
    /\ exec' = [exec EXCEPT ![e] = Resting]
    /\ UNCHANGED <<db, external>>

\* Shutdown: stop_executor releases a claim that is still held.
Stop(e) ==
    /\ exec[e].pc # "idle" /\ faults < MaxFaults
    /\ faults' = faults + 1
    /\ request' = IF request.id = exec[e].id /\ request.owner = e
                  THEN [request EXCEPT !.owner = NoExecutor, !.live = FALSE] ELSE request
    /\ exec' = [exec EXCEPT ![e] = Resting]
    /\ UNCHANGED <<community, chunks, stamped, deletes, relays, objects, rows, history>>

\* A crash, or heartbeats that do not come through: the claim expires, and its
\* holder may still be running.
ClaimExpires ==
    /\ Leased /\ faults < MaxFaults
    /\ faults' = faults + 1
    /\ request' = [request EXCEPT !.live = FALSE]
    /\ UNCHANGED <<community, chunks, stamped, exec, deletes, relays, objects, rows,
                   history>>

--------------------------------------------------------------------------------
(* Executors: stages *)

\* The archive flag is saved by the first attempt only.
\* Mutant: a retry saves it again.
SavedEachTime == community.archived
Saved == IF request.quiesced THEN request.pre ELSE community.archived

\* begin_quiescing: no new serving write is admitted from here on.
Quiesce(e) ==
    /\ exec[e].pc = "approved" /\ VerifyLease(e, "approved")
    /\ community.state \in {"active", "quiescing"}
    /\ request' = [request EXCEPT !.pre = Saved, !.quiesced = TRUE]
    /\ community' = [community EXCEPT !.state = "quiescing", !.archived = TRUE]
    /\ At(e, "quiesced")
    /\ UNCHANGED <<chunks, stamped, external>>

\* fence: every admitted write has ended or lost its lease.
Fence(e) ==
    /\ exec[e].pc = "quiesced" /\ VerifyLease(e, "approved")
    /\ WritesDrained /\ community.state = "quiescing"
    /\ community' = [community EXCEPT !.state = "fenced", !.gen = @ + 1]
    /\ request' = [request EXCEPT !.stage = "fenced", !.fence = community.gen + 1,
                     !.retries = 0, !.failed = "none"]
    /\ ToTop(e)
    /\ UNCHANGED <<chunks, stamped, external>>

\* ServingWritesNotDrained
NotDrained(e) == exec[e].pc = "quiesced" /\ ~WritesDrained /\ Retry(e)

\* Clients are disconnected and the drain is checked again.
Disconnect(e) ==
    /\ exec[e].pc = "fenced" /\ VerifyFence(e, "fenced") /\ WritesDrained
    /\ exec' = [exec EXCEPT ![e].pc = IF exec[e].frozen THEN "marking" ELSE "clearing",
                            ![e].frozen = FALSE]
    /\ UNCHANGED <<db, external>>

\* clear_manifest_key_chunks: what an interrupted freeze has left.
ClearChunks(e) ==
    /\ exec[e].pc = "clearing" /\ VerifyFence(e, "fenced") /\ ~request.frozen
    /\ chunks' = {} /\ stamped' = {} /\ late' = {}
    /\ At(e, "scanning")
    /\ UNCHANGED <<community, request, deletes, relays, objects, rows, removed,
                   unseen, faults>>

\* The listing reaches one key; a key that is stored becomes a chunk.
ScanKey(e, k) ==
    /\ exec[e].pc = "scanning" /\ k \notin exec[e].scanned
    /\ IF k \in objects
       THEN /\ VerifyFence(e, "fenced") /\ ~request.frozen
            /\ chunks' = chunks \cup {k}
            /\ exec' = [exec EXCEPT ![e].scanned = @ \cup {k}, ![e].found = @ \cup {k}]
       ELSE exec' = [exec EXCEPT ![e].scanned = @ \cup {k}] /\ UNCHANGED chunks
    /\ UNCHANGED <<community, request, stamped, external>>

\* freeze_destructive_storage_manifest: the chunks are what was listed.
FreezeManifest(e) ==
    /\ exec[e].pc = "scanning" /\ exec[e].scanned = Keys
    /\ VerifyFence(e, "fenced") /\ ~request.frozen /\ chunks = exec[e].found
    /\ request' = [request EXCEPT !.frozen = TRUE]
    /\ exec' = [exec EXCEPT ![e].pc = "marking", ![e].scanned = {}, ![e].found = {}]
    /\ UNCHANGED <<community, chunks, stamped, external>>

MarkDrained(e) ==
    /\ exec[e].pc = "marking" /\ VerifyFence(e, "fenced") /\ WritesDrained
    /\ Advance(e, "drained")
    /\ UNCHANGED <<community, chunks, stamped, external>>

\* The first chunk that is not stamped is sent to the store for deletion.
SendDelete(e) ==
    /\ exec[e].pc = "drained" /\ VerifyFence(e, "drained")
    /\ \E k \in chunks \ stamped :
          /\ exec' = [exec EXCEPT ![e].pc = "deleting", ![e].chunk = {k}, ![e].acked = FALSE]
          /\ deletes' = deletes \cup {<<e, k>>}
    /\ UNCHANGED <<db, relays, objects, rows, history, faults>>

\* The store carries out the delete; its answer reaches an executor that waits.
Delete(e, k) ==
    /\ <<e, k>> \in deletes
    /\ deletes' = deletes \ {<<e, k>>}
    /\ objects' = objects \ {k} /\ removed' = removed \cup ({k} \cap objects)
    /\ exec' = [exec EXCEPT ![e].acked = @ \/ (exec[e].pc = "deleting" /\ exec[e].chunk = {k})]
    /\ UNCHANGED <<db, relays, rows, late, unseen, faults>>

\* mark_manifest_chunk_deleted
StampChunk(e) ==
    /\ exec[e].pc = "deleting" /\ exec[e].acked /\ VerifyFence(e, "drained")
    /\ exec[e].chunk \subseteq chunks \ stamped
    /\ stamped' = stamped \cup exec[e].chunk
    /\ exec' = [exec EXCEPT ![e].pc = "drained", ![e].chunk = {}, ![e].acked = FALSE]
    /\ UNCHANGED <<community, request, chunks, external>>

MarkBindingsRemoved(e) ==
    /\ exec[e].pc = "drained" /\ chunks = stamped /\ VerifyFence(e, "drained")
    /\ Advance(e, "bindings_removed")
    /\ UNCHANGED <<community, chunks, stamped, external>>

\* purge_postgres: all rows and the tombstone in one transaction.
PurgePostgres(e) ==
    /\ exec[e].pc = "bindings_removed" /\ VerifyFence(e, "bindings_removed")
    /\ community.state = "fenced"
    /\ rows' = FALSE
    /\ community' = [community EXCEPT !.state = "tombstone", !.archived = TRUE]
    /\ Advance(e, "postgres_purged")
    /\ UNCHANGED <<chunks, stamped, deletes, relays, objects, history, faults>>

\* The Redis namespace of the community is unlinked.
PurgeCache(e) ==
    /\ exec[e].pc = "postgres_purged" /\ VerifyFence(e, "postgres_purged")
    /\ Advance(e, "cache_purged")
    /\ UNCHANGED <<community, chunks, stamped, external>>

\* verify_postgres_logically_deleted
VerifyRows(e) ==
    /\ exec[e].pc = "cache_purged" /\ VerifyFence(e, "cache_purged")
    /\ community.state = "tombstone" /\ ~rows
    /\ At(e, "listing")
    /\ UNCHANGED <<db, external>>

\* Mutant: the frozen manifest is trusted, the store is not listed again.
AbsenceAssumed(k) == TRUE
Absent(k) == k \notin objects

\* verify_storage_absence: the prefixes are listed one after the other, with
\* no look back at the ones that were empty.
ListPrefix(e, k) ==
    /\ exec[e].pc = "listing" /\ k \notin exec[e].scanned /\ Absent(k)
    /\ exec' = [exec EXCEPT ![e].scanned = @ \cup {k}]
    /\ unseen' = unseen \ {k}
    /\ UNCHANGED <<db, deletes, relays, objects, rows, removed, late, faults>>

StillPresent(e, k) ==
    exec[e].pc = "listing" /\ k \notin exec[e].scanned /\ ~Absent(k) /\ Retry(e)

\* The key list is dropped with the verification.
MarkVerified(e) ==
    /\ exec[e].pc = "listing" /\ exec[e].scanned = Keys /\ VerifyFence(e, "cache_purged")
    /\ Advance(e, "logically_verified")
    /\ chunks' = {} /\ stamped' = {}
    /\ UNCHANGED <<community, external>>

MarkRetentionPending(e) ==
    /\ exec[e].pc = "logically_verified" /\ VerifyFence(e, "logically_verified")
    /\ request' = [request EXCEPT !.stage = "retention_pending", !.owner = NoExecutor,
                     !.live = FALSE, !.retries = 0, !.failed = "none"]
    /\ exec' = [exec EXCEPT ![e] = Resting]
    /\ UNCHANGED <<community, chunks, stamped, external>>

--------------------------------------------------------------------------------
\* A step that a running executor or the store takes without an error.
Progress(e) ==
    \/ Begin(e) \/ GiveUp(e)
    \/ Quiesce(e) \/ Fence(e) \/ NotDrained(e) \/ Disconnect(e) \/ ClearChunks(e)
    \/ \E k \in Keys : ScanKey(e, k)
    \/ FreezeManifest(e) \/ MarkDrained(e) \/ SendDelete(e)
    \/ \E k \in Keys : Delete(e, k)
    \/ StampChunk(e) \/ MarkBindingsRemoved(e) \/ PurgePostgres(e) \/ PurgeCache(e)
    \/ VerifyRows(e) \/ \E k \in Keys : ListPrefix(e, k) \/ StillPresent(e, k)
    \/ MarkVerified(e) \/ MarkRetentionPending(e)

ServingStep(w) ==
    \/ Acquire(w) \/ SendPut(w) \/ SeedPointer(w) \/ Put(w) \/ PutRow(w)
    \/ Finish(w) \/ DropGuard(w) \/ LeaseEnds(w)

Next ==
    \/ \E w \in Writers : ServingStep(w)
    \/ WriteRow
    \/ Submit \/ Prepare \/ Abort \/ Unblock \/ BlockUnclaimed
    \/ \E e \in Executors :
          Claim(e) \/ Progress(e) \/ TransientError(e) \/ PermanentError(e) \/ Stop(e)
    \/ ClaimExpires

Spec == Init /\ [][Next]_vars

\* An executor that runs takes its next step, and the store answers.  Nothing
\* is assumed of relays and operators, in particular not that one runs an
\* executor: run_loop ends when there is nothing to claim and after an error.
FairSpec == Spec /\ \A e \in Executors : WF_vars(Progress(e))

--------------------------------------------------------------------------------
(* Properties *)

\* A community that is not fenced has lost nothing to a deletion: none of its
\* objects was removed, not even by a delete that an aborted or superseded
\* executor had sent, and an active one is archived exactly if its users left it
\* so, however often quiescing was retried before the abort.
ActiveIsWhole ==
    /\ community.state \in {"active", "quiescing"} => removed = {}
    /\ community.state = "active" => community.archived = WasArchived

\* The drain closes the list: once it is frozen, every stored object that is
\* not listed was put there by a write that had no live lease, one that had
\* lost its lease or one that never takes any (seed_manifest_pointer), and a
\* stamped key is gone unless such a write brought it back.  No write under a
\* lease gets past the drain.
FrozenIsComplete ==
    request.frozen /\ request.stage \in {"fenced", "drained", "bindings_removed",
                                         "postgres_purged", "cache_purged"} =>
        /\ objects \subseteq chunks \cup late
        /\ objects \cap stamped \subseteq late

\* After the purge no row of the community appears again, whatever writes were
\* admitted before it was fenced.
PurgedStaysEmpty == community.state = "tombstone" => ~rows

\* A deletion that is recorded as logically verified left no object: what is
\* stored was written after its own prefix had been listed as empty.
VerifiedIsGone ==
    request.stage \in {"logically_verified", "retention_pending"} => objects \subseteq unseen

\* No tenant key can appear after the freeze (comment before the freeze in
\* execute_stage): while the list stands, all that is stored is on it.
NothingAfterFreeze ==
    request.frozen /\ request.stage \in {"fenced", "drained", "bindings_removed",
                                         "postgres_purged", "cache_purged"} =>
        objects \subseteq chunks

\* Where operators run an executor whenever the request can be claimed, an
\* approved request ends: deleted, aborted, or blocked for an operator.  No
\* expired claim, crash or late write leaves it to be retried for ever.
ApprovedEnds ==
    WF_vars(\E e \in Executors : Claim(e)) =>
        (request.stage = "approved" ~> (Terminal \/ request.blocked))
================================================================================
