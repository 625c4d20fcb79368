# Verification of the Buzz workspace

TLA+ models of the concurrent core of this repository, the TLC configurations
that check them and the TLAPS proofs of their main invariants. Line references
are to files under `crates/` unless they start with another directory.

## 1. Inventory

| Part | State it keeps | Operations | What is hard |
|---|---|---|---|
| Event queue (`buzz-acp/src/queue.rs`) | per channel: pending events, in-flight mark and deadline, retry throttle and count, cancelled batch, withheld steers | `push`, `flush_next`, `mark_complete`, three requeues, `drain_channel`, steer side table, compaction | eight maps that must agree; caps; a batch moves between five places |
| Main loop (`buzz-acp/src/lib.rs`) | task map, removed channels, heartbeat flag, respawn tasks | select! arms, `dispatch_pending`, `handle_prompt_result`, `recover_panicked_agent`, maintenance | results, panics, steer acks, membership changes and timers in any order |
| Agent pool and prompt tasks (`buzz-acp/src/pool.rs`) | agents by slot, control and steer channels of each task | `try_claim`, `return_agent`, `send_steer`, `run_prompt_task` | a turn races its cancel signal; each outcome decides whether the batch comes back |
| ACP client (`buzz-acp/src/acp.rs`) | pending steer, read loop | mid-turn steer write, its response, the neutral drain | a steer accepted by a loop that is about to return |
| Slot circuit breaker, lazy pool (`lib.rs`, `pool_lifecycle.rs`) | crash windows, cooldowns, in-flight respawns; lifecycle and attempt number, wake channel | `record_crash`, `can_refill`, respawn, wake, retry, idle sleep, inactivity exit | respawn and wake results that meet a pool torn down since; a batch in backoff under a sleeping pool; one more crash in a probe |
| Git on object storage (`buzz-relay/src/api/git`, announcements in `handlers/side_effects.rs`) | pointer, manifests, packs, names, kind:30618 | hydrate, receive-pack, compact, publish by conditional PUT, seed, roll back | concurrent pushes without a lock, lost requests and answers, compaction at the pack limit, rollback against a sibling |
| Subscriptions and connections (`buzz-relay/src`) | subscription index, connection table | subscribe, fan out, disconnect | delivery to a connection that goes away |
| Tunnel (`buzz-relay/src/tunnel`) | sequence numbers, resend buffer | send, ack, resume | loss and duplication across reconnects |
| Push delivery (`push_runtime.rs`, `buzz-db/src/push.rs`) | leased work items | claim, deliver, retry | lease expiry against a slow worker |
| Replica fence (`buzz-db/src/replica_fence.rs`) | last write position by key | record write, route read | stale replica after a write |
| Community deletion (`buzz-db/src/deletion.rs`, `buzz-deletion`, `migrations/0029`) | request stage, claim, fence generation, key list, serving leases | submit, approve, claim, ten stages, retry, block, abort, unblock; acquire, protect, finish | executors that outlive their claims, deletes and PUTs in flight across a fence, retries of half-done stages |
| Audit log (`buzz-audit/src/service.rs`) | hash chain head | append, verify | concurrent appends |
| Workflows (`buzz-workflow`, `buzz-db/src/workflow.rs`) | run and step states, approvals | start, advance, approve | double approval, crash between steps |
| Pairing (`buzz-core/src/pairing/session.rs`) | session state | offer, confirm, transfer | messages out of order |
| Kubernetes backend, mesh, audio rooms | reconcile state, member lists, rooms | see `PROJECT.json` | candidates for later modules |
| Clients, CLIs, SDKs, search, media, persona | no long-lived concurrent state | | not modelled |

How they meet: the relay stores and fans out Nostr events; the agent harness
(`buzz-acp`) subscribes over a WebSocket, queues the events of each channel and
drives ACP agents, one turn per channel at a time, over JSON-RPC pipes. Inside
the harness the main loop is one tokio task that owns the queue and the pool.
Prompt tasks, steer watchers and respawn tasks run beside it and reach it only
through channels (results, acks, respawn results) and the join set.

The harness comes first because it has the densest concurrent logic: every
event a user sends to an agent passes through it, and its errors (a lost
message, a message answered twice, a channel stuck for good) are the ones users
would see.

## 2. Modules

| Module | Models | Extends |
|---|---|---|
| `AcpEventQueue` | `EventQueue` of `queue.rs`: one record per channel, one operator per method | community module `Functions` |
| `AcpHarness` | the main loop, the pool, the prompt tasks and their steer arm | `AcpEventQueue` |
| `MCAcpHarness` | constants for TLC | `AcpHarness` |
| `AcpLazyPool` | the slots and their circuit breakers, respawn tasks, the lazy pool's lifecycle and the loop that polls them | `FiniteSetsExt` |
| `AtomicRefs` | what a repository promises to its clients: one all-or-nothing compare-and-swap of several refs per push | |
| `GitPublish` | pushes and announcements of one repository over the object store | `Functions`; instantiates `AtomicRefs` |
| `MCGitPublish` | constants for TLC | `GitPublish` |
| `CommunityDeletion` | deletion requests, executors, serving writes, the object store | |
| `AcpEventQueueProofs` | lemmas about the queue's operators, the sort | `AcpEventQueue`, `TLAPS` |
| `AcpHarnessProofs` | the harness: types, slots, one turn per channel | `AcpHarness`, `AcpEventQueueProofs` |
| `AcpDeliveryProofs` | the harness: what each step does with the events | `AcpHarnessProofs` |
| `AcpOnceProofs` | the harness: exactly-once delivery, the retry budget | `AcpDeliveryProofs` |
| `AcpLazyPoolProofs` | the theorems about the slots and the lazy pool | `AcpLazyPool`, `FiniteSetTheorems`, `TLAPS` |
| `GitPublishProofs` | the theorems about publication and the refinement of `AtomicRefs` | `GitPublish`, `FiniteSetTheorems`, `TLAPS` |
| `CommunityDeletionProofs` | the theorems about deletion | `CommunityDeletion`, `TLAPS` |

### The harness: state

- `q[c]` holds the entries that the maps of `EventQueue` have for channel `c`.
  Events are numbered in the order of receipt, so the number is `received_at`;
  `CreatedAt` gives each event its own timestamp, which may disagree with it.
  Instants are reduced to the comparisons the code makes: a deadline is none,
  set or passed; a retry throttle is none, future or past.
- `idle`, `task`, `respawning` are the pool, the task map together with the
  state of each prompt task, and the respawn tasks. `results` is the result
  channel (in order), `acks` the posted steer acks (their watchers are separate
  tasks, so any order), `removed` and `hb` the two variables of the loop.
- `pc` is the place of the main loop: `select` is the wait, `dispatch*` the
  rounds of `dispatch_pending` (one `flush_next` per step) with where it
  returns to, `joins` the panic drain after a result, `top` the maintenance
  block, `respawns`/`collected` the collection of respawn results.
- `arrived` and `gone` are history: how many events the relay delivered, and
  those whose end the code accounts for (answered, dead-lettered, steered in,
  evicted with a warning, dropped with their channel or by the owner).

### The harness: actions

Each select! arm is one action from its guard to the call of
`dispatch_pending`. `RelayEvent` includes the push, the mode gate and the choice between a
native steer and a cancel signal. `HandleResult` includes the requeue, the
`mark_complete` that must follow it, and the return or respawn of the agent.
The steps of prompt tasks are separate actions, since those run concurrently.

Abstractions that lose no control flow:

- An outcome is one of `Ok`, `Cancelled`, `DrainTimeout`, `HardSilent` (hard
  cap reached with no activity: notice, no retry), `Auth` (reported, no retry),
  `AppError` (retried, agent kept), `Fatal` (exit, transport, timeout: retried,
  agent respawned), `Panic`.
- The select! is biased; the model lets any ready arm run, which includes every
  order the bias allows. The only place the bias matters is the fairness of
  results (below).
- Which idle agent is claimed depends on session affinity; the model claims any.
- Whether a crashed slot is respawned or its circuit is open is a free choice.
- Prompt text, rules, authorisation of authors and reactions are left out: an
  event reaches the model once the gate has accepted it.
- The pool is the eager one; waking and sleeping of the lazy pool is the
  subject of `AcpLazyPool`.
- A table never holds the same event twice (checked by `NoDoubleDelivery`), so
  `position`/`remove` and `retain` are one operator, `Without`.

### The lazy pool (`AcpLazyPool`)

`pc` is the place in the main loop (`wake`, `maintenance`, `collect`, `select`),
`slot`, `circ` and `respawn` the agent, the `SlotCircuit` and the respawn task of
each slot, `ready` and `life` are `pool_ready` and `PoolLifecycle`, `wakeTasks`
and `wakeCh` the join set and the channel of wake results, `pending` is
`lazy_wake_work_pending`. The queue is two counters: batches that
`has_flushable_work` sees and batches in backoff. `crash_times` is kept as the
number of crashes inside the window, with the seeds of a half-open probe apart
because they share an instant; `quiet` says which inactivity bounds
`last_activity` has passed. Every handler runs to its `dispatch_pending`; wake
and respawn tasks, timers and windows are actions of their own. After a crash
with no agent left and no respawn on its way the loop ends (`AgentDies`).

### Git (`GitPublish`, `AtomicRefs`)

The store is the pointer (a digest, 0 for none), the sequence of manifests and
the set of packs. A digest is an index into `manifests`, and equal manifests
share an index, as content addressing has it. A commit stands for the objects it
brings, a pack for a set of commits, so that a pack set either holds the
closure of the refs or does not. At first the repository has no pointer (and its
name may be left over from a failed announcement), or it has the manifest of a
first push (`Start`).

A push may move any set of refs. It goes through `Ask` (the refs the client saw
and those it wants), `Hydrate`, `ReceivePack` or `Decline`, `UploadPacks` (a delta
pack, or compaction), `PutManifest` (which also sends the conditional PUT), and then
`CasLost`, `Finish`, `FinishFails` or `Fail`. `Unable` is the set of refs that
receive-pack must refuse: they have moved since the client looked, or an object is
missing. git is not atomic over the refs of a push, and it or the pre-receive hook
may refuse more, so `Decline` takes any set that contains `Unable`. One refused ref
is enough for nothing to be published, and the answer is git's own report:
`"refused"` if it refuses every ref, `"partial"` if it says `ok` of some.
`Compactions` is any split of the reachable objects into packs within the limit
(git splits large ones); where it does not apply, or fails, one pack is added if the
limit allows it.

The PUT is on the `wire`: `StoreCas` may evaluate it long after `Fail` has answered
the client, and `DropCas` loses it.

An announcement takes `Peek`, `Reserve` or `Reject` (quota, database error, a row that
is gone when its owner is read), `Ensure`, `SendSeed`; the store takes `StoreSeed` or
`DropSeed`, also after the announcement gave up (`SeedFails`). `Seeded` reads the
answer, `Emit` sends the first kind:30618 in a step of its own whose failure is
ignored, `Release` rolls back.

Left out: git writes a pack without objects when a push brings none, and so does
`DeltaPack`; the branch of the code for a pack of no bytes is not represented. The
serving lease of a push belongs to `CommunityDeletion`; here its loss is one of the
causes of `Fail` and `FinishFails`. `latest` is the newest kind:30618: that it names a
published manifest is checked, in which order concurrent pushes emit is not
constrained by the code, and no property speaks of it.

`AtomicRefs` is the abstract repository. The mapping gives it the refs of the
pointer's manifest; `ask`, `applied` and `reply` are the same in both. All refs of a
push move at once or none does. A client that was refused, wholly or in part, is one
whose update never happens; a client told of an error knows nothing. That a partly
refused client reads `ok` of refs that are not published is finding 3.

### Deletion (`CommunityDeletion`)

One community. `request` is its row of `community_deletion_requests`, `community`
the lifecycle columns, `chunks`/`stamped` the destructive manifest, one key to a
chunk, `exec` the executors between two transactions, `lease` and `serving` the
writes of relays. One action is one transaction; the row lock and the advisory
lock of the community make it atomic. `PurgedStaysEmpty` is therefore about the
order of transactions, not about what happens inside one. Deletes (`deletes`) and
PUTs (`serving[w].wire`) take effect on their own.

Writers are of two kinds. `Acquire`, `SendPut`, `Finish` or `DropGuard` is a write under
a serving lease. `SeedPointer` is the seed of a repository announcement: it
passes `is_serving_active`, which takes no lock, and sends its PUT without a lease.
Check and send are one step, which loses nothing, since the PUT may arrive at any
time after.

The scan before the freeze visits the keys one by one, and so does the listing of
the verification, where each key has a prefix of its own (`ListPrefix`), so that
writes fall between. A claim that expires leaves its holder running.
`BlockUnclaimed` is the block by an operator before a claim, or by a claim that finds
the catalog changed; only the second clears an expired owner in the code, which
nothing reads while the request is blocked, and the model always clears it.
`removed`, `late` and `unseen` are history. Redis is not represented: its purge
and its check have no effect the properties speak of.

## 3. Runs

| Run | Instance | Shows |
|---|---|---|
| `harness_queue` | 2 channels, 2 agents, 3 events, queue cap 2, batch 2, 1 retry; silent timeouts, fatal errors, panics, heartbeats, membership changes | `TypeOK`, `SlotOwnership`, `OneTurnPerChannel`, `NoDoubleDelivery`, `NoSilentLoss`, `LastIsNewest`, `RemovedStaysDrained` |
| `harness_steer` | 2 channels, 1 agent, 3 events; steer handling, owner cancel and model switch, drain timeouts, retried errors, panics, membership changes | `OneTurnPerChannel`, `NoDoubleDelivery`, `WithheldIsAwaited`, `CancelledNeverThrottled`, `RemovedStaysDrained`, `OnlyMergedEventsVanish` |
| `harness_overrun` | 1 channel, 2 agents, 3 events; turns may outlive their deadline, so that two turns of a channel overlap | `SlotOwnership`, `InFlightHasDeadline`, `WithheldIsAwaited` |
| `harness_live` | 2 channels, 2 agents, 2 events, 2 retries, fairness | `EveryEventSettles`, `RetryBudgetKept` |
| `lazy_pool` | 2 slots, threshold 2, 1 batch, 2 counted wake attempts, all bounds set, fairness | `TypeOK`, `RespawnOwnsSlot`, `OneWakeAwaited`, `NoBatchStranded`, `ProbeIsOnTrial`, `EmptySlotRetried`, `PendingWorkWakes`, `InactiveHarnessExits` |
| `git_publish` | 2 pushes of any refs, 1 announcement, 2 branches, 2 commits; a new repository or one with a push; compaction from 1 pack, at most 2 packs | `TypeOK`, `OneHistory`, `NotifiedWasPublished`, `PublishedCloneable`, `ImplementsAtomicRefs` |
| `deletion` | 2 executors, 1 writer, 2 keys of which 1 is stored, 2 requests, 2 retries, 1 fault, fairness | `TypeOK`, `ActiveIsWhole`, `FrozenIsComplete`, `PurgedStaysEmpty`, `VerifiedIsGone`, `ApprovedEnds` |
| `harness_merge_loss` | violation | `NoSilentLoss` fails under steering |
| `harness_retry_budget` | violation | `RetryBudgetKept` fails when agents are scarce |
| `git_announce_rollback` | violation | `AcceptedKeepsName` fails when a sibling rolls back |
| `git_partial_report` | violation | `OkMeansPublished` fails for a push of which one ref is refused |
| `deletion_post_freeze` | violation | `NothingAfterFreeze` fails for a write without a lease |

Bounds. Three events with a queue cap of two make the queue overflow while a
batch is in flight; a batch size below the number of events leaves a remainder
behind a drained batch; one retry is enough to see both the backoff and the dead
letter (two, in the liveness run, so that the count can be reset in between);
two slots let one be idle, busy or respawning while the other is something
else, and a single slot makes the pool exhaust. `CreatedAt` puts the events in
an order different from their arrival.

In `lazy_pool` two slots let one respawn while the other serves, and one batch is
enough for every state of the queue; attempts are counted to two, which is where a
stale result would first differ from the awaited one. In `git_publish` two pushes
race each other and the seed of an announcement. A repository that starts with
one push has a pack to compact, and two pushes reach the limit of two packs, so no
third is needed; a compaction may yield one pack or two. Two commits in a line give
fast-forwards, rewinds, new and deleted branches, two branches a push refused in
part. Two announcements meet in `git_announce_rollback`; the theorems are about any
number.
In `deletion` two executors give a stale one beside a live one, two requests a
resubmission after an abort, one stored and one new key a delete and a late PUT;
the single fault is an expired claim, a stopped executor or a lifted block.

`CHECK_DEADLOCK` is on: a harness that has exited and a repository whose requests
have all been answered stutter explicitly. It is off in `deletion`, where a
finished or blocked request really leaves nothing to do.

Interrupt handling and the drop dedup mode are in the model, and covered by the
proofs, but no run uses them: interrupting is the cancel half of steering,
and drop mode never hands a batch back.

### Fairness

`FairSpec` assumes that the main loop finishes what it started (it never awaits
anything unbounded between two waits); that results are handled if they keep
being ready (the select! is biased towards them); that the maintenance block is
taken again and again if the loop keeps passing it (it runs once 30 seconds have
gone by); that timers tick; that each turn ends (idle timeout and hard cap in
the read loop); and that a backoff elapses. Nothing is assumed of the relay,
the owner, steers, panics or respawns.

`EveryEventSettles` needs a timer that wakes the loop (`Ticks`): a batch waiting
for its backoff on an otherwise quiet harness is dispatched by the maintenance
block, which only runs when some arm ends the wait. The presence, typing and
heartbeat timers do that. It is checked with as many agents as channels: with
fewer, the finding below resets the retry count of a batch that found no agent,
and a batch that always fails is then retried for ever.

`AcpLazyPool` assumes that the loop goes round (`LoopStep`, `Tick`), that the
maintenance block and the arms for wake results, dead wake tasks and inactivity
are not passed over for ever, and that tasks end (by their timeouts) and time
passes. `SF` is used where the guard comes and goes with the place of the loop.
`InactiveHarnessExits` has its other premise in the formula: the bound keeps being
exceeded, no turn runs and no event arrives.

`CommunityDeletion` assumes of a running executor that it takes its next step, and
of the store that it carries out deletes. It does not assume that there is a running
executor: `run_loop` returns when nothing can be claimed
(`buzz-deletion/src/lib.rs:822`) and after a failure (833), and nothing in the
repository starts it again. That an operator runs one whenever the request can be
claimed is a premise of `ApprovedEnds`, stated in the formula; without it a request
waits after its first retry. Operators and relays owe nothing else: a block counts
as an end, since only an operator can lift it.

`GitPublish` states no fairness: it has safety and refinement only, and clients
may go away.

### Findings

1. `harness_merge_loss`: `requeue_preserve_timestamps` and `requeue` put back
   `batch.events` only. If the batch had absorbed a cancelled one
   (`batch.cancelled_events`), those events vanish without a dead letter.
   `OnlyMergedEventsAreLost` proves that nothing else is ever lost, and
   `NoEventIsLost` that nothing is lost at all where no batch can be merged.
2. `harness_retry_budget`: the no-agent path of `dispatch_pending` calls
   `mark_complete`, which takes an elapsed throttle for success and clears the
   retry count of the batch it has just put back. `BudgetLostOnlyWithoutAgent`
   proves that this path is the only one that loses the count.
3. `git_partial_report`: git may accept some refs of a push and refuse others, for
   instance one that a concurrent push has moved. `finalize_push_inner` then publishes
   nothing and returns git's report with status 200, and the report says `ok` of the
   accepted refs. `PublicationIsAtomic` proves that such a push never takes effect.
4. `git_announce_rollback`: a fresh announcement whose seed fails releases the name
   even if the pointer exists (its answer was lost, or a sibling seeded and a push
   followed). A sibling that was accepted on that pointer loses its name.
5. `deletion_post_freeze`: `buzz-deletion/src/lib.rs:1108` says that "no tenant key can
   appear after the freeze". `seed_manifest_pointer` writes a tenant key without a
   lease, so the drain does not wait for it. A PUT whose lease expired or whose guard
   was dropped may come late as well. `FrozenListIsComplete` proves that there are no
   other cases.
   The verification lists the prefixes again and finds such a key, unless it arrives
   after its prefix was listed.

Statements in the repository that the models contradict, without a run of
their own:

- `queue.rs:347` says that consumers of a batch require its last event to be the
  newest, and sorts. The fallback of `flush_next` for cancelled batches
  (`queue.rs:314`) does not. `ReplyAnchorsToNewest` proves the statement where no batch can
  be merged.
- `docs/git-on-object-storage.md:226` and `transport.rs:1983` say that a push
  without changes pays no kind:30618. The manifest names its parent, so its digest
  always differs and the event is always emitted.
- `transport.rs` says of a 5xx that "no pointer was written". A PUT with a lost
  answer is written; the abstract specification therefore lets an update take
  effect after an error.
- `docs/git-on-object-storage.md:463` calls a failed kind:30618 insert non-fatal; the
  code answers 500 (`FinishFails`).
- `cas_publish.rs:1160` reports that a push without objects reuses the parent's packs.
  git writes a pack without objects, so this happens only if no ref is left.

## 4. Proofs

### The harness

The theorems hold for every set of channels and slots, every number of events,
every cap and every configuration. They assume `QueueConstants` (the caps are
positive, timestamps are naturals) and `HarnessConstants` (the configuration
values are of their types; the marker for "no channel" is not a channel).

- `TypeCorrect`: `Spec => []TypeOK`. `TypeOK` is not inductive: a steer ack
  must name a channel, and the ack is built from the task's channel. The
  strengthening `TypeInv` adds that a heartbeat task never has a steer receiver.
  Each queue method has a lemma that it keeps the channel state well formed.
  The one with substance is the sort.
- `SortByCreatedSorts`: the rank function of the sort is an injection of
  `1..n` into itself (a position that precedes another has the smaller rank),
  hence a surjection, so the sort is a permutation; and it is ordered.
- `SlotsHaveOneOwner`: `Spec => []SlotOwnership`, inductive with `TypeInv`.
- `FlightsHaveDeadlines`: `Spec => []InFlightHasDeadline`, for overrunning turns
  too.
- `OneTurnAtATime`: `~Overrun` implies `Spec => []OneTurnPerChannel`. The
  inductive invariant `TurnInv` joins `TypeInv`, `SlotOwnership` (a claimed slot
  had no task), `InFlightHasDeadline` and `NeverOverdue` (so that expiry frees no
  channel whose turn still runs). The hypothesis is needed: with overruns a
  channel has two turns at a time, by design of the expiry.

### Where the events go (`AcpDeliveryProofs`)

The harness has some thirty actions but only eight ways to treat the events it
holds. `StepKinds` proves, from `BaseInv` (`TypeInv`, `SlotOwnership` and
`ShapeInv`: a slot without a task and a heartbeat carry no batch, a closed steer
receiver holds no request), that every step is one of them: tables and batches
stay (`StillStep`), an event arrives, a channel is drained, a steer ack is
applied, deadlines expire, a flush finds no agent, a flush is dispatched, or a
batch is settled. For each queue method one lemma says where the events of its
channel go (`Account`). On that rest:

- `RemovedChannelsStayDrained` and `OnlyMergedEventsAreLost`, the two action
  properties, in every configuration, overruns included;
- `FallbackNeverBypassesBackoff`: `~Overrun` implies
  `Spec => []CancelledNeverThrottled`. The invariant `CalmInv` adds that a
  channel with a throttle or a cancelled batch has no turn in flight, so that no
  turn ends into either of them.
  The hypothesis is what makes a channel's throttle and its turn exclude each
  other;
- `WithheldEventsAreAwaited`: `Spec => []WithheldIsAwaited`, in every
  configuration. `AwaitInv` names who waits for each withheld event; it needs
  `WithheldInv` (the side table holds an event once, and only events that have
  arrived), since releasing one copy of an event must leave none behind.

### Exactly once (`AcpOnceProofs`)

- `NoEventTwice`: `~Overrun` implies `Spec => []NoDoubleDelivery`. The run's
  property is not inductive: a late steer ack with success counts its event as
  answered, wherever the event is by then. `DeliveryInv` adds to `TurnInv` and
  `ShapeInv` that the tables and batches of all channels and slots are disjoint
  from each other and from what is done with (`OnceInv`), that all events in them
  have arrived, so that a new one is new (`ArrivedInv`), that no two requests or
  acks speak of one event (`TokensDistinct`), and that the event of each is
  withheld on its channel or done with (`TokensSecure`). The hypothesis is
  needed: the expiry of an overdue turn puts the withheld events back in the queue,
  where one may be dispatched again, and the late ack of the old turn then counts
  it as steered in as well.
- `NoEventIsLost` and `ReplyAnchorsToNewest`: `NothingMerged` implies
  `Spec => []NoSilentLoss` and `Spec => []LastIsNewest`, with overruns. `NothingMerged`
  is the drop dedup mode, or queue handling with an owner who does not switch
  models: the configurations in which no cancelled batch is handed back.
  `TameInv` says so of every state (nothing cancelled, nothing merged, no kept batch
  with a cancelled outcome). In the others both properties are false (finding
  1, and the unsorted fallback below it).
- `BudgetLostOnlyWithoutAgent`: `~Overrun` implies
  `Spec /\ [][~PoolExhausted]_vars => RetryBudgetKept`. The second conjunct says
  that every flush finds a free agent; without it the property is false
  (finding 2).

### The lazy pool (`AcpLazyPoolProofs`)

For every finite set of slots, every crash threshold above one, every amount of
work and every choice of lazy or eager start and of the two inactivity bounds. Assumed is
`PoolConstants` (the types of these constants; there is a slot). `PoolInv` adds to `TypeOK` and
`RespawnOwnsSlot`:

- `AsleepIsEmpty`: only a lazy pool sleeps, and then every slot is empty, no
  respawn is on its way and nothing is in backoff. The arrival of a wake result
  replaces the whole pool, so anything left there would be lost or
  doubled; idle sleep is where this has to be established;
- `ReadyIsListening`, `WakeIsBorne`: a wake is under way only while the pool is
  not ready, and has one bearer, its task until it posts, then the posted
  result, with the attempt the lifecycle waits for;
- `WorkIsSeen`: from the top of the loop to the wait, queued work has started a
  wake or armed the retry timer;
- `ProbeIsSeeded`: a slot on trial keeps the seeds of its half-open probe.

`TypeCorrect`, `RespawnsOwnTheirSlots`, `OneWakeIsAwaited`,
`BatchesAreNotStranded` and `ProbesAreOnTrial` follow.

### Git publication (`GitPublishProofs`)

For every set of pushes, announcements, refs and commits, every commit graph and
every pair of limits. Assumed is `GitConstants`: `refs/heads/main` is a ref, the
absent value is no commit, a commit's parents are commits, a repository starts
empty or with a branch `main`, and the pack limit is positive and at least the
compaction threshold. Neither finite sets nor an acyclic graph is
needed: reachability is the least set closed under parents.

The properties of the runs are not inductive: they speak of what was published,
and a conditional PUT may arrive long after its relay has crashed and answered
with an error. `GitInv` therefore describes what is still on its way:

- `ManifestsSound`: every stored manifest, published or not, is cloneable, and its
  parent was stored before it. That gives the strict order behind "no ABA": the
  digest the pointer moves to is larger than the one it leaves.
- `ManifestsDistinct`: a manifest has one digest, so a seed that lost to a sibling
  finds the digest it would have written.
- `SeedSound`, for each announcement: where the store accepted its seed, or the
  announcement goes on to `Emit`, the empty manifest was published.
- `HistorySound`: the history is increasing and chained by parents.
- `PushSound`, for each push: before the PUT is sent nothing has taken effect; a PUT
  in transit carries a manifest whose parent is its precondition and whose refs
  are the parent's with all of the client's updates, has not taken effect, and its
  client has no definite answer (`InTransit`); the store's response agrees with
  what happened (`Response`).

No step overwrites or removes an object or a piece of history (`Grows`), so the
pushes that do not act stay sound by one lemma (`OthersStaySound`), and each kind
of step has one lemma for the push that acts. `HistoryIsLinear`,
`PublishedStaysCloneable`, `EventsAreTrue` and `TypeCorrect` follow.
`PublicationIsAtomic` is the refinement `Spec => Atomic!Spec`: the store's
evaluation of the PUT is the abstract effect, `InTransit` supplies its guard, and
every other step is a question, an answer or a stutter. Pushes move any set of
refs; a push that is refused in part never takes effect. These are the statements of
Theorems 1 to 3 of `docs/git-on-object-storage.md`, about the code's protocol.

### Deletion (`CommunityDeletionProofs`)

For every set of executors, writers and keys and every bound on requests,
retries and faults. Assumed is `DeletionConstants` (the keys present at first are
keys, "no executor" is not one, the retry limit is positive). `DeletionInv` adds to
the invariants of the run:

- `Lifecycle`, `FenceCount`: the request's stage and the community's state move
  together, and a request raises the fence at most twice;
- `FencedIsDrained`: behind the fence no write is under a live lease;
- `DestroyedLate`, `StampedLate`, `FrozenLate`, `ArchiveSaved`: what cannot have
  happened before the point of no return, and where the users' archive flag is;
- `HolderIsSound`: what the executor that holds the claim has established so
  far. A scan, a delete and an absence check take several steps, in which the
  claim may pass to another executor; what counts is what the holder itself saw, and
  an executor that lost its claim can publish nothing.

`ActiveCommunityIsWhole`, `FrozenListIsComplete`, `PurgedCommunityStaysEmpty`,
`VerifiedDeletionIsGone` and `TypeCorrect` follow. `FrozenListIsComplete` says that what
is stored and not listed came from a write without a live lease: one that had lost
its lease, or a seed, which has none. `VerifiedDeletionIsGone` holds for each prefix:
what is stored after the verification was written after its own prefix was listed.

### Only model-checked

The liveness properties (`EveryEventSettles`, `EmptySlotRetried`,
`PendingWorkWakes`, `InactiveHarnessExits`, `ApprovedEnds`): liveness under fairness
and `ENABLED` are outside this prover's reach. Every invariant and action property
of the passing runs is a theorem. `NoSilentLoss`, `LastIsNewest` and
`RetryBudgetKept` are theorems under the hypotheses above, which are those of
their passing runs or weaker; the runs marked as violations show what happens
without them.

## 5. Plan

Done: the harness with its queue, pool and steering; the slots and the lazy pool;
git publication with its refinement; community deletion; proofs of every safety
property of the four.

Next, in order:

1. `ReplicaFence`, `AuditChain`: read-your-writes, one chain under concurrent
   appends.
2. `PushLease`, `TunnelReliable`, `PairingSession`, `Subscriptions`, the relay client's
   reconnect and replay.

### Not modelled

The repository has some 380,000 lines, most of them clients, user interfaces, SQL
queries, protocol encoders and tests. The models cover the parts whose
correctness is a matter of concurrency. Rendering, command-line tools, SDKs,
media and voice, language-model calls, SQL whose guarantee is that of one
transaction, and network framing have no behaviour that a model would check
better than their unit tests. The parts listed under (1) and (2) do, and are not
modelled yet; `PROJECT.json` gives each its reason.
