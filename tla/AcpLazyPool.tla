------------------------------ MODULE AcpLazyPool ------------------------------
(***************************************************************************)
(* The agent slots of the harness (buzz-acp/src/lib.rs) and the lifecycle  *)
(* of a lazy pool (pool_lifecycle.rs): the circuit breaker and respawn     *)
(* task of each slot, the wake task that starts a deferred pool, the idle  *)
(* sleep that tears it down again and the inactivity exit.                 *)
(*                                                                         *)
(* The event queue is reduced to counters of batches: ready to dispatch    *)
(* (queued) and waiting for a retry backoff (throttled).  Instants are     *)
(* reduced to the comparisons the code makes with them.                    *)
(***************************************************************************)
EXTENDS Integers, Sequences, FiniteSets, FiniteSetsExt

CONSTANTS
    Slots,        \* agent slots (config.agents)
    Threshold,    \* CIRCUIT_BREAKER_THRESHOLD
    Lazy,         \* config.lazy_pool
    SleepBound,   \* whether idle_pool_sleep_secs is nonzero
    ExitBound,    \* whether exit_after_inactivity_secs is nonzero
    Heartbeats,   \* whether a heartbeat interval is configured
    MaxWork,      \* bound: batches in the queue or in a turn
    MaxAttempt    \* bound: wake attempts are counted up to this one

ASSUME PoolConstants ==
    /\ IsFiniteSet(Slots) /\ Slots # {}
    /\ Threshold \in Nat \ {0, 1}
    /\ {Lazy, SleepBound, ExitBound, Heartbeats} \subseteq BOOLEAN
    /\ MaxWork \in Nat
    /\ MaxAttempt \in Nat \ {0}

VARIABLES
    pc,           \* place of the main loop
    slot,         \* the slot: empty, idle in the pool, or in a turn or a heartbeat
    circ,         \* SlotCircuit of each slot
    respawn,      \* the respawn task of each slot, up to its posted result
    ready,        \* pool_ready
    life,         \* PoolLifecycle
    wakeTasks,    \* the join set of wake tasks
    wakeCh,       \* the channel of wake results, of capacity 1
    pending,      \* lazy_wake_work_pending of this iteration
    queued,       \* batches has_flushable_work can see
    throttled,    \* batches waiting for their backoff
    probing,      \* history: slots whose half-open probe was granted within the window
    quiet         \* the bounds that last_activity has exceeded

loop == <<pc, pending>>
slots == <<slot, circ, respawn, probing>>
wakes == <<ready, life, wakeTasks, wakeCh>>
work == <<queued, throttled>>
vars == <<loop, slots, wakes, work, quiet>>

Listening == [st |-> "listening", attempt |-> 0, due |-> FALSE]
Waking(n) == [st |-> "waking", attempt |-> n, due |-> FALSE]
Failed(n) == [st |-> "failed", attempt |-> n, due |-> FALSE]

\* crash_times holds the seeds of a half-open probe (all of one instant) and
\* then crashes of its own; only those inside the window are kept here.
Closed == [seeded |-> FALSE, own |-> 0, open |-> "no", inflight |-> FALSE]

SlotStates == {"empty", "idle", "turn", "beat"}
Circuits == [seeded : BOOLEAN, own : 0..Threshold - 1,
             open : {"no", "cooling", "elapsed"}, inflight : BOOLEAN]
WakeTasks == [attempt : 1..MaxAttempt, st : {"running", "panicked", "finished"}]
WakeResults == [attempt : 1..MaxAttempt, live : SUBSET Slots]

TypeOK ==
    /\ pc \in {"wake", "maintenance", "collect", "select", "exit"}
    /\ slot \in [Slots -> SlotStates]
    /\ circ \in [Slots -> Circuits]
    /\ respawn \in [Slots -> {"none", "running", "ok", "failed"}]
    /\ ready \in BOOLEAN /\ pending \in BOOLEAN
    /\ life \in [st : {"listening", "waking", "failed"}, attempt : 0..MaxAttempt,
                 due : BOOLEAN]
    /\ wakeTasks \subseteq WakeTasks
    /\ wakeCh \in Seq(WakeResults) /\ Len(wakeCh) <= 1
    /\ queued \in Nat /\ throttled \in Nat /\ probing \subseteq Slots
    /\ quiet \subseteq {"sleep", "exit"}

InState(sl, st) == {s \in Slots : sl[s] = st}

\* The eager pool starts with at least one live agent or not at all.
Init ==
    /\ pc = "wake" /\ pending = FALSE
    /\ \E live \in IF Lazy THEN {{}} ELSE (SUBSET Slots) \ {{}} :
          slot = [s \in Slots |-> IF s \in live THEN "idle" ELSE "empty"]
    /\ circ = [s \in Slots |-> Closed]
    /\ respawn = [s \in Slots |-> "none"]
    /\ ready = ~Lazy /\ life = Listening
    /\ wakeTasks = {} /\ wakeCh = <<>>
    /\ queued = 0 /\ throttled = 0 /\ quiet = {} /\ probing = {}

--------------------------------------------------------------------------------
(* SlotCircuit *)

Recent(c) == c.own + IF c.seeded THEN Threshold - 1 ELSE 0

\* Mutant: the probe starts with a clean window.
HalfOpenClean(c) == [c EXCEPT !.seeded = FALSE, !.own = 0, !.open = "no"]
\* A half-open probe: seed the window so that the next crash trips again.
HalfOpen(c) == [c EXCEPT !.seeded = TRUE, !.own = 0, !.open = "no"]

\* Until a probe seeds it anew, an open circuit does not look at crash_times.
Opened(c) == [c EXCEPT !.seeded = FALSE, !.own = 0, !.open = "cooling"]

\* Mutant: the circuit trips one crash late.
TripsLate(c) == Recent(c) + 1 > Threshold
Trips(c) == Recent(c) + 1 >= Threshold

\* record_crash: the new state and whether a respawn may follow.
RecordCrash(c) ==
    CASE c.open = "elapsed" -> [circ |-> HalfOpen(c), respawn |-> TRUE]
      [] c.open = "cooling" -> [circ |-> c, respawn |-> FALSE]
      [] OTHER -> [circ |-> IF Trips(c) THEN Opened(c) ELSE [c EXCEPT !.own = @ + 1],
                   respawn |-> ~Trips(c)]

MarkSpawnFailed(c) == Opened(c)

\* The slots whose probe is still on trial after a step of their circuits.
StillProbing(cs) ==
    {s \in Slots : /\ cs[s].open = "no"
                   /\ circ[s].open = "elapsed" \/ s \in probing}

AnyRespawnInFlight(cs) == \E s \in Slots : cs[s].inflight

--------------------------------------------------------------------------------
(* dispatch_pending: as many batches as there are idle agents.  The slots   *)
(* and circuits are those the caller has reached in the same handler.       *)

DispatchPending(sl, n) ==
    LET idle == InState(sl, "idle")
        k == Min({n, Cardinality(idle)})
    IN  \E chosen \in kSubset(k, idle) :
           /\ slot' = [s \in Slots |-> IF s \in chosen THEN "turn" ELSE sl[s]]
           /\ queued' = n - k
           /\ quiet' = IF k > 0 THEN {} ELSE quiet

--------------------------------------------------------------------------------
(* The top of the loop *)

\* Mutant: a failed wake is never tried again.
StartFirstWakeOnly(work_pending) ==
    IF work_pending /\ life.st = "listening" THEN 1 ELSE 0
\* Mutant: a wake in progress does not stop the next one.
StartWakeAlways(work_pending) ==
    IF work_pending THEN Min({life.attempt + 1, MaxAttempt}) ELSE 0
\* start_wake_if_due: the attempt to start, or 0.
StartWakeIfDue(work_pending) ==
    CASE work_pending /\ life.st = "listening" -> 1
      [] work_pending /\ life.st = "failed" /\ life.due -> Min({life.attempt + 1, MaxAttempt})
      [] OTHER -> 0

WakeIfDue ==
    /\ pc = "wake"
    /\ pc' = "maintenance"
    /\ pending' = (Lazy /\ ~ready /\ queued > 0)
    /\ LET n == StartWakeIfDue(pending')
       IN  IF Lazy /\ ~ready /\ n # 0
           THEN /\ life' = Waking(n)
                /\ wakeTasks' = wakeTasks \cup {[attempt |-> n, st |-> "running"]}
           ELSE UNCHANGED <<life, wakeTasks>>
    /\ UNCHANGED <<slots, ready, wakeCh, work, quiet>>

SkipMaintenance ==
    /\ pc = "maintenance"
    /\ pc' = "collect"
    /\ UNCHANGED <<pending, slots, wakes, work, quiet>>

Refillable == {s \in Slots : /\ slot[s] = "empty" /\ ~circ[s].inflight
                             /\ circ[s].open # "cooling"}

\* The slot refill (can_refill) and the dispatch of elapsed backoffs.
Maintenance ==
    /\ pc = "maintenance" /\ ready
    /\ pc' = "collect"
    /\ circ' = [s \in Slots |->
                  IF s \notin Refillable THEN circ[s]
                  ELSE [(IF circ[s].open = "elapsed" THEN HalfOpen(circ[s]) ELSE circ[s])
                        EXCEPT !.inflight = TRUE]]
    /\ probing' = StillProbing(circ')
    /\ respawn' = [s \in Slots |-> IF s \in Refillable THEN "running" ELSE respawn[s]]
    /\ DispatchPending(slot, queued)
    /\ UNCHANGED <<pending, wakes, throttled>>

\* Drain respawn_rx, then dispatch if an agent came back.
CollectRespawns ==
    LET arrived == InState(respawn, "ok")
        failed == InState(respawn, "failed")
        live == [s \in Slots |-> IF s \in arrived THEN "idle" ELSE slot[s]]
    IN  /\ pc = "collect"
        /\ pc' = "select"
        /\ respawn' = [s \in Slots |-> IF s \in arrived \cup failed THEN "none"
                                       ELSE respawn[s]]
        /\ circ' = [s \in Slots |->
                      IF s \in arrived THEN [circ[s] EXCEPT !.inflight = FALSE]
                      ELSE IF s \in failed
                           THEN MarkSpawnFailed([circ[s] EXCEPT !.inflight = FALSE])
                      ELSE circ[s]]
        /\ probing' = StillProbing(circ')
        /\ IF arrived # {} THEN DispatchPending(live, queued)
                           ELSE UNCHANGED <<slot, queued, quiet>>
        /\ UNCHANGED <<pending, wakes, throttled>>

--------------------------------------------------------------------------------
(* The arms of the select! *)

AtSelect == pc = "select" /\ pc' = "wake" /\ UNCHANGED pending

\* The batch of a failed turn backs off; a finished or dead-lettered one is gone.
Requeued(s) ==
    \/ UNCHANGED throttled
    \/ slot[s] = "turn" /\ throttled' = throttled + 1

\* A result that leaves the agent alive; the batch is done or backs off.
AgentReturns(s) ==
    /\ AtSelect /\ slot[s] \in {"turn", "beat"}
    /\ Requeued(s)
    /\ DispatchPending([slot EXCEPT ![s] = "idle"], queued)
    /\ UNCHANGED <<circ, respawn, probing, wakes>>

\* A fatal result or a panic: the batch is requeued or dead-lettered, then the
\* circuit decides; with no agent left and none on its way the harness exits.
AgentDies(s) ==
    LET verdict == RecordCrash(circ[s])
        live == [slot EXCEPT ![s] = "empty"]
    IN  /\ pc = "select" /\ UNCHANGED pending
        /\ slot[s] \in {"turn", "beat"}
        /\ Requeued(s)
        /\ circ' = [circ EXCEPT ![s] = [verdict.circ EXCEPT !.inflight = @ \/ verdict.respawn]]
        /\ probing' = StillProbing(circ')
        /\ respawn' = [respawn EXCEPT ![s] = IF verdict.respawn THEN "running" ELSE @]
        /\ IF InState(live, "empty") = Slots /\ ~AnyRespawnInFlight(circ')
           THEN pc' = "exit" /\ slot' = live /\ UNCHANGED <<queued, quiet>>
           ELSE pc' = "wake" /\ DispatchPending(live, queued)
        /\ UNCHANGED wakes

\* The heartbeat arm: dispatch if there is work, else prompt an idle agent.
Heartbeat ==
    /\ Heartbeats /\ AtSelect
    /\ \/ ready /\ queued > 0 /\ DispatchPending(slot, queued)
       \/ /\ ready /\ queued = 0 /\ InState(slot, "beat") = {}
          /\ \E s \in InState(slot, "idle") : slot' = [slot EXCEPT ![s] = "beat"]
          /\ UNCHANGED <<queued, quiet>>
    /\ UNCHANGED <<circ, respawn, probing, wakes, throttled>>

\* An event that starts a new batch is queued, and dispatched if the pool is ready.
Accept ==
    /\ AtSelect
    /\ queued + throttled + Cardinality(InState(slot, "turn")) < MaxWork
    /\ IF ready THEN DispatchPending(slot, queued + 1)
                ELSE queued' = queued + 1 /\ UNCHANGED <<slot, quiet>>
    /\ UNCHANGED <<circ, respawn, probing, wakes, throttled>>

\* The agent is removed from a channel whose batch waits (drain_channel).
DrainChannel ==
    /\ AtSelect
    /\ \/ queued > 0 /\ queued' = queued - 1 /\ UNCHANGED throttled
       \/ throttled > 0 /\ throttled' = throttled - 1 /\ UNCHANGED queued
    /\ UNCHANGED <<slots, wakes, quiet>>

\* Presence, typing and other timers, which only end the wait.
Tick ==
    /\ AtSelect
    /\ UNCHANGED <<slots, wakes, work, quiet>>

\* complete_wake accepts the result of the attempt it is waking and no other.
Completes(attempt) == life.st = "waking" /\ life.attempt = attempt

WakeResult ==
    /\ AtSelect /\ Lazy /\ ~ready /\ wakeCh # <<>>
    /\ wakeCh' = Tail(wakeCh)
    /\ LET r == Head(wakeCh)
       IN  CASE ~Completes(r.attempt) ->
                  UNCHANGED <<slot, ready, life, queued, quiet>>
             [] Completes(r.attempt) /\ r.live = {} ->
                  life' = Failed(r.attempt) /\ UNCHANGED <<slot, ready, queued, quiet>>
             [] OTHER ->
                  /\ life' = Listening /\ ready' = TRUE
                  /\ DispatchPending([s \in Slots |-> IF s \in r.live THEN "idle" ELSE "empty"],
                                     queued)
    /\ UNCHANGED <<circ, respawn, probing, wakeTasks, throttled>>

\* The retry deadline of a failed wake, while work is pending.
RetryTimer ==
    /\ AtSelect /\ pending /\ life.st = "failed" /\ life.due
    /\ UNCHANGED <<slots, wakes, work, quiet>>

\* A wake task that panicked: cancel_wake of the attempt being woken.
WakePanicJoined ==
    /\ AtSelect
    /\ \E t \in wakeTasks :
          /\ t.st = "panicked"
          /\ wakeTasks' = wakeTasks \ {t}
          /\ life' = IF life.st = "waking" THEN Failed(life.attempt) ELSE life
    /\ UNCHANGED <<slots, ready, wakeCh, work, quiet>>

\* Polling the join set reaps a finished wake task without ending the wait.
WakeTaskReaped ==
    /\ pc = "select"
    /\ \E t \in wakeTasks : t.st = "finished" /\ wakeTasks' = wakeTasks \ {t}
    /\ UNCHANGED <<loop, slots, ready, life, wakeCh, work, quiet>>

InFlight == \E s \in Slots : slot[s] \in {"turn", "beat"}

\* Mutant: a batch in backoff does not keep the pool awake.
SleepOverBackoff ==
    /\ ready /\ ~InFlight /\ queued = 0
    /\ wakeTasks = {} /\ ~AnyRespawnInFlight(circ)
    /\ "sleep" \in quiet
\* Mutant: a respawn on its way does not keep the pool awake.
SleepOverRespawn ==
    /\ ready /\ ~InFlight
    /\ queued = 0 /\ throttled = 0 /\ wakeTasks = {}
    /\ "sleep" \in quiet
IdlePoolSleepDue ==
    /\ ready /\ ~InFlight
    /\ queued = 0 /\ throttled = 0
    /\ wakeTasks = {} /\ ~AnyRespawnInFlight(circ)
    /\ "sleep" \in quiet

IdleSleep ==
    /\ AtSelect /\ Lazy /\ SleepBound /\ IdlePoolSleepDue
    /\ slot' = [s \in Slots |-> "empty"]
    /\ ready' = FALSE /\ life' = Listening /\ quiet' = {}
    /\ UNCHANGED <<circ, respawn, probing, wakeTasks, wakeCh, work>>

\* Mutant: the reaper runs on the maintenance tick of a ready pool.
ExpiredIfReady == ExitBound /\ ready /\ ~InFlight /\ "exit" \in quiet
\* The inactivity reaper looks at turns in flight only.
InactivityExpired == ExitBound /\ ~InFlight /\ "exit" \in quiet

InactivityExit ==
    /\ pc = "select" /\ InactivityExpired
    /\ pc' = "exit"
    /\ UNCHANGED <<pending, slots, wakes, work, quiet>>

--------------------------------------------------------------------------------
(* Tasks and time *)

\* initialize_agent_pool: a partial pool is a success, no agent at all a failure.
WakeTaskEnds(t) ==
    /\ t.st = "running" /\ pc # "exit"
    /\ \/ /\ wakeCh = <<>>
          /\ \E live \in SUBSET Slots : wakeCh' = <<[attempt |-> t.attempt, live |-> live]>>
          /\ wakeTasks' = (wakeTasks \ {t}) \cup {[t EXCEPT !.st = "finished"]}
       \/ /\ wakeTasks' = (wakeTasks \ {t}) \cup {[t EXCEPT !.st = "panicked"]}
          /\ UNCHANGED wakeCh
    /\ UNCHANGED <<loop, slots, ready, life, work, quiet>>

\* Mutant: a respawn task that dies says nothing.
RespawnUnguarded(s) == respawn' \in {[respawn EXCEPT ![s] = r] : r \in {"ok", "none"}}
\* spawn_and_init ends, or the task dies and its guard reports the failure.
RespawnGuard(s) == respawn' \in {[respawn EXCEPT ![s] = r] : r \in {"ok", "failed"}}

RespawnEnds(s) ==
    /\ respawn[s] = "running" /\ pc # "exit"
    /\ RespawnGuard(s)
    /\ UNCHANGED <<loop, slot, circ, probing, wakes, work, quiet>>

RetryElapses ==
    /\ life.st = "failed" /\ ~life.due /\ pc # "exit"
    /\ life' = [life EXCEPT !.due = TRUE]
    /\ UNCHANGED <<loop, slots, ready, wakeTasks, wakeCh, work, quiet>>

CooldownElapses(s) ==
    /\ circ[s].open = "cooling" /\ pc # "exit"
    /\ circ' = [circ EXCEPT ![s].open = "elapsed"]
    /\ UNCHANGED <<loop, slot, respawn, probing, wakes, work, quiet>>

\* The oldest crash leaves the window; the seeds are of one instant.
WindowMoves(s) ==
    /\ Recent(circ[s]) > 0 /\ pc # "exit"
    /\ circ' = [circ EXCEPT ![s] = IF circ[s].seeded THEN [@ EXCEPT !.seeded = FALSE]
                                   ELSE [@ EXCEPT !.own = circ[s].own - 1]]
    /\ probing' = probing \ {s}
    /\ UNCHANGED <<loop, slot, respawn, wakes, work, quiet>>

BackoffElapses ==
    /\ throttled > 0 /\ pc # "exit"
    /\ throttled' = throttled - 1 /\ queued' = queued + 1
    /\ UNCHANGED <<loop, slots, wakes, quiet>>

BoundElapses(b) ==
    /\ b \notin quiet /\ pc # "exit"
    /\ b = "sleep" => SleepBound
    /\ b = "exit" => ExitBound
    /\ quiet' = quiet \cup {b}
    /\ UNCHANGED <<loop, slots, wakes, work>>

\* An owner's shutdown command ends the loop at any wait.
Shutdown ==
    /\ pc = "select" /\ pc' = "exit"
    /\ UNCHANGED <<pending, slots, wakes, work, quiet>>

Exited == pc = "exit" /\ UNCHANGED vars

LoopStep == WakeIfDue \/ SkipMaintenance \/ Maintenance \/ CollectRespawns

Next ==
    \/ LoopStep
    \/ \E s \in Slots : AgentReturns(s) \/ AgentDies(s)
    \/ Heartbeat \/ Accept \/ DrainChannel \/ Tick
    \/ WakeResult \/ RetryTimer \/ WakePanicJoined \/ WakeTaskReaped
    \/ IdleSleep \/ InactivityExit \/ Shutdown
    \/ \E t \in wakeTasks : WakeTaskEnds(t)
    \/ \E s \in Slots : RespawnEnds(s) \/ CooldownElapses(s) \/ WindowMoves(s)
    \/ RetryElapses \/ BackoffElapses
    \/ \E b \in {"sleep", "exit"} : BoundElapses(b)
    \/ Exited

Spec == Init /\ [][Next]_vars

(* Each wait ends, as timers keep firing; a wake result, a dead wake task and  *)
(* the reaper are arms that keep being polled; the maintenance block runs once *)
(* 30 seconds have passed; wake and respawn tasks end by their timeouts.       *)
Fairness ==
    /\ WF_vars(LoopStep) /\ SF_vars(Maintenance)
    /\ WF_vars(Tick)
    /\ SF_vars(WakeResult) /\ SF_vars(WakePanicJoined) /\ SF_vars(InactivityExit)
    /\ WF_vars(\E t \in wakeTasks : WakeTaskEnds(t))
    /\ \A s \in Slots : WF_vars(RespawnEnds(s)) /\ WF_vars(CooldownElapses(s))
    /\ WF_vars(RetryElapses)

FairSpec == Spec /\ Fairness

--------------------------------------------------------------------------------
(* Properties *)

\* A slot whose respawn is on its way is empty and marked, so that a returning
\* agent never overwrites another (the BUG branch of return_agent).
RespawnOwnsSlot ==
    \A s \in Slots :
        /\ circ[s].inflight <=> respawn[s] # "none"
        /\ respawn[s] # "none" => slot[s] = "empty"

WakesUnderWay == {t \in wakeTasks : t.st # "finished"}

\* While the lifecycle is waking, exactly one task or posted result will end
\* it, and it carries the attempt that is awaited; otherwise there is none.  So
\* no result is stale, and a join error cancels the wake it belongs to.
OneWakeAwaited ==
    LET attempts == {t.attempt : t \in WakesUnderWay}
                    \cup {wakeCh[i].attempt : i \in 1..Len(wakeCh)}
    IN  /\ attempts = IF life.st = "waking" THEN {life.attempt} ELSE {}
        /\ Cardinality(WakesUnderWay) + Len(wakeCh) <= 1

\* A loop that waits with a sleeping pool has nothing in backoff, and for
\* work in the queue a wake that is under way or a retry timer that is armed
\* (the promise of idle_pool_sleep_due that a batch is never stranded).
NoBatchStranded ==
    pc = "select" /\ ~ready =>
        /\ throttled = 0
        /\ queued > 0 => \/ WakesUnderWay # {} \/ wakeCh # <<>>
                         \/ life.st = "failed" /\ pending

\* Within a window of a half-open probe one more crash opens the circuit again.
ProbeIsOnTrial == \A s \in probing : ~RecordCrash(circ[s]).respawn

\* An empty slot of a pool in use is never lost: a respawn is tried again,
\* whatever became of the one before (RespawnGuard, mark_spawn_failed, refill).
EmptySlotRetried ==
    \A s \in Slots : ready /\ slot[s] = "empty"
                      ~> respawn[s] = "running" \/ slot[s] # "empty" \/ ~ready \/ pc = "exit"

\* Work that waits for a sleeping pool starts a wake, after failures too.
PendingWorkWakes ==
    ~ready /\ queued > 0
        ~> ready \/ queued = 0 \/ pc = "exit" \/ \E t \in wakeTasks : t.st = "running"

\* With an inactivity bound that keeps being exceeded, a harness that gets no
\* more events and runs no turns exits, a pool that never woke included (the
\* reaper must not depend on pool readiness).
InactiveHarnessExits ==
    ExitBound /\ []<>("exit" \in quiet)
        => []<>InFlight \/ []<><<Accept>>_vars \/ <>(pc = "exit")
================================================================================
