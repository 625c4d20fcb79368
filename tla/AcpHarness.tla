----------------------------- MODULE AcpHarness -----------------------------
(***************************************************************************)
(* The main loop of the agent harness (crates/buzz-acp/src/lib.rs) over    *)
(* its event queue (queue.rs), its agent pool and the prompt tasks         *)
(* (pool.rs) and their steer arm (acp.rs).                                 *)
(*                                                                         *)
(* The main loop is one tokio task: it handles one select! arm at a time.  *)
(* pc = "select" is the wait.  After a handler, dispatch_pending runs in    *)
(* one of the "dispatch" places, one round of its loop per step, and no    *)
(* other arm can run; "top" is the maintenance block at the top of the     *)
(* loop and "respawns" the collection of respawn results below it, before  *)
(* the next wait.  Prompt tasks, steer watchers and respawn tasks run      *)
(* concurrently and reach the loop only through the result channel, the    *)
(* join set, the ack channel and the respawn channel.                      *)
(***************************************************************************)
EXTENDS AcpEventQueue

CONSTANTS
    Slots,          \* agent slots of the pool
    NoChannel,      \* channel of a heartbeat task
    Handling,       \* multiple_event_handling
    OwnerSignals,   \* control signals the owner may send
    Failures,       \* failing outcomes a turn may have
    Membership,     \* TRUE: membership notifications arrive
    Heartbeats,     \* TRUE: the heartbeat timer is configured
    Ticks,          \* TRUE: a presence or typing timer is configured
    Overrun         \* TRUE: a turn may outlive its in-flight deadline

ASSUME HarnessConstants ==
    /\ NoChannel \notin Channels
    /\ Handling \in {"Queue", "Steer", "Interrupt", "OwnerInterrupt"}
    /\ OwnerSignals \subseteq {"Cancel", "Rotate", "SwitchModel"}
    /\ Failures \subseteq
         {"HardSilent", "Auth", "AppError", "Fatal", "Panic", "DrainTimeout"}
    /\ {Membership, Heartbeats, Ticks, Overrun} \subseteq BOOLEAN

VARIABLES
    q,          \* EventQueue, by channel
    idle,       \* slots whose agent sits in the pool
    task,       \* task_map with the state of each prompt task, by slot
    respawning, \* slots with a respawn task in flight
    results,    \* result channel: slots in the order they finished
    acks,       \* steer acks the watchers have posted
    removed,    \* removed_channels
    hb,         \* heartbeat_in_flight
    pc,         \* where the main loop is
    arrived,    \* how many events the relay has delivered
    gone        \* history: events whose end the code accounts for

vars == <<q, idle, task, respawning, results, acks, removed, hb, pc, arrived,
          gone>>

Signals == {"Cancel", "Rotate", "SwitchModel", "Steer", "Interrupt"}
NoEvent == 0

\* A prompt task: the batch it carries, the one-shot control channel (ctl is
\* unused, sig was sent), the steer receiver (rx is open, one request buffered,
\* one written and unanswered) and, once st = "done", its PromptResult.
NoTask ==
    [ st |-> "none", ch |-> NoChannel, events |-> <<>>, merged |-> <<>>,
      ctl |-> FALSE, sig |-> "none", rx |-> FALSE, buffered |-> NoEvent,
      written |-> NoEvent, out |-> "none", keep |-> FALSE ]

Outcomes == {"Ok", "Cancelled"} \cup (Failures \ {"Panic"})

Tasks ==
    [ st : {"none", "running", "done", "panicked"},
      ch : Channels \cup {NoChannel},
      events : Seq(Events), merged : Seq(Events),
      ctl : BOOLEAN, sig : Signals \cup {"none"},
      rx : BOOLEAN, buffered : Events \cup {NoEvent},
      written : Events \cup {NoEvent},
      out : Outcomes \cup {"none"}, keep : BOOLEAN ]

AckKinds == {"Success", "Fallback", "Release"}

Live(s)    == task[s].st # "none"
TasksOn(c) == {s \in Slots : Live(s) /\ task[s].ch = c}
BatchOf(s) == Range(task[s].events) \cup Range(task[s].merged)

-----------------------------------------------------------------------------
Init ==
    /\ q = [c \in Channels |-> EmptyChannel]
    /\ idle = Slots
    /\ task = [s \in Slots |-> NoTask]
    /\ respawning = {}
    /\ results = <<>>
    /\ acks = {}
    /\ removed = {}
    /\ hb = FALSE
    /\ pc = "top"
    /\ arrived = 0
    /\ gone = {}

-----------------------------------------------------------------------------
(* Calls of the handlers.                                                  *)

\* signal_in_flight_task: the one-shot sender is taken; a task that has
\* already sent its result no longer listens.
SignalTask(T, c, sig) ==
    LET on == {s \in Slots : T[s].st # "none" /\ T[s].ch = c}
    IN  IF on = {} THEN {T}
        ELSE {[T EXCEPT ![s].ctl = FALSE,
                        ![s].sig = IF T[s].ctl /\ T[s].st = "running"
                                   THEN sig ELSE @] : s \in on}

\* mode_gate_signal.
GateSignal(fromOwner) ==
    CASE Handling = "Queue"          -> "none"
      [] Handling = "Steer"          -> "Steer"
      [] Handling = "Interrupt"      -> "Interrupt"
      [] Handling = "OwnerInterrupt" -> IF fromOwner THEN "Interrupt" ELSE "none"

\* send_steer: the capacity-1 steer channel of some task on the channel.
SteerAccepts(c) == {s \in TasksOn(c) : task[s].rx /\ task[s].buffered = NoEvent}

\* SlotCircuit::record_crash decides between a respawn task and an open
\* circuit, a free choice here; the loop exits when nothing is left alive.
AllDead(idle2, task2, respawning2) ==
    /\ idle2 = {}
    /\ respawning2 = {}
    /\ \A s \in Slots : task2[s].st = "none"

-----------------------------------------------------------------------------
(* Main loop: relay events.                                                *)

\* The relay event arm, from the push to dispatch_pending.
RelayEvent(c, fromOwner) ==
    LET e    == arrived + 1
        sig  == GateSignal(fromOwner)
        r    == Push(q[c], e)
    IN
    /\ pc = "select"
    /\ arrived < MaxEvents
    /\ arrived' = e
    /\ pc' = "dispatch"
    /\ IF ~Accepts(q[c])
       THEN /\ gone' = gone \cup {e}
            /\ UNCHANGED <<q, task>>
       ELSE /\ gone' = gone \cup PushEvicts(q[c])
            /\ IF ~q[c].inFlight \/ sig = "none"
               THEN /\ q' = [q EXCEPT ![c] = r]
                    /\ UNCHANGED task
               ELSE \/ /\ sig = "Steer"
                       /\ \E s \in SteerAccepts(c) :
                             task' = [task EXCEPT ![s].buffered = e]
                       /\ q' = [q EXCEPT ![c] = Withhold(r, e)]
                    \/ /\ \/ sig # "Steer"
                          \/ TasksOn(c) \ SteerAccepts(c) # {}
                          \/ TasksOn(c) = {}
                       /\ task' \in SignalTask(task, c, sig)
                       /\ q' = [q EXCEPT ![c] = r]
    /\ UNCHANGED <<idle, respawning, results, acks, removed, hb>>

\* !cancel and !rotate from the owner, and the observer's cancel_turn and
\* switch_model frames.
OwnerControl(c, sig) ==
    /\ pc = "select"
    /\ pc' = "top"
    /\ sig \in OwnerSignals
    /\ TasksOn(c) # {}
    /\ task' \in SignalTask(task, c, sig)
    /\ UNCHANGED <<q, idle, respawning, results, acks, removed, hb, arrived,
                   gone>>

\* The agent was removed from the channel: its backlog is dropped.
MemberRemoved(c) ==
    /\ pc = "select"
    /\ pc' = "top"
    /\ Membership
    /\ q' = [q EXCEPT ![c] = DrainChannel(@)]
    /\ gone' = gone \cup Drained(q[c])
    /\ removed' = removed \cup {c}
    /\ UNCHANGED <<idle, task, respawning, results, acks, hb, arrived>>

MemberAdded(c) ==
    /\ pc = "select"
    /\ pc' = "top"
    /\ Membership
    /\ removed' = removed \ {c}
    /\ UNCHANGED <<q, idle, task, respawning, results, acks, hb, arrived,
                   gone>>

-----------------------------------------------------------------------------
(* Main loop: dispatch_pending, one round of its loop per step.  It is     *)
(* called by the handlers, by the maintenance block and after respawns.    *)

AfterDispatch ==
    [ dispatch |-> "top", dispatchDue |-> "respawns",
      dispatchRespawned |-> "select" ]
Dispatching == pc \in DOMAIN AfterDispatch

Expired   == [c \in Channels |-> Expire(q[c])]
ExpiredGone == UNION {ExpireEvicts(q[c]) : c \in Channels}

\* The choices of flush_next: the channel, its batch and its next state.
Flushes ==
    LET X == Expired
    IN  {[ch |-> c, batch |-> QueuedBatch(X[c]), next |-> FlushQueued(X[c])] :
            c \in OldestFlushable(X)}
        \cup
        {[ch |-> c, batch |-> CancelledBatch(X[c]), next |-> FlushCancelled(X[c])] :
            c \in CancelledReady(X)}

NewTask(f) ==
    [NoTask EXCEPT !.st = "running", !.ch = f.ch, !.events = f.batch.events,
                   !.merged = f.batch.merged, !.ctl = TRUE, !.rx = TRUE]

Dispatch ==
    /\ Dispatching
    /\ \E f \in Flushes, s \in idle :
          /\ q' = [Expired EXCEPT ![f.ch] = f.next]
          /\ task' = [task EXCEPT ![s] = NewTask(f)]
          /\ idle' = idle \ {s}
    /\ gone' = gone \cup ExpiredGone
    /\ UNCHANGED <<respawning, results, acks, removed, hb, pc, arrived>>

\* try_claim found no idle agent: the batch goes back and the loop stops.
PoolExhausted ==
    /\ Dispatching
    /\ idle = {}
    /\ \E f \in Flushes :
          /\ q' = [Expired EXCEPT
                     ![f.ch] = MarkComplete(RequeuePreserve(f.next, f.batch))]
          /\ gone' = gone \cup ExpiredGone
                          \cup Trimmed(f.batch.events \o f.next.pending)
    /\ pc' = AfterDispatch[pc]
    /\ UNCHANGED <<idle, task, respawning, results, acks, removed, hb, arrived>>

NothingToFlush ==
    /\ Dispatching
    /\ Flushes = {}
    /\ q' = Expired
    /\ gone' = gone \cup ExpiredGone
    /\ pc' = AfterDispatch[pc]
    /\ UNCHANGED <<idle, task, respawning, results, acks, removed, hb, arrived>>

-----------------------------------------------------------------------------
(* Main loop: results and panics.                                          *)

\* Mutant: a failed batch of a removed channel is requeued all the same.
BatchFateIgnoringRemoval(r, t) ==
    LET b == [events |-> t.events, merged |-> t.merged]
    IN  IF ~t.keep \/ t.out \in {"HardSilent", "Auth"} THEN r
        ELSE IF t.out \in {"Cancelled", "DrainTimeout"}
             THEN RequeueAsCancelled(r, b, "Steer")
             ELSE Requeue(r, b)

\* What handle_prompt_result does with a returned batch, before mark_complete.
BatchFate(r, t) ==
    LET b == [events |-> t.events, merged |-> t.merged]
    IN  IF ~t.keep \/ t.ch \in removed \/ t.out \in {"HardSilent", "Auth"} THEN r
        ELSE IF t.out \in {"Cancelled", "DrainTimeout"}
             THEN RequeueAsCancelled(r, b,
                      IF t.sig \in {"Interrupt", "SwitchModel"}
                      THEN "Interrupt" ELSE "Steer")
             ELSE Requeue(r, b)

\* The events whose turn ended for good: answered, reported as dead letters,
\* dropped with the channel or by the owner, or evicted at the queue's cap.
BatchEnds(r, t) ==
    IF ~t.keep \/ t.ch \in removed \/ t.out \in {"HardSilent", "Auth"}
    THEN Range(t.events) \cup Range(t.merged)
    ELSE IF t.out \in {"Cancelled", "DrainTimeout"} THEN {}
         ELSE IF RetriesSpent(r)
              THEN Range(t.events) \cup Range(t.merged)
              ELSE Trimmed(t.events \o r.pending)

\* The queue and the history after task t, popped from the task map, is settled.
Settle(t) ==
    IF t.ch = NoChannel
    THEN /\ hb' = FALSE
         /\ UNCHANGED <<q, gone>>
    ELSE /\ q' = [q EXCEPT ![t.ch] = MarkComplete(BatchFate(@, t))]
         /\ gone' = gone \cup BatchEnds(q[t.ch], t)
         /\ UNCHANGED hb

Respawns(out) == out \in {"HardSilent", "Fatal", "DrainTimeout"}

\* handle_prompt_result: settle the batch, then return the agent or respawn it.
HandleResult ==
    LET s == Head(results)
        t == task[s]
    IN
    /\ pc = "select"
    /\ results # <<>>
    /\ results' = Tail(results)
    /\ task' = [task EXCEPT ![s] = NoTask]
    /\ Settle(t)
    /\ IF Respawns(t.out)
       THEN /\ \/ respawning' = respawning \cup {s}
               \/ UNCHANGED respawning
            /\ UNCHANGED idle
            /\ pc' = IF AllDead(idle, task', respawning')
                     THEN "exited" ELSE "joins"
       ELSE /\ idle' = idle \cup {s}
            /\ pc' = "joins"
            /\ UNCHANGED respawning
    /\ UNCHANGED <<acks, removed, arrived>>

\* recover_panicked_agent, from its own select! arm or from the
\* drain_ready_join_results that follows every result.
RecoverPanicked(s) ==
    LET t == task[s]
    IN
    /\ pc \in {"select", "joins"}
    /\ t.st = "panicked"
    /\ task' = [task EXCEPT ![s] = NoTask]
    /\ Settle(t)
    /\ \/ respawning' = respawning \cup {s}
       \/ UNCHANGED respawning
    /\ pc' = IF AllDead(idle, task', respawning') THEN "exited"
             ELSE IF pc = "joins" THEN "joins" ELSE "dispatch"
    /\ UNCHANGED <<idle, results, acks, removed, arrived>>

JoinsDrained ==
    /\ pc = "joins"
    /\ \A s \in Slots : task[s].st # "panicked"
    /\ pc' = "dispatch"
    /\ UNCHANGED <<q, idle, task, respawning, results, acks, removed, hb,
                   arrived, gone>>

-----------------------------------------------------------------------------
(* Main loop: steer acks, timers and respawn results.                      *)

HandleAck(a) ==
    LET r == q[a.ch]
    IN
    /\ pc = "select"
    /\ a \in acks
    /\ acks' = acks \ {a}
    /\ pc' = "dispatch"
    /\ IF a.kind = "Success"
       THEN /\ q' = [q EXCEPT ![a.ch] = RemoveEvent(ExtendDeadline(r), a.ev)]
            /\ gone' = gone \cup {a.ev}
            /\ UNCHANGED task
       ELSE /\ q' = [q EXCEPT ![a.ch] = Release(r, a.ev)]
            /\ gone' = gone \cup ReleaseEvicts(r, a.ev)
            /\ IF a.kind = "Fallback"
               THEN task' \in SignalTask(task, a.ch, "Steer")
               ELSE UNCHANGED task
    /\ UNCHANGED <<idle, respawning, results, removed, hb, arrived>>

\* Mutant: a slot whose agent is checked out counts as empty.
NotIdle(s) == s \notin idle /\ s \notin respawning

\* The maintenance block at the top of the loop: compaction, refill of the
\* empty slots whose circuit allows it, then a dispatch.
Empty(s) == s \notin idle /\ s \notin respawning /\ ~Live(s)

\* Mutant: the block ends without dispatching what became due.
MaintenanceWithoutDispatch ==
    /\ pc = "top"
    /\ q' = [c \in Channels |-> Compact(q[c])]
    /\ \E refill \in SUBSET {s \in Slots : Empty(s)} :
          respawning' = respawning \cup refill
    /\ pc' = "respawns"
    /\ UNCHANGED <<idle, task, results, acks, removed, hb, arrived, gone>>

Maintenance ==
    /\ pc = "top"
    /\ q' = [c \in Channels |-> Compact(q[c])]
    /\ \E refill \in SUBSET {s \in Slots : Empty(s)} :
          respawning' = respawning \cup refill
    /\ pc' = "dispatchDue"
    /\ UNCHANGED <<idle, task, results, acks, removed, hb, arrived, gone>>

\* Less than 30 seconds since the last maintenance.
MaintenanceNotDue ==
    /\ pc = "top"
    /\ pc' = "respawns"
    /\ UNCHANGED <<q, idle, task, respawning, results, acks, removed, hb,
                   arrived, gone>>

\* Respawn results are collected until the channel is empty; one success is
\* enough to dispatch before the wait.
RespawnOk(s) ==
    /\ pc \in {"respawns", "collected"}
    /\ s \in respawning
    /\ respawning' = respawning \ {s}
    /\ idle' = idle \cup {s}
    /\ pc' = "collected"
    /\ UNCHANGED <<q, task, results, acks, removed, hb, arrived, gone>>

RespawnFailed(s) ==
    /\ pc \in {"respawns", "collected"}
    /\ s \in respawning
    /\ respawning' = respawning \ {s}
    /\ UNCHANGED <<q, idle, task, results, acks, removed, hb, pc, arrived, gone>>

RespawnsCollected ==
    /\ pc \in {"respawns", "collected"}
    /\ pc' = IF pc = "collected" THEN "dispatchRespawned" ELSE "select"
    /\ UNCHANGED <<q, idle, task, respawning, results, acks, removed, hb,
                   arrived, gone>>

\* The heartbeat arm: pending work comes first; otherwise an idle agent runs
\* one heartbeat at a time.  has_flushable_work expires overrun turns.
HeartbeatTick ==
    /\ pc = "select"
    /\ Heartbeats
    /\ q' = Expired
    /\ gone' = gone \cup ExpiredGone
    /\ IF Flushes # {}
       THEN /\ pc' = "dispatch"
            /\ UNCHANGED <<idle, task, hb>>
       ELSE /\ pc' = "top"
            /\ IF hb \/ idle = {}
               THEN UNCHANGED <<idle, task, hb>>
               ELSE /\ hb' = TRUE
                    /\ \E s \in idle :
                          /\ idle' = idle \ {s}
                          /\ task' = [task EXCEPT ![s] =
                                        [NoTask EXCEPT !.st = "running"]]
    /\ UNCHANGED <<respawning, results, acks, removed, arrived>>

\* A presence, typing or reaper timer: nothing here changes, but the wait ends.
TimerTick ==
    /\ pc = "select"
    /\ Ticks
    /\ pc' = "top"
    /\ UNCHANGED <<q, idle, task, respawning, results, acks, removed, hb,
                   arrived, gone>>

\* !shutdown, a signal, the inactivity reaper, or the relay task is gone.
Shutdown ==
    /\ pc = "select"
    /\ pc' = "exited"
    /\ UNCHANGED <<q, idle, task, respawning, results, acks, removed, hb,
                   arrived, gone>>

-----------------------------------------------------------------------------
(* Prompt tasks and time.                                                  *)

\* The read loop's steer arm takes the buffered request: it is written to the
\* agent, or acked at once when there is no transport or the write fails.
SteerTaken(s) ==
    LET t == task[s]
    IN
    /\ t.st = "running" /\ t.rx
    /\ t.buffered # NoEvent /\ t.written = NoEvent
    /\ \/ /\ task' = [task EXCEPT ![s].buffered = NoEvent,
                                  ![s].written = t.buffered]
          /\ UNCHANGED acks
       \/ /\ task' = [task EXCEPT ![s].buffered = NoEvent]
          /\ acks' = acks \cup {[ch |-> t.ch, ev |-> t.buffered,
                                 kind |-> "Fallback"]}
    /\ UNCHANGED <<q, idle, respawning, results, removed, hb, pc, arrived, gone>>

\* The agent answers the steer.
SteerAnswered(s, kind) ==
    LET t == task[s]
    IN
    /\ t.st = "running" /\ t.rx /\ t.written # NoEvent
    /\ task' = [task EXCEPT ![s].written = NoEvent]
    /\ acks' = acks \cup {[ch |-> t.ch, ev |-> t.written, kind |-> kind]}
    /\ UNCHANGED <<q, idle, respawning, results, removed, hb, pc, arrived, gone>>

\* The read loop returns or is dropped: an unanswered or unread steer is acked
\* as neutral (or its oneshot is dropped), and the receiver is gone.
Orphaned(t) == {t.buffered, t.written} \ {NoEvent}
CloseSteer(t) ==
    [t EXCEPT !.rx = FALSE, !.buffered = NoEvent, !.written = NoEvent]
\* Mutant: an unanswered steer is forgotten when the read loop returns.
ForgetOrphans(t) == {}
ReleaseAcks(t) == {[ch |-> t.ch, ev |-> e, kind |-> "Release"] : e \in Orphaned(t)}

ReadLoopReturns(s) ==
    LET t == task[s]
    IN
    /\ t.st = "running" /\ t.rx
    /\ task' = [task EXCEPT ![s] = CloseSteer(t)]
    /\ acks' = acks \cup ReleaseAcks(t)
    /\ UNCHANGED <<q, idle, respawning, results, removed, hb, pc, arrived, gone>>

\* run_prompt_task sends its result.  A turn that fails, or that a keeping
\* signal cancels, hands its batch back in Queue mode only.
Finish(s, out, keep) ==
    LET t == task[s]
    IN
    /\ t.st = "running"
    /\ task' = [task EXCEPT ![s] =
                  [CloseSteer(t) EXCEPT !.st = "done", !.out = out,
                     !.keep = keep /\ DedupMode = "Queue" /\ t.ch # NoChannel]]
    /\ acks' = acks \cup ReleaseAcks(t)
    /\ results' = Append(results, s)
    /\ UNCHANGED <<q, idle, respawning, removed, hb, pc, arrived, gone>>

TurnOk(s) == Finish(s, "Ok", FALSE)

TurnFails(s, out) ==
    /\ out \in Failures \ {"Panic", "DrainTimeout"}
    /\ Finish(s, out, TRUE)

\* The control signal won the race: cancel_with_cleanup_grace succeeded, timed
\* out, or failed with an error.  Cancel and Rotate discard the batch.
KeepsBatch(sig) == sig \notin {"Cancel", "Rotate"}

TurnCancelled(s, out) ==
    /\ out \in {"Cancelled"} \cup (Failures \cap {"DrainTimeout", "AppError",
                                                  "Fatal", "Auth"})
    /\ task[s].sig # "none"
    /\ Finish(s, out, KeepsBatch(task[s].sig))

TaskPanics(s) ==
    LET t == task[s]
    IN
    /\ "Panic" \in Failures
    /\ t.st = "running"
    /\ task' = [task EXCEPT ![s] =
                  [CloseSteer(t) EXCEPT !.st = "panicked", !.sig = "none",
                     !.keep = DedupMode = "Queue" /\ t.ch # NoChannel]]
    /\ acks' = acks \cup ReleaseAcks(t)
    /\ UNCHANGED <<q, idle, respawning, results, removed, hb, pc, arrived, gone>>

\* Time: a retry backoff elapses; a turn overruns its in-flight deadline.
BackoffElapses(c) ==
    /\ q[c].retryAfter = "future"
    /\ q' = [q EXCEPT ![c].retryAfter = "past"]
    /\ UNCHANGED <<idle, task, respawning, results, acks, removed, hb, pc,
                   arrived, gone>>

DeadlinePasses(c) ==
    /\ Overrun
    /\ q[c].deadline = "set"
    /\ q' = [q EXCEPT ![c].deadline = "passed"]
    /\ UNCHANGED <<idle, task, respawning, results, acks, removed, hb, pc,
                   arrived, gone>>

\* The loop has broken out: the process ends.
Exited == pc = "exited" /\ UNCHANGED vars

-----------------------------------------------------------------------------
MainLoop ==
    \/ \E c \in Channels, fromOwner \in BOOLEAN : RelayEvent(c, fromOwner)
    \/ \E c \in Channels, sig \in OwnerSignals : OwnerControl(c, sig)
    \/ \E c \in Channels : MemberRemoved(c)
    \/ \E c \in Channels : MemberAdded(c)
    \/ Dispatch
    \/ PoolExhausted
    \/ NothingToFlush
    \/ HandleResult
    \/ \E s \in Slots : RecoverPanicked(s)
    \/ JoinsDrained
    \/ \E a \in acks : HandleAck(a)
    \/ Maintenance
    \/ MaintenanceNotDue
    \/ \E s \in Slots : RespawnOk(s)
    \/ \E s \in Slots : RespawnFailed(s)
    \/ RespawnsCollected
    \/ HeartbeatTick
    \/ TimerTick
    \/ Shutdown

PromptTasks ==
    \/ \E s \in Slots : SteerTaken(s)
    \/ \E s \in Slots, kind \in AckKinds : SteerAnswered(s, kind)
    \/ \E s \in Slots : ReadLoopReturns(s)
    \/ \E s \in Slots : TurnOk(s)
    \/ \E s \in Slots, out \in Failures : TurnFails(s, out)
    \/ \E s \in Slots, out \in Outcomes : TurnCancelled(s, out)
    \/ \E s \in Slots : TaskPanics(s)

Time ==
    \/ \E c \in Channels : BackoffElapses(c)
    \/ \E c \in Channels : DeadlinePasses(c)

Next == MainLoop \/ PromptTasks \/ Time \/ Exited

Spec == Init /\ [][Next]_vars

(***************************************************************************)
(* Fairness.  The code between two waits always runs to its end.  The      *)
(* select! is biased towards results, so results are never starved, and    *)
(* the maintenance block runs whenever its 30 seconds are over at the top  *)
(* of the loop, so it is not starved either (strong fairness).  Timers     *)
(* tick, a turn ends (every read has an idle timeout and a hard cap), a    *)
(* backoff elapses.                                                        *)
(***************************************************************************)
LoopFairness ==
    /\ WF_vars(Maintenance \/ MaintenanceNotDue)
    /\ WF_vars(RespawnsCollected)
    /\ WF_vars(Dispatch \/ PoolExhausted \/ NothingToFlush)
    /\ WF_vars(JoinsDrained)
    /\ SF_vars(Maintenance)
    /\ SF_vars(HandleResult)
    /\ SF_vars(TimerTick)

TurnFairness ==
    /\ \A s \in Slots :
          WF_vars(\E out \in Outcomes : TurnOk(s) \/ TurnFails(s, out))
    /\ \A c \in Channels : WF_vars(BackoffElapses(c))

FairSpec == Spec /\ LoopFairness /\ TurnFairness
-----------------------------------------------------------------------------
(* Properties.                                                             *)

Places ==
    (UNION {Drained(q[c]) : c \in Channels})
        \cup (UNION {BatchOf(s) : s \in Slots})

\* Type invariant of the harness state.
TypeOK ==
    /\ q \in [Channels -> ChannelState]
    /\ idle \subseteq Slots
    /\ task \in [Slots -> Tasks]
    /\ respawning \subseteq Slots
    /\ results \in Seq(Slots)
    /\ acks \subseteq [ch : Channels, ev : Events, kind : AckKinds]
    /\ removed \subseteq Channels
    /\ hb \in BOOLEAN
    /\ pc \in {"top", "respawns", "collected", "select", "joins", "exited"}
              \cup DOMAIN AfterDispatch
    /\ arrived \in 0 .. MaxEvents
    /\ gone \subseteq Events

\* A slot has one owner: its agent sits in the pool, or is checked out to one
\* task, or is being respawned; and each finished task has exactly one result
\* in the channel.  Otherwise return_agent overwrites a live agent, which
\* pool.rs logs as a BUG.
SlotOwnership ==
    /\ idle \cap respawning = {}
    /\ \A s \in Slots : Live(s) => s \notin idle /\ s \notin respawning
    /\ \A i, j \in DOMAIN results : results[i] = results[j] => i = j
    /\ \A s \in Slots : task[s].st = "done" <=> s \in Range(results)

\* in_flight_channels and in_flight_deadlines agree, so a wedged turn can always
\* be expired and a deadline never outlives its turn.
InFlightHasDeadline ==
    \A c \in Channels : q[c].inFlight <=> q[c].deadline # "none"

\* Per-channel in-flight enforcement: a channel is marked in flight exactly
\* while one task carries a batch of it, across results, panics, steer acks,
\* pool exhaustion and membership changes.
OneTurnPerChannel ==
    \A c \in Channels :
        /\ q[c].inFlight <=> TasksOn(c) # {}
        /\ \A s, t \in TasksOn(c) : s = t

\* No double delivery: an event is in one table or batch at a time, once, and
\* one that was answered, steered in or dropped is never dispatched again.
Injective(s) == \A i, j \in DOMAIN s : s[i] = s[j] => i = j
Tables(c) == {q[c].pending, q[c].cancelled, q[c].withheld}
NoDoubleDelivery ==
    /\ \A c \in Channels :
          /\ Injective(q[c].pending \o q[c].cancelled \o q[c].withheld)
          /\ \A d \in Channels \ {c} : Drained(q[c]) \cap Drained(q[d]) = {}
          /\ \A s \in Slots : Drained(q[c]) \cap BatchOf(s) = {}
    /\ \A s \in Slots :
          /\ Injective(task[s].events \o task[s].merged)
          /\ \A t \in Slots \ {s} : BatchOf(s) \cap BatchOf(t) = {}
    /\ gone \cap Places = {}

\* No silent loss: an event the queue accepted is held somewhere until its turn
\* ends or the code accounts for dropping it.
NoSilentLoss == 1 .. arrived \subseteq Places \cup gone

\* The only events that ever vanish unaccounted are those of a batch that was
\* cancelled and merged into a later one.
OnlyMergedEventsVanish ==
    [][Places \ (Places' \cup gone') \subseteq
          (UNION {Range(q[c].cancelled) : c \in Channels})
            \cup (UNION {Range(task[s].merged) : s \in Slots})]_vars

\* A withheld event always has a steer request or a steer ack that will release
\* or consume it: the side table never strands an event.
WithheldIsAwaited ==
    \A c \in Channels : \A e \in Range(q[c].withheld) :
        \/ \E s \in TasksOn(c) : e \in {task[s].buffered, task[s].written}
        \/ \E a \in acks : a.ch = c /\ a.ev = e

\* The fallback of flush_next, which does not look at retry_after, never
\* bypasses a backoff: a cancelled batch and a throttle do not coexist.
CancelledNeverThrottled ==
    \A c \in Channels :
        q[c].cancelled # <<>> => q[c].retryAfter # "future" /\ ~q[c].inFlight

\* The retry budget of a failing channel is kept while one of its batches is
\* queued or in flight: it is reset only by the end of a turn, by the removal of
\* the channel, or when the channel has nothing left to retry.
RetryBudgetKept ==
    [][\A c \in Channels :
          q'[c].retryCount < q[c].retryCount =>
              \/ TasksOn(c)' # TasksOn(c)
              \/ TasksOn(c)' = {} /\ q'[c].pending = <<>>
              \/ c \in removed']_vars

\* The last event of a dispatched batch is its newest, which prompt formatting
\* and the reply anchor rely on.
LastIsNewest ==
    \A s \in Slots :
        LET evs == task[s].events
        IN  \A i \in DOMAIN evs : CreatedAt[evs[i]] <= CreatedAt[evs[Len(evs)]]

\* Every event the relay delivers is eventually answered, dead-lettered or
\* dropped for a reason the code reports, unless the harness itself exits: a
\* batch waiting for its backoff or for a live agent is never left behind.
EveryEventSettles ==
    \A e \in Events : e <= arrived ~> (e \in gone \/ pc = "exited")

\* Nothing but a new relay event brings back work for a channel the agent was
\* removed from: failed turns, panics and late steer acks do not resurrect it.
RemovedStaysDrained ==
    [][\A c \in removed \cap removed' :
          Drained(q[c])' \subseteq Drained(q[c]) \cup {arrived'}]_vars
=============================================================================
