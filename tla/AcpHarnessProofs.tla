-------------------------- MODULE AcpHarnessProofs --------------------------
(***************************************************************************)
(* Invariants of AcpHarness proved for every number of channels, slots and *)
(* events, every cap and every configuration.                              *)
(***************************************************************************)
EXTENDS AcpHarness, AcpEventQueueProofs

\* A heartbeat task has no channel: nothing is ever steered into it.
HeartbeatNeverSteered ==
    \A s \in Slots :
        task[s].ch = NoChannel =>
            /\ ~task[s].rx
            /\ task[s].buffered = NoEvent
            /\ task[s].written = NoEvent

\* The inductive strengthening of TypeOK: an ack must name a channel.
TypeInv == TypeOK /\ HeartbeatNeverSteered

-----------------------------------------------------------------------------
(* The task map.                                                           *)

LEMMA NoTaskType == NoTask \in Tasks
BY EmptySeq DEF NoTask, Tasks

\* The fields of a task that a control signal leaves alone.
SameTurn(t, u) ==
    /\ u.st = t.st /\ u.ch = t.ch
    /\ u.events = t.events /\ u.merged = t.merged
    /\ u.rx = t.rx /\ u.buffered = t.buffered /\ u.written = t.written

\* signal_in_flight_task touches nothing but the control channel.
LEMMA SignalTaskEffect ==
    ASSUME NEW T \in [Slots -> Tasks], NEW c, NEW sig \in Signals,
           NEW U \in SignalTask(T, c, sig)
    PROVE  /\ U \in [Slots -> Tasks]
           /\ \A s \in Slots : SameTurn(T[s], U[s])
<1>1. CASE U = T
  BY <1>1 DEF SameTurn
<1>2. ASSUME NEW s \in Slots,
             U = [T EXCEPT ![s].ctl = FALSE,
                           ![s].sig = IF T[s].ctl /\ T[s].st = "running"
                                      THEN sig ELSE @]
      PROVE  /\ U \in [Slots -> Tasks]
             /\ \A x \in Slots : SameTurn(T[x], U[x])
  <2>. DEFINE sent == IF T[s].ctl /\ T[s].st = "running"
                      THEN sig ELSE T[s].sig
              new == [T[s] EXCEPT !.ctl = FALSE, !.sig = sent]
  <2>1. new \in Tasks /\ SameTurn(T[s], new)
    <3>1. T[s] \in Tasks
      OBVIOUS
    <3>2. sent \in Signals \cup {"none"}
      BY <3>1 DEF Tasks
    <3>. HIDE DEF sent
    <3>. QED
      BY <3>1, <3>2 DEF Tasks, SameTurn
  <2>2. U = [T EXCEPT ![s] = new]
    BY <1>2
  <2>. QED
    BY <2>1, <2>2 DEF SameTurn
<1>. QED
  BY <1>1, <1>2 DEF SignalTask

LEMMA CloseSteerType ==
    ASSUME NEW t \in Tasks
    PROVE  CloseSteer(t) \in Tasks
BY DEF CloseSteer, Tasks

\* The acks a closing read loop posts name the channel of the task.
LEMMA ReleaseAcksType ==
    ASSUME TypeInv, NEW s \in Slots
    PROVE  ReleaseAcks(task[s]) \subseteq
              [ch : Channels, ev : Events, kind : AckKinds]
<1>1. task[s] \in Tasks
  BY DEF TypeInv, TypeOK
<1>2. Orphaned(task[s]) \subseteq Events
  BY <1>1 DEF Orphaned, Tasks
<1>3. Orphaned(task[s]) # {} => task[s].ch \in Channels
  BY <1>1 DEF TypeInv, HeartbeatNeverSteered, Orphaned, Tasks
<1>. QED
  BY <1>2, <1>3 DEF ReleaseAcks, AckKinds

-----------------------------------------------------------------------------
(* flush_next.                                                             *)

LEMMA ExpiredType ==
    ASSUME TypeInv
    PROVE  /\ Expired \in [Channels -> ChannelState]
           /\ ExpiredGone \subseteq Events
<1>1. \A c \in Channels : q[c] \in ChannelState
  BY DEF TypeInv, TypeOK
<1>2. \A c \in Channels : Expire(q[c]) \in ChannelState
  BY <1>1, ExpireType
<1>3. ASSUME NEW c \in Channels
      PROVE  ExpireEvicts(q[c]) \subseteq Events
  <2>1. q[c].withheld \in Seq(Events) /\ q[c].pending \in Seq(Events)
    BY <1>1 DEF ChannelState
  <2>. QED
    BY <2>1, TrimmedAreEvents DEF ExpireEvicts
<1>. QED
  BY <1>2, <1>3 DEF Expired, ExpiredGone

\* A flush takes a channel that is not in flight and marks it in flight.
LEMMA FlushEffect ==
    ASSUME TypeInv, NEW f \in Flushes
    PROVE  /\ f.ch \in Channels
           /\ f.batch \in Batches
           /\ f.next \in ChannelState
           /\ ~Expired[f.ch].inFlight
           /\ f.next.inFlight = TRUE /\ f.next.deadline = "set"
<1>1. Expired \in [Channels -> ChannelState]
  BY ExpiredType
<1>2. ASSUME NEW c \in OldestFlushable(Expired),
             f = [ch |-> c, batch |-> QueuedBatch(Expired[c]),
                  next |-> FlushQueued(Expired[c])]
      PROVE  /\ f.ch \in Channels /\ f.batch \in Batches
             /\ f.next \in ChannelState /\ ~Expired[f.ch].inFlight
             /\ f.next.inFlight = TRUE /\ f.next.deadline = "set"
  <2>1. c \in Channels /\ ~Expired[c].inFlight
    BY DEF OldestFlushable, Flushable
  <2>2. Expired[c] \in ChannelState
    BY <1>1, <2>1
  <2>3. FlushQueued(Expired[c]).inFlight = TRUE
        /\ FlushQueued(Expired[c]).deadline = "set"
    BY <2>2 DEF FlushQueued, StartFlight, ChannelState
  <2>. QED
    BY <1>2, <2>1, <2>2, <2>3, BatchType, FlushType
<1>3. ASSUME NEW c \in CancelledReady(Expired),
             f = [ch |-> c, batch |-> CancelledBatch(Expired[c]),
                  next |-> FlushCancelled(Expired[c])]
      PROVE  /\ f.ch \in Channels /\ f.batch \in Batches
             /\ f.next \in ChannelState /\ ~Expired[f.ch].inFlight
             /\ f.next.inFlight = TRUE /\ f.next.deadline = "set"
  <2>1. c \in Channels /\ ~Expired[c].inFlight
    BY DEF CancelledReady
  <2>2. Expired[c] \in ChannelState
    BY <1>1, <2>1
  <2>3. FlushCancelled(Expired[c]).inFlight = TRUE
        /\ FlushCancelled(Expired[c]).deadline = "set"
    BY <2>2 DEF FlushCancelled, StartFlight, ChannelState
  <2>. QED
    BY <1>3, <2>1, <2>2, <2>3, BatchType, FlushType
<1>. QED
  BY <1>2, <1>3 DEF Flushes

LEMMA NewTaskType ==
    ASSUME TypeInv, NEW f \in Flushes
    PROVE  NewTask(f) \in Tasks
<1>1. f.ch \in Channels /\ f.batch \in Batches
  BY FlushEffect
<1>. QED
  BY <1>1, NoTaskType DEF NewTask, Tasks, Batches

-----------------------------------------------------------------------------
(* The end of a turn.                                                      *)

LEMMA SettleType ==
    ASSUME TypeInv, NEW s \in Slots, Settle(task[s])
    PROVE  /\ q' \in [Channels -> ChannelState]
           /\ gone' \subseteq Events
           /\ hb' \in BOOLEAN
<1>. DEFINE t == task[s]
            r == q[t.ch]
            b == [events |-> t.events, merged |-> t.merged]
<1>1. t \in Tasks /\ q \in [Channels -> ChannelState]
      /\ gone \subseteq Events /\ hb \in BOOLEAN
  BY DEF TypeInv, TypeOK
<1>2. CASE t.ch = NoChannel
  BY <1>1, <1>2 DEF Settle
<1>3. CASE t.ch # NoChannel
  <2>1. t.ch \in Channels /\ r \in ChannelState
    BY <1>1, <1>3 DEF Tasks
  <2>2. b \in Batches /\ t.events \in Seq(Events) /\ t.merged \in Seq(Events)
    BY <1>1 DEF Tasks, Batches
  <2>3. BatchFate(r, t) \in ChannelState
    BY <2>1, <2>2, RequeueType, RequeueAsCancelledType
       DEF BatchFate, CancelReasons
  <2>4. MarkComplete(BatchFate(r, t)) \in ChannelState
    BY <2>3, MarkCompleteType
  <2>5. BatchEnds(r, t) \subseteq Events
    <3>1. r.pending \in Seq(Events)
      BY <2>1 DEF ChannelState
    <3>2. /\ Range(t.events) \cup Range(t.merged) \subseteq Events
          /\ Trimmed(t.events \o r.pending) \subseteq Events
      BY <2>2, <3>1, RangeOfEvents, TrimmedAreEvents
    <3>. QED
      BY <3>2 DEF BatchEnds
  <2>. QED
    BY <1>1, <1>3, <2>1, <2>4, <2>5 DEF Settle
<1>. QED
  BY <1>2, <1>3

-----------------------------------------------------------------------------
(* Every action preserves the type invariant.                              *)

\* An update of the task map keeps TypeInv if the new task is well typed and,
\* when it has no channel, has no steer receiver.
Unsteered(t) ==
    t.ch = NoChannel =>
        ~t.rx /\ t.buffered = NoEvent /\ t.written = NoEvent

LEMMA TaskUpdate ==
    ASSUME TypeInv, NEW s \in Slots, NEW t \in Tasks, Unsteered(t),
           task' = [task EXCEPT ![s] = t]
    PROVE  task' \in [Slots -> Tasks] /\ HeartbeatNeverSteered'
BY DEF TypeInv, TypeOK, HeartbeatNeverSteered, Unsteered

LEMMA NoTaskUnsteered == Unsteered(NoTask)
BY DEF Unsteered, NoTask

LEMMA SignalledType ==
    ASSUME TypeInv, NEW c, NEW sig \in Signals, task' \in SignalTask(task, c, sig)
    PROVE  task' \in [Slots -> Tasks] /\ HeartbeatNeverSteered'
<1>1. task \in [Slots -> Tasks]
  BY DEF TypeInv, TypeOK
<1>2. /\ task' \in [Slots -> Tasks]
      /\ \A s \in Slots : SameTurn(task[s], task'[s])
  BY <1>1, SignalTaskEffect
<1>. QED
  BY <1>2 DEF TypeInv, HeartbeatNeverSteered, SameTurn

LEMMA GateSignalType ==
    ASSUME NEW fromOwner \in BOOLEAN
    PROVE  GateSignal(fromOwner) \in Signals \cup {"none"}
BY HarnessConstants DEF GateSignal, Signals

LEMMA RelayEventType ==
    ASSUME TypeInv, NEW c \in Channels, NEW fromOwner \in BOOLEAN,
           RelayEvent(c, fromOwner)
    PROVE  TypeInv'
<1>. DEFINE e == arrived + 1
            sig == GateSignal(fromOwner)
            r == Push(q[c], e)
<1>1. e \in Events /\ arrived' \in 0 .. MaxEvents
  BY QueueConstants DEF TypeInv, TypeOK, RelayEvent, Events
<1>2. q[c] \in ChannelState /\ r \in ChannelState /\ Withhold(r, e) \in ChannelState
  BY <1>1, PushType, WithholdType DEF TypeInv, TypeOK
<1>3. q' \in [Channels -> ChannelState]
  BY <1>2 DEF TypeInv, TypeOK, RelayEvent
<1>4. gone' \subseteq Events
  BY <1>1, <1>2, EvictedAreEvents DEF TypeInv, TypeOK, RelayEvent
<1>5. task' \in [Slots -> Tasks] /\ HeartbeatNeverSteered'
  <2>1. CASE UNCHANGED task
    BY <2>1 DEF TypeInv, TypeOK, HeartbeatNeverSteered
  <2>2. ASSUME NEW s \in SteerAccepts(c), task' = [task EXCEPT ![s].buffered = e]
        PROVE  task' \in [Slots -> Tasks] /\ HeartbeatNeverSteered'
    <3>. DEFINE t == [task[s] EXCEPT !.buffered = e]
    <3>1. s \in Slots /\ task[s].ch = c /\ task[s] \in Tasks
      BY DEF SteerAccepts, TasksOn, TypeInv, TypeOK
    <3>2. t \in Tasks /\ t.ch = c
      BY <1>1, <3>1 DEF Tasks
    <3>3. Unsteered(t)
      BY <3>2, HarnessConstants DEF Unsteered
    <3>4. task' = [task EXCEPT ![s] = t]
      BY <2>2
    <3>. QED
      BY <3>1, <3>2, <3>3, <3>4, TaskUpdate
  <2>3. CASE sig \in Signals /\ task' \in SignalTask(task, c, sig)
    BY <2>3, SignalledType
  <2>4. sig # "none" => sig \in Signals
    BY GateSignalType
  <2>. QED
    BY <2>1, <2>2, <2>3, <2>4 DEF RelayEvent
<1>. QED
  BY <1>1, <1>3, <1>4, <1>5 DEF TypeInv, TypeOK, RelayEvent, AfterDispatch

LEMMA OwnerControlType ==
    ASSUME TypeInv, NEW c \in Channels, NEW sig \in OwnerSignals,
           OwnerControl(c, sig)
    PROVE  TypeInv'
<1>1. sig \in Signals
  BY HarnessConstants DEF Signals
<1>2. task' \in [Slots -> Tasks] /\ HeartbeatNeverSteered'
  BY <1>1, SignalledType DEF OwnerControl
<1>. QED
  BY <1>2 DEF TypeInv, TypeOK, OwnerControl

LEMMA MembershipType ==
    ASSUME TypeInv, NEW c \in Channels, MemberRemoved(c) \/ MemberAdded(c)
    PROVE  TypeInv'
<1>1. q[c] \in ChannelState /\ DrainChannel(q[c]) \in ChannelState
  BY DrainChannelType DEF TypeInv, TypeOK
<1>2. Drained(q[c]) \subseteq Events
  BY <1>1, RangeOfEvents DEF Drained, ChannelState
<1>. QED
  BY <1>1, <1>2 DEF TypeInv, TypeOK, HeartbeatNeverSteered, MemberRemoved,
                    MemberAdded

LEMMA AfterDispatchType ==
    ASSUME Dispatching
    PROVE  AfterDispatch[pc] \in {"top", "respawns", "select"}
BY DEF Dispatching, AfterDispatch

LEMMA DispatchType ==
    ASSUME TypeInv, Dispatch
    PROVE  TypeInv'
<1>1. PICK f \in Flushes, s \in idle :
          /\ q' = [Expired EXCEPT ![f.ch] = f.next]
          /\ task' = [task EXCEPT ![s] = NewTask(f)]
          /\ idle' = idle \ {s}
  BY DEF Dispatch
<1>2. f.ch \in Channels /\ f.next \in ChannelState
  BY FlushEffect
<1>3. q' \in [Channels -> ChannelState]
  BY <1>1, <1>2, ExpiredType
<1>4. gone' \subseteq Events
  BY ExpiredType DEF Dispatch, TypeInv, TypeOK
<1>5. NewTask(f) \in Tasks /\ s \in Slots
  BY NewTaskType DEF TypeInv, TypeOK
<1>6. Unsteered(NewTask(f))
  BY <1>2, HarnessConstants DEF Unsteered, NewTask, NoTask
<1>7. task' \in [Slots -> Tasks] /\ HeartbeatNeverSteered'
  BY <1>1, <1>5, <1>6, TaskUpdate
<1>. QED
  BY <1>1, <1>3, <1>4, <1>7 DEF TypeInv, TypeOK, Dispatch

LEMMA PoolExhaustedType ==
    ASSUME TypeInv, PoolExhausted
    PROVE  TypeInv'
<1>1. PICK f \in Flushes :
          /\ q' = [Expired EXCEPT
                     ![f.ch] = MarkComplete(RequeuePreserve(f.next, f.batch))]
          /\ gone' = gone \cup ExpiredGone
                          \cup Trimmed(f.batch.events \o f.next.pending)
  BY DEF PoolExhausted
<1>2. f.ch \in Channels /\ f.next \in ChannelState /\ f.batch \in Batches
  BY FlushEffect
<1>3. MarkComplete(RequeuePreserve(f.next, f.batch)) \in ChannelState
  BY <1>2, RequeuePreserveType, MarkCompleteType
<1>4. q' \in [Channels -> ChannelState]
  BY <1>1, <1>2, <1>3, ExpiredType
<1>5. f.batch.events \in Seq(Events) /\ f.next.pending \in Seq(Events)
  BY <1>2 DEF Batches, ChannelState
<1>6. gone' \subseteq Events
  BY <1>1, <1>5, TrimmedAreEvents, ExpiredType DEF TypeInv, TypeOK
<1>7. pc' \in {"top", "respawns", "select"}
  BY AfterDispatchType DEF PoolExhausted
<1>. QED
  BY <1>4, <1>6, <1>7
     DEF TypeInv, TypeOK, HeartbeatNeverSteered, PoolExhausted

LEMMA NothingToFlushType ==
    ASSUME TypeInv, NothingToFlush
    PROVE  TypeInv'
<1>1. pc' \in {"top", "respawns", "select"}
  BY AfterDispatchType DEF NothingToFlush
<1>. QED
  BY <1>1, ExpiredType DEF TypeInv, TypeOK, HeartbeatNeverSteered, NothingToFlush

LEMMA HandleResultType ==
    ASSUME TypeInv, HandleResult
    PROVE  TypeInv'
<1>. DEFINE s == Head(results)
<1>1. results \in Seq(Slots) /\ results # <<>>
  BY DEF TypeInv, TypeOK, HandleResult
<1>2. s \in Slots /\ results' \in Seq(Slots)
  BY <1>1, HeadTailProperties DEF HandleResult
<1>3. Settle(task[s])
  BY DEF HandleResult
<1>4. /\ q' \in [Channels -> ChannelState]
      /\ gone' \subseteq Events
      /\ hb' \in BOOLEAN
  BY <1>2, <1>3, SettleType
<1>5. task' \in [Slots -> Tasks] /\ HeartbeatNeverSteered'
  BY <1>2, NoTaskType, NoTaskUnsteered, TaskUpdate DEF HandleResult
<1>6. idle' \subseteq Slots /\ respawning' \subseteq Slots
  BY <1>2 DEF HandleResult, TypeInv, TypeOK
<1>7. pc' \in {"exited", "joins"}
  BY DEF HandleResult
<1>. QED
  BY <1>2, <1>4, <1>5, <1>6, <1>7 DEF TypeInv, TypeOK, HandleResult

LEMMA RecoverPanickedType ==
    ASSUME TypeInv, NEW s \in Slots, RecoverPanicked(s)
    PROVE  TypeInv'
<1>1. Settle(task[s])
  BY DEF RecoverPanicked
<1>2. /\ q' \in [Channels -> ChannelState]
      /\ gone' \subseteq Events
      /\ hb' \in BOOLEAN
  BY <1>1, SettleType
<1>3. task' \in [Slots -> Tasks] /\ HeartbeatNeverSteered'
  BY NoTaskType, NoTaskUnsteered, TaskUpdate DEF RecoverPanicked
<1>4. respawning' \subseteq Slots
  BY DEF RecoverPanicked, TypeInv, TypeOK
<1>5. pc' \in {"exited", "joins", "dispatch"}
  BY DEF RecoverPanicked
<1>. QED
  BY <1>2, <1>3, <1>4, <1>5
     DEF TypeInv, TypeOK, RecoverPanicked, AfterDispatch

LEMMA HandleAckType ==
    ASSUME TypeInv, NEW a \in acks, HandleAck(a)
    PROVE  TypeInv'
<1>. DEFINE r == q[a.ch]
<1>1. a.ch \in Channels /\ a.ev \in Events /\ r \in ChannelState
  BY DEF TypeInv, TypeOK
<1>2. /\ RemoveEvent(ExtendDeadline(r), a.ev) \in ChannelState
      /\ Release(r, a.ev) \in ChannelState
      /\ ReleaseEvicts(r, a.ev) \subseteq Events
  BY <1>1, ExtendDeadlineType, RemoveEventType, ReleaseType, EvictedAreEvents
<1>3. q' \in [Channels -> ChannelState] /\ gone' \subseteq Events
  BY <1>1, <1>2 DEF TypeInv, TypeOK, HandleAck
<1>4. task' \in [Slots -> Tasks] /\ HeartbeatNeverSteered'
  <2>1. CASE UNCHANGED task
    BY <2>1 DEF TypeInv, TypeOK, HeartbeatNeverSteered
  <2>2. CASE task' \in SignalTask(task, a.ch, "Steer")
    BY <2>2, SignalledType DEF Signals
  <2>. QED
    BY <2>1, <2>2 DEF HandleAck
<1>5. acks' \subseteq [ch : Channels, ev : Events, kind : AckKinds]
  BY DEF TypeInv, TypeOK, HandleAck
<1>. QED
  BY <1>3, <1>4, <1>5 DEF TypeInv, TypeOK, HandleAck, AfterDispatch

LEMMA MaintenanceType ==
    ASSUME TypeInv, Maintenance
    PROVE  TypeInv'
<1>1. q' \in [Channels -> ChannelState]
  BY CompactType DEF TypeInv, TypeOK, Maintenance
<1>2. respawning' \subseteq Slots
  BY DEF TypeInv, TypeOK, Maintenance
<1>. QED
  BY <1>1, <1>2
     DEF TypeInv, TypeOK, HeartbeatNeverSteered, Maintenance, AfterDispatch

LEMMA HeartbeatTickType ==
    ASSUME TypeInv, HeartbeatTick
    PROVE  TypeInv'
<1>1. q' \in [Channels -> ChannelState] /\ gone' \subseteq Events
  BY ExpiredType DEF TypeInv, TypeOK, HeartbeatTick
<1>2. /\ task' \in [Slots -> Tasks] /\ HeartbeatNeverSteered'
      /\ idle' \subseteq Slots /\ hb' \in BOOLEAN
  <2>1. CASE UNCHANGED <<idle, task, hb>>
    BY <2>1 DEF TypeInv, TypeOK, HeartbeatNeverSteered
  <2>2. ASSUME NEW s \in idle, hb' = TRUE, idle' = idle \ {s},
               task' = [task EXCEPT ![s] = [NoTask EXCEPT !.st = "running"]]
        PROVE  /\ task' \in [Slots -> Tasks] /\ HeartbeatNeverSteered'
               /\ idle' \subseteq Slots /\ hb' \in BOOLEAN
    <3>. DEFINE t == [NoTask EXCEPT !.st = "running"]
    <3>1. t \in Tasks
      BY NoTaskType DEF Tasks
    <3>2. Unsteered(t)
      BY DEF Unsteered, NoTask
    <3>3. s \in Slots
      BY DEF TypeInv, TypeOK
    <3>. QED
      BY <2>2, <3>1, <3>2, <3>3, TaskUpdate DEF TypeInv, TypeOK
  <2>. QED
    BY <2>1, <2>2 DEF HeartbeatTick
<1>. QED
  BY <1>1, <1>2 DEF TypeInv, TypeOK, HeartbeatTick, AfterDispatch

\* The steps of the main loop that touch neither the queue nor the task map.
LEMMA LoopStepType ==
    ASSUME TypeInv,
           \/ JoinsDrained \/ MaintenanceNotDue \/ RespawnsCollected
           \/ TimerTick \/ Shutdown
           \/ \E s \in Slots : RespawnOk(s) \/ RespawnFailed(s)
    PROVE  TypeInv'
BY DEF TypeInv, TypeOK, HeartbeatNeverSteered, AfterDispatch, JoinsDrained,
       MaintenanceNotDue, RespawnsCollected, TimerTick, Shutdown, RespawnOk,
       RespawnFailed

LEMMA SteerStepType ==
    ASSUME TypeInv, NEW s \in Slots,
           \/ SteerTaken(s)
           \/ \E kind \in AckKinds : SteerAnswered(s, kind)
           \/ ReadLoopReturns(s)
    PROVE  TypeInv'
<1>. DEFINE t == task[s]
            taken == [t EXCEPT !.buffered = NoEvent, !.written = t.buffered]
            refused == [t EXCEPT !.buffered = NoEvent]
            answered == [t EXCEPT !.written = NoEvent]
<1>1. t \in Tasks /\ t.rx
  BY DEF TypeInv, TypeOK, SteerTaken, SteerAnswered, ReadLoopReturns
<1>2. t.ch \in Channels
  BY <1>1 DEF TypeInv, HeartbeatNeverSteered, Tasks
<1>3. /\ taken \in Tasks /\ refused \in Tasks /\ answered \in Tasks
      /\ CloseSteer(t) \in Tasks
  BY <1>1, CloseSteerType DEF Tasks, NoEvent
<1>4. /\ Unsteered(taken) /\ Unsteered(refused) /\ Unsteered(answered)
      /\ Unsteered(CloseSteer(t))
  BY <1>1, <1>2, HarnessConstants DEF Unsteered, CloseSteer, Tasks
<1>5. CASE SteerTaken(s)
  <2>1. \/ task' = [task EXCEPT ![s] = taken]
        \/ task' = [task EXCEPT ![s] = refused]
    BY <1>5 DEF SteerTaken, TypeInv, TypeOK
  <2>2. task' \in [Slots -> Tasks] /\ HeartbeatNeverSteered'
    BY <1>3, <1>4, <2>1, TaskUpdate
  <2>3. [ch |-> t.ch, ev |-> t.buffered, kind |-> "Fallback"] \in
            [ch : Channels, ev : Events, kind : AckKinds]
    BY <1>1, <1>2, <1>5 DEF SteerTaken, Tasks, AckKinds
  <2>. QED
    BY <1>5, <2>2, <2>3 DEF SteerTaken, TypeInv, TypeOK
<1>6. ASSUME NEW kind \in AckKinds, SteerAnswered(s, kind)
      PROVE  TypeInv'
  <2>1. task' = [task EXCEPT ![s] = answered]
    BY <1>6 DEF SteerAnswered, TypeInv, TypeOK
  <2>2. task' \in [Slots -> Tasks] /\ HeartbeatNeverSteered'
    BY <1>3, <1>4, <2>1, TaskUpdate
  <2>3. [ch |-> t.ch, ev |-> t.written, kind |-> kind] \in
            [ch : Channels, ev : Events, kind : AckKinds]
    BY <1>1, <1>2, <1>6 DEF SteerAnswered, Tasks
  <2>. QED
    BY <1>6, <2>2, <2>3 DEF SteerAnswered, TypeInv, TypeOK
<1>7. CASE ReadLoopReturns(s)
  <2>1. task' \in [Slots -> Tasks] /\ HeartbeatNeverSteered'
    BY <1>3, <1>4, <1>7, TaskUpdate DEF ReadLoopReturns
  <2>. QED
    BY <1>7, <2>1, ReleaseAcksType DEF ReadLoopReturns, TypeInv, TypeOK
<1>. QED
  BY <1>5, <1>6, <1>7

\* What a finished or panicked task may look like.
LEMMA FinishType ==
    ASSUME TypeInv, NEW s \in Slots, NEW out \in Outcomes, NEW keep \in BOOLEAN,
           Finish(s, out, keep)
    PROVE  TypeInv'
<1>. DEFINE t == task[s]
            kept == keep /\ DedupMode = "Queue" /\ t.ch # NoChannel
            u == [CloseSteer(t) EXCEPT !.st = "done", !.out = out, !.keep = kept]
<1>1. CloseSteer(t) \in Tasks
  BY CloseSteerType DEF TypeInv, TypeOK
<1>2. kept \in BOOLEAN
  OBVIOUS
<1>. HIDE DEF kept
<1>3. u \in Tasks
  BY <1>1, <1>2 DEF Tasks
<1>4. Unsteered(u)
  BY DEF Unsteered, CloseSteer
<1>5. task' = [task EXCEPT ![s] = u]
  BY DEF Finish, kept
<1>6. task' \in [Slots -> Tasks] /\ HeartbeatNeverSteered'
  BY <1>3, <1>4, <1>5, TaskUpdate
<1>7. results' \in Seq(Slots)
  BY AppendProperties DEF Finish, TypeInv, TypeOK
<1>. QED
  BY <1>6, <1>7, ReleaseAcksType DEF Finish, TypeInv, TypeOK

LEMMA TurnEndType ==
    ASSUME TypeInv, NEW s \in Slots,
           \/ TurnOk(s)
           \/ \E out \in Failures : TurnFails(s, out)
           \/ \E out \in Outcomes : TurnCancelled(s, out)
    PROVE  TypeInv'
<1>1. CASE TurnOk(s)
  BY <1>1, FinishType DEF TurnOk, Outcomes
<1>2. CASE \E out \in Failures : TurnFails(s, out)
  BY <1>2, FinishType DEF TurnFails, Outcomes
<1>3. CASE \E out \in Outcomes : TurnCancelled(s, out)
  BY <1>3, FinishType DEF TurnCancelled, KeepsBatch
<1>. QED
  BY <1>1, <1>2, <1>3

LEMMA TaskPanicsType ==
    ASSUME TypeInv, NEW s \in Slots, TaskPanics(s)
    PROVE  TypeInv'
<1>. DEFINE t == task[s]
            kept == DedupMode = "Queue" /\ t.ch # NoChannel
            u == [CloseSteer(t) EXCEPT !.st = "panicked", !.sig = "none",
                                       !.keep = kept]
<1>1. CloseSteer(t) \in Tasks
  BY CloseSteerType DEF TypeInv, TypeOK
<1>2. kept \in BOOLEAN
  OBVIOUS
<1>. HIDE DEF kept
<1>3. u \in Tasks
  BY <1>1, <1>2 DEF Tasks
<1>4. Unsteered(u)
  BY DEF Unsteered, CloseSteer
<1>5. task' = [task EXCEPT ![s] = u]
  BY DEF TaskPanics, kept
<1>6. task' \in [Slots -> Tasks] /\ HeartbeatNeverSteered'
  BY <1>3, <1>4, <1>5, TaskUpdate
<1>. QED
  BY <1>6, ReleaseAcksType DEF TaskPanics, TypeInv, TypeOK

LEMMA TimeType ==
    ASSUME TypeInv, NEW c \in Channels, BackoffElapses(c) \/ DeadlinePasses(c)
    PROVE  TypeInv'
<1>1. /\ [q[c] EXCEPT !.retryAfter = "past"] \in ChannelState
      /\ [q[c] EXCEPT !.deadline = "passed"] \in ChannelState
  BY DEF TypeInv, TypeOK, ChannelState
<1>2. \/ q' = [q EXCEPT ![c] = [q[c] EXCEPT !.retryAfter = "past"]]
      \/ q' = [q EXCEPT ![c] = [q[c] EXCEPT !.deadline = "passed"]]
  BY DEF TypeInv, TypeOK, BackoffElapses, DeadlinePasses
<1>3. q' \in [Channels -> ChannelState]
  BY <1>1, <1>2 DEF TypeInv, TypeOK
<1>. QED
  BY <1>3 DEF TypeInv, TypeOK, HeartbeatNeverSteered, BackoffElapses,
              DeadlinePasses

LEMMA TypeInvInductive == TypeInv /\ [Next]_vars => TypeInv'
<1>. SUFFICES ASSUME TypeInv, [Next]_vars
             PROVE  TypeInv'
  OBVIOUS
<1>1. CASE UNCHANGED vars
  BY <1>1 DEF TypeInv, TypeOK, HeartbeatNeverSteered, vars
<1>2. CASE MainLoop
  BY <1>2, RelayEventType, OwnerControlType, MembershipType, DispatchType,
     PoolExhaustedType, NothingToFlushType, HandleResultType,
     RecoverPanickedType, HandleAckType, MaintenanceType, HeartbeatTickType,
     LoopStepType
     DEF MainLoop
<1>3. CASE PromptTasks
  BY <1>3, SteerStepType, TurnEndType, TaskPanicsType DEF PromptTasks
<1>4. CASE Time
  BY <1>4, TimeType DEF Time
<1>. QED
  BY <1>1, <1>2, <1>3, <1>4 DEF Next, Exited

LEMMA TypeInvInit == Init => TypeInv
<1>. SUFFICES ASSUME Init PROVE TypeInv
  OBVIOUS
<1>1. q \in [Channels -> ChannelState] /\ task \in [Slots -> Tasks]
  BY EmptyChannelType, NoTaskType DEF Init
<1>2. arrived \in 0 .. MaxEvents
  BY QueueConstants DEF Init
<1>3. results \in Seq(Slots)
  BY EmptySeq DEF Init
<1>4. HeartbeatNeverSteered
  BY DEF Init, HeartbeatNeverSteered, NoTask
<1>. QED
  BY <1>1, <1>2, <1>3, <1>4 DEF Init, TypeInv, TypeOK

\* The harness never leaves its state space: every batch, queue, cancelled and
\* withheld table holds events the relay delivered, the retry counter stays
\* within the budget, and every steer ack names a channel (a heartbeat task has
\* no steer receiver).
THEOREM TypeCorrect == Spec => []TypeOK
<1>1. Spec => []TypeInv
  BY TypeInvInit, TypeInvInductive, PTL DEF Spec
<1>2. TypeInv => TypeOK
  BY DEF TypeInv
<1>. QED
  BY <1>1, <1>2, PTL

-----------------------------------------------------------------------------
(* Slot ownership.                                                         *)

\* The actions that leave the stage and the channel of every task alone.
LEMMA StageKept ==
    ASSUME TypeInv,
           \/ \E c \in Channels, fromOwner \in BOOLEAN : RelayEvent(c, fromOwner)
           \/ \E c \in Channels, sig \in OwnerSignals : OwnerControl(c, sig)
           \/ \E a \in acks : HandleAck(a)
           \/ \E s \in Slots :
                 \/ SteerTaken(s)
                 \/ \E kind \in AckKinds : SteerAnswered(s, kind)
                 \/ ReadLoopReturns(s)
    PROVE  \A s \in Slots : task'[s].st = task[s].st /\ task'[s].ch = task[s].ch
<1>. DEFINE Kept == \A s \in Slots :
                       task'[s].st = task[s].st /\ task'[s].ch = task[s].ch
<1>1. task \in [Slots -> Tasks]
  BY DEF TypeInv, TypeOK
<1>2. CASE UNCHANGED task
  BY <1>2
<1>3. ASSUME NEW c, NEW sig \in Signals, task' \in SignalTask(task, c, sig)
      PROVE  Kept
  BY <1>1, <1>3, SignalTaskEffect DEF SameTurn
<1>4. ASSUME NEW c \in Channels, NEW fromOwner \in BOOLEAN,
             RelayEvent(c, fromOwner)
      PROVE  Kept
  <2>1. ASSUME NEW s \in SteerAccepts(c),
               task' = [task EXCEPT ![s].buffered = arrived + 1]
        PROVE  Kept
    BY <1>1, <2>1 DEF SteerAccepts, TasksOn, Tasks
  <2>2. GateSignal(fromOwner) # "none" => GateSignal(fromOwner) \in Signals
    BY GateSignalType
  <2>. QED
    BY <1>2, <1>3, <1>4, <2>1, <2>2 DEF RelayEvent
<1>5. ASSUME NEW c \in Channels, NEW sig \in OwnerSignals, OwnerControl(c, sig)
      PROVE  Kept
  <2>1. sig \in Signals
    BY HarnessConstants DEF Signals
  <2>. QED
    BY <1>3, <1>5, <2>1 DEF OwnerControl
<1>6. ASSUME NEW a \in acks, HandleAck(a)
      PROVE  Kept
  <2>1. "Steer" \in Signals
    BY DEF Signals
  <2>. QED
    BY <1>2, <1>3, <1>6, <2>1 DEF HandleAck
<1>7. ASSUME NEW s \in Slots,
             \/ SteerTaken(s)
             \/ \E kind \in AckKinds : SteerAnswered(s, kind)
             \/ ReadLoopReturns(s)
      PROVE  Kept
  <2>. DEFINE t == task[s]
  <2>1. t \in Tasks
    BY <1>1
  <2>2. \/ task' = [task EXCEPT ![s] = [t EXCEPT !.buffered = NoEvent,
                                                !.written = t.buffered]]
        \/ task' = [task EXCEPT ![s] = [t EXCEPT !.buffered = NoEvent]]
        \/ task' = [task EXCEPT ![s] = [t EXCEPT !.written = NoEvent]]
        \/ task' = [task EXCEPT ![s] = CloseSteer(t)]
    BY <1>1, <1>7 DEF SteerTaken, SteerAnswered, ReadLoopReturns
  <2>3. ASSUME NEW u, u.st = t.st, u.ch = t.ch, task' = [task EXCEPT ![s] = u]
        PROVE  Kept
    BY <1>1, <2>3
  <2>4. /\ [t EXCEPT !.buffered = NoEvent, !.written = t.buffered].st = t.st
        /\ [t EXCEPT !.buffered = NoEvent, !.written = t.buffered].ch = t.ch
        /\ [t EXCEPT !.buffered = NoEvent].st = t.st
        /\ [t EXCEPT !.buffered = NoEvent].ch = t.ch
        /\ [t EXCEPT !.written = NoEvent].st = t.st
        /\ [t EXCEPT !.written = NoEvent].ch = t.ch
        /\ CloseSteer(t).st = t.st /\ CloseSteer(t).ch = t.ch
    BY <2>1 DEF Tasks, CloseSteer
  <2>. QED
    BY <2>2, <2>3, <2>4
<1>. QED
  BY <1>4, <1>5, <1>6, <1>7

LEMMA SlotsKept ==
    ASSUME SlotOwnership, UNCHANGED <<idle, respawning, results>>,
           \A s \in Slots : task'[s].st = task[s].st
    PROVE  SlotOwnership'
BY DEF SlotOwnership, Live

\* A checked-out agent: an idle slot starts a task.
LEMMA SlotClaimed ==
    ASSUME TypeInv, SlotOwnership, NEW s \in idle, NEW t,
           t.st = "running", idle' = idle \ {s},
           task' = [task EXCEPT ![s] = t], UNCHANGED <<respawning, results>>
    PROVE  SlotOwnership'
<1>1. task \in [Slots -> Tasks] /\ s \in Slots
  BY DEF TypeInv, TypeOK
<1>2. task[s].st = "none"
  BY <1>1 DEF SlotOwnership, Live
<1>. QED
  BY <1>1, <1>2 DEF SlotOwnership, Live

\* A finished or panicked agent comes back: idle, respawning or given up.
LEMMA SlotReturned ==
    ASSUME TypeInv, SlotOwnership, NEW s \in Slots, Live(s),
           task' = [task EXCEPT ![s] = NoTask],
           \/ idle' = idle \cup {s} /\ UNCHANGED respawning
           \/ respawning' \in {respawning, respawning \cup {s}} /\ UNCHANGED idle,
           \A i, j \in DOMAIN results' : results'[i] = results'[j] => i = j,
           Range(results') = Range(results) \ {s}
    PROVE  SlotOwnership'
<1>1. task \in [Slots -> Tasks]
  BY DEF TypeInv, TypeOK
<1>2. s \notin idle /\ s \notin respawning
  BY DEF SlotOwnership
<1>3. \A x \in Slots : task'[x] = IF x = s THEN NoTask ELSE task[x]
  BY <1>1
<1>4. NoTask.st = "none"
  BY DEF NoTask
<1>5. idle' \cap respawning' = {}
  BY <1>2 DEF SlotOwnership
<1>6. \A x \in Slots : Live(x)' => x \notin idle' /\ x \notin respawning'
  BY <1>3, <1>4 DEF SlotOwnership, Live
<1>7. \A x \in Slots : task'[x].st = "done" <=> x \in Range(results')
  BY <1>3, <1>4 DEF SlotOwnership
<1>. QED
  BY <1>5, <1>6, <1>7 DEF SlotOwnership

\* Taking the head off a sequence without repetitions.
LEMMA TailWithoutHead ==
    ASSUME NEW S, NEW s \in Seq(S), s # <<>>,
           \A i, j \in DOMAIN s : s[i] = s[j] => i = j
    PROVE  /\ Head(s) \in Range(s)
           /\ \A i, j \in DOMAIN Tail(s) : Tail(s)[i] = Tail(s)[j] => i = j
           /\ Range(Tail(s)) = Range(s) \ {Head(s)}
<1>1. /\ Len(s) \in Nat \ {0} /\ DOMAIN s = 1 .. Len(s)
      /\ Head(s) = s[1]
  BY EmptySeq, LenProperties
<1>2. /\ Tail(s) \in Seq(S) /\ Len(Tail(s)) = Len(s) - 1
      /\ \A i \in 1 .. Len(Tail(s)) : Tail(s)[i] = s[i + 1]
  BY HeadTailProperties
<1>3. /\ DOMAIN Tail(s) = 1 .. Len(s) - 1
      /\ \A i \in DOMAIN Tail(s) : Tail(s)[i] = s[i + 1]
  BY <1>2, LenProperties
<1>4. \A x : x \in Range(s) <=> \E i \in 1 .. Len(s) : x = s[i]
  BY <1>1 DEF Range
<1>5. \A x : x \in Range(Tail(s)) <=> \E i \in 1 .. Len(s) - 1 : x = s[i + 1]
  BY <1>3 DEF Range
<1>6. \A i \in 1 .. Len(s) : i = 1 \/ (i - 1 \in 1 .. Len(s) - 1 /\ i = (i - 1) + 1)
  BY <1>1
<1>7. \A i \in 1 .. Len(s) - 1 : i + 1 \in 1 .. Len(s) /\ i + 1 # 1
  BY <1>1
<1>8. Range(Tail(s)) = Range(s) \ {Head(s)}
  <2>1. ASSUME NEW x \in Range(Tail(s))
        PROVE  x \in Range(s) /\ x # Head(s)
    <3>1. PICK i \in 1 .. Len(s) - 1 : x = s[i + 1]
      BY <1>5
    <3>2. i + 1 \in 1 .. Len(s) /\ i + 1 # 1 /\ 1 \in 1 .. Len(s)
      BY <1>1, <1>7
    <3>. QED
      BY <1>1, <1>4, <3>1, <3>2
  <2>2. ASSUME NEW x \in Range(s), x # Head(s)
        PROVE  x \in Range(Tail(s))
    <3>1. PICK i \in 1 .. Len(s) : x = s[i]
      BY <1>4
    <3>2. i - 1 \in 1 .. Len(s) - 1 /\ i = (i - 1) + 1
      BY <1>1, <1>6, <2>2, <3>1
    <3>3. x = s[(i - 1) + 1]
      BY <3>1, <3>2
    <3>. QED
      BY <1>5, <3>2, <3>3
  <2>. QED
    BY <2>1, <2>2
<1>9. \A i, j \in DOMAIN Tail(s) : Tail(s)[i] = Tail(s)[j] => i = j
  BY <1>1, <1>2, <1>3, <1>7
<1>. QED
  BY <1>1, <1>4, <1>8, <1>9

LEMMA AppendNew ==
    ASSUME NEW S, NEW s \in Seq(S), NEW e \in S, e \notin Range(s),
           \A i, j \in DOMAIN s : s[i] = s[j] => i = j
    PROVE  /\ \A i, j \in DOMAIN Append(s, e) :
                 Append(s, e)[i] = Append(s, e)[j] => i = j
           /\ Range(Append(s, e)) = Range(s) \cup {e}
<1>1. Len(s) \in Nat /\ DOMAIN s = 1 .. Len(s)
  BY LenProperties
<1>2. /\ DOMAIN Append(s, e) = 1 .. Len(s) + 1
      /\ \A i \in 1 .. Len(s) : Append(s, e)[i] = s[i]
      /\ Append(s, e)[Len(s) + 1] = e
  BY AppendProperties, LenProperties
<1>3. \A i \in 1 .. Len(s) : s[i] # e
  BY <1>1 DEF Range
<1>4. \A i \in 1 .. Len(s) + 1 : i \in 1 .. Len(s) \/ i = Len(s) + 1
  BY <1>1
<1>5. \A i, j \in DOMAIN Append(s, e) :
          Append(s, e)[i] = Append(s, e)[j] => i = j
  BY <1>1, <1>2, <1>3, <1>4
<1>6. Range(Append(s, e)) = Range(s) \cup {e}
  BY <1>1, <1>2, <1>4 DEF Range
<1>. QED
  BY <1>5, <1>6

LEMMA FinishSlot ==
    ASSUME TypeInv, SlotOwnership, NEW s \in Slots, NEW out, NEW keep,
           Finish(s, out, keep)
    PROVE  SlotOwnership'
<1>. DEFINE t == task[s]
            u == [CloseSteer(t) EXCEPT !.st = "done", !.out = out,
                     !.keep = keep /\ DedupMode = "Queue" /\ t.ch # NoChannel]
<1>1. task \in [Slots -> Tasks] /\ t \in Tasks /\ results \in Seq(Slots)
  BY DEF TypeInv, TypeOK
<1>2. t.st = "running" /\ task' = [task EXCEPT ![s] = u]
      /\ results' = Append(results, s) /\ UNCHANGED <<idle, respawning>>
  BY DEF Finish
<1>3. u.st = "done"
  BY <1>1, CloseSteerType DEF Tasks
<1>. HIDE DEF u
<1>4. \A x \in Slots : task'[x] = IF x = s THEN u ELSE task[x]
  BY <1>1, <1>2
<1>5. s \notin Range(results)
  BY <1>2 DEF SlotOwnership
<1>6. /\ \A i, j \in DOMAIN results' : results'[i] = results'[j] => i = j
      /\ Range(results') = Range(results) \cup {s}
  BY <1>1, <1>2, <1>5, AppendNew DEF SlotOwnership
<1>7. \A x \in Slots : task'[x].st = "done" <=> x \in Range(results')
  BY <1>3, <1>4, <1>6 DEF SlotOwnership
<1>8. \A x \in Slots : Live(x)' => x \notin idle' /\ x \notin respawning'
  BY <1>2, <1>3, <1>4 DEF SlotOwnership, Live
<1>. QED
  BY <1>2, <1>6, <1>7, <1>8 DEF SlotOwnership

LEMMA PanicSlot ==
    ASSUME TypeInv, SlotOwnership, NEW s \in Slots, TaskPanics(s)
    PROVE  SlotOwnership'
<1>. DEFINE t == task[s]
            u == [CloseSteer(t) EXCEPT !.st = "panicked", !.sig = "none",
                     !.keep = DedupMode = "Queue" /\ t.ch # NoChannel]
<1>1. task \in [Slots -> Tasks] /\ t \in Tasks
  BY DEF TypeInv, TypeOK
<1>2. t.st = "running" /\ task' = [task EXCEPT ![s] = u]
      /\ UNCHANGED <<idle, respawning, results>>
  BY DEF TaskPanics
<1>3. u.st = "panicked"
  BY <1>1, CloseSteerType DEF Tasks
<1>. HIDE DEF u
<1>4. \A x \in Slots : task'[x] = IF x = s THEN u ELSE task[x]
  BY <1>1, <1>2
<1>. QED
  BY <1>2, <1>3, <1>4 DEF SlotOwnership, Live

LEMMA HandleResultSlot ==
    ASSUME TypeInv, SlotOwnership, HandleResult
    PROVE  SlotOwnership'
<1>. DEFINE s == Head(results)
<1>1. results \in Seq(Slots) /\ results # <<>> /\ results' = Tail(results)
  BY DEF TypeInv, TypeOK, HandleResult
<1>2. /\ s \in Range(results)
      /\ \A i, j \in DOMAIN results' : results'[i] = results'[j] => i = j
      /\ Range(results') = Range(results) \ {s}
  BY <1>1, TailWithoutHead DEF SlotOwnership
<1>3. s \in Slots /\ Live(s)
  BY <1>1, <1>2, HeadTailProperties DEF SlotOwnership, Live
<1>4. /\ task' = [task EXCEPT ![s] = NoTask]
      /\ \/ idle' = idle \cup {s} /\ UNCHANGED respawning
         \/ respawning' \in {respawning, respawning \cup {s}} /\ UNCHANGED idle
  BY DEF HandleResult
<1>. QED
  BY <1>2, <1>3, <1>4, SlotReturned

LEMMA RecoverPanickedSlot ==
    ASSUME TypeInv, SlotOwnership, NEW s \in Slots, RecoverPanicked(s)
    PROVE  SlotOwnership'
<1>1. Live(s) /\ s \notin Range(results)
  BY DEF RecoverPanicked, SlotOwnership, Live
<1>2. /\ task' = [task EXCEPT ![s] = NoTask] /\ UNCHANGED results
      /\ respawning' \in {respawning, respawning \cup {s}} /\ UNCHANGED idle
  BY DEF RecoverPanicked
<1>3. /\ \A i, j \in DOMAIN results' : results'[i] = results'[j] => i = j
      /\ Range(results') = Range(results) \ {s}
  BY <1>1, <1>2 DEF SlotOwnership
<1>. QED
  BY <1>1, <1>2, <1>3, SlotReturned

LEMMA ClaimSlot ==
    ASSUME TypeInv, SlotOwnership, Dispatch \/ HeartbeatTick
    PROVE  SlotOwnership'
<1>1. CASE Dispatch
  <2>1. PICK f \in Flushes, s \in idle :
            task' = [task EXCEPT ![s] = NewTask(f)] /\ idle' = idle \ {s}
    BY <1>1 DEF Dispatch
  <2>2. NewTask(f).st = "running"
    BY DEF NewTask, NoTask
  <2>. QED
    BY <1>1, <2>1, <2>2, SlotClaimed DEF Dispatch
<1>2. CASE HeartbeatTick
  <2>1. CASE UNCHANGED <<idle, task, hb>>
    BY <1>2, <2>1, SlotsKept DEF HeartbeatTick
  <2>2. ASSUME NEW s \in idle, idle' = idle \ {s},
               task' = [task EXCEPT ![s] = [NoTask EXCEPT !.st = "running"]]
        PROVE  SlotOwnership'
    <3>1. [NoTask EXCEPT !.st = "running"].st = "running"
      BY DEF NoTask
    <3>. QED
      BY <1>2, <2>2, <3>1, SlotClaimed DEF HeartbeatTick
  <2>. QED
    BY <1>2, <2>1, <2>2 DEF HeartbeatTick
<1>. QED
  BY <1>1, <1>2

\* Refills and respawn results move slots that no task holds.
LEMMA RespawnSlot ==
    ASSUME TypeInv, SlotOwnership,
           Maintenance \/ \E s \in Slots : RespawnOk(s) \/ RespawnFailed(s)
    PROVE  SlotOwnership'
BY DEF SlotOwnership, Live, Empty, Maintenance, RespawnOk, RespawnFailed

LEMMA SlotOwnershipInductive ==
    TypeInv /\ SlotOwnership /\ [Next]_vars => SlotOwnership'
<1>. SUFFICES ASSUME TypeInv, SlotOwnership, [Next]_vars
             PROVE  SlotOwnership'
  OBVIOUS
<1>1. CASE UNCHANGED <<idle, respawning, results, task>>
  BY <1>1, SlotsKept
<1>2. CASE MainLoop
  <2>1. ASSUME NEW c \in Channels, NEW fromOwner \in BOOLEAN,
               RelayEvent(c, fromOwner)
        PROVE  SlotOwnership'
    BY <2>1, StageKept, SlotsKept DEF RelayEvent
  <2>2. ASSUME NEW c \in Channels, NEW sig \in OwnerSignals,
               OwnerControl(c, sig)
        PROVE  SlotOwnership'
    BY <2>2, StageKept, SlotsKept DEF OwnerControl
  <2>3. ASSUME NEW a \in acks, HandleAck(a)
        PROVE  SlotOwnership'
    BY <2>3, StageKept, SlotsKept DEF HandleAck
  <2>4. CASE \/ \E c \in Channels : MemberRemoved(c) \/ MemberAdded(c)
             \/ PoolExhausted \/ NothingToFlush \/ JoinsDrained
             \/ MaintenanceNotDue \/ RespawnsCollected \/ TimerTick \/ Shutdown
    BY <1>1, <2>4 DEF MemberRemoved, MemberAdded, PoolExhausted, NothingToFlush,
       JoinsDrained, MaintenanceNotDue, RespawnsCollected, TimerTick, Shutdown
  <2>. QED
    BY <1>2, <2>1, <2>2, <2>3, <2>4, ClaimSlot, HandleResultSlot,
       RecoverPanickedSlot, RespawnSlot
       DEF MainLoop
<1>3. CASE PromptTasks
  <2>1. ASSUME NEW s \in Slots,
               \/ SteerTaken(s)
               \/ \E kind \in AckKinds : SteerAnswered(s, kind)
               \/ ReadLoopReturns(s)
        PROVE  SlotOwnership'
    <3>1. UNCHANGED <<idle, respawning, results>>
      BY <2>1 DEF SteerTaken, SteerAnswered, ReadLoopReturns
    <3>. QED
      BY <2>1, <3>1, StageKept, SlotsKept
  <2>. QED
    BY <1>3, <2>1, FinishSlot, PanicSlot
       DEF PromptTasks, TurnOk, TurnFails, TurnCancelled
<1>4. CASE Time
  BY <1>1, <1>4 DEF Time, BackoffElapses, DeadlinePasses
<1>. QED
  BY <1>1, <1>2, <1>3, <1>4 DEF Next, Exited, vars

\* A slot has one owner at any time, whatever the number of slots: the agent is
\* never handed to two tasks, respawned while it works, or returned over a live
\* agent, and each finished task is settled exactly once.
THEOREM SlotsHaveOneOwner == Spec => []SlotOwnership
<1>1. Init => SlotOwnership
  BY DEF Init, SlotOwnership, Live, NoTask, Range
<1>2. Spec => [](TypeInv /\ SlotOwnership)
  BY <1>1, TypeInvInit, TypeInvInductive, SlotOwnershipInductive, PTL DEF Spec
<1>. QED
  BY <1>2, PTL

-----------------------------------------------------------------------------
(* In-flight marks.                                                        *)

\* A channel state whose in-flight mark is that of r, and whose deadline is
\* consistent and not overdue if that of r is.
MarksFollow(r, t) ==
    /\ t.inFlight = r.inFlight
    /\ MarksAgree(r) => MarksAgree(t)
    /\ r.deadline # "passed" => t.deadline # "passed"

LEMMA SameMarksFollow ==
    ASSUME NEW r, NEW t, SameMarks(r, t)
    PROVE  MarksFollow(r, t)
BY DEF SameMarks, MarksFollow, MarksAgree

\* The handlers that neither start nor end a turn.
LEMMA MarksStable ==
    ASSUME TypeInv,
           \/ \E c \in Channels, fromOwner \in BOOLEAN : RelayEvent(c, fromOwner)
           \/ \E c \in Channels : MemberRemoved(c)
           \/ \E a \in acks : HandleAck(a)
           \/ Maintenance
           \/ \E c \in Channels : BackoffElapses(c)
    PROVE  \A c \in Channels : MarksFollow(q[c], q'[c])
<1>. DEFINE Stable == \A c \in Channels : MarksFollow(q[c], q'[c])
<1>1. q \in [Channels -> ChannelState]
  BY DEF TypeInv, TypeOK
<1>2. \A r : MarksFollow(r, r)
  BY DEF MarksFollow
<1>3. ASSUME NEW c \in Channels, NEW r, MarksFollow(q[c], r),
             q' = [q EXCEPT ![c] = r]
      PROVE  Stable
  BY <1>1, <1>2, <1>3
<1>4. ASSUME NEW c \in Channels, NEW fromOwner \in BOOLEAN,
             RelayEvent(c, fromOwner)
      PROVE  Stable
  <2>. DEFINE e == arrived + 1
              r == Push(q[c], e)
  <2>1. e \in Events
    BY <1>4, QueueConstants DEF TypeInv, TypeOK, RelayEvent, Events
  <2>2. r \in ChannelState /\ SameMarks(q[c], r)
    BY <1>1, <2>1, PushType, MarksKept
  <2>3. SameMarks(q[c], Withhold(r, e))
    BY <2>2, MarksKept DEF SameMarks
  <2>4. \/ UNCHANGED q \/ q' = [q EXCEPT ![c] = r]
        \/ q' = [q EXCEPT ![c] = Withhold(r, e)]
    BY <1>4 DEF RelayEvent
  <2>. QED
    BY <1>2, <1>3, <2>2, <2>3, <2>4, SameMarksFollow
<1>5. ASSUME NEW c \in Channels, MemberRemoved(c)
      PROVE  Stable
  BY <1>1, <1>3, <1>5, MarksKept, SameMarksFollow DEF MemberRemoved
<1>6. ASSUME NEW a \in acks, HandleAck(a)
      PROVE  Stable
  <2>. DEFINE r == q[a.ch]
              x == ExtendDeadline(r)
  <2>1. a.ch \in Channels /\ r \in ChannelState /\ x \in ChannelState
    BY <1>1, ExtendDeadlineType DEF TypeInv, TypeOK
  <2>2. MarksFollow(r, x)
    BY <2>1, MarksChanged DEF MarksFollow
  <2>3. MarksFollow(r, RemoveEvent(x, a.ev))
    BY <2>1, <2>2, MarksKept DEF MarksFollow, SameMarks, MarksAgree
  <2>4. MarksFollow(r, Release(r, a.ev))
    BY <2>1, MarksKept, SameMarksFollow
  <2>. QED
    BY <1>3, <1>6, <2>1, <2>3, <2>4 DEF HandleAck
<1>7. CASE Maintenance
  <2>1. \A c \in Channels : q'[c] = Compact(q[c]) /\ q[c] \in ChannelState
    BY <1>1, <1>7 DEF Maintenance
  <2>. QED
    BY <2>1, MarksKept, SameMarksFollow
<1>8. ASSUME NEW c \in Channels, BackoffElapses(c)
      PROVE  Stable
  <2>. DEFINE r == [q[c] EXCEPT !.retryAfter = "past"]
  <2>1. SameMarks(q[c], r)
    BY <1>1 DEF SameMarks, ChannelState
  <2>2. q' = [q EXCEPT ![c] = r]
    BY <1>1, <1>8 DEF BackoffElapses
  <2>. QED
    BY <1>3, <2>1, <2>2, SameMarksFollow
<1>. QED
  BY <1>4, <1>5, <1>6, <1>7, <1>8

\* What the end of a turn does to the marks of its channel.
LEMMA SettleMarks ==
    ASSUME TypeInv, NEW s \in Slots, Settle(task[s]), task[s].ch # NoChannel
    PROVE  /\ task[s].ch \in Channels
           /\ q'[task[s].ch].inFlight = FALSE
           /\ q'[task[s].ch].deadline = "none"
           /\ \A c \in Channels \ {task[s].ch} : q'[c] = q[c]
<1>. DEFINE t == task[s]
            r == q[t.ch]
            b == [events |-> t.events, merged |-> t.merged]
<1>1. q \in [Channels -> ChannelState] /\ t \in Tasks
  BY DEF TypeInv, TypeOK
<1>2. t.ch \in Channels /\ r \in ChannelState /\ b \in Batches
  BY <1>1 DEF Tasks, Batches
<1>3. BatchFate(r, t) \in ChannelState
  BY <1>2, RequeueType, RequeueAsCancelledType DEF BatchFate, CancelReasons
<1>4. q' = [q EXCEPT ![t.ch] = MarkComplete(BatchFate(r, t))]
  BY DEF Settle
<1>5. MarkComplete(BatchFate(r, t)) \in ChannelState
  BY <1>3, MarkCompleteType
<1>6. /\ MarkComplete(BatchFate(r, t)).inFlight = FALSE
      /\ MarkComplete(BatchFate(r, t)).deadline = "none"
  BY <1>3, <1>5, MarksChanged DEF ChannelState
<1>. QED
  BY <1>1, <1>2, <1>4, <1>6

\* The channels a flush or an expiry leaves behind.
LEMMA ExpiredMarks ==
    ASSUME TypeInv, NEW c \in Channels
    PROVE  /\ InFlightHasDeadline => MarksAgree(Expired[c])
           /\ q[c].deadline # "passed" => Expired[c] = q[c]
           /\ Expired[c].deadline # "passed"
<1>1. q[c] \in ChannelState /\ Expired[c] = Expire(q[c])
  BY DEF TypeInv, TypeOK, Expired
<1>. QED
  BY <1>1, MarksChanged DEF InFlightHasDeadline, MarksAgree

LEMMA FlushMarks ==
    ASSUME TypeInv, Dispatch \/ PoolExhausted
    PROVE  \E c \in Channels :
              /\ ~Expired[c].inFlight
              /\ \A d \in Channels \ {c} : q'[d] = Expired[d]
              /\ Dispatch => /\ q'[c].inFlight = TRUE /\ q'[c].deadline = "set"
                             /\ \E s \in idle, t \in Tasks :
                                   /\ t.st = "running" /\ t.ch = c
                                   /\ task' = [task EXCEPT ![s] = t]
              /\ PoolExhausted => /\ q'[c].inFlight = FALSE
                                  /\ q'[c].deadline = "none"
<1>1. CASE Dispatch
  <2>1. PICK f \in Flushes, s \in idle :
            /\ q' = [Expired EXCEPT ![f.ch] = f.next]
            /\ task' = [task EXCEPT ![s] = NewTask(f)]
    BY <1>1 DEF Dispatch
  <2>2. /\ f.ch \in Channels /\ ~Expired[f.ch].inFlight
        /\ f.next.inFlight = TRUE /\ f.next.deadline = "set"
    BY FlushEffect
  <2>3. /\ q'[f.ch] = f.next
        /\ \A d \in Channels \ {f.ch} : q'[d] = Expired[d]
    BY <2>1, <2>2, ExpiredType
  <2>4. /\ NewTask(f) \in Tasks
        /\ NewTask(f).st = "running" /\ NewTask(f).ch = f.ch
    BY NewTaskType DEF NewTask, NoTask
  <2>5. ~PoolExhausted
    BY <2>1 DEF PoolExhausted
  <2>. QED
    BY <2>1, <2>2, <2>3, <2>4, <2>5
<1>2. CASE PoolExhausted
  <2>1. PICK f \in Flushes :
            q' = [Expired EXCEPT
                    ![f.ch] = MarkComplete(RequeuePreserve(f.next, f.batch))]
    BY <1>2 DEF PoolExhausted
  <2>. DEFINE r == RequeuePreserve(f.next, f.batch)
  <2>2. f.ch \in Channels /\ ~Expired[f.ch].inFlight
    BY FlushEffect
  <2>3. r \in ChannelState /\ MarkComplete(r) \in ChannelState
    BY FlushEffect, RequeuePreserveType, MarkCompleteType
  <2>4. MarkComplete(r).inFlight = FALSE /\ MarkComplete(r).deadline = "none"
    BY <2>3, MarksChanged DEF ChannelState
  <2>5. /\ q'[f.ch] = MarkComplete(r)
        /\ \A d \in Channels \ {f.ch} : q'[d] = Expired[d]
    BY <2>1, <2>2, ExpiredType
  <2>6. ~Dispatch
    BY <1>2 DEF Dispatch, PoolExhausted
  <2>. QED
    BY <2>2, <2>4, <2>5, <2>6
<1>. QED
  BY <1>1, <1>2

\* A result or a recovered panic settles one task that was live.
LEMMA SettledTask ==
    ASSUME TypeInv, SlotOwnership,
           HandleResult \/ \E s \in Slots : RecoverPanicked(s)
    PROVE  \E s \in Slots :
              /\ Live(s) /\ task[s].st # "running"
              /\ Settle(task[s])
              /\ task' = [task EXCEPT ![s] = NoTask]
<1>1. CASE HandleResult
  <2>. DEFINE s == Head(results)
  <2>1. results \in Seq(Slots) /\ results # <<>>
    BY <1>1 DEF TypeInv, TypeOK, HandleResult
  <2>2. s \in Slots /\ s \in Range(results)
    BY <2>1, HeadTailProperties, TailWithoutHead DEF SlotOwnership
  <2>3. Live(s) /\ task[s].st # "running"
    BY <2>2 DEF SlotOwnership, Live
  <2>. QED
    BY <1>1, <2>2, <2>3 DEF HandleResult
<1>2. CASE \E s \in Slots : RecoverPanicked(s)
  BY <1>2 DEF RecoverPanicked, Live
<1>. QED
  BY <1>1, <1>2

LEMMA InFlightInductive ==
    TypeInv /\ SlotOwnership /\ InFlightHasDeadline /\ [Next]_vars
        => InFlightHasDeadline'
<1>. SUFFICES ASSUME TypeInv, SlotOwnership, InFlightHasDeadline, [Next]_vars
             PROVE  InFlightHasDeadline'
  OBVIOUS
<1>1. \A c \in Channels : MarksAgree(q[c])
  BY DEF InFlightHasDeadline, MarksAgree
<1>2. ASSUME \A c \in Channels : MarksAgree(q'[c])
      PROVE  InFlightHasDeadline'
  BY <1>2 DEF InFlightHasDeadline, MarksAgree
<1>3. CASE UNCHANGED q
  BY <1>1, <1>2, <1>3
<1>4. CASE \A c \in Channels : MarksFollow(q[c], q'[c])
  BY <1>1, <1>2, <1>4 DEF MarksFollow
<1>5. CASE Dispatch \/ PoolExhausted
  BY <1>2, <1>5, FlushMarks, ExpiredMarks DEF MarksAgree
<1>6. CASE NothingToFlush \/ HeartbeatTick
  <2>1. q' = Expired
    BY <1>6 DEF NothingToFlush, HeartbeatTick
  <2>. QED
    BY <1>2, <2>1, ExpiredMarks
<1>7. CASE HandleResult \/ \E s \in Slots : RecoverPanicked(s)
  <2>1. PICK s \in Slots : Settle(task[s])
    BY <1>7, SettledTask
  <2>2. CASE task[s].ch = NoChannel
    BY <1>3, <2>1, <2>2 DEF Settle
  <2>3. CASE task[s].ch # NoChannel
    BY <1>1, <1>2, <2>1, <2>3, SettleMarks DEF MarksAgree
  <2>. QED
    BY <2>2, <2>3
<1>8. ASSUME NEW c \in Channels, DeadlinePasses(c)
      PROVE  InFlightHasDeadline'
  <2>. DEFINE r == [q[c] EXCEPT !.deadline = "passed"]
  <2>1. q \in [Channels -> ChannelState]
    BY DEF TypeInv, TypeOK
  <2>2. q' = [q EXCEPT ![c] = r]
    BY <1>8, <2>1 DEF DeadlinePasses
  <2>3. q[c].inFlight
    BY <1>1, <1>8 DEF DeadlinePasses, MarksAgree
  <2>4. MarksAgree(r)
    BY <2>1, <2>3 DEF MarksAgree, ChannelState
  <2>. QED
    BY <1>1, <1>2, <2>1, <2>2, <2>4
<1>9. CASE MainLoop
  <2>1. CASE \/ \E c \in Channels, sig \in OwnerSignals : OwnerControl(c, sig)
             \/ \E c \in Channels : MemberAdded(c)
             \/ JoinsDrained \/ MaintenanceNotDue \/ RespawnsCollected
             \/ \E s \in Slots : RespawnOk(s) \/ RespawnFailed(s)
             \/ TimerTick \/ Shutdown
    BY <1>3, <2>1 DEF OwnerControl, MemberAdded, JoinsDrained,
       MaintenanceNotDue, RespawnsCollected, RespawnOk, RespawnFailed,
       TimerTick, Shutdown
  <2>2. CASE \/ \E c \in Channels, fromOwner \in BOOLEAN :
                    RelayEvent(c, fromOwner)
             \/ \E c \in Channels : MemberRemoved(c)
             \/ \E a \in acks : HandleAck(a)
             \/ Maintenance
    BY <1>4, <2>2, MarksStable
  <2>. QED
    BY <1>5, <1>6, <1>7, <1>9, <2>1, <2>2 DEF MainLoop
<1>10. CASE PromptTasks
  BY <1>3, <1>10 DEF PromptTasks, SteerTaken, SteerAnswered, ReadLoopReturns,
     TurnOk, TurnFails, TurnCancelled, TaskPanics, Finish
<1>11. CASE Time
  <2>1. CASE \E c \in Channels : BackoffElapses(c)
    BY <1>4, <2>1, MarksStable
  <2>. QED
    BY <1>8, <1>11, <2>1 DEF Time
<1>. QED
  BY <1>3, <1>9, <1>10, <1>11 DEF Next, Exited, vars

\* The two in-flight maps of EventQueue agree in every reachable state, also
\* when turns overrun, panic or are acked late: a wedged turn always has a
\* deadline that will expire it, and no deadline outlives its turn.
THEOREM FlightsHaveDeadlines == Spec => []InFlightHasDeadline
<1>1. Init => SlotOwnership /\ InFlightHasDeadline
  BY DEF Init, SlotOwnership, Live, NoTask, Range, InFlightHasDeadline,
         EmptyChannel
<1>2. Spec => [](TypeInv /\ SlotOwnership /\ InFlightHasDeadline)
  BY <1>1, TypeInvInit, TypeInvInductive, SlotOwnershipInductive,
     InFlightInductive, PTL DEF Spec
<1>. QED
  BY <1>2, PTL

-----------------------------------------------------------------------------
(* One turn per channel, as long as no turn overruns its deadline.         *)

NeverOverdue == \A c \in Channels : q[c].deadline # "passed"

TurnInv ==
    TypeInv /\ SlotOwnership /\ InFlightHasDeadline /\ NeverOverdue
    /\ OneTurnPerChannel

\* The invariant reads only the marks and which task works on which channel.
LEMMA TurnsKept ==
    ASSUME OneTurnPerChannel,
           \A c \in Channels : q'[c].inFlight = q[c].inFlight,
           \A c \in Channels : TasksOn(c)' = TasksOn(c)
    PROVE  OneTurnPerChannel'
BY DEF OneTurnPerChannel

LEMMA TasksOnKept ==
    ASSUME \A s \in Slots : /\ Live(s)' <=> Live(s)
                            /\ task'[s].ch = task[s].ch
    PROVE  \A c \in Channels : TasksOn(c)' = TasksOn(c)
BY DEF TasksOn

LEMMA FinishKeepsTurn ==
    ASSUME TypeInv, NEW s \in Slots,
           TaskPanics(s) \/ \E out, keep : Finish(s, out, keep)
    PROVE  \A c \in Channels : TasksOn(c)' = TasksOn(c)
<1>. DEFINE t == task[s]
<1>1. task \in [Slots -> Tasks] /\ t \in Tasks /\ t.st = "running"
  BY DEF TypeInv, TypeOK, TaskPanics, Finish
<1>2. ASSUME NEW u, u.st # "none", u.ch = t.ch, task' = [task EXCEPT ![s] = u]
      PROVE  \A c \in Channels : TasksOn(c)' = TasksOn(c)
  <2>1. \A x \in Slots : task'[x] = IF x = s THEN u ELSE task[x]
    BY <1>1, <1>2
  <2>. QED
    BY <1>1, <1>2, <2>1, TasksOnKept DEF Live
<1>3. ASSUME NEW out, NEW keep, Finish(s, out, keep)
      PROVE  \A c \in Channels : TasksOn(c)' = TasksOn(c)
  <2>. DEFINE u == [CloseSteer(t) EXCEPT !.st = "done", !.out = out,
                      !.keep = keep /\ DedupMode = "Queue" /\ t.ch # NoChannel]
  <2>1. u.st # "none" /\ u.ch = t.ch
    BY <1>1 DEF Tasks, CloseSteer
  <2>2. task' = [task EXCEPT ![s] = u]
    BY <1>3 DEF Finish
  <2>. QED
    BY <1>2, <2>1, <2>2
<1>4. CASE TaskPanics(s)
  <2>. DEFINE u == [CloseSteer(t) EXCEPT !.st = "panicked", !.sig = "none",
                      !.keep = DedupMode = "Queue" /\ t.ch # NoChannel]
  <2>1. u.st # "none" /\ u.ch = t.ch
    BY <1>1 DEF Tasks, CloseSteer
  <2>2. task' = [task EXCEPT ![s] = u]
    BY <1>4 DEF TaskPanics
  <2>. QED
    BY <1>2, <2>1, <2>2
<1>. QED
  BY <1>3, <1>4

\* A dispatch starts the only turn of its channel; a full pool starts none.
LEMMA FlushTurn ==
    ASSUME TurnInv, Dispatch \/ PoolExhausted
    PROVE  OneTurnPerChannel'
<1>1. PICK c \in Channels :
          /\ ~Expired[c].inFlight
          /\ \A d \in Channels \ {c} : q'[d] = Expired[d]
          /\ Dispatch => /\ q'[c].inFlight = TRUE
                         /\ \E s \in idle, t \in Tasks :
                               /\ t.st = "running" /\ t.ch = c
                               /\ task' = [task EXCEPT ![s] = t]
          /\ PoolExhausted => q'[c].inFlight = FALSE
  BY FlushMarks DEF TurnInv
<1>2. \A d \in Channels : Expired[d] = q[d]
  BY ExpiredMarks DEF TurnInv, NeverOverdue
<1>3. TasksOn(c) = {}
  BY <1>1, <1>2 DEF TurnInv, OneTurnPerChannel
<1>4. CASE Dispatch
  <2>1. PICK s \in idle, t \in Tasks :
            /\ t.st = "running" /\ t.ch = c
            /\ task' = [task EXCEPT ![s] = t]
    BY <1>1, <1>4
  <2>2. task \in [Slots -> Tasks] /\ s \in Slots /\ ~Live(s)
    BY DEF TurnInv, TypeInv, TypeOK, SlotOwnership
  <2>3. \A x \in Slots : task'[x] = IF x = s THEN t ELSE task[x]
    BY <2>1, <2>2
  <2>4. TasksOn(c)' = {s}
    BY <1>3, <2>1, <2>2, <2>3 DEF TasksOn, Live
  <2>5. \A d \in Channels \ {c} : TasksOn(d)' = TasksOn(d)
    BY <2>1, <2>2, <2>3 DEF TasksOn, Live
  <2>6. q'[c].inFlight
    BY <1>1, <1>4
  <2>. QED
    BY <1>1, <1>2, <2>4, <2>5, <2>6 DEF TurnInv, OneTurnPerChannel
<1>5. CASE PoolExhausted
  <2>1. UNCHANGED task /\ ~q'[c].inFlight
    BY <1>1, <1>5 DEF PoolExhausted
  <2>2. \A d \in Channels : TasksOn(d)' = TasksOn(d)
    BY <2>1 DEF TasksOn, Live
  <2>. QED
    BY <1>1, <1>2, <1>3, <2>1, <2>2 DEF TurnInv, OneTurnPerChannel
<1>. QED
  BY <1>4, <1>5

\* The end of a turn leaves its channel without a turn.
LEMMA SettleTurn ==
    ASSUME TurnInv, HandleResult \/ \E s \in Slots : RecoverPanicked(s)
    PROVE  OneTurnPerChannel'
<1>1. PICK s \in Slots : Live(s) /\ Settle(task[s])
                         /\ task' = [task EXCEPT ![s] = NoTask]
  BY SettledTask DEF TurnInv
<1>2. task \in [Slots -> Tasks]
  BY DEF TurnInv, TypeInv, TypeOK
<1>3. \A x \in Slots : task'[x] = IF x = s THEN NoTask ELSE task[x]
  BY <1>1, <1>2
<1>4. NoTask.st = "none"
  BY DEF NoTask
<1>5. \A c \in Channels : TasksOn(c)' = TasksOn(c) \ {s}
  BY <1>3, <1>4 DEF TasksOn, Live
<1>6. CASE task[s].ch = NoChannel
  <2>1. UNCHANGED q
    BY <1>1, <1>6 DEF Settle
  <2>2. \A c \in Channels : s \notin TasksOn(c)
    BY <1>6, HarnessConstants DEF TasksOn
  <2>. QED
    BY <1>5, <2>1, <2>2, TurnsKept DEF TurnInv
<1>7. CASE task[s].ch # NoChannel
  <2>1. PICK c \in Channels :
            /\ c = task[s].ch /\ ~q'[c].inFlight
            /\ \A d \in Channels \ {c} : q'[d] = q[d]
    BY <1>1, <1>7, SettleMarks DEF TurnInv
  <2>2. s \in TasksOn(c)
    BY <1>1, <2>1 DEF TasksOn
  <2>3. TasksOn(c)' = {}
    BY <1>5, <2>1, <2>2 DEF TurnInv, OneTurnPerChannel
  <2>4. \A d \in Channels \ {c} : TasksOn(d)' = TasksOn(d)
    BY <1>5, <2>1 DEF TasksOn
  <2>. QED
    BY <2>1, <2>3, <2>4 DEF TurnInv, OneTurnPerChannel
<1>. QED
  BY <1>6, <1>7

\* A heartbeat works on no channel.
LEMMA HeartbeatTurn ==
    ASSUME TurnInv, HeartbeatTick
    PROVE  OneTurnPerChannel'
<1>1. \A c \in Channels : q'[c] = q[c]
  <2>1. q' = Expired
    BY DEF HeartbeatTick
  <2>. QED
    BY <2>1, ExpiredMarks DEF TurnInv, NeverOverdue
<1>2. CASE UNCHANGED task
  <2>1. \A c \in Channels : TasksOn(c)' = TasksOn(c)
    BY <1>2 DEF TasksOn, Live
  <2>. QED
    BY <1>1, <2>1, TurnsKept DEF TurnInv
<1>3. ASSUME NEW s \in idle,
             task' = [task EXCEPT ![s] = [NoTask EXCEPT !.st = "running"]]
      PROVE  OneTurnPerChannel'
  <2>. DEFINE t == [NoTask EXCEPT !.st = "running"]
  <2>1. task \in [Slots -> Tasks] /\ s \in Slots /\ ~Live(s)
    BY DEF TurnInv, TypeInv, TypeOK, SlotOwnership
  <2>2. t.ch = NoChannel
    BY DEF NoTask
  <2>3. \A x \in Slots : task'[x] = IF x = s THEN t ELSE task[x]
    BY <1>3, <2>1
  <2>. HIDE DEF t
  <2>4. \A c \in Channels : TasksOn(c)' = TasksOn(c)
    BY <2>1, <2>2, <2>3, HarnessConstants DEF TasksOn, Live
  <2>. QED
    BY <1>1, <2>4, TurnsKept DEF TurnInv
<1>. QED
  BY <1>2, <1>3 DEF HeartbeatTick

LEMMA NeverOverdueInductive ==
    ASSUME ~Overrun
    PROVE  TypeInv /\ SlotOwnership /\ NeverOverdue /\ [Next]_vars
              => NeverOverdue'
<1>. SUFFICES ASSUME TypeInv, SlotOwnership, NeverOverdue, [Next]_vars
             PROVE  NeverOverdue'
  OBVIOUS
<1>1. CASE UNCHANGED q
  BY <1>1 DEF NeverOverdue
<1>2. CASE \A c \in Channels : MarksFollow(q[c], q'[c])
  BY <1>2 DEF NeverOverdue, MarksFollow
<1>3. CASE Dispatch \/ PoolExhausted
  <2>1. PICK c \in Channels :
            /\ \A d \in Channels \ {c} : q'[d] = Expired[d]
            /\ q'[c].deadline \in {"set", "none"}
    BY <1>3, FlushMarks
  <2>. QED
    BY <2>1, ExpiredMarks DEF NeverOverdue
<1>4. CASE NothingToFlush \/ HeartbeatTick
  BY <1>4, ExpiredMarks DEF NothingToFlush, HeartbeatTick, NeverOverdue
<1>5. CASE HandleResult \/ \E s \in Slots : RecoverPanicked(s)
  <2>1. PICK s \in Slots : Settle(task[s])
    BY <1>5, SettledTask
  <2>2. CASE task[s].ch = NoChannel
    BY <1>1, <2>1, <2>2 DEF Settle
  <2>3. CASE task[s].ch # NoChannel
    BY <2>1, <2>3, SettleMarks DEF NeverOverdue
  <2>. QED
    BY <2>2, <2>3
<1>6. CASE MainLoop
  <2>1. CASE \/ \E c \in Channels, sig \in OwnerSignals : OwnerControl(c, sig)
             \/ \E c \in Channels : MemberAdded(c)
             \/ JoinsDrained \/ MaintenanceNotDue \/ RespawnsCollected
             \/ \E s \in Slots : RespawnOk(s) \/ RespawnFailed(s)
             \/ TimerTick \/ Shutdown
    BY <1>1, <2>1 DEF OwnerControl, MemberAdded, JoinsDrained,
       MaintenanceNotDue, RespawnsCollected, RespawnOk, RespawnFailed,
       TimerTick, Shutdown
  <2>2. CASE \/ \E c \in Channels, fromOwner \in BOOLEAN :
                    RelayEvent(c, fromOwner)
             \/ \E c \in Channels : MemberRemoved(c)
             \/ \E a \in acks : HandleAck(a)
             \/ Maintenance
    BY <1>2, <2>2, MarksStable
  <2>. QED
    BY <1>3, <1>4, <1>5, <1>6, <2>1, <2>2 DEF MainLoop
<1>7. CASE PromptTasks
  BY <1>1, <1>7 DEF PromptTasks, SteerTaken, SteerAnswered, ReadLoopReturns,
     TurnOk, TurnFails, TurnCancelled, TaskPanics, Finish
<1>8. CASE Time
  <2>1. CASE \E c \in Channels : BackoffElapses(c)
    BY <1>2, <2>1, MarksStable
  <2>. QED
    BY <1>8, <2>1 DEF Time, DeadlinePasses
<1>. QED
  BY <1>1, <1>6, <1>7, <1>8 DEF Next, Exited, vars

LEMMA OneTurnInductive ==
    ASSUME ~Overrun
    PROVE  TurnInv /\ [Next]_vars => OneTurnPerChannel'
<1>. SUFFICES ASSUME TurnInv, [Next]_vars
             PROVE  OneTurnPerChannel'
  OBVIOUS
<1>1. ASSUME UNCHANGED task, \A c \in Channels : q'[c].inFlight = q[c].inFlight
      PROVE  OneTurnPerChannel'
  <2>1. \A c \in Channels : TasksOn(c)' = TasksOn(c)
    BY <1>1 DEF TasksOn, Live
  <2>. QED
    BY <1>1, <2>1, TurnsKept DEF TurnInv
<1>2. ASSUME \A s \in Slots : task'[s].st = task[s].st /\ task'[s].ch = task[s].ch,
             \A c \in Channels : q'[c].inFlight = q[c].inFlight
      PROVE  OneTurnPerChannel'
  <2>1. \A c \in Channels : TasksOn(c)' = TasksOn(c)
    BY <1>2, TasksOnKept DEF Live
  <2>. QED
    BY <1>2, <2>1, TurnsKept DEF TurnInv
<1>3. CASE MainLoop
  <2>1. CASE \/ \E c \in Channels, fromOwner \in BOOLEAN :
                    RelayEvent(c, fromOwner)
             \/ \E a \in acks : HandleAck(a)
    BY <1>2, <2>1, StageKept, MarksStable DEF TurnInv, MarksFollow
  <2>2. CASE \E c \in Channels, sig \in OwnerSignals : OwnerControl(c, sig)
    <3>1. UNCHANGED q
      BY <2>2 DEF OwnerControl
    <3>. QED
      BY <1>2, <2>2, <3>1, StageKept DEF TurnInv
  <2>3. CASE (\E c \in Channels : MemberRemoved(c)) \/ Maintenance
    <3>1. UNCHANGED task
      BY <2>3 DEF MemberRemoved, Maintenance
    <3>. QED
      BY <1>1, <2>3, <3>1, MarksStable DEF TurnInv, MarksFollow
  <2>4. CASE NothingToFlush
    <3>1. \A c \in Channels : q'[c] = q[c]
      BY <2>4, ExpiredMarks DEF NothingToFlush, TurnInv, NeverOverdue
    <3>. QED
      BY <1>1, <2>4, <3>1 DEF NothingToFlush
  <2>5. CASE \/ \E c \in Channels : MemberAdded(c)
             \/ JoinsDrained \/ MaintenanceNotDue \/ RespawnsCollected
             \/ \E s \in Slots : RespawnOk(s) \/ RespawnFailed(s)
             \/ TimerTick \/ Shutdown
    BY <1>1, <2>5 DEF MemberAdded, JoinsDrained, MaintenanceNotDue,
       RespawnsCollected, RespawnOk, RespawnFailed, TimerTick, Shutdown
  <2>. QED
    BY <1>3, <2>1, <2>2, <2>3, <2>4, <2>5, FlushTurn, SettleTurn, HeartbeatTurn
       DEF MainLoop
<1>4. CASE PromptTasks
  <2>1. UNCHANGED q
    BY <1>4 DEF PromptTasks, SteerTaken, SteerAnswered, ReadLoopReturns,
       TurnOk, TurnFails, TurnCancelled, TaskPanics, Finish
  <2>2. CASE \E s \in Slots : \/ SteerTaken(s)
                              \/ \E kind \in AckKinds : SteerAnswered(s, kind)
                              \/ ReadLoopReturns(s)
    BY <1>2, <2>1, <2>2, StageKept DEF TurnInv
  <2>3. ASSUME NEW s \in Slots,
               TaskPanics(s) \/ \E out, keep : Finish(s, out, keep)
        PROVE  OneTurnPerChannel'
    BY <2>1, <2>3, FinishKeepsTurn, TurnsKept DEF TurnInv
  <2>. QED
    BY <1>4, <2>2, <2>3 DEF PromptTasks, TurnOk, TurnFails, TurnCancelled
<1>5. CASE Time
  <2>1. PICK c \in Channels : BackoffElapses(c)
    BY <1>5 DEF Time, DeadlinePasses
  <2>2. UNCHANGED task
    BY <2>1 DEF BackoffElapses
  <2>. QED
    BY <1>1, <2>1, <2>2, MarksStable DEF TurnInv, MarksFollow
<1>6. CASE UNCHANGED vars
  BY <1>1, <1>6 DEF vars
<1>. QED
  BY <1>3, <1>4, <1>5, <1>6 DEF Next, Exited

\* Per-channel in-flight enforcement: if no turn outlives the deadline that
\* flush_next gives it, a channel is in flight exactly while one prompt task
\* carries a batch of it, for any number of channels and slots.
THEOREM OneTurnAtATime ==
    ASSUME ~Overrun
    PROVE  Spec => []OneTurnPerChannel
<1>1. Init => SlotOwnership /\ InFlightHasDeadline
  BY DEF Init, SlotOwnership, Live, NoTask, Range, InFlightHasDeadline,
         EmptyChannel
<1>2. Init => NeverOverdue /\ OneTurnPerChannel
  BY DEF Init, NeverOverdue, OneTurnPerChannel, TasksOn, Live, NoTask,
         EmptyChannel
<1>3. Init => TurnInv
  BY <1>1, <1>2, TypeInvInit DEF TurnInv
<1>4. TurnInv /\ [Next]_vars => TurnInv'
  BY TypeInvInductive, SlotOwnershipInductive, InFlightInductive,
     NeverOverdueInductive, OneTurnInductive DEF TurnInv
<1>5. TurnInv => OneTurnPerChannel
  BY DEF TurnInv
<1>. QED
  BY <1>3, <1>4, <1>5, PTL DEF Spec
=============================================================================
