------------------------- MODULE AcpDeliveryProofs -------------------------
(***************************************************************************)
(* What AcpHarness does with the events it was given, proved for every     *)
(* number of channels, slots and events and every cap: where an event may  *)
(* be, when it may leave, and who still waits for a withheld one.          *)
(***************************************************************************)
EXTENDS AcpHarnessProofs

-----------------------------------------------------------------------------
(* The shape of a task.                                                    *)

\* A slot without a task and a heartbeat carry no batch; only a running task
\* listens for steers, and a closed receiver holds none.
Shape(t) ==
    /\ t.st = "none" \/ t.ch = NoChannel => t.events = <<>> /\ t.merged = <<>>
    /\ t.rx => t.st = "running"
    /\ ~t.rx => t.buffered = NoEvent /\ t.written = NoEvent

ShapeInv == \A s \in Slots : Shape(task[s])

SameBatch(t, u) == u.events = t.events /\ u.merged = t.merged

KeepsBatches == \A s \in Slots : SameBatch(task[s], task'[s])

LEMMA NoTaskShape ==
    /\ Shape(NoTask) /\ Shape([NoTask EXCEPT !.st = "running"])
    /\ NoTask.events = <<>> /\ NoTask.merged = <<>>
    /\ [NoTask EXCEPT !.st = "running"].events = <<>>
    /\ [NoTask EXCEPT !.st = "running"].merged = <<>>
BY DEF Shape, NoTask

LEMMA TaskReplaced ==
    ASSUME TypeInv, ShapeInv, NEW s \in Slots, NEW u, Shape(u),
           task' = [task EXCEPT ![s] = u]
    PROVE  /\ ShapeInv'
           /\ SameBatch(task[s], u) => KeepsBatches
<1>1. \A x \in Slots : task'[x] = IF x = s THEN u ELSE task[x]
  BY DEF TypeInv, TypeOK
<1>. QED
  BY <1>1 DEF ShapeInv, KeepsBatches, SameBatch

LEMMA SignalShape ==
    ASSUME TypeInv, ShapeInv, NEW c, NEW sig \in Signals,
           task' \in SignalTask(task, c, sig)
    PROVE  ShapeInv' /\ KeepsBatches
<1>1. \A s \in Slots : SameTurn(task[s], task'[s])
  BY SignalTaskEffect DEF TypeInv, TypeOK
<1>2. \A s \in Slots : Shape(task'[s])
  BY <1>1 DEF ShapeInv, Shape, SameTurn
<1>. QED
  BY <1>1, <1>2 DEF ShapeInv, KeepsBatches, SameTurn, SameBatch

LEMMA LoopShape ==
    ASSUME TypeInv, ShapeInv,
           \/ \E c \in Channels, fromOwner \in BOOLEAN : RelayEvent(c, fromOwner)
           \/ \E c \in Channels, sig \in OwnerSignals : OwnerControl(c, sig)
           \/ \E a \in acks : HandleAck(a)
    PROVE  ShapeInv' /\ KeepsBatches
<1>1. CASE UNCHANGED task
  BY <1>1 DEF ShapeInv, KeepsBatches, SameBatch
<1>2. ASSUME NEW c \in Channels, NEW fromOwner \in BOOLEAN,
             RelayEvent(c, fromOwner)
      PROVE  ShapeInv' /\ KeepsBatches
  <2>1. ASSUME NEW s \in SteerAccepts(c),
               task' = [task EXCEPT ![s].buffered = arrived + 1]
        PROVE  ShapeInv' /\ KeepsBatches
    <3>. DEFINE u == [task[s] EXCEPT !.buffered = arrived + 1]
    <3>1. s \in Slots /\ task[s] \in Tasks /\ task[s].rx /\ Shape(task[s])
      BY DEF SteerAccepts, TasksOn, TypeInv, TypeOK, ShapeInv
    <3>2. Shape(u) /\ SameBatch(task[s], u)
      BY <3>1 DEF Shape, SameBatch, Tasks
    <3>3. task' = [task EXCEPT ![s] = u]
      BY <2>1, <3>1 DEF TypeInv, TypeOK
    <3>. HIDE DEF u
    <3>. QED
      BY <3>1, <3>2, <3>3, TaskReplaced
  <2>2. GateSignal(fromOwner) # "none" => GateSignal(fromOwner) \in Signals
    BY GateSignalType
  <2>. QED
    BY <1>1, <1>2, <2>1, <2>2, SignalShape DEF RelayEvent
<1>3. ASSUME NEW c \in Channels, NEW sig \in OwnerSignals, OwnerControl(c, sig)
      PROVE  ShapeInv' /\ KeepsBatches
  <2>1. sig \in Signals
    BY HarnessConstants DEF Signals
  <2>. QED
    BY <1>3, <2>1, SignalShape DEF OwnerControl
<1>4. ASSUME NEW a \in acks, HandleAck(a)
      PROVE  ShapeInv' /\ KeepsBatches
  <2>1. "Steer" \in Signals
    BY DEF Signals
  <2>. QED
    BY <1>1, <1>4, <2>1, SignalShape DEF HandleAck
<1>. QED
  BY <1>2, <1>3, <1>4

LEMMA CloseSteerShape ==
    ASSUME NEW t \in Tasks, Shape(t)
    PROVE  /\ CloseSteer(t) \in Tasks
           /\ Shape(CloseSteer(t))
           /\ SameBatch(t, CloseSteer(t))
           /\ ~CloseSteer(t).rx
           /\ CloseSteer(t).st = t.st
<1>. DEFINE u == CloseSteer(t)
<1>1. /\ u.st = t.st /\ u.ch = t.ch /\ u.events = t.events /\ u.merged = t.merged
      /\ u.rx = FALSE /\ u.buffered = NoEvent /\ u.written = NoEvent
  BY DEF CloseSteer, Tasks
<1>2. u \in Tasks
  BY CloseSteerType
<1>. HIDE DEF u
<1>3. Shape(u)
  BY <1>1 DEF Shape
<1>. QED
  BY <1>1, <1>2, <1>3 DEF SameBatch, u

\* The prompt tasks change neither the batch nor the channel of a task.
LEMMA PromptShape ==
    ASSUME TypeInv, ShapeInv, PromptTasks
    PROVE  ShapeInv' /\ KeepsBatches
<1>1. ASSUME NEW s \in Slots, NEW u, task' = [task EXCEPT ![s] = u], Shape(u),
             SameBatch(task[s], u)
      PROVE  ShapeInv' /\ KeepsBatches
  BY <1>1, TaskReplaced
<1>2. \A s \in Slots : task[s] \in Tasks /\ Shape(task[s])
  BY DEF TypeInv, TypeOK, ShapeInv
<1>3. \A s \in Slots : /\ CloseSteer(task[s]) \in Tasks
                       /\ Shape(CloseSteer(task[s]))
                       /\ SameBatch(task[s], CloseSteer(task[s]))
                       /\ ~CloseSteer(task[s]).rx
                       /\ CloseSteer(task[s]).st = task[s].st
  BY <1>2, CloseSteerShape
<1>4. ASSUME NEW s \in Slots,
             \/ SteerTaken(s)
             \/ \E kind \in AckKinds : SteerAnswered(s, kind)
             \/ ReadLoopReturns(s)
      PROVE  ShapeInv' /\ KeepsBatches
  <2>. DEFINE t == task[s]
              u1 == [t EXCEPT !.buffered = NoEvent, !.written = t.buffered]
              u2 == [t EXCEPT !.buffered = NoEvent]
              u3 == [t EXCEPT !.written = NoEvent]
  <2>1. /\ Shape(u1) \/ ~t.rx
        /\ Shape(u2) /\ Shape(u3)
        /\ SameBatch(t, u1) /\ SameBatch(t, u2) /\ SameBatch(t, u3)
    BY <1>2 DEF Shape, SameBatch, Tasks
  <2>2. \/ t.rx /\ task' = [task EXCEPT ![s] = u1]
        \/ task' = [task EXCEPT ![s] = u2]
        \/ task' = [task EXCEPT ![s] = u3]
        \/ task' = [task EXCEPT ![s] = CloseSteer(t)]
    BY <1>4 DEF SteerTaken, SteerAnswered, ReadLoopReturns, TypeInv, TypeOK
  <2>. HIDE DEF u1, u2, u3
  <2>. QED
    BY <1>1, <1>3, <2>1, <2>2
<1>5. ASSUME NEW s \in Slots, NEW out, NEW keep, Finish(s, out, keep)
      PROVE  ShapeInv' /\ KeepsBatches
  <2>. DEFINE t == CloseSteer(task[s])
              kept == keep /\ DedupMode = "Queue" /\ task[s].ch # NoChannel
              u == [t EXCEPT !.st = "done", !.out = out, !.keep = kept]
  <2>. HIDE DEF kept
  <2>1. t \in Tasks /\ Shape(t) /\ SameBatch(task[s], t) /\ ~t.rx
        /\ t.st = "running"
    BY <1>3, <1>5 DEF Finish
  <2>2. Shape(u) /\ SameBatch(task[s], u)
    BY <2>1 DEF Shape, SameBatch, Tasks
  <2>3. task' = [task EXCEPT ![s] = u]
    BY <1>5 DEF Finish, kept
  <2>. HIDE DEF u
  <2>. QED
    BY <1>1, <2>2, <2>3
<1>6. ASSUME NEW s \in Slots, TaskPanics(s)
      PROVE  ShapeInv' /\ KeepsBatches
  <2>. DEFINE t == CloseSteer(task[s])
              kept == DedupMode = "Queue" /\ task[s].ch # NoChannel
              u == [t EXCEPT !.st = "panicked", !.sig = "none", !.keep = kept]
  <2>. HIDE DEF kept
  <2>1. t \in Tasks /\ Shape(t) /\ SameBatch(task[s], t) /\ ~t.rx
        /\ t.st = "running"
    BY <1>3, <1>6 DEF TaskPanics
  <2>2. Shape(u) /\ SameBatch(task[s], u)
    BY <2>1 DEF Shape, SameBatch, Tasks
  <2>3. task' = [task EXCEPT ![s] = u]
    BY <1>6 DEF TaskPanics, kept
  <2>. HIDE DEF u
  <2>. QED
    BY <1>1, <2>2, <2>3
<1>. QED
  BY <1>4, <1>5, <1>6 DEF PromptTasks, TurnOk, TurnFails, TurnCancelled

LEMMA HeartbeatShape ==
    ASSUME TypeInv, SlotOwnership, ShapeInv, HeartbeatTick
    PROVE  ShapeInv' /\ KeepsBatches
<1>1. CASE UNCHANGED task
  BY <1>1 DEF ShapeInv, KeepsBatches, SameBatch
<1>2. ASSUME NEW s \in idle,
             task' = [task EXCEPT ![s] = [NoTask EXCEPT !.st = "running"]]
      PROVE  ShapeInv' /\ KeepsBatches
  <2>. DEFINE u == [NoTask EXCEPT !.st = "running"]
  <2>1. s \in Slots /\ ~Live(s) /\ Shape(task[s])
    BY DEF TypeInv, TypeOK, SlotOwnership, ShapeInv
  <2>2. task[s].events = <<>> /\ task[s].merged = <<>>
    BY <2>1 DEF Shape, Live
  <2>3. Shape(u) /\ SameBatch(task[s], u)
    BY <2>2, NoTaskShape DEF SameBatch
  <2>4. task' = [task EXCEPT ![s] = u]
    BY <1>2
  <2>. HIDE DEF u
  <2>. QED
    BY <2>1, <2>3, <2>4, TaskReplaced
<1>. QED
  BY <1>1, <1>2 DEF HeartbeatTick

\* The batch of a flush goes to a slot that carried none.
LEMMA DispatchShape ==
    ASSUME TypeInv, SlotOwnership, ShapeInv, NEW f \in Flushes, NEW s \in idle,
           task' = [task EXCEPT ![s] = NewTask(f)]
    PROVE  /\ ShapeInv'
           /\ s \in Slots /\ BatchOf(s) = {}
           /\ task'[s].events = f.batch.events /\ task'[s].merged = f.batch.merged
           /\ \A x \in Slots \ {s} : SameBatch(task[x], task'[x])
<1>. DEFINE u == NewTask(f)
<1>1. /\ u.st = "running" /\ u.ch = f.ch /\ u.rx = TRUE
      /\ u.events = f.batch.events /\ u.merged = f.batch.merged
  BY DEF NewTask, NoTask
<1>2. f.ch \in Channels
  BY FlushEffect
<1>. HIDE DEF u
<1>3. Shape(u)
  BY <1>1, <1>2, HarnessConstants DEF Shape
<1>4. s \in Slots /\ ~Live(s) /\ Shape(task[s])
  BY DEF TypeInv, TypeOK, SlotOwnership, ShapeInv
<1>5. BatchOf(s) = {}
  BY <1>4, EmptyRange DEF Shape, Live, BatchOf
<1>6. task' = [task EXCEPT ![s] = u] /\ task \in [Slots -> Tasks]
  BY DEF u, TypeInv, TypeOK
<1>7. ShapeInv'
  BY <1>3, <1>4, <1>6, TaskReplaced
<1>8. \A x \in Slots : task'[x] = IF x = s THEN u ELSE task[x]
  BY <1>6
<1>. QED
  BY <1>1, <1>4, <1>5, <1>7, <1>8 DEF SameBatch

LEMMA ReturnShape ==
    ASSUME TypeInv, ShapeInv, NEW s \in Slots, task' = [task EXCEPT ![s] = NoTask]
    PROVE  /\ ShapeInv'
           /\ task'[s].events = <<>> /\ task'[s].merged = <<>>
           /\ \A x \in Slots \ {s} : SameBatch(task[x], task'[x])
<1>1. \A x \in Slots : task'[x] = IF x = s THEN NoTask ELSE task[x]
  BY DEF TypeInv, TypeOK
<1>. QED
  BY <1>1, NoTaskShape, TaskReplaced DEF SameBatch

-----------------------------------------------------------------------------
(* What a step may do to the tables, the batches and the history.          *)

StillStep ==
    /\ KeepsBatches
    /\ \A c \in Channels : SameTables(q[c], q'[c])
    /\ UNCHANGED <<arrived, gone>>

RelayStep(c) ==
    /\ KeepsBatches
    /\ \E fromOwner \in BOOLEAN : RelayEvent(c, fromOwner)

RemovalStep(c) == KeepsBatches /\ MemberRemoved(c)

AckStep(a) == KeepsBatches /\ HandleAck(a)

ExpiryStep ==
    /\ KeepsBatches
    /\ q' = Expired
    /\ gone' = gone \cup ExpiredGone
    /\ UNCHANGED <<arrived, removed>>

FullPoolStep == KeepsBatches /\ PoolExhausted

SettleStep(s) ==
    /\ Live(s) /\ task[s].st # "running" /\ Settle(task[s])
    /\ task' = [task EXCEPT ![s] = NoTask]
    /\ UNCHANGED <<arrived, removed, acks>>

LEMMA StepKinds ==
    ASSUME TypeInv, SlotOwnership, ShapeInv, [Next]_vars
    PROVE  /\ ShapeInv'
           /\ \/ StillStep
              \/ \E c \in Channels : RelayStep(c)
              \/ \E c \in Channels : RemovalStep(c)
              \/ \E a \in acks : AckStep(a)
              \/ ExpiryStep
              \/ FullPoolStep
              \/ Dispatch
              \/ \E s \in Slots : SettleStep(s)
<1>. DEFINE Kinds ==
              \/ StillStep
              \/ \E c \in Channels : RelayStep(c)
              \/ \E c \in Channels : RemovalStep(c)
              \/ \E a \in acks : AckStep(a)
              \/ ExpiryStep
              \/ FullPoolStep
              \/ Dispatch
              \/ \E s \in Slots : SettleStep(s)
<1>1. q \in [Channels -> ChannelState]
  BY DEF TypeInv, TypeOK
<1>2. UNCHANGED task => ShapeInv' /\ KeepsBatches
  BY DEF ShapeInv, KeepsBatches, SameBatch
<1>3. UNCHANGED q => \A c \in Channels : SameTables(q[c], q'[c])
  BY DEF SameTables
<1>4. CASE MainLoop
  <2>1. ASSUME NEW c \in Channels, NEW fromOwner \in BOOLEAN,
               RelayEvent(c, fromOwner)
        PROVE  ShapeInv' /\ Kinds
    BY <2>1, LoopShape DEF RelayStep
  <2>2. ASSUME NEW c \in Channels, NEW sig \in OwnerSignals, OwnerControl(c, sig)
        PROVE  ShapeInv' /\ Kinds
    BY <1>3, <2>2, LoopShape DEF OwnerControl, StillStep
  <2>3. ASSUME NEW c \in Channels, MemberRemoved(c)
        PROVE  ShapeInv' /\ Kinds
    BY <1>2, <2>3 DEF RemovalStep, MemberRemoved
  <2>4. ASSUME NEW a \in acks, HandleAck(a)
        PROVE  ShapeInv' /\ Kinds
    BY <2>4, LoopShape DEF AckStep
  <2>5. CASE Dispatch
    BY <2>5, DispatchShape DEF Dispatch
  <2>6. CASE PoolExhausted
    BY <1>2, <2>6 DEF PoolExhausted, FullPoolStep
  <2>7. CASE NothingToFlush
    BY <1>2, <2>7 DEF NothingToFlush, ExpiryStep
  <2>8. CASE HeartbeatTick
    BY <2>8, HeartbeatShape DEF HeartbeatTick, ExpiryStep
  <2>9. CASE HandleResult \/ \E s \in Slots : RecoverPanicked(s)
    <3>1. PICK s \in Slots :
              /\ Live(s) /\ task[s].st # "running" /\ Settle(task[s])
              /\ task' = [task EXCEPT ![s] = NoTask]
      BY <2>9, SettledTask
    <3>2. UNCHANGED <<arrived, removed, acks>>
      BY <2>9 DEF HandleResult, RecoverPanicked
    <3>. QED
      BY <3>1, <3>2, ReturnShape DEF SettleStep
  <2>10. CASE Maintenance
    <3>1. \A c \in Channels : q'[c] = Compact(q[c])
      BY <2>10 DEF Maintenance
    <3>2. \A c \in Channels : SameTables(q[c], q'[c])
      BY <1>1, <3>1, TablesKept
    <3>3. UNCHANGED <<task, arrived, gone>>
      BY <2>10 DEF Maintenance
    <3>. QED
      BY <1>2, <3>2, <3>3 DEF StillStep
  <2>11. CASE \/ \E c \in Channels : MemberAdded(c)
              \/ JoinsDrained \/ MaintenanceNotDue \/ RespawnsCollected
              \/ \E s \in Slots : RespawnOk(s) \/ RespawnFailed(s)
              \/ TimerTick \/ Shutdown
    <3>1. UNCHANGED <<q, task, arrived, gone>>
      BY <2>11 DEF MemberAdded, JoinsDrained, MaintenanceNotDue,
         RespawnsCollected, RespawnOk, RespawnFailed, TimerTick, Shutdown
    <3>. QED
      BY <1>2, <1>3, <3>1 DEF StillStep
  <2>. QED
    BY <1>4, <2>1, <2>2, <2>3, <2>4, <2>5, <2>6, <2>7, <2>8, <2>9, <2>10, <2>11
       DEF MainLoop
<1>5. CASE PromptTasks
  <2>1. UNCHANGED <<q, arrived, gone>>
    BY <1>5 DEF PromptTasks, SteerTaken, SteerAnswered, ReadLoopReturns,
       TurnOk, TurnFails, TurnCancelled, TaskPanics, Finish
  <2>. QED
    BY <1>3, <1>5, <2>1, PromptShape DEF StillStep
<1>6. CASE Time
  <2>1. PICK c \in Channels : BackoffElapses(c) \/ DeadlinePasses(c)
    BY <1>6 DEF Time
  <2>. DEFINE r1 == [q[c] EXCEPT !.retryAfter = "past"]
              r2 == [q[c] EXCEPT !.deadline = "passed"]
  <2>2. SameTables(q[c], r1) /\ SameTables(q[c], r2)
    BY <1>1, TablesKept
  <2>3. q' = [q EXCEPT ![c] = r1] \/ q' = [q EXCEPT ![c] = r2]
    BY <1>1, <2>1 DEF BackoffElapses, DeadlinePasses
  <2>. HIDE DEF r1, r2
  <2>4. \A d \in Channels : SameTables(q[d], q'[d])
    BY <1>1, <2>2, <2>3 DEF SameTables
  <2>5. UNCHANGED <<task, arrived, gone>>
    BY <2>1 DEF BackoffElapses, DeadlinePasses
  <2>. QED
    BY <1>2, <2>4, <2>5 DEF StillStep
<1>7. CASE UNCHANGED vars
  <2>1. UNCHANGED <<q, task, arrived, gone>>
    BY <1>7 DEF vars
  <2>. QED
    BY <1>2, <1>3, <2>1 DEF StillStep
<1>. QED
  BY <1>4, <1>5, <1>6, <1>7 DEF Next, Exited

LEMMA ShapeInit == Init => SlotOwnership /\ ShapeInv
<1>1. Init => SlotOwnership
  BY DEF Init, SlotOwnership, Live, NoTask, Range
<1>2. Init => ShapeInv
  BY NoTaskShape DEF Init, ShapeInv
<1>. QED
  BY <1>1, <1>2

\* The invariant the accounting of events rests on.
BaseInv == TypeInv /\ SlotOwnership /\ ShapeInv

LEMMA BaseInvInit == Init => BaseInv
BY TypeInvInit, ShapeInit DEF BaseInv

LEMMA BaseInvInductive == BaseInv /\ [Next]_vars => BaseInv'
BY TypeInvInductive, SlotOwnershipInductive, StepKinds DEF BaseInv

-----------------------------------------------------------------------------
(* Where the events of each kind of step go.                               *)

\* Channel state t holds what r held and was given, but for what was let go.
Account(r, given, t, let) ==
    /\ Drained(t) \cup let = Drained(r) \cup given
    /\ Apart(r) /\ given \cap Drained(r) = {} => Apart(t) /\ let \cap Drained(t) = {}

LEMMA RelayEffect ==
    ASSUME TypeInv, NEW c \in Channels, RelayStep(c)
    PROVE  /\ arrived + 1 \in Events /\ arrived' = arrived + 1
           /\ \A d \in Channels \ {c} : q'[d] = q[d]
           /\ q'[c].cancelled = q[c].cancelled
           /\ Range(q[c].withheld) \subseteq Range(q'[c].withheld)
           /\ Range(q'[c].withheld) \subseteq Range(q[c].withheld) \cup {arrived + 1}
           /\ Distinct(q[c].withheld) /\ arrived + 1 \notin Range(q[c].withheld)
                => Distinct(q'[c].withheld)
           /\ \E let : Account(q[c], {arrived + 1}, q'[c], let)
                       /\ gone' = gone \cup let
<1>. DEFINE e == arrived + 1
            r == q[c]
            p == Push(r, e)
            w == Withhold(p, e)
<1>1. PICK fromOwner \in BOOLEAN : RelayEvent(c, fromOwner)
  BY DEF RelayStep
<1>2. e \in Events /\ arrived' = e
  BY <1>1, QueueConstants DEF TypeInv, TypeOK, RelayEvent, Events
<1>3. q \in [Channels -> ChannelState] /\ r \in ChannelState /\ p \in ChannelState
  BY <1>2, PushType DEF TypeInv, TypeOK
<1>4. /\ p.cancelled = r.cancelled /\ p.withheld = r.withheld
      /\ e \in Range(p.pending)
      /\ Account(r, {e}, p, PushEvicts(r))
  BY <1>2, <1>3, PushContents DEF Account
<1>5. /\ w.cancelled = r.cancelled
      /\ Range(r.withheld) \subseteq Range(w.withheld)
      /\ Range(w.withheld) \subseteq Range(r.withheld) \cup {e}
      /\ Distinct(r.withheld) /\ e \notin Range(r.withheld) => Distinct(w.withheld)
      /\ Drained(w) = Drained(p)
      /\ Apart(p) => Apart(w)
  <2>. HIDE DEF p
  <2>. QED
    BY <1>2, <1>3, <1>4, WithholdContents
<1>6. Account(r, {e}, w, PushEvicts(r))
  BY <1>4, <1>5 DEF Account
<1>7. Account(r, {e}, r, {e})
  BY DEF Account
<1>8. \/ q' = q /\ gone' = gone \cup {e}
      \/ q' = [q EXCEPT ![c] = p] /\ gone' = gone \cup PushEvicts(r)
      \/ q' = [q EXCEPT ![c] = w] /\ gone' = gone \cup PushEvicts(r)
  BY <1>1 DEF RelayEvent
<1>9. ASSUME NEW t, NEW let, q' = [q EXCEPT ![c] = t], gone' = gone \cup let,
             Account(r, {e}, t, let), t.cancelled = r.cancelled,
             Range(r.withheld) \subseteq Range(t.withheld),
             Range(t.withheld) \subseteq Range(r.withheld) \cup {e},
             Distinct(r.withheld) /\ e \notin Range(r.withheld)
                => Distinct(t.withheld)
      PROVE  /\ \A d \in Channels \ {c} : q'[d] = q[d]
             /\ q'[c].cancelled = q[c].cancelled
             /\ Range(q[c].withheld) \subseteq Range(q'[c].withheld)
             /\ Range(q'[c].withheld) \subseteq Range(q[c].withheld) \cup {e}
             /\ Distinct(q[c].withheld) /\ e \notin Range(q[c].withheld)
                  => Distinct(q'[c].withheld)
             /\ \E x : Account(q[c], {e}, q'[c], x) /\ gone' = gone \cup x
  BY <1>3, <1>9
<1>10. q = [q EXCEPT ![c] = r]
  BY <1>3
<1>. HIDE DEF p, w, e
<1>. QED
  BY <1>2, <1>4, <1>5, <1>6, <1>7, <1>8, <1>9, <1>10 DEF e

LEMMA RemovalEffect ==
    ASSUME TypeInv, NEW c \in Channels, RemovalStep(c)
    PROVE  /\ arrived' = arrived
           /\ \A d \in Channels \ {c} : q'[d] = q[d]
           /\ Drained(q'[c]) = {} /\ Apart(q'[c]) /\ q'[c].withheld = <<>>
           /\ q'[c].pending = <<>> /\ q'[c].cancelled = <<>>
           /\ gone' = gone \cup Drained(q[c])
<1>. DEFINE t == DrainChannel(q[c])
<1>1. q \in [Channels -> ChannelState]
  BY DEF TypeInv, TypeOK
<1>2. Drained(t) = {} /\ Apart(t)
  BY <1>1, DrainContents
<1>3. t.withheld = <<>> /\ t.pending = <<>> /\ t.cancelled = <<>>
  BY DEF DrainChannel, EmptyChannel
<1>4. q' = [q EXCEPT ![c] = t] /\ UNCHANGED arrived
      /\ gone' = gone \cup Drained(q[c])
  BY DEF RemovalStep, MemberRemoved
<1>. HIDE DEF t
<1>. QED
  BY <1>1, <1>2, <1>3, <1>4

LEMMA AckEffect ==
    ASSUME TypeInv, NEW a \in acks, AckStep(a)
    PROVE  LET c == a.ch
               e == a.ev
           IN  /\ c \in Channels /\ e \in Events
               /\ UNCHANGED arrived /\ acks' = acks \ {a}
               /\ \A d \in Channels \ {c} : q'[d] = q[d]
               /\ q'[c].cancelled = q[c].cancelled
               /\ Range(q'[c].withheld) \subseteq Range(q[c].withheld)
               /\ Range(q[c].withheld) \ {e} \subseteq Range(q'[c].withheld)
               /\ Distinct(q[c].withheld) =>
                    Distinct(q'[c].withheld) /\ e \notin Range(q'[c].withheld)
               /\ \/ \E let : /\ Account(q[c], {}, q'[c], let)
                              /\ gone' = gone \cup let
                  \/ /\ gone' = gone \cup {e}
                     /\ Drained(q'[c]) \cup {e} = Drained(q[c]) \cup {e}
                     /\ Apart(q[c]) =>
                          /\ Apart(q'[c])
                          /\ e \in Drained(q'[c]) => e \in Range(q[c].cancelled)
<1>. DEFINE c == a.ch
            e == a.ev
            r == q[c]
            x == ExtendDeadline(r)
            t1 == RemoveEvent(x, e)
            t2 == Release(r, e)
            Steered(t) ==
                /\ t.cancelled = r.cancelled
                /\ Range(t.withheld) \subseteq Range(r.withheld)
                /\ Range(r.withheld) \ {e} \subseteq Range(t.withheld)
                /\ Distinct(r.withheld) =>
                     Distinct(t.withheld) /\ e \notin Range(t.withheld)
            Taken(t) ==
                /\ Drained(t) \cup {e} = Drained(r) \cup {e}
                /\ Apart(r) => /\ Apart(t)
                               /\ e \in Drained(t) => e \in Range(r.cancelled)
<1>1. c \in Channels /\ e \in Events /\ q \in [Channels -> ChannelState]
  BY DEF TypeInv, TypeOK
<1>2. r \in ChannelState /\ x \in ChannelState /\ SameTables(r, x)
  BY <1>1, ExtendDeadlineType, TablesKept
<1>3. /\ x.cancelled = r.cancelled /\ x.withheld = r.withheld
      /\ Drained(x) = Drained(r) /\ (Apart(r) => Apart(x))
  BY <1>2, SameTablesFollow DEF SameTables
<1>4. Steered(t1) /\ Taken(t1)
  <2>. HIDE DEF x, r, e
  <2>. QED
    BY <1>2, <1>3, RemoveContents
<1>5. Steered(t2) /\ Account(r, {}, t2, ReleaseEvicts(r, e))
  <2>. HIDE DEF r, e
  <2>. QED
    BY <1>1, <1>2, ReleaseContents DEF Account
<1>6. /\ UNCHANGED arrived /\ acks' = acks \ {a}
      /\ \/ q' = [q EXCEPT ![c] = t1] /\ gone' = gone \cup {e}
         \/ /\ q' = [q EXCEPT ![c] = t2]
            /\ gone' = gone \cup ReleaseEvicts(r, e)
  BY DEF AckStep, HandleAck
<1>. HIDE DEF t1, t2, c, e
<1>7. \/ q'[c] = t1 /\ gone' = gone \cup {e}
      \/ q'[c] = t2 /\ gone' = gone \cup ReleaseEvicts(r, e)
  BY <1>1, <1>6
<1>8. \A d \in Channels \ {c} : q'[d] = q[d]
  BY <1>1, <1>6
<1>9. /\ q'[c].cancelled = q[c].cancelled
      /\ Range(q'[c].withheld) \subseteq Range(q[c].withheld)
      /\ Range(q[c].withheld) \ {e} \subseteq Range(q'[c].withheld)
      /\ Distinct(q[c].withheld) =>
           Distinct(q'[c].withheld) /\ e \notin Range(q'[c].withheld)
  BY <1>4, <1>5, <1>7
<1>10. \/ \E let : Account(q[c], {}, q'[c], let) /\ gone' = gone \cup let
       \/ gone' = gone \cup {e} /\ Taken(q'[c])
  BY <1>4, <1>5, <1>7
<1>. QED
  BY <1>1, <1>6, <1>8, <1>9, <1>10 DEF c, e

LEMMA ExpiredContents ==
    ASSUME TypeInv, NEW c \in Channels
    PROVE  /\ Expired[c] \in ChannelState
           /\ Expired[c].cancelled = q[c].cancelled
           /\ Expired[c].withheld \in {q[c].withheld, <<>>}
           /\ Drained(Expired[c]) \subseteq Drained(q[c])
           /\ Drained(q[c]) \subseteq Drained(Expired[c]) \cup ExpiredGone
<1>1. q[c] \in ChannelState /\ Expired[c] = Expire(q[c])
  BY DEF TypeInv, TypeOK, Expired
<1>2. Expire(q[c]) \in ChannelState
  BY <1>1, ExpireType
<1>3. ExpireEvicts(q[c]) \subseteq ExpiredGone
  BY DEF ExpiredGone
<1>. QED
  BY <1>1, <1>2, <1>3, ExpireContents

\* A flush parts the channel it takes into a batch and a rest.
LEMMA FlushParts ==
    ASSUME TypeInv, NEW f \in Flushes
    PROVE  Parts(Expired[f.ch], f.batch, f.next)
<1>1. Expired \in [Channels -> ChannelState]
  BY ExpiredType
<1>2. ASSUME NEW c \in OldestFlushable(Expired),
             f = [ch |-> c, batch |-> QueuedBatch(Expired[c]),
                  next |-> FlushQueued(Expired[c])]
      PROVE  Parts(Expired[f.ch], f.batch, f.next)
  <2>1. Expired[c] \in ChannelState
    BY <1>1 DEF OldestFlushable
  <2>. QED
    BY <1>2, <2>1, FlushQueuedContents
<1>3. ASSUME NEW c \in CancelledReady(Expired),
             f = [ch |-> c, batch |-> CancelledBatch(Expired[c]),
                  next |-> FlushCancelled(Expired[c])]
      PROVE  Parts(Expired[f.ch], f.batch, f.next)
  <2>1. Expired[c] \in ChannelState
    BY <1>1 DEF CancelledReady
  <2>. QED
    BY <1>3, <2>1, FlushCancelledContents
<1>. QED
  BY <1>2, <1>3 DEF Flushes

\* What the events of one batch may become.
BatchAt(s, b) == task'[s].events = b.events /\ task'[s].merged = b.merged

LEMMA DispatchEffect ==
    ASSUME BaseInv, Dispatch
    PROVE  \E c \in Channels, s \in Slots, b \in Batches :
              /\ UNCHANGED <<arrived, removed, acks>>
              /\ gone' = gone \cup ExpiredGone
              /\ \A d \in Channels \ {c} : q'[d] = Expired[d]
              /\ \A x \in Slots \ {s} : SameBatch(task[x], task'[x])
              /\ BatchOf(s) = {}
              /\ BatchAt(s, b)
              /\ Parts(Expired[c], b, q'[c])
<1>1. PICK f \in Flushes, s \in idle :
          /\ q' = [Expired EXCEPT ![f.ch] = f.next]
          /\ task' = [task EXCEPT ![s] = NewTask(f)]
  BY DEF Dispatch
<1>2. f.ch \in Channels /\ f.batch \in Batches
  BY FlushEffect DEF BaseInv
<1>3. /\ s \in Slots /\ BatchOf(s) = {}
      /\ BatchAt(s, f.batch)
      /\ \A x \in Slots \ {s} : SameBatch(task[x], task'[x])
  BY <1>1, DispatchShape DEF BaseInv, BatchAt
<1>4. Expired \in [Channels -> ChannelState]
  BY ExpiredType DEF BaseInv
<1>5. q'[f.ch] = f.next /\ \A d \in Channels \ {f.ch} : q'[d] = Expired[d]
  BY <1>1, <1>2, <1>4
<1>6. Parts(Expired[f.ch], f.batch, q'[f.ch])
  BY <1>5, FlushParts DEF BaseInv
<1>7. UNCHANGED <<arrived, removed, acks>> /\ gone' = gone \cup ExpiredGone
  BY DEF Dispatch
<1>. QED
  BY <1>2, <1>3, <1>5, <1>6, <1>7

\* A full pool: the batch goes back, without the events merged into it.
LEMMA FullPoolEffect ==
    ASSUME TypeInv, FullPoolStep
    PROVE  \E c \in Channels, let \in SUBSET Events, lost \in SUBSET Events :
              /\ UNCHANGED <<arrived, removed, acks, task>>
              /\ gone' = gone \cup ExpiredGone \cup let
              /\ \A d \in Channels \ {c} : q'[d] = Expired[d]
              /\ q'[c].withheld = Expired[c].withheld /\ q'[c].cancelled = <<>>
              /\ lost \subseteq Range(q[c].cancelled)
              /\ Drained(q'[c]) \cup let \cup lost = Drained(Expired[c])
              /\ Apart(Expired[c]) =>
                   Apart(q'[c]) /\ let \cap Drained(q'[c]) = {}
<1>1. PICK f \in Flushes :
          /\ q' = [Expired EXCEPT
                     ![f.ch] = MarkComplete(RequeuePreserve(f.next, f.batch))]
          /\ gone' = gone \cup ExpiredGone
                          \cup Trimmed(f.batch.events \o f.next.pending)
  BY DEF FullPoolStep, PoolExhausted
<1>. DEFINE c == f.ch
            b == f.batch
            n == f.next
            r == Expired[c]
            p == RequeuePreserve(n, b)
            t == MarkComplete(p)
            let == Trimmed(b.events \o n.pending)
            lost == Range(b.merged)
<1>2. c \in Channels /\ b \in Batches /\ n \in ChannelState
  BY FlushEffect
<1>3. p \in ChannelState /\ b.events \in Seq(Events)
  BY <1>2, RequeuePreserveType DEF Batches
<1>4. /\ p.pending = TrimBack(b.events \o n.pending)
      /\ p.cancelled = n.cancelled /\ p.withheld = n.withheld
  BY <1>2, RequeuePreserveContents
<1>5. Parts(r, b, n)
  BY FlushParts
<1>6. SameTables(p, t)
  BY <1>3, TablesKept
<1>. HIDE DEF b, n, p, t, c, r
<1>7. /\ Drained(p) \cup let = Drained(n) \cup Range(b.events)
      /\ Apart(n) /\ Distinct(b.events) /\ Range(b.events) \cap Drained(n) = {} =>
           Apart(p) /\ let \cap Drained(p) = {}
  BY <1>2, <1>3, <1>4, FrontBatch
<1>8. Drained(t) = Drained(p) /\ (Apart(p) => Apart(t))
      /\ t.withheld = p.withheld /\ t.cancelled = p.cancelled
  BY <1>6, SameTablesFollow DEF SameTables
<1>9. Expired \in [Channels -> ChannelState]
  BY ExpiredType
<1>10. q' = [Expired EXCEPT ![c] = t] /\ gone' = gone \cup ExpiredGone \cup let
  BY <1>1 DEF c, t, p, b, n
<1>11. q'[c] = t /\ \A d \in Channels \ {c} : q'[d] = Expired[d]
  BY <1>2, <1>9, <1>10
<1>12. lost \subseteq Range(q[c].cancelled)
  BY <1>2, <1>5, ExpiredContents DEF Parts, r
<1>13. Drained(t) \cup let \cup lost = Drained(r)
  BY <1>5, <1>7, <1>8 DEF Parts
<1>14. Apart(r) => Apart(t) /\ let \cap Drained(t) = {}
  BY <1>5, <1>7, <1>8 DEF Parts
<1>15. t.withheld = r.withheld /\ t.cancelled = <<>>
  BY <1>4, <1>5, <1>8 DEF Parts
<1>16. UNCHANGED <<arrived, removed, acks, task>>
  BY DEF FullPoolStep, PoolExhausted
<1>. HIDE DEF let, lost
<1>17. let \in SUBSET Events /\ lost \in SUBSET Events
  <2>1. r \in ChannelState
    BY <1>2, <1>9 DEF r
  <2>2. Drained(r) \subseteq Events
    BY <2>1, TablesType, RangeOfEvents DEF Drained
  <2>. QED
    BY <1>13, <2>2
<1>. QED
  BY <1>2, <1>10, <1>11, <1>12, <1>13, <1>14, <1>15, <1>16, <1>17 DEF r

\* The end of a turn: its batch is let go or kept for its channel.
LEMMA SettleEffect ==
    ASSUME BaseInv, NEW s \in Slots, SettleStep(s)
    PROVE  LET t == task[s]
               c == t.ch
           IN  /\ \A x \in Slots \ {s} : SameBatch(task[x], task'[x])
               /\ task'[s].events = <<>> /\ task'[s].merged = <<>>
               /\ UNCHANGED <<arrived, removed>>
               /\ \/ UNCHANGED <<q, gone>> /\ BatchOf(s) = {} /\ KeepsBatches
                  \/ /\ c \in Channels
                     /\ \A d \in Channels \ {c} : q'[d] = q[d]
                     /\ q'[c].withheld = q[c].withheld
                     /\ \E let, lost :
                           /\ gone' = gone \cup let
                           /\ lost \subseteq Range(t.merged)
                           /\ Drained(q'[c]) \cup let \cup lost =
                                Drained(q[c]) \cup BatchOf(s)
                           /\ c \in removed => Drained(q'[c]) = Drained(q[c])
                           /\ /\ Apart(q[c])
                              /\ Distinct(t.events \o t.merged)
                              /\ BatchOf(s) \cap Drained(q[c]) = {}
                              => Apart(q'[c]) /\ let \cap Drained(q'[c]) = {}
<1>. DEFINE t == task[s]
            c == t.ch
            r == q[c]
            b == [events |-> t.events, merged |-> t.merged]
            fate == BatchFate(r, t)
            ends == BatchEnds(r, t)
            all == Range(t.events) \cup Range(t.merged)
            Fresh == /\ Apart(r)
                     /\ Distinct(t.events \o t.merged)
                     /\ all \cap Drained(r) = {}
            Good(n, let, lost) ==
                /\ n.withheld = r.withheld
                /\ lost \subseteq Range(t.merged)
                /\ Drained(n) \cup let \cup lost = Drained(r) \cup all
                /\ c \in removed => Drained(n) = Drained(r)
                /\ Fresh => Apart(n) /\ let \cap Drained(n) = {}
<1>1. q \in [Channels -> ChannelState] /\ t \in Tasks /\ task \in [Slots -> Tasks]
  BY DEF BaseInv, TypeInv, TypeOK
<1>2. /\ \A x \in Slots \ {s} : SameBatch(task[x], task'[x])
      /\ task'[s].events = <<>> /\ task'[s].merged = <<>>
      /\ UNCHANGED <<arrived, removed>>
  BY ReturnShape DEF SettleStep, BaseInv
<1>3. CASE c = NoChannel
  <2>1. UNCHANGED <<q, gone>>
    BY <1>3 DEF SettleStep, Settle
  <2>2. t.events = <<>> /\ t.merged = <<>>
    BY <1>3 DEF BaseInv, ShapeInv, Shape
  <2>3. BatchOf(s) = {}
    BY <2>2, EmptyRange DEF BatchOf
  <2>4. KeepsBatches
    BY <1>2, <2>2 DEF KeepsBatches, SameBatch
  <2>. QED
    BY <1>2, <2>1, <2>3, <2>4
<1>4. CASE c # NoChannel
  <2>1. c \in Channels /\ r \in ChannelState
    BY <1>1, <1>4 DEF Tasks
  <2>2. /\ t.events \in Seq(Events) /\ t.merged \in Seq(Events)
        /\ b \in Batches /\ b.events = t.events /\ b.merged = t.merged
    BY <1>1 DEF Tasks, Batches
  <2>3. Distinct(t.events \o t.merged) =>
            /\ Distinct(t.events) /\ Distinct(t.merged)
            /\ Range(t.events) \cap Range(t.merged) = {}
    BY <2>2, DistinctConcat
  <2>4. fate \in ChannelState /\ \E lost : Good(fate, ends, lost)
    <3>. HIDE DEF b
    <3>1. CASE ~t.keep \/ t.ch \in removed \/ t.out \in {"HardSilent", "Auth"}
      <4>1. fate = r /\ ends = all
        BY <3>1 DEF BatchFate, BatchEnds
      <4>2. Good(r, all, {})
        BY <2>1
      <4>. QED
        BY <2>1, <4>1, <4>2
    <3>2. CASE /\ ~(~t.keep \/ t.ch \in removed \/ t.out \in {"HardSilent", "Auth"})
               /\ t.out \in {"Cancelled", "DrainTimeout"}
      <4>. DEFINE why == IF t.sig \in {"Interrupt", "SwitchModel"}
                         THEN "Interrupt" ELSE "Steer"
                  n == RequeueAsCancelled(r, b, why)
      <4>1. fate = n /\ ends = {}
        BY <3>2 DEF BatchFate, BatchEnds, b
      <4>2. why \in CancelReasons
        BY DEF CancelReasons
      <4>. HIDE DEF why
      <4>3. n \in ChannelState
        BY <2>1, <2>2, <4>2, RequeueAsCancelledType
      <4>4. /\ n.withheld = r.withheld
            /\ Drained(n) = Drained(r) \cup Range(b.merged) \cup Range(b.events)
            /\ /\ Apart(r) /\ Distinct(b.merged) /\ Distinct(b.events)
               /\ Range(b.merged) \cap Range(b.events) = {}
               /\ Range(b.merged) \cap Drained(r) = {}
               /\ Range(b.events) \cap Drained(r) = {}
               => Apart(n)
        BY <2>1, <2>2, CancelContents
      <4>. HIDE DEF n
      <4>5. Fresh => Apart(n)
        BY <2>2, <2>3, <4>4
      <4>6. Good(n, {}, {})
        BY <2>2, <3>2, <4>4, <4>5
      <4>. QED
        BY <4>1, <4>3, <4>6
    <3>3. CASE /\ ~(~t.keep \/ t.ch \in removed \/ t.out \in {"HardSilent", "Auth"})
               /\ t.out \notin {"Cancelled", "DrainTimeout"}
      <4>. DEFINE n == Requeue(r, b)
                  cut == Trimmed(t.events \o r.pending)
      <4>1. fate = n
        BY <3>3 DEF BatchFate, b
      <4>2. n \in ChannelState
        BY <2>1, <2>2, RequeueType
      <4>3. CASE RetriesSpent(r)
        <5>1. ends = all
          BY <3>3, <4>3 DEF BatchEnds
        <5>2. SameTables(r, n)
          BY <2>1, <2>2, <4>3, RequeueContents
        <5>3. Drained(n) = Drained(r) /\ (Apart(r) => Apart(n))
              /\ n.withheld = r.withheld
          BY <5>2, SameTablesFollow DEF SameTables
        <5>. HIDE DEF n
        <5>4. Good(n, all, {})
          BY <5>3
        <5>. QED
          BY <4>1, <4>2, <5>1, <5>4
      <4>4. CASE ~RetriesSpent(r)
        <5>1. ends = cut
          BY <3>3, <4>4 DEF BatchEnds
        <5>2. /\ n.pending = TrimBack(t.events \o r.pending)
              /\ n.cancelled = r.cancelled /\ n.withheld = r.withheld
          BY <2>1, <2>2, <4>4, RequeueContents
        <5>. HIDE DEF n
        <5>3. /\ Drained(n) \cup cut = Drained(r) \cup Range(t.events)
              /\ Apart(r) /\ Distinct(t.events)
                 /\ Range(t.events) \cap Drained(r) = {} =>
                   Apart(n) /\ cut \cap Drained(n) = {}
          BY <2>1, <2>2, <4>2, <5>2, FrontBatch
        <5>. HIDE DEF cut
        <5>4. Fresh => Apart(n) /\ cut \cap Drained(n) = {}
          BY <2>3, <5>3
        <5>5. Good(n, cut, Range(t.merged))
          BY <3>3, <5>2, <5>3, <5>4
        <5>. QED
          BY <4>1, <4>2, <5>1, <5>5
      <4>. QED
        BY <4>3, <4>4
    <3>. QED
      BY <3>1, <3>2, <3>3
  <2>5. PICK lost : Good(fate, ends, lost)
    BY <2>4
  <2>. DEFINE n == MarkComplete(fate)
  <2>6. SameTables(fate, n)
    BY <2>4, TablesKept
  <2>7. q' = [q EXCEPT ![c] = n] /\ gone' = gone \cup ends
    BY <1>4 DEF SettleStep, Settle
  <2>. HIDE DEF n, fate, ends
  <2>8. Good(n, ends, lost)
    <3>1. Drained(n) = Drained(fate) /\ (Apart(fate) => Apart(n))
          /\ n.withheld = fate.withheld
      BY <2>6, SameTablesFollow DEF SameTables
    <3>. QED
      BY <2>5, <3>1
  <2>9. q'[c] = n /\ \A d \in Channels \ {c} : q'[d] = q[d]
    BY <1>1, <2>1, <2>7
  <2>10. all = BatchOf(s)
    BY DEF BatchOf
  <2>. HIDE DEF all
  <2>11. /\ q'[c].withheld = q[c].withheld
         /\ gone' = gone \cup ends
         /\ lost \subseteq Range(t.merged)
         /\ Drained(q'[c]) \cup ends \cup lost = Drained(q[c]) \cup BatchOf(s)
         /\ c \in removed => Drained(q'[c]) = Drained(q[c])
         /\ /\ Apart(q[c])
            /\ Distinct(t.events \o t.merged)
            /\ BatchOf(s) \cap Drained(q[c]) = {}
            => Apart(q'[c]) /\ ends \cap Drained(q'[c]) = {}
    BY <2>7, <2>8, <2>9, <2>10
  <2>. QED
    BY <1>2, <2>1, <2>9, <2>11
<1>. QED
  BY <1>3, <1>4

-----------------------------------------------------------------------------
(* A removed channel stays drained.                                        *)

LEMMA DrainedStep ==
    ASSUME BaseInv, [Next]_vars, NEW c \in Channels, c \in removed, c \in removed'
    PROVE  Drained(q'[c]) \subseteq Drained(q[c]) \cup {arrived'}
<1>1. CASE StillStep
  BY <1>1, SameTablesFollow DEF StillStep
<1>2. ASSUME NEW d \in Channels, RelayStep(d)
      PROVE  Drained(q'[c]) \subseteq Drained(q[c]) \cup {arrived'}
  BY <1>2, RelayEffect DEF BaseInv, Account
<1>3. ASSUME NEW d \in Channels, RemovalStep(d)
      PROVE  Drained(q'[c]) \subseteq Drained(q[c])
  BY <1>3, RemovalEffect DEF BaseInv
<1>4. ASSUME NEW a \in acks, AckStep(a)
      PROVE  Drained(q'[c]) \subseteq Drained(q[c])
  <2>1. q \in [Channels -> ChannelState] /\ a.ch \in Channels /\ a.ev \in Events
    BY DEF BaseInv, TypeInv, TypeOK
  <2>. DEFINE r == q[a.ch]
              x == ExtendDeadline(r)
              t1 == RemoveEvent(x, a.ev)
              t2 == Release(r, a.ev)
  <2>2. x \in ChannelState /\ Drained(x) = Drained(r) /\ r \in ChannelState
    BY <2>1, ExtendDeadlineType, TablesKept, SameTablesFollow
  <2>3. Drained(t1) \subseteq Drained(r)
    <3>. HIDE DEF x
    <3>. QED
      BY <2>2, WithoutContents, TablesType DEF RemoveEvent, Drained, ChannelState
  <2>4. Drained(t2) \subseteq Drained(r)
    BY <2>1, <2>2, ReleaseContents
  <2>5. q' = [q EXCEPT ![a.ch] = t1] \/ q' = [q EXCEPT ![a.ch] = t2]
    BY <1>4 DEF AckStep, HandleAck
  <2>. HIDE DEF t1, t2
  <2>. QED
    BY <2>1, <2>3, <2>4, <2>5
<1>5. CASE ExpiryStep
  BY <1>5, ExpiredContents DEF ExpiryStep, BaseInv
<1>6. CASE FullPoolStep
  <2>1. PICK d \in Channels, let \in SUBSET Events, lost \in SUBSET Events :
            /\ \A x \in Channels \ {d} : q'[x] = Expired[x]
            /\ Drained(q'[d]) \cup let \cup lost = Drained(Expired[d])
    BY <1>6, FullPoolEffect DEF BaseInv
  <2>2. Drained(q'[c]) \subseteq Drained(Expired[c])
    BY <2>1
  <2>. QED
    BY <2>2, ExpiredContents DEF BaseInv
<1>7. CASE Dispatch
  <2>1. PICK d \in Channels, s \in Slots, b \in Batches :
            /\ \A x \in Channels \ {d} : q'[x] = Expired[x]
            /\ Parts(Expired[d], b, q'[d])
    BY <1>7, DispatchEffect
  <2>2. Drained(q'[c]) \subseteq Drained(Expired[c])
    BY <2>1 DEF Parts
  <2>. QED
    BY <2>2, ExpiredContents DEF BaseInv
<1>8. ASSUME NEW s \in Slots, SettleStep(s)
      PROVE  Drained(q'[c]) \subseteq Drained(q[c])
  <2>. DEFINE d == task[s].ch
  <2>1. \/ UNCHANGED q
        \/ /\ \A x \in Channels \ {d} : q'[x] = q[x]
           /\ d \in removed => Drained(q'[d]) = Drained(q[d])
    BY <1>8, SettleEffect
  <2>. QED
    BY <2>1
<1>. QED
  BY <1>1, <1>2, <1>3, <1>4, <1>5, <1>6, <1>7, <1>8, StepKinds DEF BaseInv

\* Nothing but a new relay event brings work back for a channel the agent was
\* removed from: no result, panic, steer ack, expiry or full pool requeues on it,
\* in any configuration, also when turns overrun their deadline.
THEOREM RemovedChannelsStayDrained == Spec => RemovedStaysDrained
<1>1. BaseInv /\ [Next]_vars =>
        [\A c \in removed \cap removed' :
            Drained(q[c])' \subseteq Drained(q[c]) \cup {arrived'}]_vars
  <2>1. ASSUME BaseInv, [Next]_vars, NEW c \in removed \cap removed'
        PROVE  Drained(q'[c]) \subseteq Drained(q[c]) \cup {arrived'}
    <3>1. c \in Channels
      BY <2>1 DEF BaseInv, TypeInv, TypeOK
    <3>. QED
      BY <2>1, <3>1, DrainedStep
  <2>. QED
    BY <2>1
<1>. QED
  BY <1>1, BaseInvInit, BaseInvInductive, PTL DEF Spec, RemovedStaysDrained

-----------------------------------------------------------------------------
(* No event vanishes but those merged into a later batch.                  *)

LEMMA PlacesHold ==
    ASSUME NEW e
    PROVE  e \in Places <=> \/ \E c \in Channels : e \in Drained(q[c])
                            \/ \E s \in Slots : e \in BatchOf(s)
<1>. DEFINE A == UNION {Drained(q[c]) : c \in Channels}
            B == UNION {BatchOf(s) : s \in Slots}
<1>1. e \in A <=> \E c \in Channels : e \in Drained(q[c])
  OBVIOUS
<1>2. e \in B <=> \E s \in Slots : e \in BatchOf(s)
  OBVIOUS
<1>3. Places = A \cup B
  BY DEF Places
<1>. HIDE DEF A, B
<1>. QED
  BY <1>1, <1>2, <1>3

LEMMA PlacesHoldNext ==
    ASSUME NEW e
    PROVE  e \in Places' <=> \/ \E c \in Channels : e \in Drained(q'[c])
                            \/ \E s \in Slots : e \in BatchOf(s)'
<1>. DEFINE A == UNION {Drained(q'[c]) : c \in Channels}
            B == UNION {BatchOf(s)' : s \in Slots}
<1>1. e \in A <=> \E c \in Channels : e \in Drained(q'[c])
  OBVIOUS
<1>2. e \in B <=> \E s \in Slots : e \in BatchOf(s)'
  OBVIOUS
<1>3. Places' = A \cup B
  BY DEF Places
<1>. HIDE DEF A, B
<1>. QED
  BY <1>1, <1>2, <1>3

LEMMA BatchKept ==
    ASSUME NEW s, SameBatch(task[s], task'[s])
    PROVE  BatchOf(s)' = BatchOf(s)
BY DEF BatchOf, SameBatch

\* Where an event of the harness is after a step.
LEMMA EventStep ==
    ASSUME BaseInv, [Next]_vars, NEW e \in Places
    PROVE  \/ e \in Places' \cup gone'
           \/ \E c \in Channels : e \in Range(q[c].cancelled)
           \/ \E s \in Slots : e \in Range(task[s].merged)
<1>. DEFINE Kept == \/ e \in Places' \cup gone'
                    \/ \E c \in Channels : e \in Range(q[c].cancelled)
                    \/ \E s \in Slots : e \in Range(task[s].merged)
<1>1. ASSUME KeepsBatches,
             \A c \in Channels : Drained(q[c]) \subseteq
                 Drained(q'[c]) \cup gone' \cup Range(q[c].cancelled)
      PROVE  Kept
  <2>1. \A s \in Slots : BatchOf(s)' = BatchOf(s)
    BY <1>1, BatchKept DEF KeepsBatches
  <2>. QED
    BY <1>1, <2>1, PlacesHold, PlacesHoldNext
<1>2. CASE StillStep
  BY <1>1, <1>2, SameTablesFollow DEF StillStep
<1>3. ASSUME NEW c \in Channels, RelayStep(c)
      PROVE  Kept
  <2>1. /\ \A d \in Channels \ {c} : q'[d] = q[d]
        /\ \E let : Account(q[c], {arrived + 1}, q'[c], let)
                    /\ gone' = gone \cup let
    BY <1>3, RelayEffect DEF BaseInv
  <2>. QED
    BY <1>1, <1>3, <2>1 DEF RelayStep, Account
<1>4. ASSUME NEW c \in Channels, RemovalStep(c)
      PROVE  Kept
  <2>1. /\ \A d \in Channels \ {c} : q'[d] = q[d]
        /\ gone' = gone \cup Drained(q[c])
    BY <1>4, RemovalEffect DEF BaseInv
  <2>. QED
    BY <1>1, <1>4, <2>1 DEF RemovalStep
<1>5. ASSUME NEW a \in acks, AckStep(a)
      PROVE  Kept
  <2>. DEFINE c == a.ch
  <2>1. /\ \A d \in Channels \ {c} : q'[d] = q[d]
        /\ \/ \E let : Account(q[c], {}, q'[c], let) /\ gone' = gone \cup let
           \/ /\ gone' = gone \cup {a.ev}
              /\ Drained(q'[c]) \cup {a.ev} = Drained(q[c]) \cup {a.ev}
    BY <1>5, AckEffect DEF BaseInv
  <2>2. Drained(q[c]) \subseteq Drained(q'[c]) \cup gone'
    BY <2>1 DEF Account
  <2>. QED
    BY <1>1, <1>5, <2>1, <2>2 DEF AckStep
<1>6. CASE ExpiryStep
  BY <1>1, <1>6, ExpiredContents DEF ExpiryStep, BaseInv
<1>7. CASE FullPoolStep
  <2>1. PICK c \in Channels, let \in SUBSET Events, lost \in SUBSET Events :
            /\ gone' = gone \cup ExpiredGone \cup let
            /\ \A d \in Channels \ {c} : q'[d] = Expired[d]
            /\ lost \subseteq Range(q[c].cancelled)
            /\ Drained(q'[c]) \cup let \cup lost = Drained(Expired[c])
    BY <1>7, FullPoolEffect DEF BaseInv
  <2>2. \A d \in Channels : Drained(q[d]) \subseteq Drained(Expired[d]) \cup gone'
    BY <2>1, ExpiredContents DEF BaseInv
  <2>. QED
    BY <1>1, <1>7, <2>1, <2>2 DEF FullPoolStep
<1>8. CASE Dispatch
  <2>1. PICK c \in Channels, s \in Slots, b \in Batches :
            /\ gone' = gone \cup ExpiredGone
            /\ \A d \in Channels \ {c} : q'[d] = Expired[d]
            /\ \A x \in Slots \ {s} : SameBatch(task[x], task'[x])
            /\ BatchOf(s) = {}
            /\ BatchAt(s, b)
            /\ Parts(Expired[c], b, q'[c])
    BY <1>8, DispatchEffect
  <2>2. BatchOf(s)' = Range(b.events) \cup Range(b.merged)
    BY <2>1 DEF BatchOf, BatchAt
  <2>3. \A d \in Channels : Drained(q[d]) \subseteq Drained(Expired[d]) \cup gone'
    BY <2>1, ExpiredContents DEF BaseInv
  <2>4. Drained(Expired[c]) \subseteq Drained(q'[c]) \cup BatchOf(s)'
    BY <2>1, <2>2 DEF Parts
  <2>5. \A x \in Slots \ {s} : BatchOf(x)' = BatchOf(x)
    BY <2>1, BatchKept
  <2>. QED
    BY <2>1, <2>3, <2>4, <2>5, PlacesHold, PlacesHoldNext
<1>9. ASSUME NEW s \in Slots, SettleStep(s)
      PROVE  Kept
  <2>. DEFINE c == task[s].ch
  <2>1. /\ \A x \in Slots \ {s} : SameBatch(task[x], task'[x])
        /\ \/ UNCHANGED <<q, gone>> /\ BatchOf(s) = {}
           \/ /\ c \in Channels
              /\ \A d \in Channels \ {c} : q'[d] = q[d]
              /\ \E let, lost :
                    /\ gone' = gone \cup let
                    /\ lost \subseteq Range(task[s].merged)
                    /\ Drained(q'[c]) \cup let \cup lost =
                         Drained(q[c]) \cup BatchOf(s)
    BY <1>9, SettleEffect
  <2>2. \A x \in Slots \ {s} : BatchOf(x)' = BatchOf(x)
    BY <2>1, BatchKept
  <2>3. CASE UNCHANGED <<q, gone>> /\ BatchOf(s) = {}
    BY <2>2, <2>3, PlacesHold, PlacesHoldNext
  <2>4. CASE /\ c \in Channels
             /\ \A d \in Channels \ {c} : q'[d] = q[d]
             /\ \E let, lost :
                   /\ gone' = gone \cup let
                   /\ lost \subseteq Range(task[s].merged)
                   /\ Drained(q'[c]) \cup let \cup lost =
                        Drained(q[c]) \cup BatchOf(s)
    <3>1. Drained(q[c]) \cup BatchOf(s) \subseteq
              Drained(q'[c]) \cup gone' \cup Range(task[s].merged)
      BY <2>4
    <3>. QED
      BY <2>2, <2>4, <3>1, PlacesHold, PlacesHoldNext
  <2>. QED
    BY <2>1, <2>3, <2>4
<1>. QED
  BY <1>2, <1>3, <1>4, <1>5, <1>6, <1>7, <1>8, <1>9, StepKinds DEF BaseInv

\* The only loss the code does not account for: an event leaves the tables and
\* the batches unanswered and unreported only if it was cancelled and merged into
\* a later batch, in any configuration, also when turns overrun.
THEOREM OnlyMergedEventsAreLost == Spec => OnlyMergedEventsVanish
<1>1. BaseInv /\ [Next]_vars =>
        [Places \ (Places' \cup gone') \subseteq
            (UNION {Range(q[c].cancelled) : c \in Channels})
              \cup (UNION {Range(task[s].merged) : s \in Slots})]_vars
  <2>. DEFINE A == UNION {Range(q[c].cancelled) : c \in Channels}
              B == UNION {Range(task[s].merged) : s \in Slots}
  <2>1. ASSUME BaseInv, [Next]_vars, NEW e \in Places, e \notin Places' \cup gone'
        PROVE  e \in A \/ e \in B
    <3>1. CASE \E c \in Channels : e \in Range(q[c].cancelled)
      BY <3>1
    <3>2. CASE \E s \in Slots : e \in Range(task[s].merged)
      BY <3>2
    <3>. QED
      BY <2>1, <3>1, <3>2, EventStep
  <2>. HIDE DEF A, B
  <2>2. ASSUME BaseInv, [Next]_vars
        PROVE  Places \ (Places' \cup gone') \subseteq A \cup B
    BY <2>1, <2>2
  <2>. QED
    BY <2>2 DEF A, B
<1>. QED
  BY <1>1, BaseInvInit, BaseInvInductive, PTL DEF Spec, OnlyMergedEventsVanish

-----------------------------------------------------------------------------
(* A cancelled batch and a throttle do not coexist.                        *)

\* The channel state on which flush_next's fallback cannot bypass a backoff,
\* and its strengthening: a turn never runs under a throttle.
Calm(r) ==
    /\ r.cancelled # <<>> => r.retryAfter # "future" /\ ~r.inFlight
    /\ r.inFlight => r.retryAfter # "future"

CalmInv == \A c \in Channels : Calm(q[c])

CalmFollows(r, t) ==
    /\ t.cancelled = r.cancelled /\ t.inFlight = r.inFlight
    /\ t.retryAfter = "future" => r.retryAfter = "future"

LEMMA CalmKept ==
    ASSUME NEW r \in ChannelState, NEW e
    PROVE  /\ CalmFollows(r, Push(r, e))
           /\ CalmFollows(r, Withhold(r, e))
           /\ CalmFollows(r, Release(r, e))
           /\ CalmFollows(r, RemoveEvent(r, e))
           /\ CalmFollows(r, ExtendDeadline(r))
           /\ CalmFollows(r, Compact(r))
           /\ CalmFollows(r, [r EXCEPT !.retryAfter = "past"])
           /\ Calm(DrainChannel(r))
<1>1. CalmFollows(r, Push(r, e))
  BY DEF CalmFollows, Push, ChannelState
<1>2. CalmFollows(r, Withhold(r, e))
  BY DEF CalmFollows, Withhold, ChannelState
<1>3. CalmFollows(r, Release(r, e))
  BY DEF CalmFollows, Release, ChannelState
<1>4. CalmFollows(r, RemoveEvent(r, e))
  BY DEF CalmFollows, RemoveEvent, ChannelState
<1>5. CalmFollows(r, ExtendDeadline(r))
  BY DEF CalmFollows, ExtendDeadline, ChannelState
<1>6. CalmFollows(r, Compact(r))
  BY DEF CalmFollows, Compact, ChannelState
<1>7. CalmFollows(r, [r EXCEPT !.retryAfter = "past"])
  BY DEF CalmFollows, ChannelState
<1>8. Calm(DrainChannel(r))
  <2>1. DrainChannel(r).cancelled = <<>> /\ DrainChannel(r).retryAfter = "none"
    BY DEF DrainChannel, EmptyChannel
  <2>. QED
    BY <2>1 DEF Calm
<1>. QED
  BY <1>1, <1>2, <1>3, <1>4, <1>5, <1>6, <1>7, <1>8

\* The end of a turn that was running without a throttle.
LEMMA CalmSettled ==
    ASSUME NEW r \in ChannelState, NEW t \in Tasks, Calm(r), r.inFlight
    PROVE  Calm(MarkComplete(BatchFate(r, t)))
<1>. DEFINE b == [events |-> t.events, merged |-> t.merged]
            n == BatchFate(r, t)
            m == MarkComplete(n)
<1>1. b \in Batches
  BY DEF Tasks, Batches
<1>2. r.cancelled = <<>> /\ r.retryAfter # "future"
  BY DEF Calm
<1>3. n \in ChannelState
  BY <1>1, RequeueType, RequeueAsCancelledType DEF BatchFate, CancelReasons
<1>4. n.cancelled = <<>> \/ n.retryAfter # "future"
  <2>. HIDE DEF b
  <2>1. Requeue(r, b).cancelled = r.cancelled
    BY DEF Requeue, ChannelState
  <2>2. \A why : RequeueAsCancelled(r, b, why).retryAfter = r.retryAfter
    BY DEF RequeueAsCancelled, ChannelState
  <2>. QED
    BY <1>2, <2>1, <2>2 DEF BatchFate, b
<1>. HIDE DEF n
<1>5. /\ m.inFlight = FALSE /\ m.cancelled = n.cancelled
      /\ m.retryAfter = IF n.retryAfter = "future" THEN "future" ELSE "none"
  BY <1>3 DEF MarkComplete, ChannelState
<1>6. Calm(m)
  BY <1>4, <1>5 DEF Calm
<1>. QED
  BY <1>6 DEF n

\* A flush starts a turn only where nothing throttles.
LEMMA CalmFlush ==
    ASSUME TypeInv, NEW f \in Flushes, Calm(Expired[f.ch])
    PROVE  /\ f.next.cancelled = <<>> /\ f.next.retryAfter # "future"
<1>1. Expired \in [Channels -> ChannelState]
  BY ExpiredType
<1>2. ASSUME NEW c \in OldestFlushable(Expired),
             f = [ch |-> c, batch |-> QueuedBatch(Expired[c]),
                  next |-> FlushQueued(Expired[c])]
      PROVE  f.next.cancelled = <<>> /\ f.next.retryAfter # "future"
  <2>1. Expired[c] \in ChannelState /\ Expired[c].retryAfter # "future"
    BY <1>1 DEF OldestFlushable, Flushable
  <2>2. /\ FlushQueued(Expired[c]).cancelled = <<>>
        /\ FlushQueued(Expired[c]).retryAfter = Expired[c].retryAfter
    BY <2>1 DEF FlushQueued, StartFlight, ChannelState
  <2>. QED
    BY <1>2, <2>1, <2>2
<1>3. ASSUME NEW c \in CancelledReady(Expired),
             f = [ch |-> c, batch |-> CancelledBatch(Expired[c]),
                  next |-> FlushCancelled(Expired[c])]
      PROVE  f.next.cancelled = <<>> /\ f.next.retryAfter # "future"
  <2>1. /\ Expired[c] \in ChannelState /\ Expired[c].cancelled # <<>>
        /\ f.ch = c
    BY <1>1, <1>3 DEF CancelledReady
  <2>2. Expired[c].retryAfter # "future"
    BY <2>1 DEF Calm
  <2>3. /\ FlushCancelled(Expired[c]).cancelled = <<>>
        /\ FlushCancelled(Expired[c]).retryAfter = Expired[c].retryAfter
    BY <2>1 DEF FlushCancelled, StartFlight, ChannelState
  <2>. QED
    BY <1>3, <2>2, <2>3
<1>. QED
  BY <1>2, <1>3 DEF Flushes

LEMMA CalmInductive ==
    ASSUME ~Overrun
    PROVE  TurnInv /\ CalmInv /\ [Next]_vars => CalmInv'
<1>. SUFFICES ASSUME TurnInv, CalmInv, [Next]_vars
             PROVE  CalmInv'
  OBVIOUS
<1>1. q \in [Channels -> ChannelState] /\ TypeInv
  BY DEF TurnInv, TypeInv, TypeOK
<1>2. ASSUME NEW r, NEW t, Calm(r), CalmFollows(r, t)
      PROVE  Calm(t)
  BY <1>2 DEF Calm, CalmFollows
<1>3. ASSUME NEW c \in Channels, NEW t, Calm(t), q' = [q EXCEPT ![c] = t]
      PROVE  CalmInv'
  BY <1>1, <1>3 DEF CalmInv
<1>4. CASE UNCHANGED q
  BY <1>4 DEF CalmInv
<1>5. \A c \in Channels : Expired[c] = q[c] /\ Calm(Expired[c])
  BY <1>1, ExpiredMarks DEF TurnInv, NeverOverdue, CalmInv
<1>6. CASE MainLoop
  <2>1. ASSUME NEW c \in Channels, NEW fromOwner \in BOOLEAN,
               RelayEvent(c, fromOwner)
        PROVE  CalmInv'
    <3>. DEFINE e == arrived + 1
                r == Push(q[c], e)
                w == Withhold(r, e)
    <3>1. e \in Events
      BY <1>1, <2>1, QueueConstants DEF TypeInv, TypeOK, RelayEvent, Events
    <3>2. r \in ChannelState /\ Calm(r)
      BY <1>1, <1>2, <3>1, PushType, CalmKept DEF CalmInv
    <3>3. q' = q \/ q' = [q EXCEPT ![c] = r] \/ q' = [q EXCEPT ![c] = w]
      BY <2>1 DEF RelayEvent
    <3>. HIDE DEF r
    <3>4. Calm(w)
      BY <1>2, <3>2, CalmKept
    <3>. HIDE DEF w
    <3>. QED
      BY <1>3, <1>4, <3>2, <3>3, <3>4
  <2>2. ASSUME NEW c \in Channels, MemberRemoved(c)
        PROVE  CalmInv'
    <3>. DEFINE t == DrainChannel(q[c])
    <3>1. Calm(t)
      BY <1>1, CalmKept
    <3>2. q' = [q EXCEPT ![c] = t]
      BY <2>2 DEF MemberRemoved
    <3>. HIDE DEF t
    <3>. QED
      BY <1>3, <3>1, <3>2
  <2>3. ASSUME NEW a \in acks, HandleAck(a)
        PROVE  CalmInv'
    <3>. DEFINE c == a.ch
                r == q[c]
                x == ExtendDeadline(r)
                t1 == RemoveEvent(x, a.ev)
                t2 == Release(r, a.ev)
    <3>1. c \in Channels
      BY <1>1 DEF TypeInv, TypeOK
    <3>2. r \in ChannelState /\ Calm(r)
      BY <1>1, <3>1 DEF CalmInv
    <3>3. x \in ChannelState /\ Calm(x) /\ Calm(t2)
      BY <1>2, <3>2, ExtendDeadlineType, CalmKept
    <3>4. q' = [q EXCEPT ![c] = t1] \/ q' = [q EXCEPT ![c] = t2]
      BY <2>3 DEF HandleAck
    <3>. HIDE DEF x
    <3>5. Calm(t1)
      BY <1>2, <3>3, CalmKept
    <3>. HIDE DEF t1, t2
    <3>. QED
      BY <1>3, <3>1, <3>3, <3>4, <3>5
  <2>4. CASE Maintenance
    <3>1. \A c \in Channels : q'[c] = Compact(q[c])
      BY <2>4 DEF Maintenance
    <3>2. \A c \in Channels : Calm(Compact(q[c]))
      BY <1>1, <1>2, CalmKept DEF CalmInv
    <3>. QED
      BY <3>1, <3>2 DEF CalmInv
  <2>5. CASE NothingToFlush \/ HeartbeatTick
    BY <1>5, <2>5 DEF NothingToFlush, HeartbeatTick, CalmInv
  <2>6. CASE Dispatch
    <3>1. PICK f \in Flushes : q' = [Expired EXCEPT ![f.ch] = f.next]
      BY <2>6 DEF Dispatch
    <3>2. f.ch \in Channels
      BY <1>1, FlushEffect
    <3>3. f.next.cancelled = <<>> /\ f.next.retryAfter # "future"
      BY <1>1, <1>5, <3>2, CalmFlush
    <3>4. Calm(f.next)
      BY <3>3 DEF Calm
    <3>. QED
      BY <1>1, <1>5, <3>1, <3>2, <3>4, ExpiredType DEF CalmInv
  <2>7. CASE PoolExhausted
    <3>1. PICK f \in Flushes :
              q' = [Expired EXCEPT
                      ![f.ch] = MarkComplete(RequeuePreserve(f.next, f.batch))]
      BY <2>7 DEF PoolExhausted
    <3>. DEFINE p == RequeuePreserve(f.next, f.batch)
                t == MarkComplete(p)
    <3>2. f.ch \in Channels /\ f.next \in ChannelState /\ f.batch \in Batches
      BY <1>1, FlushEffect
    <3>3. f.next.cancelled = <<>> /\ f.next.retryAfter # "future"
      BY <1>1, <1>5, <3>2, CalmFlush
    <3>4. p \in ChannelState /\ p.cancelled = <<>>
      BY <3>2, <3>3, RequeuePreserveType, RequeuePreserveContents
    <3>. HIDE DEF p
    <3>5. t.cancelled = <<>> /\ t.inFlight = FALSE
      BY <3>4 DEF MarkComplete, ChannelState
    <3>. HIDE DEF t
    <3>6. Calm(t)
      BY <3>5 DEF Calm
    <3>7. q' = [Expired EXCEPT ![f.ch] = t]
      BY <3>1 DEF t, p
    <3>. QED
      BY <1>1, <1>5, <3>2, <3>6, <3>7, ExpiredType DEF CalmInv
  <2>8. CASE HandleResult \/ \E s \in Slots : RecoverPanicked(s)
    <3>1. PICK s \in Slots : Live(s) /\ Settle(task[s])
      BY <2>8, SettledTask DEF TurnInv
    <3>2. CASE task[s].ch = NoChannel
      BY <1>4, <3>1, <3>2 DEF Settle
    <3>3. CASE task[s].ch # NoChannel
      <4>. DEFINE c == task[s].ch
                  t == MarkComplete(BatchFate(q[c], task[s]))
      <4>1. task[s] \in Tasks /\ c \in Channels
        BY <1>1, <3>3 DEF TypeInv, TypeOK, Tasks
      <4>2. s \in TasksOn(c)
        BY <3>1 DEF TasksOn
      <4>3. q[c].inFlight /\ Calm(q[c])
        BY <4>1, <4>2 DEF TurnInv, OneTurnPerChannel, CalmInv
      <4>4. Calm(t)
        BY <1>1, <4>1, <4>3, CalmSettled
      <4>5. q' = [q EXCEPT ![c] = t]
        BY <3>1, <3>3 DEF Settle
      <4>. HIDE DEF t
      <4>. QED
        BY <1>3, <4>1, <4>4, <4>5
    <3>. QED
      BY <3>2, <3>3
  <2>9. CASE \/ \E c \in Channels, sig \in OwnerSignals : OwnerControl(c, sig)
             \/ \E c \in Channels : MemberAdded(c)
             \/ JoinsDrained \/ MaintenanceNotDue \/ RespawnsCollected
             \/ \E s \in Slots : RespawnOk(s) \/ RespawnFailed(s)
             \/ TimerTick \/ Shutdown
    BY <1>4, <2>9 DEF OwnerControl, MemberAdded, JoinsDrained,
       MaintenanceNotDue, RespawnsCollected, RespawnOk, RespawnFailed,
       TimerTick, Shutdown
  <2>. QED
    BY <1>6, <2>1, <2>2, <2>3, <2>4, <2>5, <2>6, <2>7, <2>8, <2>9 DEF MainLoop
<1>7. CASE PromptTasks
  BY <1>4, <1>7 DEF PromptTasks, SteerTaken, SteerAnswered, ReadLoopReturns,
     TurnOk, TurnFails, TurnCancelled, TaskPanics, Finish
<1>8. CASE Time
  <2>1. PICK c \in Channels : BackoffElapses(c)
    BY <1>8 DEF Time, DeadlinePasses
  <2>. DEFINE t == [q[c] EXCEPT !.retryAfter = "past"]
  <2>2. q' = [q EXCEPT ![c] = t]
    BY <1>1, <2>1 DEF BackoffElapses
  <2>3. Calm(t)
    BY <1>1, <1>2, CalmKept DEF CalmInv
  <2>. HIDE DEF t
  <2>. QED
    BY <1>3, <2>2, <2>3
<1>. QED
  BY <1>4, <1>6, <1>7, <1>8 DEF Next, Exited, vars

LEMMA TurnInvInit == Init => TurnInv
<1>1. Init => SlotOwnership /\ InFlightHasDeadline
  BY DEF Init, SlotOwnership, Live, NoTask, Range, InFlightHasDeadline,
         EmptyChannel
<1>2. Init => NeverOverdue /\ OneTurnPerChannel
  BY DEF Init, NeverOverdue, OneTurnPerChannel, TasksOn, Live, NoTask,
         EmptyChannel
<1>. QED
  BY <1>1, <1>2, TypeInvInit DEF TurnInv

LEMMA TurnInvInductive ==
    ASSUME ~Overrun
    PROVE  TurnInv /\ [Next]_vars => TurnInv'
BY TypeInvInductive, SlotOwnershipInductive, InFlightInductive,
   NeverOverdueInductive, OneTurnInductive DEF TurnInv

\* The fallback of flush_next, which does not look at retry_after, never
\* bypasses a backoff, as long as no turn outlives its deadline: a batch that was
\* cancelled and a throttle never meet on a channel.
THEOREM FallbackNeverBypassesBackoff ==
    ASSUME ~Overrun
    PROVE  Spec => []CancelledNeverThrottled
<1>1. Init => CalmInv
  BY DEF Init, CalmInv, Calm, EmptyChannel
<1>2. TurnInv /\ CalmInv /\ [Next]_vars => (TurnInv /\ CalmInv)'
  BY TurnInvInductive, CalmInductive
<1>3. CalmInv => CancelledNeverThrottled
  BY DEF CalmInv, Calm, CancelledNeverThrottled
<1>. QED
  BY <1>1, <1>2, <1>3, TurnInvInit, PTL DEF Spec

-----------------------------------------------------------------------------
(* A withheld event is awaited.                                            *)

\* The side table holds distinct events that have arrived.
WithheldInv ==
    \A c \in Channels :
        /\ Distinct(q[c].withheld)
        /\ \A e \in Range(q[c].withheld) : e <= arrived

LEMMA WithheldInductive == BaseInv /\ WithheldInv /\ [Next]_vars => WithheldInv'
<1>. SUFFICES ASSUME BaseInv, WithheldInv, [Next]_vars
             PROVE  WithheldInv'
  OBVIOUS
<1>1. arrived \in Nat /\ q \in [Channels -> ChannelState]
  BY QueueConstants DEF BaseInv, TypeInv, TypeOK
<1>2. \A c \in Channels : \A e \in Range(q[c].withheld) : e \in Nat /\ e <= arrived
  BY <1>1, TablesType, RangeOfEvents, QueueConstants DEF WithheldInv, Events
<1>3. ASSUME NEW c \in Channels,
             \A d \in Channels \ {c} : q'[d].withheld = q[d].withheld,
             arrived' \in Nat, arrived <= arrived',
             Distinct(q'[c].withheld),
             \A e \in Range(q'[c].withheld) : e \in Nat /\ e <= arrived'
      PROVE  WithheldInv'
  <2>1. \A d \in Channels : \A e \in Range(q'[d].withheld) : e <= arrived'
    BY <1>1, <1>2, <1>3
  <2>2. \A d \in Channels : Distinct(q'[d].withheld)
    BY <1>3 DEF WithheldInv
  <2>. QED
    BY <2>1, <2>2 DEF WithheldInv
<1>4. ASSUME \A d \in Channels : q'[d].withheld \in {q[d].withheld, <<>>},
             arrived' = arrived
      PROVE  WithheldInv'
  <2>1. \A d \in Channels : Distinct(q'[d].withheld)
    BY <1>4, EmptyRange DEF WithheldInv
  <2>2. \A d \in Channels : \A e \in Range(q'[d].withheld) : e <= arrived'
    BY <1>4, EmptyRange DEF WithheldInv
  <2>. QED
    BY <2>1, <2>2 DEF WithheldInv
<1>5. CASE StillStep
  BY <1>4, <1>5 DEF StillStep, SameTables
<1>6. ASSUME NEW c \in Channels, RelayStep(c)
      PROVE  WithheldInv'
  <2>1. /\ arrived' = arrived + 1
        /\ \A d \in Channels \ {c} : q'[d] = q[d]
        /\ Range(q'[c].withheld) \subseteq Range(q[c].withheld) \cup {arrived + 1}
        /\ Distinct(q[c].withheld) /\ arrived + 1 \notin Range(q[c].withheld)
             => Distinct(q'[c].withheld)
    BY <1>6, RelayEffect DEF BaseInv
  <2>2. arrived' \in Nat /\ arrived <= arrived'
    BY <1>1, <2>1
  <2>3. arrived + 1 \notin Range(q[c].withheld)
    BY <1>1, <1>2
  <2>4. Distinct(q'[c].withheld)
    BY <2>1, <2>3 DEF WithheldInv
  <2>5. \A e \in Range(q'[c].withheld) : e \in Nat /\ e <= arrived'
    BY <1>1, <1>2, <2>1
  <2>. QED
    BY <1>3, <2>1, <2>2, <2>4, <2>5
<1>7. ASSUME NEW c \in Channels, RemovalStep(c)
      PROVE  WithheldInv'
  <2>1. /\ arrived' = arrived /\ q'[c].withheld = <<>>
        /\ \A d \in Channels \ {c} : q'[d] = q[d]
    BY <1>7, RemovalEffect DEF BaseInv
  <2>2. \A d \in Channels : q'[d].withheld \in {q[d].withheld, <<>>}
    BY <2>1
  <2>. QED
    BY <1>4, <2>1, <2>2
<1>8. ASSUME NEW a \in acks, AckStep(a)
      PROVE  WithheldInv'
  <2>. DEFINE c == a.ch
  <2>1. /\ c \in Channels /\ UNCHANGED arrived
        /\ \A d \in Channels \ {c} : q'[d] = q[d]
        /\ Range(q'[c].withheld) \subseteq Range(q[c].withheld)
        /\ Distinct(q[c].withheld) => Distinct(q'[c].withheld)
    BY <1>8, AckEffect DEF BaseInv
  <2>2. Distinct(q'[c].withheld)
    BY <2>1 DEF WithheldInv
  <2>3. \A e \in Range(q'[c].withheld) : e \in Nat /\ e <= arrived'
    BY <1>2, <2>1
  <2>4. arrived' \in Nat /\ arrived <= arrived'
    BY <1>1, <2>1
  <2>. QED
    BY <1>3, <2>1, <2>2, <2>3, <2>4
<1>9. CASE ExpiryStep
  BY <1>4, <1>9, ExpiredContents DEF ExpiryStep, BaseInv
<1>10. CASE FullPoolStep
  <2>1. PICK c \in Channels :
            /\ \A d \in Channels \ {c} : q'[d] = Expired[d]
            /\ q'[c].withheld = Expired[c].withheld /\ UNCHANGED arrived
    BY <1>10, FullPoolEffect DEF BaseInv
  <2>2. \A d \in Channels : q'[d].withheld = Expired[d].withheld
    BY <2>1
  <2>. QED
    BY <1>4, <2>1, <2>2, ExpiredContents DEF BaseInv
<1>11. CASE Dispatch
  <2>1. PICK c \in Channels, s \in Slots, b \in Batches :
            /\ \A d \in Channels \ {c} : q'[d] = Expired[d]
            /\ Parts(Expired[c], b, q'[c]) /\ UNCHANGED arrived
    BY <1>11, DispatchEffect
  <2>2. \A d \in Channels : q'[d].withheld = Expired[d].withheld
    BY <2>1 DEF Parts
  <2>. QED
    BY <1>4, <2>1, <2>2, ExpiredContents DEF BaseInv
<1>12. ASSUME NEW s \in Slots, SettleStep(s)
       PROVE  WithheldInv'
  <2>. DEFINE c == task[s].ch
  <2>1. /\ UNCHANGED arrived
        /\ \/ UNCHANGED q
           \/ /\ \A d \in Channels \ {c} : q'[d] = q[d]
              /\ q'[c].withheld = q[c].withheld
    BY <1>12, SettleEffect
  <2>2. \A d \in Channels : q'[d].withheld \in {q[d].withheld, <<>>}
    BY <2>1
  <2>. QED
    BY <1>4, <2>1, <2>2
<1>. QED
  BY <1>5, <1>6, <1>7, <1>8, <1>9, <1>10, <1>11, <1>12, StepKinds DEF BaseInv

\* Someone holds the steer of event e: a task on its channel, or a posted ack.
Waits(T, A, c, e) ==
    \/ \E s \in Slots : /\ T[s].st # "none" /\ T[s].ch = c
                        /\ e \in {T[s].buffered, T[s].written}
    \/ \E a \in A : a.ch = c /\ a.ev = e

\* A task that becomes u hands on every steer it held, to itself or to an ack.
HandsOn(t, u, A) ==
    t.st # "none" =>
        \A e \in Orphaned(t) :
            \/ u.st # "none" /\ u.ch = t.ch /\ e \in {u.buffered, u.written}
            \/ \E a \in A : a.ch = t.ch /\ a.ev = e

LEMMA WaitsReplaced ==
    ASSUME TypeInv, NEW s \in Slots, NEW u, HandsOn(task[s], u, acks'),
           task' = [task EXCEPT ![s] = u], acks \subseteq acks',
           NEW c \in Channels, NEW e \in Events, Waits(task, acks, c, e)
    PROVE  Waits(task', acks', c, e)
<1>1. \A x \in Slots : task'[x] = IF x = s THEN u ELSE task[x]
  BY DEF TypeInv, TypeOK
<1>2. e # NoEvent
  BY QueueConstants DEF Events, NoEvent
<1>3. CASE \E a \in acks : a.ch = c /\ a.ev = e
  BY <1>3 DEF Waits
<1>4. ASSUME NEW x \in Slots, task[x].st # "none", task[x].ch = c,
             e \in {task[x].buffered, task[x].written}
      PROVE  Waits(task', acks', c, e)
  <2>1. CASE x # s
    BY <1>1, <1>4, <2>1 DEF Waits
  <2>2. CASE x = s
    <3>1. e \in Orphaned(task[s])
      BY <1>2, <1>4, <2>2 DEF Orphaned
    <3>2. \/ u.st # "none" /\ u.ch = c /\ e \in {u.buffered, u.written}
          \/ \E a \in acks' : a.ch = c /\ a.ev = e
      BY <1>4, <2>2, <3>1 DEF HandsOn
    <3>. QED
      BY <1>1, <3>2 DEF Waits
  <2>. QED
    BY <2>1, <2>2
<1>. QED
  BY <1>3, <1>4 DEF Waits

LEMMA WaitsSignalled ==
    ASSUME \A s \in Slots : SameTurn(task[s], task'[s]), NEW A, NEW c, NEW e,
           Waits(task, A, c, e)
    PROVE  Waits(task', A, c, e)
BY DEF Waits, SameTurn

\* The acks of a closing read loop.
LEMMA ReleaseHandsOn ==
    ASSUME NEW t, NEW u, NEW A, ReleaseAcks(t) \subseteq A
    PROVE  HandsOn(t, u, A)
<1>1. ASSUME NEW e \in Orphaned(t)
      PROVE  \E a \in A : a.ch = t.ch /\ a.ev = e
  <2>. DEFINE a == [ch |-> t.ch, ev |-> e, kind |-> "Release"]
  <2>1. a \in ReleaseAcks(t)
    BY <1>1 DEF ReleaseAcks
  <2>2. a.ch = t.ch /\ a.ev = e
    OBVIOUS
  <2>. HIDE DEF a
  <2>. QED
    BY <2>1, <2>2
<1>. QED
  BY <1>1 DEF HandsOn

\* The steps of a prompt task hand every steer on.
LEMMA PromptWaits ==
    ASSUME BaseInv, PromptTasks, NEW c \in Channels, NEW e \in Events,
           Waits(task, acks, c, e)
    PROVE  Waits(task', acks', c, e)
<1>. DEFINE Goal == Waits(task', acks', c, e)
<1>1. \A s \in Slots : task[s] \in Tasks
  BY DEF BaseInv, TypeInv, TypeOK
<1>2. ASSUME NEW s \in Slots, NEW u, task' = [task EXCEPT ![s] = u],
             acks \subseteq acks', HandsOn(task[s], u, acks')
      PROVE  Goal
  BY <1>2, WaitsReplaced DEF BaseInv
<1>3. ASSUME NEW s \in Slots, SteerTaken(s)
      PROVE  Goal
  <2>. DEFINE t == task[s]
              u1 == [t EXCEPT !.buffered = NoEvent, !.written = t.buffered]
              u2 == [t EXCEPT !.buffered = NoEvent]
              a == [ch |-> t.ch, ev |-> t.buffered, kind |-> "Fallback"]
  <2>1. t \in Tasks /\ t.written = NoEvent /\ acks \subseteq acks'
    BY <1>1, <1>3 DEF SteerTaken
  <2>2. \/ task' = [task EXCEPT ![s] = u1]
        \/ task' = [task EXCEPT ![s] = u2] /\ a \in acks'
    BY <1>3 DEF SteerTaken, BaseInv, TypeInv, TypeOK
  <2>3. u1.st = t.st /\ u1.ch = t.ch /\ u1.written = t.buffered
    BY <2>1 DEF Tasks
  <2>4. a.ch = t.ch /\ a.ev = t.buffered
    OBVIOUS
  <2>. HIDE DEF u1, u2, a
  <2>5. HandsOn(t, u1, acks')
    BY <2>1, <2>3 DEF HandsOn, Orphaned
  <2>6. a \in acks' => HandsOn(t, u2, acks')
    BY <2>1, <2>4 DEF HandsOn, Orphaned
  <2>. QED
    BY <1>2, <2>1, <2>2, <2>5, <2>6
<1>4. ASSUME NEW s \in Slots, NEW kind \in AckKinds, SteerAnswered(s, kind)
      PROVE  Goal
  <2>. DEFINE t == task[s]
              u == [t EXCEPT !.written = NoEvent]
              a == [ch |-> t.ch, ev |-> t.written, kind |-> kind]
  <2>1. t \in Tasks /\ acks \subseteq acks' /\ a \in acks'
    BY <1>1, <1>4 DEF SteerAnswered
  <2>2. task' = [task EXCEPT ![s] = u]
    BY <1>4 DEF SteerAnswered, BaseInv, TypeInv, TypeOK
  <2>3. u.st = t.st /\ u.ch = t.ch /\ u.buffered = t.buffered
    BY <2>1 DEF Tasks
  <2>4. a.ch = t.ch /\ a.ev = t.written
    OBVIOUS
  <2>. HIDE DEF u, a
  <2>5. HandsOn(t, u, acks')
    BY <2>1, <2>3, <2>4 DEF HandsOn, Orphaned
  <2>. QED
    BY <1>2, <2>1, <2>2, <2>5
<1>5. ASSUME NEW s \in Slots, NEW u, task' = [task EXCEPT ![s] = u],
             acks' = acks \cup ReleaseAcks(task[s])
      PROVE  Goal
  BY <1>2, <1>5, ReleaseHandsOn
<1>6. ASSUME NEW s \in Slots, ReadLoopReturns(s)
      PROVE  Goal
  BY <1>5, <1>6 DEF ReadLoopReturns
<1>7. ASSUME NEW s \in Slots, NEW out, NEW keep, Finish(s, out, keep)
      PROVE  Goal
  BY <1>5, <1>7 DEF Finish
<1>8. ASSUME NEW s \in Slots, TaskPanics(s)
      PROVE  Goal
  BY <1>5, <1>8 DEF TaskPanics
<1>. QED
  BY <1>3, <1>4, <1>6, <1>7, <1>8
     DEF PromptTasks, TurnOk, TurnFails, TurnCancelled

\* The main loop consumes an ack only when it handles it.
LEMMA LoopWaits ==
    ASSUME BaseInv, MainLoop, NEW c \in Channels, NEW e \in Events,
           Waits(task, acks, c, e)
    PROVE  \/ Waits(task', acks', c, e)
           \/ \E a \in acks : HandleAck(a) /\ a.ch = c /\ a.ev = e
<1>. DEFINE Goal == \/ Waits(task', acks', c, e)
                    \/ \E a \in acks : HandleAck(a) /\ a.ch = c /\ a.ev = e
<1>1. task \in [Slots -> Tasks]
  BY DEF BaseInv, TypeInv, TypeOK
<1>2. CASE UNCHANGED <<task, acks>>
  BY <1>2
<1>3. ASSUME NEW d, NEW sig \in Signals, task' \in SignalTask(task, d, sig)
      PROVE  \A s \in Slots : SameTurn(task[s], task'[s])
  BY <1>1, <1>3, SignalTaskEffect
<1>4. ASSUME NEW s \in Slots, NEW u, task' = [task EXCEPT ![s] = u],
             UNCHANGED acks, HandsOn(task[s], u, acks)
      PROVE  Goal
  BY <1>4, WaitsReplaced DEF BaseInv
<1>5. ASSUME NEW d \in Channels, NEW fromOwner \in BOOLEAN,
             RelayEvent(d, fromOwner)
      PROVE  Goal
  <2>1. ASSUME NEW s \in SteerAccepts(d),
               task' = [task EXCEPT ![s].buffered = arrived + 1]
        PROVE  Goal
    <3>. DEFINE t == task[s]
                u == [t EXCEPT !.buffered = arrived + 1]
    <3>1. s \in Slots /\ t \in Tasks /\ t.buffered = NoEvent
      BY <1>1 DEF SteerAccepts, TasksOn
    <3>2. u.st = t.st /\ u.ch = t.ch /\ u.written = t.written
      BY <3>1 DEF Tasks
    <3>3. task' = [task EXCEPT ![s] = u] /\ UNCHANGED acks
      BY <1>1, <1>5, <2>1, <3>1 DEF RelayEvent
    <3>. HIDE DEF u
    <3>4. HandsOn(t, u, acks)
      BY <3>1, <3>2 DEF HandsOn, Orphaned
    <3>. QED
      BY <1>4, <3>1, <3>3, <3>4
  <2>2. CASE task' \in SignalTask(task, d, GateSignal(fromOwner))
             /\ GateSignal(fromOwner) # "none"
    <3>1. GateSignal(fromOwner) \in Signals /\ UNCHANGED acks
      BY <1>5, <2>2, GateSignalType DEF RelayEvent
    <3>2. \A s \in Slots : SameTurn(task[s], task'[s])
      BY <1>3, <2>2, <3>1
    <3>. QED
      BY <3>1, <3>2, WaitsSignalled
  <2>3. CASE UNCHANGED task
    BY <1>2, <1>5, <2>3 DEF RelayEvent
  <2>. QED
    BY <1>5, <2>1, <2>2, <2>3 DEF RelayEvent
<1>6. ASSUME NEW d \in Channels, NEW sig \in OwnerSignals, OwnerControl(d, sig)
      PROVE  Goal
  <2>1. sig \in Signals /\ UNCHANGED acks /\ task' \in SignalTask(task, d, sig)
    BY <1>6, HarnessConstants DEF Signals, OwnerControl
  <2>2. \A s \in Slots : SameTurn(task[s], task'[s])
    BY <1>3, <2>1
  <2>. QED
    BY <2>1, <2>2, WaitsSignalled
<1>7. ASSUME NEW b \in acks, HandleAck(b)
      PROVE  Goal
  <2>1. \A s \in Slots : SameTurn(task[s], task'[s])
    <3>1. "Steer" \in Signals
      BY DEF Signals
    <3>2. CASE UNCHANGED task
      BY <3>2 DEF SameTurn
    <3>. QED
      BY <1>3, <1>7, <3>1, <3>2 DEF HandleAck
  <2>2. acks' = acks \ {b}
    BY <1>7 DEF HandleAck
  <2>3. Waits(task', acks, c, e)
    BY <2>1, WaitsSignalled
  <2>. QED
    BY <1>7, <2>2, <2>3 DEF Waits
<1>8. CASE HandleResult \/ \E s \in Slots : RecoverPanicked(s)
  <2>1. PICK s \in Slots : task[s].st # "running"
                           /\ task' = [task EXCEPT ![s] = NoTask]
    BY <1>8, SettledTask DEF BaseInv
  <2>2. UNCHANGED acks
    BY <1>8 DEF HandleResult, RecoverPanicked
  <2>3. task[s].buffered = NoEvent /\ task[s].written = NoEvent
    BY <2>1 DEF BaseInv, ShapeInv, Shape
  <2>4. HandsOn(task[s], NoTask, acks)
    BY <2>3 DEF HandsOn, Orphaned
  <2>. QED
    BY <1>4, <2>1, <2>2, <2>4
<1>9. ASSUME NEW s \in idle, NEW u, task' = [task EXCEPT ![s] = u],
             UNCHANGED acks
      PROVE  Goal
  <2>1. s \in Slots /\ ~Live(s)
    BY DEF BaseInv, TypeInv, TypeOK, SlotOwnership
  <2>2. HandsOn(task[s], u, acks)
    BY <2>1 DEF HandsOn, Live
  <2>. QED
    BY <1>4, <1>9, <2>1, <2>2
<1>10. CASE Dispatch
  BY <1>9, <1>10 DEF Dispatch
<1>11. CASE HeartbeatTick
  BY <1>2, <1>9, <1>11 DEF HeartbeatTick
<1>12. CASE \/ \E d \in Channels : MemberRemoved(d) \/ MemberAdded(d)
            \/ PoolExhausted \/ NothingToFlush \/ JoinsDrained \/ Maintenance
            \/ MaintenanceNotDue \/ RespawnsCollected
            \/ \E s \in Slots : RespawnOk(s) \/ RespawnFailed(s)
            \/ TimerTick \/ Shutdown
  BY <1>2, <1>12 DEF MemberRemoved, MemberAdded, PoolExhausted, NothingToFlush,
     JoinsDrained, Maintenance, MaintenanceNotDue, RespawnsCollected, RespawnOk,
     RespawnFailed, TimerTick, Shutdown
<1>. QED
  BY <1>5, <1>6, <1>7, <1>8, <1>10, <1>11, <1>12 DEF MainLoop

LEMMA WaitsStep ==
    ASSUME BaseInv, [Next]_vars, NEW c \in Channels, NEW e \in Events,
           Waits(task, acks, c, e)
    PROVE  \/ Waits(task', acks', c, e)
           \/ \E a \in acks : HandleAck(a) /\ a.ch = c /\ a.ev = e
<1>1. CASE UNCHANGED <<task, acks>>
  BY <1>1
<1>2. CASE Time
  BY <1>1, <1>2 DEF Time, BackoffElapses, DeadlinePasses
<1>. QED
  BY <1>1, <1>2, LoopWaits, PromptWaits DEF Next, Exited, vars

\* Only a relay event withholds, and it withholds the event it gave to a task.
LEMMA WithheldBySteer ==
    ASSUME BaseInv, NEW d \in Channels, RelayStep(d), NEW c \in Channels,
           NEW e \in Range(q'[c].withheld)
    PROVE  e \in Range(q[c].withheld) \/ Waits(task', acks', c, e)
<1>1. PICK fromOwner \in BOOLEAN : RelayEvent(d, fromOwner)
  BY DEF RelayStep
<1>. DEFINE n == arrived + 1
            r == Push(q[d], n)
            w == Withhold(r, n)
<1>2. q \in [Channels -> ChannelState] /\ task \in [Slots -> Tasks]
  BY DEF BaseInv, TypeInv, TypeOK
<1>3. n \in Events
  BY <1>1, QueueConstants DEF BaseInv, TypeInv, TypeOK, RelayEvent, Events
<1>4. r \in ChannelState /\ r.withheld = q[d].withheld
  BY <1>2, <1>3, PushType, PushContents
<1>5. Range(w.withheld) \subseteq Range(q[d].withheld) \cup {n}
  <2>. HIDE DEF r
  <2>. QED
    BY <1>3, <1>4, WithholdContents
<1>6. CASE q' = q \/ q' = [q EXCEPT ![d] = r]
  <2>. HIDE DEF r
  <2>. QED
    BY <1>2, <1>4, <1>6
<1>7. ASSUME NEW s \in SteerAccepts(d),
             task' = [task EXCEPT ![s].buffered = n],
             q' = [q EXCEPT ![d] = w]
      PROVE  e \in Range(q[c].withheld) \/ Waits(task', acks', c, e)
  <2>. HIDE DEF w, n
  <2>1. CASE c # d \/ e # n
    BY <1>2, <1>5, <1>7, <2>1
  <2>2. CASE c = d /\ e = n
    <3>. DEFINE u == [task[s] EXCEPT !.buffered = n]
    <3>1. s \in Slots /\ task[s] \in Tasks /\ task[s].st # "none" /\ task[s].ch = d
      BY <1>2 DEF SteerAccepts, TasksOn, Live
    <3>2. u.st # "none" /\ u.ch = d /\ u.buffered = n
      BY <3>1 DEF Tasks
    <3>3. task'[s] = u
      BY <1>2, <1>7, <3>1
    <3>. HIDE DEF u
    <3>. QED
      BY <2>2, <3>1, <3>2, <3>3 DEF Waits
  <2>. QED
    BY <2>1, <2>2
<1>8. \/ q' = q \/ q' = [q EXCEPT ![d] = r]
      \/ \E s \in SteerAccepts(d) : /\ task' = [task EXCEPT ![s].buffered = n]
                                    /\ q' = [q EXCEPT ![d] = w]
  BY <1>1 DEF RelayEvent
<1>. QED
  BY <1>6, <1>7, <1>8

LEMMA WithheldStep ==
    ASSUME BaseInv, [Next]_vars, NEW c \in Channels, NEW e \in Range(q'[c].withheld)
    PROVE  e \in Range(q[c].withheld) \/ Waits(task', acks', c, e)
<1>1. CASE q'[c].withheld \in {q[c].withheld, <<>>}
  BY <1>1, EmptyRange
<1>2. CASE StillStep
  BY <1>1, <1>2 DEF StillStep, SameTables
<1>3. ASSUME NEW d \in Channels, RemovalStep(d)
      PROVE  q'[c].withheld \in {q[c].withheld, <<>>}
  BY <1>3, RemovalEffect DEF BaseInv
<1>4. ASSUME NEW a \in acks, AckStep(a)
      PROVE  e \in Range(q[c].withheld)
  <2>. DEFINE d == a.ch
  <2>1. /\ \A x \in Channels \ {d} : q'[x] = q[x]
        /\ Range(q'[d].withheld) \subseteq Range(q[d].withheld)
    BY <1>4, AckEffect DEF BaseInv
  <2>. QED
    BY <2>1
<1>5. \A d \in Channels : Expired[d].withheld \in {q[d].withheld, <<>>}
  BY ExpiredContents DEF BaseInv
<1>6. CASE ExpiryStep
  BY <1>1, <1>5, <1>6 DEF ExpiryStep
<1>7. CASE FullPoolStep
  <2>1. q'[c].withheld = Expired[c].withheld
    BY <1>7, FullPoolEffect DEF BaseInv
  <2>. QED
    BY <1>1, <1>5, <2>1
<1>8. CASE Dispatch
  <2>1. PICK d \in Channels, s \in Slots, b \in Batches :
            /\ \A x \in Channels \ {d} : q'[x] = Expired[x]
            /\ Parts(Expired[d], b, q'[d])
    BY <1>8, DispatchEffect
  <2>2. q'[c].withheld = Expired[c].withheld
    BY <2>1 DEF Parts
  <2>. QED
    BY <1>1, <1>5, <2>2
<1>9. ASSUME NEW s \in Slots, SettleStep(s)
      PROVE  q'[c].withheld = q[c].withheld
  <2>. DEFINE d == task[s].ch
  <2>1. \/ UNCHANGED q
        \/ /\ \A x \in Channels \ {d} : q'[x] = q[x]
           /\ q'[d].withheld = q[d].withheld
    BY <1>9, SettleEffect
  <2>. QED
    BY <2>1
<1>. QED
  BY <1>1, <1>2, <1>3, <1>4, <1>6, <1>7, <1>8, <1>9, WithheldBySteer, StepKinds
     DEF BaseInv

AwaitInv ==
    \A c \in Channels : \A e \in Range(q[c].withheld) : Waits(task, acks, c, e)

LEMMA AwaitInductive ==
    BaseInv /\ WithheldInv /\ AwaitInv /\ [Next]_vars => AwaitInv'
<1>. SUFFICES ASSUME BaseInv, WithheldInv, AwaitInv, [Next]_vars,
                    NEW c \in Channels, NEW e \in Range(q'[c].withheld)
             PROVE  Waits(task', acks', c, e)
  BY DEF AwaitInv
<1>1. CASE e \in Range(q[c].withheld)
  <2>1. Waits(task, acks, c, e)
    BY <1>1 DEF AwaitInv
  <2>2. e \in Events
    BY <1>1, TablesType, RangeOfEvents DEF BaseInv, TypeInv, TypeOK
  <2>3. ASSUME NEW a \in acks, HandleAck(a), a.ch = c, a.ev = e
        PROVE  FALSE
    <3>1. AckStep(a)
      BY <2>3, LoopShape DEF AckStep, BaseInv
    <3>2. Distinct(q[c].withheld) => e \notin Range(q'[c].withheld)
      BY <2>3, <3>1, AckEffect DEF BaseInv
    <3>. QED
      BY <3>2 DEF WithheldInv
  <2>. QED
    BY <2>1, <2>2, <2>3, WaitsStep
<1>. QED
  BY <1>1, WithheldStep

\* No event is stranded in the side table of native steers: as long as it is
\* withheld, a task on its channel holds its request or an ack for it has been
\* posted, in any configuration, also when turns overrun, panic or time out.
THEOREM WithheldEventsAreAwaited == Spec => []WithheldIsAwaited
<1>1. Init => WithheldInv /\ AwaitInv
  <2>1. Init => \A c \in Channels : q[c].withheld = <<>>
    BY DEF Init, EmptyChannel
  <2>. QED
    BY <2>1, EmptyRange DEF WithheldInv, AwaitInv
<1>2. BaseInv /\ WithheldInv /\ AwaitInv /\ [Next]_vars
        => (BaseInv /\ WithheldInv /\ AwaitInv)'
  BY BaseInvInductive, WithheldInductive, AwaitInductive
<1>3. AwaitInv => WithheldIsAwaited
  BY DEF AwaitInv, Waits, WithheldIsAwaited, TasksOn, Live
<1>. QED
  BY <1>1, <1>2, <1>3, BaseInvInit, PTL DEF Spec
================================================================================
