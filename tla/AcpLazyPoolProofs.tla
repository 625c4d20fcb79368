--------------------------- MODULE AcpLazyPoolProofs ---------------------------
(***************************************************************************)
(* The safety invariants of AcpLazyPool for every number of slots, every   *)
(* threshold, every configuration and every amount of work.                *)
(***************************************************************************)
EXTENDS AcpLazyPool, FiniteSetTheorems, TLAPS

(* The inductive invariant. *)

\* Only a lazy pool sleeps.  A sleeping pool has no agent, no respawn on its way
\* and nothing in backoff, so that a wake may overwrite every slot.
AsleepIsEmpty ==
    ~ready => /\ Lazy /\ throttled = 0
              /\ \A s \in Slots : slot[s] = "empty" /\ respawn[s] = "none"

\* A wake is only under way while the pool is not ready.
ReadyIsListening == ready => life.st = "listening"

\* A wake has one bearer: its task until the result is posted, then the result.
Borne(n) ==
    \/ wakeCh = <<>> /\ \E t \in wakeTasks : WakesUnderWay = {t} /\ t.attempt = n
    \/ WakesUnderWay = {} /\ Len(wakeCh) = 1 /\ wakeCh[1].attempt = n
WakeIsBorne ==
    IF life.st = "waking" THEN Borne(life.attempt)
    ELSE WakesUnderWay = {} /\ wakeCh = <<>>

\* From the top of the loop to the wait, queued work has started a wake or
\* has armed the retry timer.
WorkIsSeen ==
    pc \in {"maintenance", "collect", "select"} /\ ~ready /\ queued > 0 =>
        life.st = "waking" \/ (life.st = "failed" /\ pending)

\* A slot on trial keeps the seeds of its probe.
ProbeIsSeeded == \A s \in probing : circ[s].open = "no" /\ circ[s].seeded

PoolInv ==
    /\ TypeOK /\ RespawnOwnsSlot /\ AsleepIsEmpty /\ ReadyIsListening
    /\ WakeIsBorne /\ WorkIsSeen /\ ProbeIsSeeded

--------------------------------------------------------------------------------
(* Operators. *)

LEMMA LesserOfTwo ==
    ASSUME NEW m \in Int, NEW n \in Int
    PROVE  Min({m, n}) \in {m, n} /\ Min({m, n}) <= m /\ Min({m, n}) <= n
<1>1. \E x \in {m, n} : \A y \in {m, n} : x <= y
  <2>1. CASE m <= n
    BY <2>1
  <2>2. CASE n <= m
    BY <2>2
  <2>. QED
    BY <2>1, <2>2
<1>2. Min({m, n}) \in {m, n} /\ \A y \in {m, n} : Min({m, n}) <= y
  BY <1>1 DEF Min
<1>. QED
  BY <1>2

\* dispatch_pending gives turns to idle agents and touches no other slot.
LEMMA DispatchEffect ==
    ASSUME NEW sl \in [Slots -> SlotStates], NEW n \in Nat, DispatchPending(sl, n),
           quiet \subseteq {"sleep", "exit"}
    PROVE  /\ slot' \in [Slots -> SlotStates]
           /\ \A s \in Slots : IF sl[s] = "idle" THEN slot'[s] \in {"idle", "turn"}
                               ELSE slot'[s] = sl[s]
           /\ queued' \in Nat /\ queued' <= n
           /\ quiet' \subseteq {"sleep", "exit"}
<1>. DEFINE agents == InState(sl, "idle")
            k == Min({n, Cardinality(agents)})
<1>1. Cardinality(agents) \in Nat
  <2>1. IsFiniteSet(agents)
    BY FS_Subset, PoolConstants DEF InState
  <2>. QED
    BY <2>1, FS_CardinalityType
<1>2. k \in Nat /\ k <= n
  BY <1>1, LesserOfTwo
<1>. HIDE DEF k
<1>3. PICK chosen \in SUBSET agents :
         /\ slot' = [s \in Slots |-> IF s \in chosen THEN "turn" ELSE sl[s]]
         /\ queued' = n - k
         /\ quiet' = IF k > 0 THEN {} ELSE quiet
  BY DEF DispatchPending, kSubset, k
<1>4. slot' \in [Slots -> SlotStates]
  BY <1>3 DEF SlotStates
<1>5. \A s \in Slots : IF sl[s] = "idle" THEN slot'[s] \in {"idle", "turn"}
                       ELSE slot'[s] = sl[s]
  BY <1>3 DEF InState
<1>6. queued' \in Nat /\ queued' <= n
  BY <1>2, <1>3
<1>7. quiet' \subseteq {"sleep", "exit"}
  BY <1>3
<1>. QED
  BY <1>4, <1>5, <1>6, <1>7

LEMMA ClosedType == Closed \in Circuits
  BY PoolConstants DEF Closed, Circuits

LEMMA ZeroIsBelow == 0 \in 0..Threshold - 1
  BY PoolConstants

LEMMA HalfOpenEffect ==
    ASSUME NEW c \in Circuits
    PROVE  /\ HalfOpen(c) \in Circuits
           /\ HalfOpen(c).seeded = TRUE /\ HalfOpen(c).open = "no"
           /\ HalfOpen(c).inflight = c.inflight
<1>1. HalfOpen(c) \in Circuits
  BY ZeroIsBelow DEF HalfOpen, Circuits
<1>2. HalfOpen(c).seeded = TRUE /\ HalfOpen(c).open = "no"
  BY DEF HalfOpen, Circuits
<1>3. HalfOpen(c).inflight = c.inflight
  BY DEF HalfOpen, Circuits
<1>. QED
  BY <1>1, <1>2, <1>3

LEMMA OpenedEffect ==
    ASSUME NEW c \in Circuits
    PROVE  /\ Opened(c) \in Circuits /\ Opened(c).open = "cooling"
           /\ Opened(c).inflight = c.inflight
<1>1. Opened(c) \in Circuits
  BY ZeroIsBelow DEF Opened, Circuits
<1>2. Opened(c).open = "cooling"
  BY DEF Opened, Circuits
<1>3. Opened(c).inflight = c.inflight
  BY DEF Opened, Circuits
<1>. QED
  BY <1>1, <1>2, <1>3

\* A crash during a probe trips the circuit, whatever the window held.
LEMMA SeededTrips ==
    ASSUME NEW c \in Circuits, c.seeded = TRUE PROVE Trips(c)
  BY PoolConstants DEF Trips, Recent, Circuits

LEMMA RecordCrashEffect ==
    ASSUME NEW c \in Circuits
    PROVE  /\ RecordCrash(c).circ \in Circuits
           /\ RecordCrash(c).respawn \in BOOLEAN
           /\ RecordCrash(c).circ.inflight = c.inflight
           /\ c.open = "elapsed" => RecordCrash(c).circ = HalfOpen(c)
           /\ c.open = "cooling" => RecordCrash(c).circ = c
           /\ c.open = "no" /\ c.seeded = TRUE => /\ RecordCrash(c).respawn = FALSE
                                                  /\ RecordCrash(c).circ.open = "cooling"
<1>1. CASE c.open = "elapsed"
  <2>1. RecordCrash(c).circ = HalfOpen(c) /\ RecordCrash(c).respawn = TRUE
    BY <1>1 DEF RecordCrash
  <2>. QED
    BY <1>1, <2>1, HalfOpenEffect
<1>2. CASE c.open = "cooling"
  <2>1. RecordCrash(c).circ = c /\ RecordCrash(c).respawn = FALSE
    BY <1>2 DEF RecordCrash
  <2>. QED
    BY <1>2, <2>1
<1>3. CASE c.open = "no"
  <2>. DEFINE next == IF Trips(c) THEN Opened(c) ELSE [c EXCEPT !.own = @ + 1]
              again == ~Trips(c)
  <2>0. RecordCrash(c) = [circ |-> next, respawn |-> again]
    BY <1>3 DEF RecordCrash
  <2>1. RecordCrash(c).circ = next /\ RecordCrash(c).respawn = again
    <3>. HIDE DEF next, again
    <3>. QED
      BY <2>0
  <2>2. CASE Trips(c)
    <3>1. RecordCrash(c).circ = Opened(c)
      BY <2>1, <2>2
    <3>2. RecordCrash(c).respawn = FALSE
      BY <2>1, <2>2, Zenon
    <3>. QED
      BY <1>3, <3>1, <3>2, OpenedEffect
  <2>3. CASE ~Trips(c)
    <3>1. c.seeded # TRUE
      BY <2>3, SeededTrips
    <3>2. c.own + 1 \in 0..Threshold - 1
      BY <2>3, <3>1, PoolConstants DEF Trips, Recent, Circuits
    <3>3. [c EXCEPT !.own = @ + 1] \in Circuits
          /\ [c EXCEPT !.own = @ + 1].inflight = c.inflight
      BY <3>2 DEF Circuits
    <3>4. RecordCrash(c).circ = [c EXCEPT !.own = @ + 1]
      BY <2>1, <2>3
    <3>5. RecordCrash(c).respawn = TRUE
      BY <2>1, <2>3, Zenon
    <3>. QED
      BY <1>3, <3>1, <3>3, <3>4, <3>5
  <2>. QED
    BY <2>2, <2>3
<1>. QED
  BY <1>1, <1>2, <1>3 DEF Circuits

--------------------------------------------------------------------------------
(* What leaves a part of the invariant alone. *)

LEMMA PoolInit == Init => PoolInv
<1>. SUFFICES ASSUME Init PROVE PoolInv
  OBVIOUS
<1>1. PICK live \in SUBSET Slots :
         slot = [s \in Slots |-> IF s \in live THEN "idle" ELSE "empty"] /\ (Lazy => live = {})
  BY DEF Init
<1>2. Lazy \in BOOLEAN
  BY PoolConstants
<1>3. ready \in BOOLEAN /\ pending \in BOOLEAN
  BY <1>2 DEF Init
<1>4. slot \in [Slots -> SlotStates]
  BY <1>1 DEF SlotStates
<1>5. circ \in [Slots -> Circuits]
  BY ClosedType DEF Init
<1>6. life \in [st : {"listening", "waking", "failed"}, attempt : 0..MaxAttempt, due : BOOLEAN]
      /\ life.st = "listening"
  <2>1. 0 \in 0..MaxAttempt
    BY PoolConstants
  <2>. QED
    BY <2>1 DEF Init, Listening
<1>7. TypeOK
  BY <1>3, <1>4, <1>5, <1>6 DEF Init, TypeOK
<1>8. RespawnOwnsSlot
  BY DEF Init, RespawnOwnsSlot, Closed
<1>9. AsleepIsEmpty
  BY <1>1, <1>2 DEF Init, AsleepIsEmpty
<1>10. ReadyIsListening /\ WakeIsBorne /\ WorkIsSeen /\ ProbeIsSeeded
  BY <1>6 DEF Init, ReadyIsListening, WakeIsBorne, WakesUnderWay, WorkIsSeen, ProbeIsSeeded
<1>. QED
  BY <1>7, <1>8, <1>9, <1>10 DEF PoolInv

LEMMA WakeFrame ==
    ASSUME WakeIsBorne, UNCHANGED <<life, wakeTasks, wakeCh>>
    PROVE  WakeIsBorne'
  BY DEF WakeIsBorne, Borne, WakesUnderWay

LEMMA ListeningFrame ==
    ASSUME ReadyIsListening, UNCHANGED <<ready, life>>
    PROVE  ReadyIsListening'
  BY DEF ReadyIsListening

LEMMA ProbeFrame ==
    ASSUME ProbeIsSeeded, UNCHANGED <<circ, probing>>
    PROVE  ProbeIsSeeded'
  BY DEF ProbeIsSeeded

LEMMA OwnerFrame ==
    ASSUME RespawnOwnsSlot, UNCHANGED <<slot, circ, respawn>>
    PROVE  RespawnOwnsSlot'
  BY DEF RespawnOwnsSlot

LEMMA AsleepFrame ==
    ASSUME AsleepIsEmpty, UNCHANGED <<ready, throttled, slot, respawn>>
    PROVE  AsleepIsEmpty'
  BY DEF AsleepIsEmpty

\* Work counts at the wait; every arm goes back to the top of the loop.
LEMMA ArmFrame ==
    ASSUME pc' \in {"wake", "exit"} PROVE WorkIsSeen'
  BY DEF WorkIsSeen

\* A pool in use is not asleep.
LEMMA InUse ==
    ASSUME ready' = TRUE PROVE AsleepIsEmpty' /\ WorkIsSeen'
  BY DEF AsleepIsEmpty, WorkIsSeen

\* An agent or a respawn is a pool in use.
LEMMA OccupiedIsReady ==
    ASSUME PoolInv, NEW s \in Slots, slot[s] # "empty" \/ respawn[s] # "none"
    PROVE  ready = TRUE
  BY DEF PoolInv, AsleepIsEmpty, TypeOK

\* A dispatch leaves the slots of respawns alone.
LEMMA DispatchKeepsOwner ==
    ASSUME NEW sl \in [Slots -> SlotStates], NEW n \in Nat, DispatchPending(sl, n),
           quiet \subseteq {"sleep", "exit"},
           \A s \in Slots : circ'[s].inflight <=> respawn'[s] # "none",
           \A s \in Slots : respawn'[s] # "none" => sl[s] = "empty"
    PROVE  RespawnOwnsSlot'
  BY DispatchEffect DEF RespawnOwnsSlot

--------------------------------------------------------------------------------
(* Steps that touch neither the slots nor the wakes. *)

LEMMA QuietStep ==
    ASSUME PoolInv, UNCHANGED <<slots, wakes, throttled>>,
           pc' \in {"wake", "maintenance", "collect", "select", "exit"},
           pending' \in BOOLEAN, queued' \in Nat, quiet' \subseteq {"sleep", "exit"},
           WorkIsSeen'
    PROVE  PoolInv'
<1>1. TypeOK'
  BY DEF PoolInv, TypeOK, slots, wakes
<1>2. RespawnOwnsSlot' /\ AsleepIsEmpty' /\ ReadyIsListening'
  BY OwnerFrame, AsleepFrame, ListeningFrame DEF PoolInv, slots, wakes
<1>3. WakeIsBorne' /\ ProbeIsSeeded'
  BY WakeFrame, ProbeFrame DEF PoolInv, slots, wakes
<1>. QED
  BY <1>1, <1>2, <1>3 DEF PoolInv

LEMMA QuietSteps ==
    ASSUME PoolInv,
           \/ SkipMaintenance \/ Tick \/ RetryTimer \/ InactivityExit \/ Shutdown \/ Exited
           \/ \E b \in {"sleep", "exit"} : BoundElapses(b)
    PROVE  PoolInv'
<1>1. UNCHANGED <<slots, wakes, work, pending>>
  BY DEF SkipMaintenance, Tick, RetryTimer, InactivityExit, Shutdown, Exited, BoundElapses,
         AtSelect, vars, loop
<1>2. quiet' \subseteq {"sleep", "exit"}
  BY DEF SkipMaintenance, Tick, RetryTimer, InactivityExit, Shutdown, Exited, BoundElapses,
         AtSelect, vars, loop, PoolInv, TypeOK
<1>3. \/ pc' = pc
      \/ pc = "maintenance" /\ pc' = "collect"
      \/ pc' \in {"wake", "exit"}
  BY DEF SkipMaintenance, Tick, RetryTimer, InactivityExit, Shutdown, Exited, BoundElapses,
         AtSelect, vars, loop
<1>4. WorkIsSeen'
  BY <1>1, <1>3 DEF PoolInv, WorkIsSeen, wakes, work
<1>5. /\ pc' \in {"wake", "maintenance", "collect", "select", "exit"}
      /\ pending' \in BOOLEAN /\ queued' \in Nat
  BY <1>1, <1>3 DEF PoolInv, TypeOK, work
<1>6. UNCHANGED throttled
  BY <1>1 DEF work
<1>. QED
  BY <1>1, <1>2, <1>4, <1>5, <1>6, QuietStep

\* A backoff that elapses is one of a pool in use.
LEMMA BackoffElapsesStep ==
    ASSUME PoolInv, BackoffElapses PROVE PoolInv'
<1>1. ready = TRUE
  BY DEF PoolInv, AsleepIsEmpty, BackoffElapses, TypeOK
<1>2. TypeOK'
  <2>1. throttled' \in Nat /\ queued' \in Nat
    BY DEF PoolInv, TypeOK, BackoffElapses
  <2>. QED
    BY <2>1 DEF PoolInv, TypeOK, BackoffElapses, loop, slots, wakes
<1>3. AsleepIsEmpty' /\ WorkIsSeen'
  BY <1>1, InUse DEF BackoffElapses, wakes
<1>4. RespawnOwnsSlot' /\ ReadyIsListening' /\ WakeIsBorne' /\ ProbeIsSeeded'
  BY OwnerFrame, ListeningFrame, WakeFrame, ProbeFrame
     DEF PoolInv, BackoffElapses, slots, wakes
<1>. QED
  BY <1>2, <1>3, <1>4 DEF PoolInv

LEMMA DrainChannelStep ==
    ASSUME PoolInv, DrainChannel PROVE PoolInv'
<1>1. throttled' \in Nat /\ queued' \in Nat /\ throttled' <= throttled
  BY DEF PoolInv, TypeOK, DrainChannel
<1>2. TypeOK'
  BY <1>1 DEF PoolInv, TypeOK, DrainChannel, AtSelect, slots, wakes
<1>3. AsleepIsEmpty'
  BY <1>1 DEF PoolInv, AsleepIsEmpty, TypeOK, DrainChannel, slots, wakes
<1>4. RespawnOwnsSlot' /\ ReadyIsListening' /\ WakeIsBorne' /\ ProbeIsSeeded' /\ WorkIsSeen'
  BY OwnerFrame, ListeningFrame, WakeFrame, ProbeFrame, ArmFrame
     DEF PoolInv, DrainChannel, AtSelect, slots, wakes
<1>. QED
  BY <1>2, <1>3, <1>4 DEF PoolInv

--------------------------------------------------------------------------------
(* Steps of a pool in use: a dispatch follows whatever the handler did. *)

LEMMA UseStep ==
    ASSUME PoolInv, ready = TRUE, UNCHANGED wakes,
           pc' \in {"wake", "maintenance", "collect", "select", "exit"},
           UNCHANGED pending, throttled' \in Nat, queued' \in Nat,
           quiet' \subseteq {"sleep", "exit"},
           slot' \in [Slots -> SlotStates], circ' \in [Slots -> Circuits],
           respawn' \in [Slots -> {"none", "running", "ok", "failed"}],
           probing' \subseteq Slots,
           RespawnOwnsSlot', ProbeIsSeeded'
    PROVE  PoolInv'
<1>1. TypeOK'
  BY DEF PoolInv, TypeOK, wakes
<1>2. AsleepIsEmpty' /\ WorkIsSeen'
  BY InUse DEF wakes
<1>3. ReadyIsListening' /\ WakeIsBorne'
  BY ListeningFrame, WakeFrame DEF PoolInv, wakes
<1>. QED
  BY <1>1, <1>2, <1>3 DEF PoolInv

LEMMA DispatchStep ==
    ASSUME PoolInv, ready = TRUE, UNCHANGED wakes,
           pc' \in {"wake", "maintenance", "collect", "select", "exit"},
           UNCHANGED pending, throttled' \in Nat,
           NEW sl \in [Slots -> SlotStates], NEW n \in Nat, DispatchPending(sl, n),
           circ' \in [Slots -> Circuits],
           respawn' \in [Slots -> {"none", "running", "ok", "failed"}],
           probing' \subseteq Slots,
           \A s \in Slots : circ'[s].inflight <=> respawn'[s] # "none",
           \A s \in Slots : respawn'[s] # "none" => sl[s] = "empty",
           ProbeIsSeeded'
    PROVE  PoolInv'
<1>1. quiet \subseteq {"sleep", "exit"}
  BY DEF PoolInv, TypeOK
<1>2. /\ slot' \in [Slots -> SlotStates] /\ queued' \in Nat
      /\ quiet' \subseteq {"sleep", "exit"}
  BY <1>1, DispatchEffect
<1>3. RespawnOwnsSlot'
  BY <1>1, DispatchKeepsOwner
<1>. QED
  BY <1>2, <1>3, UseStep

\* The parts of the invariant a dispatch asks for, when no circuit moves.
LEMMA SlotsAtRest ==
    ASSUME PoolInv, UNCHANGED <<circ, respawn, probing>>
    PROVE  /\ circ' \in [Slots -> Circuits]
           /\ respawn' \in [Slots -> {"none", "running", "ok", "failed"}]
           /\ probing' \subseteq Slots
           /\ \A s \in Slots : circ'[s].inflight <=> respawn'[s] # "none"
           /\ \A s \in Slots : respawn'[s] # "none" => slot[s] = "empty"
           /\ ProbeIsSeeded'
<1>1. ProbeIsSeeded'
  BY ProbeFrame DEF PoolInv
<1>. QED
  BY <1>1 DEF PoolInv, TypeOK, RespawnOwnsSlot

LEMMA RequeuedType ==
    ASSUME PoolInv, NEW s \in Slots, Requeued(s) PROVE throttled' \in Nat
  BY DEF PoolInv, TypeOK, Requeued

LEMMA AgentReturnsStep ==
    ASSUME PoolInv, NEW s \in Slots, AgentReturns(s) PROVE PoolInv'
<1>. DEFINE sl == [slot EXCEPT ![s] = "idle"]
<1>1. ready = TRUE
  BY OccupiedIsReady DEF AgentReturns
<1>2. sl \in [Slots -> SlotStates]
  BY DEF PoolInv, TypeOK, SlotStates
<1>3. \A z \in Slots : respawn'[z] # "none" => sl[z] = "empty"
  BY SlotsAtRest DEF AgentReturns, PoolInv, TypeOK, RespawnOwnsSlot
<1>4. DispatchPending(sl, queued) /\ queued \in Nat
  BY DEF AgentReturns, PoolInv, TypeOK
<1>. HIDE DEF sl
<1>5. throttled' \in Nat /\ UNCHANGED wakes /\ pc' = "wake" /\ UNCHANGED pending
  BY RequeuedType DEF AgentReturns, AtSelect
<1>. QED
  BY <1>1, <1>2, <1>3, <1>4, <1>5, SlotsAtRest, DispatchStep DEF AgentReturns

LEMMA HeartbeatStep ==
    ASSUME PoolInv, Heartbeat PROVE PoolInv'
<1>1. ready = TRUE /\ throttled' \in Nat /\ UNCHANGED wakes /\ pc' = "wake" /\ UNCHANGED pending
  BY DEF Heartbeat, AtSelect, PoolInv, TypeOK
<1>2. UNCHANGED <<circ, respawn, probing>> /\ slot \in [Slots -> SlotStates] /\ queued \in Nat
  BY DEF Heartbeat, PoolInv, TypeOK
<1>3. CASE DispatchPending(slot, queued)
  BY <1>1, <1>2, <1>3, SlotsAtRest, DispatchStep
<1>4. CASE /\ \E s \in InState(slot, "idle") : slot' = [slot EXCEPT ![s] = "beat"]
           /\ UNCHANGED <<queued, quiet>>
  <2>1. PICK s \in Slots : slot[s] = "idle" /\ slot' = [slot EXCEPT ![s] = "beat"]
    BY <1>4 DEF InState
  <2>2. slot' \in [Slots -> SlotStates]
    BY <1>2, <2>1 DEF SlotStates
  <2>3. RespawnOwnsSlot'
    BY <1>2, <2>1, SlotsAtRest DEF RespawnOwnsSlot
  <2>4. queued' \in Nat /\ quiet' \subseteq {"sleep", "exit"}
    BY <1>4 DEF PoolInv, TypeOK
  <2>. QED
    BY <1>1, <1>2, <2>2, <2>3, <2>4, SlotsAtRest, UseStep
<1>. QED
  BY <1>3, <1>4 DEF Heartbeat

LEMMA AcceptStep ==
    ASSUME PoolInv, Accept PROVE PoolInv'
<1>1. UNCHANGED <<circ, respawn, probing, wakes, throttled, pending>> /\ pc' = "wake"
  BY DEF Accept, AtSelect
<1>2. slot \in [Slots -> SlotStates] /\ queued + 1 \in Nat /\ throttled \in Nat /\ ready \in BOOLEAN
      /\ pending \in BOOLEAN
  BY DEF PoolInv, TypeOK
<1>3. CASE ready
  <2>1. DispatchPending(slot, queued + 1) /\ ready = TRUE
    BY <1>2, <1>3 DEF Accept
  <2>. QED
    BY <1>1, <1>2, <2>1, SlotsAtRest, DispatchStep
<1>4. CASE ~ready
  <2>1. queued' = queued + 1 /\ UNCHANGED <<slot, quiet>>
    BY <1>4 DEF Accept
  <2>2. quiet' \subseteq {"sleep", "exit"} /\ UNCHANGED slots
    BY <1>1, <2>1 DEF PoolInv, TypeOK, slots
  <2>. QED
    BY <1>1, <1>2, <2>1, <2>2, ArmFrame, QuietStep
<1>. QED
  BY <1>3, <1>4

--------------------------------------------------------------------------------
(* Steps of the circuits and their respawns. *)

LEMMA ProbesStaySeeded ==
    ASSUME PoolInv, probing' = StillProbing(circ'),
           \A s \in Slots :
              /\ circ'[s].open = "no"
              /\ circ[s].open = "elapsed" \/ (circ[s].open = "no" /\ circ[s].seeded)
              => circ'[s].seeded
    PROVE  probing' \subseteq Slots /\ ProbeIsSeeded'
  BY DEF StillProbing, ProbeIsSeeded, PoolInv

LEMMA CircuitFields ==
    ASSUME NEW c \in Circuits
    PROVE  /\ c.seeded \in BOOLEAN /\ c.inflight \in BOOLEAN
           /\ c.open \in {"no", "cooling", "elapsed"} /\ c.own \in 0..Threshold - 1
  BY DEF Circuits

LEMMA InflightSet ==
    ASSUME NEW c \in Circuits, NEW b \in BOOLEAN
    PROVE  /\ [c EXCEPT !.inflight = b] \in Circuits
           /\ [c EXCEPT !.inflight = b].inflight = b
           /\ [c EXCEPT !.inflight = b].open = c.open
           /\ [c EXCEPT !.inflight = b].seeded = c.seeded
<1>1. [c EXCEPT !.inflight = b] \in Circuits
  BY DEF Circuits
<1>2. [c EXCEPT !.inflight = b].inflight = b
  BY DEF Circuits
<1>3. /\ [c EXCEPT !.inflight = b].open = c.open
      /\ [c EXCEPT !.inflight = b].seeded = c.seeded
  BY DEF Circuits
<1>. QED
  BY <1>1, <1>2, <1>3

\* What a refill does to the circuit of a slot it respawns.
Refilled(c) == [(IF c.open = "elapsed" THEN HalfOpen(c) ELSE c) EXCEPT !.inflight = TRUE]

LEMMA RefillEffect ==
    ASSUME NEW c \in Circuits
    PROVE  /\ Refilled(c) \in Circuits /\ Refilled(c).inflight = TRUE
           /\ (c.open = "elapsed" \/ (c.open = "no" /\ c.seeded)) => Refilled(c).seeded
<1>. DEFINE d == Refilled(c)
<1>1. CASE c.open = "elapsed"
  <2>1. d = [HalfOpen(c) EXCEPT !.inflight = TRUE]
    BY <1>1 DEF Refilled
  <2>2. HalfOpen(c) \in Circuits /\ HalfOpen(c).seeded = TRUE
    BY HalfOpenEffect
  <2>3. d \in Circuits /\ d.inflight = TRUE /\ d.seeded = HalfOpen(c).seeded
    BY <2>1, <2>2, InflightSet
  <2>. QED
    BY <2>2, <2>3
<1>2. CASE c.open # "elapsed"
  <2>1. d = [c EXCEPT !.inflight = TRUE]
    BY <1>2 DEF Refilled
  <2>2. d \in Circuits /\ d.inflight = TRUE /\ d.seeded = c.seeded
    BY <2>1, InflightSet
  <2>. QED
    BY <1>2, <2>2
<1>. QED
  BY <1>1, <1>2

LEMMA MaintenanceStep ==
    ASSUME PoolInv, Maintenance PROVE PoolInv'
<1>1. /\ ready = TRUE /\ throttled' \in Nat /\ UNCHANGED wakes /\ pc' = "collect"
      /\ UNCHANGED pending /\ slot \in [Slots -> SlotStates] /\ queued \in Nat
      /\ DispatchPending(slot, queued)
  BY DEF Maintenance, PoolInv, TypeOK
<1>2. \A s \in Slots : circ[s] \in Circuits
  BY DEF PoolInv, TypeOK
<1>. DEFINE d(s) == Refilled(circ[s])
<1>3. \A s \in Slots :
         /\ d(s) \in Circuits /\ d(s).inflight = TRUE
         /\ circ[s].open = "elapsed" \/ (circ[s].open = "no" /\ circ[s].seeded) => d(s).seeded
  BY <1>2, RefillEffect
<1>4. circ' = [s \in Slots |-> IF s \notin Refillable THEN circ[s] ELSE d(s)]
  BY DEF Maintenance, Refilled
<1>. HIDE DEF d
<1>5. circ' \in [Slots -> Circuits]
  BY <1>2, <1>3, <1>4
<1>6. respawn' \in [Slots -> {"none", "running", "ok", "failed"}]
  BY DEF Maintenance, PoolInv, TypeOK
<1>7. \A s \in Slots : circ'[s].inflight <=> respawn'[s] # "none"
  BY <1>3, <1>4 DEF Maintenance, PoolInv, RespawnOwnsSlot
<1>8. \A s \in Slots : respawn'[s] # "none" => slot[s] = "empty"
  BY DEF Maintenance, Refillable, PoolInv, RespawnOwnsSlot
<1>9. probing' \subseteq Slots /\ ProbeIsSeeded'
  BY <1>3, <1>4, ProbesStaySeeded DEF Maintenance
<1>. QED
  BY <1>1, <1>5, <1>6, <1>7, <1>8, <1>9, DispatchStep

LEMMA CollectRespawnsStep ==
    ASSUME PoolInv, CollectRespawns PROVE PoolInv'
<1>. DEFINE arrived == InState(respawn, "ok")
            failed == InState(respawn, "failed")
            live == [s \in Slots |-> IF s \in arrived THEN "idle" ELSE slot[s]]
            back(s) == [circ[s] EXCEPT !.inflight = FALSE]
            lost(s) == MarkSpawnFailed(back(s))
<1>1. /\ throttled' \in Nat /\ UNCHANGED wakes /\ pc' = "select"
      /\ UNCHANGED pending /\ slot \in [Slots -> SlotStates] /\ queued \in Nat
      /\ pc = "collect" /\ quiet \subseteq {"sleep", "exit"} /\ UNCHANGED throttled
  BY DEF CollectRespawns, PoolInv, TypeOK
<1>2. \A s \in Slots : back(s) \in Circuits /\ back(s).inflight = FALSE
                       /\ back(s).open = circ[s].open /\ back(s).seeded = circ[s].seeded
  BY InflightSet DEF PoolInv, TypeOK
<1>3. \A s \in Slots : lost(s) \in Circuits /\ lost(s).inflight = FALSE
                       /\ lost(s).open = "cooling"
  BY <1>2, OpenedEffect DEF MarkSpawnFailed
<1>4. /\ circ' = [s \in Slots |-> IF s \in arrived THEN back(s)
                                  ELSE IF s \in failed THEN lost(s) ELSE circ[s]]
      /\ respawn' = [s \in Slots |-> IF s \in arrived \cup failed THEN "none" ELSE respawn[s]]
  BY DEF CollectRespawns
<1>. HIDE DEF back, lost
<1>5. circ' \in [Slots -> Circuits]
  BY <1>2, <1>3, <1>4 DEF PoolInv, TypeOK
<1>6. respawn' \in [Slots -> {"none", "running", "ok", "failed"}]
  BY <1>4 DEF PoolInv, TypeOK
<1>7. \A s \in Slots : circ'[s].inflight <=> respawn'[s] # "none"
  BY <1>2, <1>3, <1>4 DEF PoolInv, RespawnOwnsSlot
<1>8. probing' \subseteq Slots /\ ProbeIsSeeded'
  BY <1>2, <1>3, <1>4, ProbesStaySeeded DEF CollectRespawns
<1>9. \A s \in Slots : respawn'[s] # "none" => s \notin arrived /\ slot[s] = "empty"
  BY <1>4 DEF PoolInv, RespawnOwnsSlot
<1>10. CASE arrived # {}
  <2>1. live \in [Slots -> SlotStates]
    BY <1>1 DEF SlotStates
  <2>2. ready = TRUE
    BY <1>10, OccupiedIsReady DEF InState
  <2>3. DispatchPending(live, queued)
    BY <1>10 DEF CollectRespawns
  <2>4. \A s \in Slots : respawn'[s] # "none" => live[s] = "empty"
    BY <1>9
  <2>. HIDE DEF live, arrived, failed
  <2>. QED
    BY <1>1, <1>5, <1>6, <1>7, <1>8, <2>1, <2>2, <2>3, <2>4, DispatchStep
<1>11. CASE arrived = {}
  <2>1. UNCHANGED <<slot, queued, quiet>>
    BY <1>11 DEF CollectRespawns
  <2>2. RespawnOwnsSlot'
    BY <1>7, <1>9, <2>1 DEF RespawnOwnsSlot
  <2>3. CASE ready = TRUE
    BY <1>1, <1>5, <1>6, <1>8, <2>1, <2>2, <2>3, UseStep
  <2>4. CASE ready # TRUE
    <3>1. AsleepIsEmpty'
      BY <1>1, <1>4, <2>1, <2>4 DEF PoolInv, AsleepIsEmpty, TypeOK, wakes
    <3>2. WorkIsSeen'
      BY <1>1, <2>1 DEF PoolInv, WorkIsSeen, wakes
    <3>3. ReadyIsListening' /\ WakeIsBorne'
      BY <1>1, ListeningFrame, WakeFrame DEF PoolInv, wakes
    <3>4. TypeOK'
      BY <1>1, <1>5, <1>6, <1>8, <2>1 DEF PoolInv, TypeOK, wakes
    <3>. QED
      BY <1>8, <2>2, <3>1, <3>2, <3>3, <3>4 DEF PoolInv
  <2>. QED
    BY <2>3, <2>4
<1>. QED
  BY <1>10, <1>11

\* The circuit of a slot whose agent died.
AfterCrash(c) == [RecordCrash(c).circ EXCEPT !.inflight = @ \/ RecordCrash(c).respawn]

LEMMA AfterCrashEffect ==
    ASSUME NEW c \in Circuits, c.inflight = FALSE
    PROVE  /\ AfterCrash(c) \in Circuits
           /\ AfterCrash(c).inflight = RecordCrash(c).respawn
           /\ c.open = "elapsed" => AfterCrash(c).seeded = TRUE
           /\ c.open = "no" /\ c.seeded = TRUE => AfterCrash(c).open = "cooling"
<1>. DEFINE d == RecordCrash(c).circ
            r == RecordCrash(c).respawn
<1>1. /\ d \in Circuits /\ r \in BOOLEAN /\ d.inflight = FALSE
      /\ c.open = "elapsed" => d.seeded = TRUE
      /\ c.open = "no" /\ c.seeded = TRUE => d.open = "cooling"
  BY RecordCrashEffect, HalfOpenEffect
<1>2. AfterCrash(c) = [d EXCEPT !.inflight = (d.inflight \/ r)]
  BY DEF AfterCrash
<1>. HIDE DEF d, r
<1>3. (d.inflight \/ r) = r
  BY <1>1, Zenon
<1>4. AfterCrash(c) = [d EXCEPT !.inflight = r]
  BY <1>2, <1>3
<1>5. /\ AfterCrash(c) \in Circuits /\ AfterCrash(c).inflight = r
      /\ AfterCrash(c).open = d.open /\ AfterCrash(c).seeded = d.seeded
  BY <1>1, <1>4, InflightSet
<1>6. AfterCrash(c).inflight = RecordCrash(c).respawn
  BY <1>5 DEF r
<1>. QED
  BY <1>1, <1>5, <1>6

LEMMA AgentDiesStep ==
    ASSUME PoolInv, NEW s \in Slots, AgentDies(s) PROVE PoolInv'
<1>. DEFINE r == RecordCrash(circ[s]).respawn
            d == AfterCrash(circ[s])
            live == [slot EXCEPT ![s] = "empty"]
<1>1. ready = TRUE
  BY OccupiedIsReady DEF AgentDies
<1>2. throttled' \in Nat /\ UNCHANGED wakes /\ pc' \in {"wake", "exit"} /\ UNCHANGED pending
  BY RequeuedType DEF AgentDies
<1>3. circ[s] \in Circuits /\ circ[s].inflight = FALSE /\ respawn[s] = "none"
  <2>1. circ[s] \in Circuits
    BY DEF PoolInv, TypeOK
  <2>2. respawn[s] = "none" /\ ~circ[s].inflight
    BY DEF AgentDies, PoolInv, RespawnOwnsSlot
  <2>. QED
    BY <2>1, <2>2, CircuitFields
<1>4. /\ d \in Circuits /\ d.inflight = r /\ r \in BOOLEAN
      /\ circ[s].open = "elapsed" => d.seeded = TRUE
      /\ circ[s].open = "no" /\ circ[s].seeded = TRUE => d.open = "cooling"
  BY <1>3, AfterCrashEffect, RecordCrashEffect
<1>5. /\ circ' = [circ EXCEPT ![s] = d]
      /\ respawn' = [respawn EXCEPT ![s] = IF r THEN "running" ELSE @]
  BY DEF AgentDies, AfterCrash
<1>6. live \in [Slots -> SlotStates] /\ slot \in [Slots -> SlotStates] /\ queued \in Nat
      /\ quiet \subseteq {"sleep", "exit"}
  BY DEF PoolInv, TypeOK, SlotStates
<1>. HIDE DEF d, r
<1>7. circ' \in [Slots -> Circuits]
  BY <1>4, <1>5 DEF PoolInv, TypeOK
<1>8. respawn' \in [Slots -> {"none", "running", "ok", "failed"}]
  BY <1>5 DEF PoolInv, TypeOK
<1>9. \A z \in Slots : circ'[z].inflight <=> respawn'[z] # "none"
  BY <1>3, <1>4, <1>5 DEF PoolInv, TypeOK, RespawnOwnsSlot
<1>10. \A z \in Slots : respawn'[z] # "none" => live[z] = "empty"
  BY <1>5, <1>6 DEF PoolInv, TypeOK, RespawnOwnsSlot
<1>11. probing' \subseteq Slots /\ ProbeIsSeeded'
  <2>1. \A z \in Slots :
           /\ circ'[z].open = "no"
           /\ circ[z].open = "elapsed" \/ (circ[z].open = "no" /\ circ[z].seeded)
           => circ'[z].seeded
    BY <1>4, <1>5, <1>3, CircuitFields DEF PoolInv, TypeOK
  <2>. QED
    BY <2>1, ProbesStaySeeded DEF AgentDies
<1>. HIDE DEF live
<1>12. CASE DispatchPending(live, queued)
  BY <1>1, <1>2, <1>6, <1>7, <1>8, <1>9, <1>10, <1>11, <1>12, DispatchStep
<1>13. CASE slot' = live /\ UNCHANGED <<queued, quiet>>
  <2>1. RespawnOwnsSlot'
    BY <1>9, <1>10, <1>13 DEF RespawnOwnsSlot
  <2>. QED
    BY <1>1, <1>2, <1>6, <1>7, <1>8, <1>11, <1>13, <2>1, UseStep
<1>. QED
  BY <1>12, <1>13 DEF AgentDies, live

LEMMA RespawnEndsStep ==
    ASSUME PoolInv, NEW s \in Slots, RespawnEnds(s) PROVE PoolInv'
<1>1. PICK r \in {"ok", "failed"} : respawn' = [respawn EXCEPT ![s] = r]
  BY DEF RespawnEnds, RespawnGuard
<1>2. respawn[s] = "running" /\ UNCHANGED <<loop, slot, circ, probing, wakes, work, quiet>>
  BY DEF RespawnEnds
<1>3. ready = TRUE
  BY <1>2, OccupiedIsReady
<1>4. respawn' \in [Slots -> {"none", "running", "ok", "failed"}]
  BY <1>1 DEF PoolInv, TypeOK
<1>5. RespawnOwnsSlot'
  BY <1>1, <1>2 DEF PoolInv, TypeOK, RespawnOwnsSlot
<1>6. ProbeIsSeeded'
  BY <1>2, ProbeFrame DEF PoolInv
<1>7. /\ pc' \in {"wake", "maintenance", "collect", "select", "exit"}
      /\ UNCHANGED pending /\ UNCHANGED wakes /\ throttled' \in Nat /\ queued' \in Nat
      /\ quiet' \subseteq {"sleep", "exit"}
      /\ slot' \in [Slots -> SlotStates] /\ circ' \in [Slots -> Circuits]
      /\ probing' \subseteq Slots
  BY <1>2 DEF PoolInv, TypeOK, loop, work
<1>. QED
  BY <1>3, <1>4, <1>5, <1>6, <1>7, UseStep

\* Time moves a circuit and nothing else.
LEMMA CircuitStep ==
    ASSUME PoolInv, UNCHANGED <<loop, slot, respawn, wakes, work, quiet>>,
           circ' \in [Slots -> Circuits], probing' \subseteq Slots, ProbeIsSeeded',
           \A s \in Slots : circ'[s].inflight = circ[s].inflight
    PROVE  PoolInv'
<1>1. TypeOK'
  BY DEF PoolInv, TypeOK, loop, wakes, work
<1>2. RespawnOwnsSlot'
  BY DEF PoolInv, RespawnOwnsSlot
<1>3. AsleepIsEmpty' /\ ReadyIsListening' /\ WakeIsBorne'
  BY AsleepFrame, ListeningFrame, WakeFrame DEF PoolInv, wakes, work
<1>4. WorkIsSeen'
  BY DEF PoolInv, WorkIsSeen, loop, wakes, work
<1>. QED
  BY <1>1, <1>2, <1>3, <1>4 DEF PoolInv

LEMMA CooldownElapsesStep ==
    ASSUME PoolInv, NEW s \in Slots, CooldownElapses(s) PROVE PoolInv'
<1>. DEFINE d == [circ[s] EXCEPT !.open = "elapsed"]
<1>0. circ[s] \in Circuits
  BY DEF PoolInv, TypeOK
<1>1. d \in Circuits /\ d.inflight = circ[s].inflight
  BY <1>0 DEF Circuits
<1>2. circ' = [circ EXCEPT ![s] = d] /\ circ[s].open = "cooling"
      /\ UNCHANGED <<loop, slot, respawn, probing, wakes, work, quiet>>
  BY DEF CooldownElapses
<1>. HIDE DEF d
<1>3. circ' \in [Slots -> Circuits] /\ \A z \in Slots : circ'[z].inflight = circ[z].inflight
  BY <1>1, <1>2 DEF PoolInv, TypeOK
<1>4. probing' \subseteq Slots /\ ProbeIsSeeded'
  BY <1>2 DEF PoolInv, TypeOK, ProbeIsSeeded
<1>. QED
  BY <1>2, <1>3, <1>4, CircuitStep

LEMMA WindowMovesStep ==
    ASSUME PoolInv, NEW s \in Slots, WindowMoves(s) PROVE PoolInv'
<1>. DEFINE d == IF circ[s].seeded THEN [circ[s] EXCEPT !.seeded = FALSE]
                 ELSE [circ[s] EXCEPT !.own = @ - 1]
<1>1. circ[s] \in Circuits /\ circ \in [Slots -> Circuits]
  BY DEF PoolInv, TypeOK
<1>2. d \in Circuits /\ d.inflight = circ[s].inflight
  <2>1. CASE circ[s].seeded
    BY <1>1, <2>1 DEF Circuits
  <2>2. CASE ~circ[s].seeded
    <3>1. circ[s].own > 0 /\ circ[s].own \in 0..Threshold - 1
      BY <1>1, <2>2, CircuitFields DEF WindowMoves, Recent
    <3>2. circ[s].own - 1 \in 0..Threshold - 1
      BY <3>1, PoolConstants
    <3>. QED
      BY <1>1, <2>2, <3>2 DEF Circuits
  <2>. QED
    BY <2>1, <2>2
<1>3. /\ probing' = probing \ {s}
      /\ UNCHANGED <<loop, slot, respawn, wakes, work, quiet>>
  BY DEF WindowMoves
<1>6. circ' = [circ EXCEPT ![s] = d]
  BY DEF WindowMoves
<1>. HIDE DEF d
<1>4. circ' \in [Slots -> Circuits] /\ \A z \in Slots : circ'[z].inflight = circ[z].inflight
  BY <1>1, <1>2, <1>6
<1>5. probing' \subseteq Slots /\ ProbeIsSeeded'
  BY <1>1, <1>3, <1>6 DEF PoolInv, TypeOK, ProbeIsSeeded
<1>. QED
  BY <1>3, <1>4, <1>5, CircuitStep

--------------------------------------------------------------------------------
(* Steps of the wakes. *)

Lives == [st : {"listening", "waking", "failed"}, attempt : 0..MaxAttempt, due : BOOLEAN]

LEMMA LifeValues ==
    ASSUME NEW n \in 1..MaxAttempt
    PROVE  /\ Listening \in Lives /\ Listening.st = "listening"
           /\ Waking(n) \in Lives /\ Waking(n).st = "waking" /\ Waking(n).attempt = n
           /\ Failed(n) \in Lives /\ Failed(n).st = "failed"
<1>1. 0 \in 0..MaxAttempt /\ n \in 0..MaxAttempt
  BY PoolConstants
<1>2. Listening \in Lives /\ Listening.st = "listening"
  BY <1>1 DEF Listening, Lives
<1>3. Waking(n) \in Lives /\ Waking(n).st = "waking" /\ Waking(n).attempt = n
  BY <1>1 DEF Waking, Lives
<1>4. Failed(n) \in Lives /\ Failed(n).st = "failed"
  BY <1>1 DEF Failed, Lives
<1>. QED
  BY <1>2, <1>3, <1>4

LEMMA OneIsAnAttempt == 1 \in 1..MaxAttempt
  BY PoolConstants

LEMMA StartWakeEffect ==
    ASSUME PoolInv, NEW w \in BOOLEAN
    PROVE  /\ StartWakeIfDue(w) \in 0..MaxAttempt
           /\ StartWakeIfDue(w) # 0 => w = TRUE /\ life.st # "waking"
           /\ w = TRUE /\ StartWakeIfDue(w) = 0 => life.st \in {"waking", "failed"}
<1>1. life \in Lives /\ MaxAttempt \in Nat \ {0}
  BY PoolConstants DEF PoolInv, TypeOK, Lives
<1>2. life.st \in {"listening", "waking", "failed"} /\ life.attempt \in 0..MaxAttempt
  BY <1>1 DEF Lives
<1>. DEFINE m == Min({life.attempt + 1, MaxAttempt})
<1>3. m \in 1..MaxAttempt
  <2>1. life.attempt + 1 \in Int /\ life.attempt + 1 >= 1 /\ MaxAttempt \in Int /\ MaxAttempt >= 1
    BY <1>1, <1>2
  <2>2. m \in {life.attempt + 1, MaxAttempt} /\ m <= MaxAttempt
    BY <2>1, LesserOfTwo
  <2>. HIDE DEF m
  <2>. QED
    BY <2>1, <2>2
<1>. HIDE DEF m
<1>4. StartWakeIfDue(w) = CASE w /\ life.st = "listening" -> 1
                            [] w /\ life.st = "failed" /\ life.due -> m
                            [] OTHER -> 0
  BY DEF StartWakeIfDue, m
<1>5. CASE ~w
  <2>1. StartWakeIfDue(w) = 0 /\ w = FALSE
    BY <1>4, <1>5
  <2>. QED
    BY <1>1, <2>1
<1>6. CASE w /\ life.st = "listening"
  BY <1>1, <1>4, <1>6
<1>7. CASE w /\ life.st = "failed" /\ life.due
  BY <1>1, <1>3, <1>4, <1>7
<1>8. CASE w /\ life.st # "listening" /\ ~(life.st = "failed" /\ life.due)
  BY <1>1, <1>2, <1>4, <1>8
<1>. QED
  BY <1>5, <1>6, <1>7, <1>8

LEMMA WakeIfDueStep ==
    ASSUME PoolInv, WakeIfDue PROVE PoolInv'
<1>. DEFINE w == pending'
            n == StartWakeIfDue(w)
<1>0. /\ pc' = "maintenance" /\ UNCHANGED <<slots, ready, wakeCh, work, quiet>>
      /\ w = (Lazy /\ ~ready /\ queued > 0)
      /\ IF Lazy /\ ~ready /\ n # 0
         THEN /\ life' = Waking(n)
              /\ wakeTasks' = wakeTasks \cup {[attempt |-> n, st |-> "running"]}
         ELSE UNCHANGED <<life, wakeTasks>>
  BY DEF WakeIfDue
<1>1. w \in BOOLEAN
  BY <1>0
<1>2. /\ n \in 0..MaxAttempt
      /\ n # 0 => w = TRUE /\ life.st # "waking"
      /\ w = TRUE /\ n = 0 => life.st \in {"waking", "failed"}
  BY <1>1, StartWakeEffect
<1>3. AsleepIsEmpty' /\ RespawnOwnsSlot' /\ ProbeIsSeeded'
  BY <1>0, AsleepFrame, OwnerFrame, ProbeFrame DEF PoolInv, slots, work
<1>4. CASE n # 0
  <2>. DEFINE t == [attempt |-> n, st |-> "running"]
  <2>1. n \in 1..MaxAttempt /\ w = TRUE /\ life.st # "waking" /\ ~ready
    <3>1. w = TRUE /\ life.st # "waking"
      BY <1>2, <1>4
    <3>2. ~ready
      BY <1>0, <3>1, Zenon
    <3>. HIDE DEF n
    <3>3. n \in 1..MaxAttempt
      BY <1>2, <1>4, PoolConstants
    <3>. QED
      BY <3>1, <3>2, <3>3
  <2>2. life' = Waking(n) /\ wakeTasks' = wakeTasks \cup {t}
    BY <1>0, <1>4, <2>1
  <2>3. life' \in Lives /\ life'.st = "waking" /\ life'.attempt = n
    BY <2>1, <2>2, LifeValues
  <2>4. t \in WakeTasks /\ t.st = "running" /\ t.attempt = n
    BY <2>1 DEF WakeTasks
  <2>. HIDE DEF t, n
  <2>5. TypeOK'
    BY <1>0, <1>1, <2>2, <2>3, <2>4 DEF PoolInv, TypeOK, Lives, slots, work
  <2>6. WakesUnderWay = {} /\ wakeCh = <<>>
    BY <2>1 DEF PoolInv, WakeIsBorne
  <2>7. WakesUnderWay' = {t} /\ t \in wakeTasks'
    BY <2>2, <2>4, <2>6 DEF WakesUnderWay
  <2>8. WakeIsBorne'
    BY <1>0, <2>3, <2>4, <2>6, <2>7 DEF WakeIsBorne, Borne
  <2>9. WorkIsSeen' /\ ReadyIsListening'
    BY <1>0, <2>1, <2>3 DEF WorkIsSeen, ReadyIsListening
  <2>. QED
    BY <1>3, <2>5, <2>8, <2>9 DEF PoolInv
<1>5. CASE n = 0
  <2>1. UNCHANGED <<life, wakeTasks>>
    BY <1>0, <1>5
  <2>2. TypeOK'
    BY <1>0, <1>1, <2>1 DEF PoolInv, TypeOK, slots, work
  <2>3. WakeIsBorne' /\ ReadyIsListening'
    BY <1>0, <2>1, WakeFrame, ListeningFrame DEF PoolInv
  <2>4. WorkIsSeen'
    BY <1>0, <1>1, <1>2, <1>5, <2>1 DEF PoolInv, WorkIsSeen, AsleepIsEmpty, work
  <2>. QED
    BY <1>3, <2>2, <2>3, <2>4 DEF PoolInv
<1>. QED
  BY <1>4, <1>5

\* A task that leaves the join set was not the bearer of a wake, or the wake ends.
LEMMA WakeTaskReapedStep ==
    ASSUME PoolInv, WakeTaskReaped PROVE PoolInv'
<1>1. PICK t \in wakeTasks : t.st = "finished" /\ wakeTasks' = wakeTasks \ {t}
  BY DEF WakeTaskReaped
<1>2. UNCHANGED <<loop, slots, ready, life, wakeCh, work, quiet>>
  BY DEF WakeTaskReaped
<1>3. WakesUnderWay' = WakesUnderWay
  BY <1>1 DEF WakesUnderWay
<1>4. WakeIsBorne'
  <2>1. \A z : WakesUnderWay = {z} => z \in wakeTasks'
    BY <1>3 DEF WakesUnderWay
  <2>. QED
    BY <1>2, <1>3, <2>1 DEF PoolInv, WakeIsBorne, Borne
<1>5. TypeOK'
  BY <1>1, <1>2 DEF PoolInv, TypeOK, loop, slots, work
<1>6. AsleepIsEmpty' /\ RespawnOwnsSlot' /\ ProbeIsSeeded' /\ ReadyIsListening'
  BY <1>2, AsleepFrame, OwnerFrame, ProbeFrame, ListeningFrame DEF PoolInv, slots, work
<1>7. WorkIsSeen'
  BY <1>2 DEF PoolInv, WorkIsSeen, loop, work
<1>. QED
  BY <1>4, <1>5, <1>6, <1>7 DEF PoolInv

\* The task that panicked was the bearer, so that the cancelled wake is its own.
LEMMA WakePanicJoinedStep ==
    ASSUME PoolInv, WakePanicJoined PROVE PoolInv'
<1>1. PICK t \in wakeTasks :
         /\ t.st = "panicked" /\ wakeTasks' = wakeTasks \ {t}
         /\ life' = IF life.st = "waking" THEN Failed(life.attempt) ELSE life
  BY DEF WakePanicJoined
<1>2. pc' = "wake" /\ UNCHANGED <<pending, slots, ready, wakeCh, work, quiet>>
  BY DEF WakePanicJoined, AtSelect
<1>3. t \in WakesUnderWay /\ t \in WakeTasks
  BY <1>1 DEF WakesUnderWay, PoolInv, TypeOK
<1>4. life.st = "waking" /\ WakesUnderWay = {t} /\ wakeCh = <<>> /\ life.attempt = t.attempt
  BY <1>3 DEF PoolInv, WakeIsBorne, Borne
<1>5. t.attempt \in 1..MaxAttempt
  BY <1>3 DEF WakeTasks
<1>6. life' \in Lives /\ life'.st = "failed"
  BY <1>1, <1>4, <1>5, LifeValues
<1>7. WakesUnderWay' = {}
  BY <1>1, <1>4 DEF WakesUnderWay
<1>8. WakeIsBorne'
  BY <1>2, <1>4, <1>6, <1>7 DEF WakeIsBorne
<1>9. ReadyIsListening'
  BY <1>2, <1>4 DEF PoolInv, ReadyIsListening
<1>10. TypeOK'
  BY <1>1, <1>2, <1>6 DEF PoolInv, TypeOK, Lives, slots, work
<1>11. AsleepIsEmpty' /\ RespawnOwnsSlot' /\ ProbeIsSeeded' /\ WorkIsSeen'
  BY <1>2, AsleepFrame, OwnerFrame, ProbeFrame, ArmFrame DEF PoolInv, slots, work
<1>. QED
  BY <1>8, <1>9, <1>10, <1>11 DEF PoolInv

LEMMA WakeTaskEndsStep ==
    ASSUME PoolInv, NEW t \in wakeTasks, WakeTaskEnds(t) PROVE PoolInv'
<1>1. t.st = "running" /\ UNCHANGED <<loop, slots, ready, life, work, quiet>>
  BY DEF WakeTaskEnds
<1>2. t \in WakesUnderWay /\ t \in WakeTasks
  BY <1>1 DEF WakesUnderWay, PoolInv, TypeOK
<1>3. life.st = "waking" /\ WakesUnderWay = {t} /\ wakeCh = <<>> /\ life.attempt = t.attempt
  BY <1>2 DEF PoolInv, WakeIsBorne, Borne
<1>4. t.attempt \in 1..MaxAttempt
  BY <1>2 DEF WakeTasks
<1>5. AsleepIsEmpty' /\ RespawnOwnsSlot' /\ ProbeIsSeeded' /\ ReadyIsListening'
  BY <1>1, AsleepFrame, OwnerFrame, ProbeFrame, ListeningFrame DEF PoolInv, slots, work
<1>6. WorkIsSeen'
  BY <1>1 DEF PoolInv, WorkIsSeen, loop, work
<1>7. SUFFICES /\ wakeTasks' \subseteq WakeTasks
               /\ wakeCh' \in Seq(WakeResults) /\ Len(wakeCh') <= 1
               /\ WakeIsBorne'
  BY <1>1, <1>5, <1>6 DEF PoolInv, TypeOK, loop, slots, work
<1>8. CASE /\ \E live \in SUBSET Slots : wakeCh' = <<[attempt |-> t.attempt, live |-> live]>>
           /\ wakeTasks' = (wakeTasks \ {t}) \cup {[t EXCEPT !.st = "finished"]}
  <2>. DEFINE u == [t EXCEPT !.st = "finished"]
  <2>1. u \in WakeTasks /\ u.st = "finished"
    BY <1>2 DEF WakeTasks
  <2>2. PICK live \in SUBSET Slots : wakeCh' = <<[attempt |-> t.attempt, live |-> live]>>
    BY <1>8
  <2>. DEFINE r == [attempt |-> t.attempt, live |-> live]
  <2>3. r \in WakeResults /\ r.attempt = t.attempt
    BY <1>4 DEF WakeResults
  <2>4. wakeTasks' = (wakeTasks \ {t}) \cup {u} /\ wakeCh' = <<r>>
    BY <1>8, <2>2
  <2>. HIDE DEF u, r
  <2>5. WakesUnderWay' = {}
    BY <1>3, <2>1, <2>4 DEF WakesUnderWay
  <2>6. Len(wakeCh') = 1 /\ wakeCh'[1] = r /\ wakeCh' \in Seq(WakeResults)
    BY <2>3, <2>4
  <2>7. WakeIsBorne'
    BY <1>1, <1>3, <2>3, <2>5, <2>6 DEF WakeIsBorne, Borne
  <2>8. wakeTasks' \subseteq WakeTasks
    BY <2>1, <2>4 DEF PoolInv, TypeOK
  <2>. QED
    BY <2>6, <2>7, <2>8
<1>9. CASE /\ wakeTasks' = (wakeTasks \ {t}) \cup {[t EXCEPT !.st = "panicked"]}
           /\ UNCHANGED wakeCh
  <2>. DEFINE u == [t EXCEPT !.st = "panicked"]
  <2>1. u \in WakeTasks /\ u.st = "panicked" /\ u.attempt = t.attempt
    BY <1>2 DEF WakeTasks
  <2>2. wakeTasks' = (wakeTasks \ {t}) \cup {u} /\ wakeCh' = <<>>
    BY <1>3, <1>9
  <2>. HIDE DEF u
  <2>3. WakesUnderWay' = {u} /\ u \in wakeTasks'
    BY <1>3, <2>1, <2>2 DEF WakesUnderWay
  <2>4. WakeIsBorne'
    BY <1>1, <1>3, <2>1, <2>2, <2>3 DEF WakeIsBorne, Borne
  <2>5. wakeTasks' \subseteq WakeTasks
    BY <2>1, <2>2 DEF PoolInv, TypeOK
  <2>6. wakeCh' \in Seq(WakeResults) /\ Len(wakeCh') <= 1
    BY <1>9 DEF PoolInv, TypeOK
  <2>. QED
    BY <2>4, <2>5, <2>6
<1>. QED
  BY <1>8, <1>9 DEF WakeTaskEnds

LEMMA RetryElapsesStep ==
    ASSUME PoolInv, RetryElapses PROVE PoolInv'
<1>1. /\ life.st = "failed" /\ life' = [life EXCEPT !.due = TRUE]
      /\ UNCHANGED <<loop, slots, ready, wakeTasks, wakeCh, work, quiet>>
  BY DEF RetryElapses
<1>2. life \in Lives
  BY DEF PoolInv, TypeOK, Lives
<1>3. life' \in Lives /\ life'.st = life.st
  BY <1>1, <1>2 DEF Lives
<1>4. TypeOK'
  BY <1>1, <1>3 DEF PoolInv, TypeOK, Lives, loop, slots, work
<1>5. AsleepIsEmpty' /\ RespawnOwnsSlot' /\ ProbeIsSeeded'
  BY <1>1, AsleepFrame, OwnerFrame, ProbeFrame DEF PoolInv, slots, work
<1>6. ReadyIsListening' /\ WorkIsSeen'
  BY <1>1, <1>3 DEF PoolInv, ReadyIsListening, WorkIsSeen, loop, work
<1>7. WakeIsBorne'
  BY <1>1, <1>3 DEF PoolInv, WakeIsBorne, Borne, WakesUnderWay
<1>. QED
  BY <1>4, <1>5, <1>6, <1>7 DEF PoolInv

\* The pool sleeps over nothing: no agent at work, no respawn, no backoff, no wake.
LEMMA IdleSleepStep ==
    ASSUME PoolInv, IdleSleep PROVE PoolInv'
<1>1. /\ pc' = "wake" /\ UNCHANGED pending /\ Lazy /\ IdlePoolSleepDue
      /\ slot' = [s \in Slots |-> "empty"] /\ ready' = FALSE /\ life' = Listening /\ quiet' = {}
      /\ UNCHANGED <<circ, respawn, probing, wakeTasks, wakeCh, work>>
  BY DEF IdleSleep, AtSelect
<1>2. ready /\ throttled = 0 /\ wakeTasks = {} /\ \A s \in Slots : ~circ[s].inflight
  BY <1>1 DEF IdlePoolSleepDue, AnyRespawnInFlight
<1>3. \A s \in Slots : respawn[s] = "none"
  BY <1>2 DEF PoolInv, RespawnOwnsSlot
<1>4. life.st = "listening" /\ wakeCh = <<>>
  BY <1>2 DEF PoolInv, ReadyIsListening, WakeIsBorne
<1>5. life' \in Lives /\ life'.st = "listening"
  BY <1>1, OneIsAnAttempt, LifeValues
<1>6. TypeOK'
  <2>1. slot' \in [Slots -> SlotStates]
    BY <1>1 DEF SlotStates
  <2>. QED
    BY <1>1, <1>5, <2>1 DEF PoolInv, TypeOK, Lives, work
<1>7. RespawnOwnsSlot'
  BY <1>1 DEF PoolInv, RespawnOwnsSlot
<1>8. AsleepIsEmpty'
  BY <1>1, <1>2, <1>3 DEF AsleepIsEmpty, work
<1>9. WakeIsBorne'
  BY <1>1, <1>2, <1>4, <1>5 DEF WakeIsBorne, WakesUnderWay
<1>10. ReadyIsListening' /\ WorkIsSeen' /\ ProbeIsSeeded'
  BY <1>1, ArmFrame, ProbeFrame DEF PoolInv, ReadyIsListening
<1>. QED
  BY <1>6, <1>7, <1>8, <1>9, <1>10 DEF PoolInv

\* The posted result is the awaited one, and every slot it fills is empty.
LEMMA WakeResultStep ==
    ASSUME PoolInv, WakeResult PROVE PoolInv'
<1>. DEFINE r == Head(wakeCh)
            sl == [s \in Slots |-> IF s \in r.live THEN "idle" ELSE "empty"]
<1>1. /\ pc' = "wake" /\ UNCHANGED <<pending, circ, respawn, probing, wakeTasks, throttled>>
      /\ ~ready /\ wakeCh # <<>> /\ wakeCh' = Tail(wakeCh)
  BY DEF WakeResult, AtSelect
<1>2. life.st = "waking" /\ WakesUnderWay = {} /\ Len(wakeCh) = 1 /\ wakeCh[1].attempt = life.attempt
  BY <1>1 DEF PoolInv, WakeIsBorne, Borne
<1>3. wakeCh \in Seq(WakeResults) /\ quiet \subseteq {"sleep", "exit"}
      /\ slot \in [Slots -> SlotStates] /\ queued \in Nat
  BY DEF PoolInv, TypeOK
<1>4. r \in WakeResults /\ r.attempt = life.attempt
  BY <1>1, <1>2, <1>3
<1>5. wakeCh' = <<>> /\ wakeCh' \in Seq(WakeResults) /\ Len(wakeCh') <= 1
  BY <1>1, <1>2, <1>3
<1>6. r.attempt \in 1..MaxAttempt /\ r.live \subseteq Slots
  BY <1>4 DEF WakeResults
<1>7. Completes(r.attempt)
  BY <1>2, <1>4 DEF Completes
<1>8. \/ /\ life' = Failed(r.attempt) /\ UNCHANGED <<slot, ready, queued, quiet>>
      \/ /\ life' = Listening /\ ready' = TRUE /\ DispatchPending(sl, queued)
  BY <1>7 DEF WakeResult
<1>9. WakesUnderWay' = {}
  BY <1>1, <1>2 DEF WakesUnderWay
<1>10. ProbeIsSeeded' /\ WorkIsSeen'
  BY <1>1, ProbeFrame, ArmFrame DEF PoolInv
<1>11. CASE life' = Failed(r.attempt) /\ UNCHANGED <<slot, ready, queued, quiet>>
  <2>1. life' \in Lives /\ life'.st = "failed"
    BY <1>6, <1>11, LifeValues
  <2>. HIDE DEF r, sl
  <2>2. TypeOK'
    BY <1>1, <1>5, <1>11, <2>1 DEF PoolInv, TypeOK, Lives
  <2>3. AsleepIsEmpty' /\ RespawnOwnsSlot'
    BY <1>1, <1>11, AsleepFrame, OwnerFrame DEF PoolInv
  <2>4. ReadyIsListening'
    BY <1>1, <1>11 DEF ReadyIsListening
  <2>5. WakeIsBorne'
    BY <1>5, <1>9, <2>1 DEF WakeIsBorne
  <2>. QED
    BY <1>10, <2>2, <2>3, <2>4, <2>5 DEF PoolInv
<1>12. CASE life' = Listening /\ ready' = TRUE /\ DispatchPending(sl, queued)
  <2>1. life' \in Lives /\ life'.st = "listening"
    BY <1>6, <1>12, LifeValues
  <2>2. sl \in [Slots -> SlotStates]
    BY DEF SlotStates
  <2>3. \A s \in Slots : respawn'[s] = "none" /\ ~circ'[s].inflight
    BY <1>1 DEF PoolInv, AsleepIsEmpty, RespawnOwnsSlot
  <2>. HIDE DEF r, sl
  <2>4. /\ slot' \in [Slots -> SlotStates] /\ queued' \in Nat
        /\ quiet' \subseteq {"sleep", "exit"}
    BY <1>3, <1>12, <2>2, DispatchEffect
  <2>5. RespawnOwnsSlot'
    BY <2>3 DEF RespawnOwnsSlot
  <2>6. TypeOK'
    BY <1>1, <1>5, <1>12, <2>1, <2>4 DEF PoolInv, TypeOK, Lives
  <2>7. AsleepIsEmpty' /\ ReadyIsListening'
    BY <1>12, <2>1, InUse DEF ReadyIsListening
  <2>8. WakeIsBorne'
    BY <1>5, <1>9, <2>1 DEF WakeIsBorne
  <2>. QED
    BY <1>10, <2>5, <2>6, <2>7, <2>8 DEF PoolInv
<1>. QED
  BY <1>8, <1>11, <1>12

--------------------------------------------------------------------------------
(* The theorems. *)

LEMMA PoolInvInductive == PoolInv /\ [Next]_vars => PoolInv'
<1>. SUFFICES ASSUME PoolInv, [Next]_vars PROVE PoolInv'
  OBVIOUS
<1>1. CASE UNCHANGED vars
  <2>1. UNCHANGED <<slots, wakes, work, pending, pc, quiet>>
    BY <1>1 DEF vars, loop
  <2>2. WorkIsSeen'
    BY <2>1 DEF PoolInv, WorkIsSeen, wakes, work
  <2>. QED
    BY <2>1, <2>2, QuietStep DEF PoolInv, TypeOK, work
<1>2. CASE LoopStep
  BY <1>2, WakeIfDueStep, QuietSteps, MaintenanceStep, CollectRespawnsStep DEF LoopStep
<1>3. CASE \E s \in Slots : AgentReturns(s) \/ AgentDies(s)
  BY <1>3, AgentReturnsStep, AgentDiesStep
<1>4. CASE Heartbeat \/ Accept \/ DrainChannel \/ Tick
  BY <1>4, HeartbeatStep, AcceptStep, DrainChannelStep, QuietSteps
<1>5. CASE WakeResult \/ RetryTimer \/ WakePanicJoined \/ WakeTaskReaped
  BY <1>5, WakeResultStep, QuietSteps, WakePanicJoinedStep, WakeTaskReapedStep
<1>6. CASE IdleSleep \/ InactivityExit \/ Shutdown \/ Exited
  BY <1>6, IdleSleepStep, QuietSteps
<1>7. CASE \E t \in wakeTasks : WakeTaskEnds(t)
  BY <1>7, WakeTaskEndsStep
<1>8. CASE \E s \in Slots : RespawnEnds(s) \/ CooldownElapses(s) \/ WindowMoves(s)
  BY <1>8, RespawnEndsStep, CooldownElapsesStep, WindowMovesStep
<1>9. CASE RetryElapses \/ BackoffElapses
  BY <1>9, RetryElapsesStep, BackoffElapsesStep
<1>10. CASE \E b \in {"sleep", "exit"} : BoundElapses(b)
  BY <1>10, QuietSteps
<1>. QED
  BY <1>1, <1>2, <1>3, <1>4, <1>5, <1>6, <1>7, <1>8, <1>9, <1>10 DEF Next

LEMMA PoolInvHolds == Spec => []PoolInv
  BY PoolInit, PoolInvInductive, PTL DEF Spec

\* Every variable keeps its type, the counted crashes their bound below the
\* threshold and the channel of wake results its capacity of 1.
THEOREM TypeCorrect == Spec => []TypeOK
<1>1. PoolInv => TypeOK
  BY DEF PoolInv
<1>. QED
  BY <1>1, PoolInvHolds, PTL

\* A slot is marked exactly while its respawn task or its posted result is on the
\* way, and it is empty then: no agent is ever returned into an occupied slot.
THEOREM RespawnsOwnTheirSlots == Spec => []RespawnOwnsSlot
<1>1. PoolInv => RespawnOwnsSlot
  BY DEF PoolInv
<1>. QED
  BY <1>1, PoolInvHolds, PTL

LEMMA BorneIsAwaited == TypeOK /\ WakeIsBorne => OneWakeAwaited
<1>. SUFFICES ASSUME TypeOK, WakeIsBorne PROVE OneWakeAwaited
  OBVIOUS
<1>. DEFINE byTask == {t.attempt : t \in WakesUnderWay}
            posted == {wakeCh[i].attempt : i \in 1..Len(wakeCh)}
<1>1. CASE life.st # "waking"
  <2>1. WakesUnderWay = {} /\ wakeCh = <<>>
    BY <1>1 DEF WakeIsBorne
  <2>2. Cardinality(WakesUnderWay) = 0 /\ Len(wakeCh) = 0
    BY <2>1, FS_EmptySet
  <2>3. byTask = {} /\ posted = {}
    BY <2>1, <2>2
  <2>. QED
    BY <1>1, <2>2, <2>3 DEF OneWakeAwaited
<1>2. CASE /\ life.st = "waking" /\ wakeCh = <<>>
           /\ \E t \in wakeTasks : WakesUnderWay = {t} /\ t.attempt = life.attempt
  <2>1. PICK t \in wakeTasks : WakesUnderWay = {t} /\ t.attempt = life.attempt
    BY <1>2
  <2>2. Cardinality(WakesUnderWay) = 1 /\ Len(wakeCh) = 0
    BY <1>2, <2>1, FS_Singleton
  <2>3. byTask = {life.attempt} /\ posted = {}
    BY <2>1, <2>2
  <2>. QED
    BY <1>2, <2>2, <2>3 DEF OneWakeAwaited
<1>3. CASE /\ life.st = "waking" /\ WakesUnderWay = {}
           /\ Len(wakeCh) = 1 /\ wakeCh[1].attempt = life.attempt
  <2>1. Cardinality(WakesUnderWay) = 0
    BY <1>3, FS_EmptySet
  <2>2. byTask = {} /\ posted = {life.attempt}
    BY <1>3
  <2>. QED
    BY <1>3, <2>1, <2>2 DEF OneWakeAwaited
<1>. QED
  BY <1>1, <1>2, <1>3 DEF WakeIsBorne, Borne

\* While the lifecycle is waking there is one task or one posted result, and it
\* carries the awaited attempt; otherwise there is none.
THEOREM OneWakeIsAwaited == Spec => []OneWakeAwaited
<1>1. PoolInv => OneWakeAwaited
  BY BorneIsAwaited DEF PoolInv
<1>. QED
  BY <1>1, PoolInvHolds, PTL

\* A loop that waits on a sleeping pool has nothing in backoff, and for queued
\* work a wake under way or an armed retry timer.
THEOREM BatchesAreNotStranded == Spec => []NoBatchStranded
<1>1. PoolInv => NoBatchStranded
  <2>. SUFFICES ASSUME PoolInv, pc = "select", ~ready
                PROVE  /\ throttled = 0
                       /\ queued > 0 => \/ WakesUnderWay # {} \/ wakeCh # <<>>
                                        \/ life.st = "failed" /\ pending
    BY DEF NoBatchStranded
  <2>1. throttled = 0
    BY DEF PoolInv, AsleepIsEmpty
  <2>2. ASSUME queued > 0, ~(life.st = "failed" /\ pending)
        PROVE  WakesUnderWay # {} \/ wakeCh # <<>>
    <3>1. life.st = "waking"
      BY <2>2 DEF PoolInv, WorkIsSeen
    <3>2. Borne(life.attempt)
      BY <3>1 DEF PoolInv, WakeIsBorne
    <3>3. CASE Len(wakeCh) = 1
      BY <3>3
    <3>4. CASE \E t \in wakeTasks : WakesUnderWay = {t}
      BY <3>4
    <3>. QED
      BY <3>2, <3>3, <3>4 DEF Borne
  <2>. QED
    BY <2>1, <2>2
<1>. QED
  BY <1>1, PoolInvHolds, PTL

\* Within the window of a half-open probe one more crash opens the circuit again,
\* whatever other crashes the window holds.
THEOREM ProbesAreOnTrial == Spec => []ProbeIsOnTrial
<1>1. PoolInv => ProbeIsOnTrial
  <2>. SUFFICES ASSUME PoolInv, NEW s \in probing PROVE ~RecordCrash(circ[s]).respawn
    BY DEF ProbeIsOnTrial
  <2>1. circ[s] \in Circuits /\ circ[s].open = "no" /\ circ[s].seeded
    BY DEF PoolInv, TypeOK, ProbeIsSeeded
  <2>2. circ[s].seeded = TRUE
    BY <2>1, CircuitFields
  <2>. QED
    BY <2>1, <2>2, RecordCrashEffect
<1>. QED
  BY <1>1, PoolInvHolds, PTL
================================================================================
