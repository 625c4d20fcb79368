--------------------------- MODULE AcpEventQueue ---------------------------
(***************************************************************************)
(* The per-channel event queue of the agent harness                        *)
(* (crates/buzz-acp/src/queue.rs, struct EventQueue).                      *)
(*                                                                         *)
(* Every map of EventQueue is keyed by channel, so the state of one        *)
(* channel is one record and each &mut self method is an operator from     *)
(* the channel's record to its next record.  Only flush_next looks at      *)
(* several channels.  Events are numbered in the order the harness         *)
(* received them: the number of an event stands for its received_at.       *)
(*                                                                         *)
(* Instants are abstracted to what the code compares: a deadline is        *)
(* "none", "set" (in the future) or "passed"; a retry_after is "none",     *)
(* "future" or "past".                                                     *)
(***************************************************************************)
EXTENDS Naturals, Sequences, FiniteSets, Functions

CONSTANTS
    Channels,      \* channel ids
    MaxEvents,     \* bound on the events the relay delivers
    CreatedAt,     \* created_at of each event: [1..MaxEvents -> Nat]
    MaxPending,    \* MAX_PENDING_PER_CHANNEL
    MaxBatch,      \* MAX_BATCH_EVENTS
    MaxRetries,    \* MAX_RETRIES
    DedupMode      \* "Queue" or "Drop"

Events == 1 .. MaxEvents

ASSUME QueueConstants ==
    /\ MaxEvents \in Nat
    /\ CreatedAt \in [Events -> Nat]
    /\ MaxPending \in Nat \ {0}
    /\ MaxBatch \in Nat \ {0}
    /\ MaxRetries \in Nat
    /\ DedupMode \in {"Queue", "Drop"}

CancelReasons == {"Steer", "Interrupt"}

\* The entries that the maps of EventQueue hold for one channel.
ChannelState ==
    [ pending    : Seq(Events),
      inFlight   : BOOLEAN,
      deadline   : {"none", "set", "passed"},
      retryAfter : {"none", "future", "past"},
      retryCount : 0 .. MaxRetries,
      cancelled  : Seq(Events),
      reason     : CancelReasons \cup {"none"},
      withheld   : Seq(Events) ]

EmptyChannel ==
    [ pending |-> <<>>, inFlight |-> FALSE, deadline |-> "none",
      retryAfter |-> "none", retryCount |-> 0, cancelled |-> <<>>,
      reason |-> "none", withheld |-> <<>> ]

-----------------------------------------------------------------------------
\* pop_back while the queue is longer than the cap, and what that discards.
TrimBack(s)  == IF Len(s) > MaxPending THEN SubSeq(s, 1, MaxPending) ELSE s
Trimmed(s)   == Range(s) \ Range(TrimBack(s))

\* iter().position and remove, or retain by id: a table never holds an event
\* twice (NoDoubleDelivery in AcpHarness), so the two agree.
Without(s, e) ==
    IF e \in Range(s)
    THEN LET i == CHOOSE k \in DOMAIN s : s[k] = e
         IN  SubSeq(s, 1, i - 1) \o SubSeq(s, i + 1, Len(s))
    ELSE s

\* push: refused in Drop mode while a turn is in flight; at the cap the
\* oldest event makes room for the new one.
Accepts(r)  == ~(DedupMode = "Drop" /\ r.inFlight)
PushEvicts(r) == IF Len(r.pending) >= MaxPending THEN {Head(r.pending)} ELSE {}
Push(r, e) ==
    [r EXCEPT !.pending =
        Append(IF Len(@) >= MaxPending THEN Tail(@) ELSE @, e)]

\* The expiry block shared by flush_next and has_flushable_work: a turn past
\* its deadline is released and its withheld events go back to the front.
Expire(r) ==
    IF r.deadline = "passed"
    THEN [r EXCEPT !.inFlight = FALSE, !.deadline = "none", !.withheld = <<>>,
                   !.pending = TrimBack(r.withheld \o @)]
    ELSE r
ExpireEvicts(r) ==
    IF r.deadline = "passed" THEN Trimmed(r.withheld \o r.pending) ELSE {}

\* Mutant: a late steer ack gives a finished turn a deadline again.
ResurrectDeadline(r) == [r EXCEPT !.deadline = "set"]
\* extend_in_flight_deadline: only an existing deadline moves, never backward.
ExtendDeadline(r) ==
    [r EXCEPT !.deadline = IF @ = "none" THEN @ ELSE "set"]

-----------------------------------------------------------------------------
\* events.sort_by_key(created_at): a stable sort of the drained events.
Precedes(s, i, j) ==
    \/ CreatedAt[s[i]] < CreatedAt[s[j]]
    \/ CreatedAt[s[i]] = CreatedAt[s[j]] /\ i <= j

\* Mutant: the drained events keep the relay's order.
KeepArrivalOrder(s) == s

SortByCreated(s) ==
    [k \in 1 .. Len(s) |->
        s[CHOOSE i \in 1 .. Len(s) :
            Cardinality({j \in 1 .. Len(s) : Precedes(s, j, i)}) = k]]

DrainCount(r) == IF Len(r.pending) < MaxBatch THEN Len(r.pending) ELSE MaxBatch

\* Mutant: the in-flight check of the selection is missing.
FlushableAnyway(r) == r.pending # <<>> /\ r.retryAfter # "future"

\* flush_next: a channel with a queue that is neither in flight nor throttled,
\* the one whose head has waited longest.
Flushable(r) == r.pending # <<>> /\ ~r.inFlight /\ r.retryAfter # "future"

OldestFlushable(Q) ==
    {c \in Channels :
        /\ Flushable(Q[c])
        /\ \A d \in Channels :
              Flushable(Q[d]) => Head(Q[c].pending) <= Head(Q[d].pending)}

\* The fallback, when no queue is flushable: any channel with a cancelled batch
\* and no turn in flight.  The retry throttle is not consulted.
CancelledReady(Q) ==
    IF \E c \in Channels : Flushable(Q[c])
    THEN {}
    ELSE {c \in Channels : Q[c].cancelled # <<>> /\ ~Q[c].inFlight}

\* The FlushBatch of a channel and the channel's state after the flush.
QueuedBatch(r) ==
    [ events |-> SortByCreated(SubSeq(r.pending, 1, DrainCount(r))),
      merged |-> r.cancelled ]
CancelledBatch(r) == [ events |-> r.cancelled, merged |-> <<>> ]

StartFlight(r) == [r EXCEPT !.inFlight = TRUE, !.deadline = "set"]

\* Mutant: the drain stops one event short of the batch it copied.
FlushLeavesLast(r) ==
    [StartFlight(r) EXCEPT
        !.pending = SubSeq(@, DrainCount(r), Len(@)),
        !.cancelled = <<>>, !.reason = "none"]

FlushQueued(r) ==
    [StartFlight(r) EXCEPT
        !.pending = SubSeq(@, DrainCount(r) + 1, Len(@)),
        !.cancelled = <<>>, !.reason = "none"]
FlushCancelled(r) ==
    [StartFlight(r) EXCEPT !.cancelled = <<>>, !.reason = "none"]

-----------------------------------------------------------------------------
\* mark_complete: an active throttle means the batch was requeued, so the retry
\* counter survives; otherwise the channel is healthy again.
MarkComplete(r) ==
    LET done == [r EXCEPT !.inFlight = FALSE, !.deadline = "none"]
    IN  IF r.retryAfter = "future"
        THEN done
        ELSE [done EXCEPT !.retryAfter = "none", !.retryCount = 0]

\* requeue: the failed events go back to the front with a backoff, until the
\* retry budget is spent and the batch is returned as a dead letter.
RetriesSpent(r) == r.retryCount + 1 > MaxRetries
\* Mutants: the retry budget is never checked; the requeued batch replaces
\* what was pushed meanwhile.
RequeueForever(r, b) ==
    [r EXCEPT !.retryCount = @ + 1, !.retryAfter = "future",
              !.pending = TrimBack(b.events \o @)]
RequeueOverwrites(r, b) ==
    IF RetriesSpent(r)
    THEN [r EXCEPT !.retryCount = 0, !.retryAfter = "none"]
    ELSE [r EXCEPT !.retryCount = @ + 1, !.retryAfter = "future",
                   !.pending = b.events]

Requeue(r, b) ==
    IF RetriesSpent(r)
    THEN [r EXCEPT !.retryCount = 0, !.retryAfter = "none"]
    ELSE [r EXCEPT !.retryCount = @ + 1, !.retryAfter = "future",
                   !.pending = TrimBack(b.events \o @)]

\* requeue_preserve_timestamps: no agent was free; back to the front as is.
RequeuePreserve(r, b) == [r EXCEPT !.pending = TrimBack(b.events \o @)]

\* Mutant: the cancelled batch is throttled like a failed one.
RequeueCancelledWithBackoff(r, b, reason) ==
    [r EXCEPT !.cancelled = @ \o b.merged \o b.events, !.reason = reason,
              !.retryAfter = "future"]

\* requeue_as_cancelled: kept aside to be merged into the next batch.
RequeueAsCancelled(r, b, reason) ==
    [r EXCEPT !.cancelled = @ \o b.merged \o b.events, !.reason = reason]

\* Mutant: the in-flight marks are dropped as well.
DrainEverything(r) == EmptyChannel

\* drain_channel: everything but the in-flight marks.
DrainChannel(r) ==
    [EmptyChannel EXCEPT !.inFlight = r.inFlight, !.deadline = r.deadline]
Drained(r) == Range(r.pending) \cup Range(r.cancelled) \cup Range(r.withheld)

-----------------------------------------------------------------------------
\* Mutants: the event is copied, not moved, to the side table; a released event
\* is queued again whether or not it is still withheld.
WithholdByCopy(r, e) == [r EXCEPT !.withheld = Append(@, e)]
ReleaseAnyway(r, e) ==
    [r EXCEPT !.withheld = Without(@, e), !.pending = TrimBack(<<e>> \o @)]

\* mark_native_steer_pending, release_native_steer, remove_event.
Withhold(r, e) ==
    IF e \in Range(r.pending)
    THEN [r EXCEPT !.pending = Without(@, e), !.withheld = Append(@, e)]
    ELSE r
Release(r, e) ==
    IF e \in Range(r.withheld)
    THEN [r EXCEPT !.withheld = Without(@, e),
                   !.pending = TrimBack(<<e>> \o @)]
    ELSE r
ReleaseEvicts(r, e) ==
    IF e \in Range(r.withheld) THEN Trimmed(<<e>> \o r.pending) ELSE {}
RemoveEvent(r, e) ==
    [r EXCEPT !.withheld = Without(@, e), !.pending = Without(@, e)]

\* Mutant: the in-flight guard of compact_expired_state is missing.
CompactInFlight(r) ==
    LET throttle == IF r.retryAfter = "past" THEN "none" ELSE r.retryAfter
    IN  [r EXCEPT !.retryAfter = throttle,
                  !.retryCount = IF throttle = "future" \/ r.pending # <<>>
                                 THEN @ ELSE 0]

\* compact_expired_state.
Compact(r) ==
    LET throttle == IF r.retryAfter = "past" THEN "none" ELSE r.retryAfter
    IN  [r EXCEPT !.retryAfter = throttle,
                  !.retryCount = IF \/ throttle = "future"
                                    \/ r.pending # <<>>
                                    \/ r.inFlight
                                 THEN @ ELSE 0]
=============================================================================
