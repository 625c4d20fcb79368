------------------------ MODULE AcpEventQueueProofs ------------------------
(***************************************************************************)
(* Lemmas about the operators of AcpEventQueue: every method of EventQueue *)
(* keeps the channel state well formed, and the sort of flush_next is a    *)
(* sort.  They hold for every value of the constants.                      *)
(***************************************************************************)
EXTENDS AcpEventQueue, FiniteSetTheorems, SequenceTheorems, TLAPS

\* A sequence is a function on an initial segment of the naturals.
LEMMA FunctionIsSeq ==
    ASSUME NEW S, NEW n \in Nat, NEW f \in [1 .. n -> S]
    PROVE  f \in Seq(S)
BY SeqDef

\* The elements of a sequence of events are events.
LEMMA RangeOfEvents ==
    ASSUME NEW S, NEW s \in Seq(S)
    PROVE  Range(s) \subseteq S
BY LenProperties DEF Range
-----------------------------------------------------------------------------
\* The events that sort before position i, or at it.
Before(s, i) == {j \in 1 .. Len(s) : Precedes(s, j, i)}

\* Precedes orders the positions of a sequence of events totally.
LEMMA PrecedesIsOrder ==
    ASSUME NEW s \in Seq(Events)
    PROVE  /\ \A i \in 1 .. Len(s) : CreatedAt[s[i]] \in Nat
           /\ \A i \in 1 .. Len(s) : Precedes(s, i, i)
           /\ \A i, j \in 1 .. Len(s) : Precedes(s, i, j) \/ Precedes(s, j, i)
           /\ \A i, j \in 1 .. Len(s) :
                 Precedes(s, i, j) /\ Precedes(s, j, i) => i = j
           /\ \A i, j, k \in 1 .. Len(s) :
                 Precedes(s, i, j) /\ Precedes(s, j, k) => Precedes(s, i, k)
<1>1. \A i \in 1 .. Len(s) : CreatedAt[s[i]] \in Nat
  BY ElementOfSeq, QueueConstants
<1>2. Len(s) \in Nat
  BY LenProperties
<1>. QED
  BY <1>1, <1>2 DEF Precedes

\* Each position has a rank between 1 and the length.
LEMMA RankInRange ==
    ASSUME NEW s \in Seq(Events), NEW i \in 1 .. Len(s)
    PROVE  /\ IsFiniteSet(Before(s, i))
           /\ Cardinality(Before(s, i)) \in 1 .. Len(s)
<1>1. Len(s) \in Nat
  BY LenProperties
<1>2. IsFiniteSet(1 .. Len(s)) /\ Cardinality(1 .. Len(s)) = Len(s)
  BY <1>1, FS_Interval
<1>3. Before(s, i) \in SUBSET (1 .. Len(s))
  BY DEF Before
<1>4. IsFiniteSet(Before(s, i)) /\ Cardinality(Before(s, i)) <= Len(s)
  BY <1>2, <1>3, FS_Subset
<1>5. i \in Before(s, i)
  BY PrecedesIsOrder DEF Before
<1>6. Cardinality(Before(s, i)) # 0
  BY <1>4, <1>5, FS_EmptySet
<1>7. Cardinality(Before(s, i)) \in Nat
  BY <1>4, FS_CardinalityType
<1>. QED
  BY <1>1, <1>4, <1>6, <1>7

\* A position that sorts before another has the smaller rank.
LEMMA RankIsMonotonic ==
    ASSUME NEW s \in Seq(Events), NEW i \in 1 .. Len(s), NEW j \in 1 .. Len(s),
           i # j, Precedes(s, i, j)
    PROVE  Cardinality(Before(s, i)) < Cardinality(Before(s, j))
<1>1. Before(s, i) \in SUBSET Before(s, j)
  BY PrecedesIsOrder DEF Before
<1>2. j \in Before(s, j) /\ j \notin Before(s, i)
  BY PrecedesIsOrder DEF Before
<1>3. Cardinality(Before(s, i)) <= Cardinality(Before(s, j))
  BY <1>1, RankInRange, FS_Subset
<1>4. Cardinality(Before(s, i)) # Cardinality(Before(s, j))
  BY <1>1, <1>2, RankInRange, FS_Subset
<1>5. Cardinality(Before(s, i)) \in Nat /\ Cardinality(Before(s, j)) \in Nat
  BY RankInRange, LenProperties
<1>. QED
  BY <1>3, <1>4, <1>5

\* Every rank between 1 and the length is taken.
LEMMA EveryRankTaken ==
    ASSUME NEW s \in Seq(Events), NEW k \in 1 .. Len(s)
    PROVE  \E i \in 1 .. Len(s) : Cardinality(Before(s, i)) = k
<1>. DEFINE n == Len(s)
            rank == [i \in 1 .. n |-> Cardinality(Before(s, i))]
<1>1. n \in Nat
  BY LenProperties
<1>2. rank \in [1 .. n -> 1 .. n]
  BY RankInRange
<1>3. \A i, j \in 1 .. n : rank[i] = rank[j] => i = j
  <2>. SUFFICES ASSUME NEW i \in 1 .. n, NEW j \in 1 .. n, i # j
               PROVE  Cardinality(Before(s, i)) # Cardinality(Before(s, j))
    OBVIOUS
  <2>1. Precedes(s, i, j) \/ Precedes(s, j, i)
    BY PrecedesIsOrder
  <2>2. Cardinality(Before(s, i)) \in Nat /\ Cardinality(Before(s, j)) \in Nat
    BY RankInRange, <1>1
  <2>. QED
    BY <2>1, <2>2, RankIsMonotonic
<1>4. rank \in Injection(1 .. n, 1 .. n)
  BY <1>2, <1>3 DEF Injection, IsInjective
<1>5. IsFiniteSet(1 .. n)
  BY <1>1, FS_Interval
<1>6. rank \in Surjection(1 .. n, 1 .. n)
  BY <1>4, <1>5, FS_Injection
<1>. QED
  BY <1>6 DEF Surjection

\* Where the event that sorts k-th stands in the drained sequence.
Origin(s, k) == CHOOSE i \in 1 .. Len(s) : Cardinality(Before(s, i)) = k

LEMMA OriginHasRank ==
    ASSUME NEW s \in Seq(Events), NEW k \in 1 .. Len(s)
    PROVE  /\ Origin(s, k) \in 1 .. Len(s)
           /\ Cardinality(Before(s, Origin(s, k))) = k
BY EveryRankTaken DEF Origin

LEMMA SortIsSeq ==
    ASSUME NEW s \in Seq(Events)
    PROVE  /\ SortByCreated(s) \in Seq(Events)
           /\ Len(SortByCreated(s)) = Len(s)
           /\ \A k \in 1 .. Len(s) : SortByCreated(s)[k] = s[Origin(s, k)]
<1>1. SortByCreated(s) = [k \in 1 .. Len(s) |-> s[Origin(s, k)]]
  BY DEF SortByCreated, Origin, Before
<1>2. Len(s) \in Nat
  BY LenProperties
<1>3. \A k \in 1 .. Len(s) : s[Origin(s, k)] \in Events
  BY OriginHasRank, ElementOfSeq
<1>4. SortByCreated(s) \in [1 .. Len(s) -> Events]
  BY <1>1, <1>3
<1>5. SortByCreated(s) \in Seq(Events)
  BY <1>2, <1>4, FunctionIsSeq
<1>6. DOMAIN SortByCreated(s) = 1 .. Len(s)
  BY <1>1
<1>7. Len(SortByCreated(s)) = Len(s)
  BY <1>2, <1>5, <1>6, LenProperties
<1>. QED
  BY <1>1, <1>5, <1>7

\* The sort of flush_next neither loses nor invents an event, and the batch it
\* returns is ordered by created_at.
THEOREM SortByCreatedSorts ==
    ASSUME NEW s \in Seq(Events)
    PROVE  LET t == SortByCreated(s)
           IN  /\ t \in Seq(Events)
               /\ Len(t) = Len(s)
               /\ Range(t) = Range(s)
               /\ \A k, l \in 1 .. Len(t) :
                     k <= l => CreatedAt[t[k]] <= CreatedAt[t[l]]
<1>. DEFINE t == SortByCreated(s)
<1>1. t \in Seq(Events) /\ Len(t) = Len(s)
  BY SortIsSeq
<1>2. Range(t) \subseteq Range(s)
  <2>. SUFFICES ASSUME NEW k \in 1 .. Len(s)
               PROVE  t[k] \in Range(s)
    BY <1>1, LenProperties DEF Range
  <2>1. t[k] = s[Origin(s, k)] /\ Origin(s, k) \in 1 .. Len(s)
    BY SortIsSeq, OriginHasRank
  <2>. QED
    BY <2>1, LenProperties DEF Range
<1>3. Range(s) \subseteq Range(t)
  <2>. SUFFICES ASSUME NEW i \in 1 .. Len(s)
               PROVE  s[i] \in Range(t)
    BY LenProperties DEF Range
  <2>. DEFINE k == Cardinality(Before(s, i))
  <2>1. k \in 1 .. Len(s) /\ Len(s) \in Nat
    BY RankInRange, LenProperties
  <2>2. Origin(s, k) \in 1 .. Len(s) /\ Cardinality(Before(s, Origin(s, k))) = k
    BY <2>1, OriginHasRank
  <2>3. Origin(s, k) = i
    <3>1. Precedes(s, i, Origin(s, k)) \/ Precedes(s, Origin(s, k), i)
      BY <2>2, PrecedesIsOrder
    <3>. QED
      BY <2>1, <2>2, <3>1, RankIsMonotonic
  <2>4. t[k] = s[i]
    BY <2>1, <2>3, SortIsSeq
  <2>. QED
    BY <1>1, <2>1, <2>4, LenProperties DEF Range
<1>4. ASSUME NEW k \in 1 .. Len(t), NEW l \in 1 .. Len(t), k <= l
      PROVE  CreatedAt[t[k]] <= CreatedAt[t[l]]
  <2>. DEFINE i == Origin(s, k)
              j == Origin(s, l)
  <2>1. /\ i \in 1 .. Len(s) /\ Cardinality(Before(s, i)) = k
        /\ j \in 1 .. Len(s) /\ Cardinality(Before(s, j)) = l
    BY <1>1, OriginHasRank
  <2>2. t[k] = s[i] /\ t[l] = s[j]
    BY <1>1, SortIsSeq
  <2>3. CreatedAt[s[i]] \in Nat /\ CreatedAt[s[j]] \in Nat /\ Len(s) \in Nat
    BY <2>1, PrecedesIsOrder, LenProperties
  <2>4. CASE i = j
    BY <2>2, <2>3, <2>4
  <2>5. CASE i # j
    <3>1. ~Precedes(s, j, i)
      BY <1>1, <1>4, <2>1, <2>3, <2>5, RankIsMonotonic
    <3>. QED
      BY <2>1, <2>2, <2>3, <3>1 DEF Precedes
  <2>. QED
    BY <2>4, <2>5
<1>. QED
  BY <1>1, <1>2, <1>3, <1>4

-----------------------------------------------------------------------------
\* The sequences the operators build are sequences of events.
LEMMA TrimBackType ==
    ASSUME NEW s \in Seq(Events)
    PROVE  TrimBack(s) \in Seq(Events)
<1>1. Len(s) > MaxPending => \A i \in 1 .. MaxPending : s[i] \in Events
  BY LenProperties, QueueConstants
<1>. QED
  BY <1>1, SubSeqProperties, QueueConstants DEF TrimBack

LEMMA TrimConcatType ==
    ASSUME NEW s \in Seq(Events), NEW t \in Seq(Events)
    PROVE  TrimBack(s \o t) \in Seq(Events)
BY ConcatProperties, TrimBackType

LEMMA WithoutType ==
    ASSUME NEW s \in Seq(Events), NEW e
    PROVE  Without(s, e) \in Seq(Events)
<1>1. CASE e \notin Range(s)
  BY <1>1 DEF Without
<1>2. CASE e \in Range(s)
  <2>. DEFINE i == CHOOSE k \in DOMAIN s : s[k] = e
  <2>1. DOMAIN s = 1 .. Len(s) /\ Len(s) \in Nat
    BY LenProperties
  <2>2. i \in 1 .. Len(s)
    BY <1>2, <2>1 DEF Range
  <2>. HIDE DEF i
  <2>3. /\ \A k \in 1 .. i - 1 : s[k] \in Events
        /\ \A k \in i + 1 .. Len(s) : s[k] \in Events
    BY <2>1, <2>2, ElementOfSeq
  <2>4. /\ SubSeq(s, 1, i - 1) \in Seq(Events)
        /\ SubSeq(s, i + 1, Len(s)) \in Seq(Events)
    BY <2>1, <2>2, <2>3, SubSeqProperties
  <2>5. SubSeq(s, 1, i - 1) \o SubSeq(s, i + 1, Len(s)) \in Seq(Events)
    BY <2>4, ConcatProperties
  <2>. QED
    BY <1>2, <2>5 DEF Without, i
<1>. QED
  BY <1>1, <1>2

\* The part of the queue that flush_next drains and the part it leaves.
LEMMA DrainType ==
    ASSUME NEW r \in ChannelState
    PROVE  /\ SubSeq(r.pending, 1, DrainCount(r)) \in Seq(Events)
           /\ SubSeq(r.pending, DrainCount(r) + 1, Len(r.pending)) \in Seq(Events)
<1>1. r.pending \in Seq(Events)
  BY DEF ChannelState
<1>2. /\ Len(r.pending) \in Nat
      /\ \A i \in 1 .. Len(r.pending) : r.pending[i] \in Events
  BY <1>1, LenProperties, ElementOfSeq
<1>3. DrainCount(r) \in 0 .. Len(r.pending)
  BY <1>2, QueueConstants DEF DrainCount
<1>. QED
  BY <1>2, <1>3, SubSeqProperties

Batches == [events : Seq(Events), merged : Seq(Events)]

\* The batches that flush_next hands to a task carry events.
LEMMA BatchType ==
    ASSUME NEW r \in ChannelState
    PROVE  QueuedBatch(r) \in Batches /\ CancelledBatch(r) \in Batches
<1>1. SortByCreated(SubSeq(r.pending, 1, DrainCount(r))) \in Seq(Events)
  BY DrainType, SortIsSeq
<1>2. r.cancelled \in Seq(Events) /\ <<>> \in Seq(Events)
  BY EmptySeq DEF ChannelState
<1>. QED
  BY <1>1, <1>2 DEF QueuedBatch, CancelledBatch, Batches

-----------------------------------------------------------------------------
(* Each method keeps the channel state well formed.                        *)

LEMMA NoRetries == 0 \in 0 .. MaxRetries
BY QueueConstants

LEMMA EmptyChannelType == EmptyChannel \in ChannelState
BY EmptySeq, QueueConstants DEF EmptyChannel, ChannelState

LEMMA PushType ==
    ASSUME NEW r \in ChannelState, NEW e \in Events
    PROVE  Push(r, e) \in ChannelState
<1>. DEFINE room == IF Len(r.pending) >= MaxPending
                    THEN Tail(r.pending) ELSE r.pending
<1>1. r.pending \in Seq(Events)
  BY DEF ChannelState
<1>2. room \in Seq(Events)
  <2>1. Len(r.pending) >= MaxPending => r.pending # <<>>
    BY <1>1, EmptySeq, QueueConstants
  <2>. QED
    BY <1>1, <2>1, HeadTailProperties
<1>3. Append(room, e) \in Seq(Events)
  BY <1>2, AppendProperties
<1>. QED
  BY <1>3 DEF Push, ChannelState

LEMMA ExpireType ==
    ASSUME NEW r \in ChannelState
    PROVE  Expire(r) \in ChannelState
<1>1. TrimBack(r.withheld \o r.pending) \in Seq(Events)
  BY TrimConcatType DEF ChannelState
<1>. QED
  BY <1>1, EmptySeq DEF Expire, ChannelState

LEMMA ExtendDeadlineType ==
    ASSUME NEW r \in ChannelState
    PROVE  ExtendDeadline(r) \in ChannelState
BY DEF ExtendDeadline, ChannelState

LEMMA FlushType ==
    ASSUME NEW r \in ChannelState
    PROVE  FlushQueued(r) \in ChannelState /\ FlushCancelled(r) \in ChannelState
BY DrainType, EmptySeq
   DEF FlushQueued, FlushCancelled, StartFlight, ChannelState

LEMMA MarkCompleteType ==
    ASSUME NEW r \in ChannelState
    PROVE  MarkComplete(r) \in ChannelState
BY NoRetries DEF MarkComplete, ChannelState

LEMMA RequeueType ==
    ASSUME NEW r \in ChannelState, NEW b \in Batches
    PROVE  Requeue(r, b) \in ChannelState
<1>1. TrimBack(b.events \o r.pending) \in Seq(Events)
  BY TrimConcatType DEF ChannelState, Batches
<1>2. ~RetriesSpent(r) => r.retryCount + 1 \in 0 .. MaxRetries
  BY QueueConstants DEF RetriesSpent, ChannelState
<1>. QED
  BY <1>1, <1>2, NoRetries DEF Requeue, ChannelState

LEMMA RequeuePreserveType ==
    ASSUME NEW r \in ChannelState, NEW b \in Batches
    PROVE  RequeuePreserve(r, b) \in ChannelState
<1>1. TrimBack(b.events \o r.pending) \in Seq(Events)
  BY TrimConcatType DEF ChannelState, Batches
<1>. QED
  BY <1>1 DEF RequeuePreserve, ChannelState

LEMMA RequeueAsCancelledType ==
    ASSUME NEW r \in ChannelState, NEW b \in Batches, NEW reason \in CancelReasons
    PROVE  RequeueAsCancelled(r, b, reason) \in ChannelState
<1>1. r.cancelled \o b.merged \o b.events \in Seq(Events)
  BY ConcatProperties DEF ChannelState, Batches
<1>. QED
  BY <1>1 DEF RequeueAsCancelled, ChannelState

LEMMA DrainChannelType ==
    ASSUME NEW r \in ChannelState
    PROVE  DrainChannel(r) \in ChannelState
BY EmptyChannelType DEF DrainChannel, ChannelState

LEMMA WithholdType ==
    ASSUME NEW r \in ChannelState, NEW e \in Events
    PROVE  Withhold(r, e) \in ChannelState
<1>1. /\ Without(r.pending, e) \in Seq(Events)
      /\ Append(r.withheld, e) \in Seq(Events)
  BY WithoutType, AppendProperties DEF ChannelState
<1>. QED
  BY <1>1 DEF Withhold, ChannelState

LEMMA ReleaseType ==
    ASSUME NEW r \in ChannelState, NEW e \in Events
    PROVE  Release(r, e) \in ChannelState
<1>1. <<e>> \in Seq(Events)
  OBVIOUS
<1>2. /\ Without(r.withheld, e) \in Seq(Events)
      /\ TrimBack(<<e>> \o r.pending) \in Seq(Events)
  BY <1>1, WithoutType, TrimConcatType DEF ChannelState
<1>. QED
  BY <1>2 DEF Release, ChannelState

LEMMA RemoveEventType ==
    ASSUME NEW r \in ChannelState, NEW e
    PROVE  RemoveEvent(r, e) \in ChannelState
<1>1. /\ Without(r.withheld, e) \in Seq(Events)
      /\ Without(r.pending, e) \in Seq(Events)
  BY WithoutType DEF ChannelState
<1>. QED
  BY <1>1 DEF RemoveEvent, ChannelState

LEMMA CompactType ==
    ASSUME NEW r \in ChannelState
    PROVE  Compact(r) \in ChannelState
BY NoRetries DEF Compact, ChannelState

-----------------------------------------------------------------------------
(* What the methods remove for good are events.                            *)

LEMMA TrimmedAreEvents ==
    ASSUME NEW s \in Seq(Events), NEW t \in Seq(Events)
    PROVE  Trimmed(s \o t) \subseteq Events
BY ConcatProperties, RangeOfEvents DEF Trimmed

LEMMA EvictedAreEvents ==
    ASSUME NEW r \in ChannelState, NEW e \in Events
    PROVE  /\ PushEvicts(r) \subseteq Events
           /\ ExpireEvicts(r) \subseteq Events
           /\ ReleaseEvicts(r, e) \subseteq Events
           /\ Drained(r) \subseteq Events
<1>1. /\ r.pending \in Seq(Events) /\ r.withheld \in Seq(Events)
      /\ r.cancelled \in Seq(Events) /\ <<e>> \in Seq(Events)
  BY DEF ChannelState
<1>2. PushEvicts(r) \subseteq Events
  <2>1. Len(r.pending) >= MaxPending => r.pending # <<>>
    BY <1>1, EmptySeq, QueueConstants
  <2>. QED
    BY <1>1, <2>1, HeadTailProperties DEF PushEvicts
<1>3. ExpireEvicts(r) \subseteq Events /\ ReleaseEvicts(r, e) \subseteq Events
  BY <1>1, TrimmedAreEvents DEF ExpireEvicts, ReleaseEvicts
<1>4. Drained(r) \subseteq Events
  BY <1>1, RangeOfEvents DEF Drained
<1>. QED
  BY <1>2, <1>3, <1>4

-----------------------------------------------------------------------------
(* The in-flight marks.                                                    *)

\* in_flight_channels and in_flight_deadlines agree on a channel.
MarksAgree(r) == r.inFlight <=> r.deadline # "none"

SameMarks(r, t) == t.inFlight = r.inFlight /\ t.deadline = r.deadline

\* Only a flush, a completion, an expiry and a deadline extension touch them.
LEMMA MarksKept ==
    ASSUME NEW r \in ChannelState, NEW e, NEW b, NEW reason
    PROVE  /\ SameMarks(r, Push(r, e))
           /\ SameMarks(r, Withhold(r, e))
           /\ SameMarks(r, Release(r, e))
           /\ SameMarks(r, RemoveEvent(r, e))
           /\ SameMarks(r, DrainChannel(r))
           /\ SameMarks(r, Compact(r))
           /\ SameMarks(r, Requeue(r, b))
           /\ SameMarks(r, RequeuePreserve(r, b))
           /\ SameMarks(r, RequeueAsCancelled(r, b, reason))
<1>1. SameMarks(r, Push(r, e))
  BY DEF SameMarks, Push, ChannelState
<1>2. SameMarks(r, Withhold(r, e))
  BY DEF SameMarks, Withhold, ChannelState
<1>3. SameMarks(r, Release(r, e))
  BY DEF SameMarks, Release, ChannelState
<1>4. SameMarks(r, RemoveEvent(r, e))
  BY DEF SameMarks, RemoveEvent, ChannelState
<1>5. SameMarks(r, DrainChannel(r))
  BY DEF SameMarks, DrainChannel, EmptyChannel, ChannelState
<1>6. SameMarks(r, Compact(r))
  BY DEF SameMarks, Compact, ChannelState
<1>7. SameMarks(r, Requeue(r, b)) /\ SameMarks(r, RequeuePreserve(r, b))
  BY DEF SameMarks, Requeue, RequeuePreserve, ChannelState
<1>8. SameMarks(r, RequeueAsCancelled(r, b, reason))
  BY DEF SameMarks, RequeueAsCancelled, ChannelState
<1>. QED
  BY <1>1, <1>2, <1>3, <1>4, <1>5, <1>6, <1>7, <1>8

LEMMA MarksChanged ==
    ASSUME NEW r \in ChannelState
    PROVE  /\ MarksAgree(MarkComplete(r)) /\ ~MarkComplete(r).inFlight
           /\ MarkComplete(r).deadline = "none"
           /\ MarksAgree(r) => MarksAgree(Expire(r))
           /\ r.deadline # "passed" => Expire(r) = r
           /\ Expire(r).deadline # "passed"
           /\ MarksAgree(r) => MarksAgree(ExtendDeadline(r))
           /\ ExtendDeadline(r).inFlight = r.inFlight
           /\ ExtendDeadline(r).deadline # "passed"
<1>1. MarksAgree(MarkComplete(r)) /\ ~MarkComplete(r).inFlight
      /\ MarkComplete(r).deadline = "none"
  BY DEF MarksAgree, MarkComplete, ChannelState
<1>2. /\ MarksAgree(r) => MarksAgree(Expire(r))
      /\ r.deadline # "passed" => Expire(r) = r
      /\ Expire(r).deadline # "passed"
  BY DEF MarksAgree, Expire, ChannelState
<1>3. /\ MarksAgree(r) => MarksAgree(ExtendDeadline(r))
      /\ ExtendDeadline(r).inFlight = r.inFlight
      /\ ExtendDeadline(r).deadline # "passed"
  BY DEF MarksAgree, ExtendDeadline, ChannelState
<1>. QED
  BY <1>1, <1>2, <1>3

-----------------------------------------------------------------------------
(* Sequences without repetitions.  Every operation on a sequence is read   *)
(* as a concatenation or as a cut of one.                                  *)

Distinct(s) == \A i, j \in DOMAIN s : s[i] = s[j] => i = j

LEMMA InRange ==
    ASSUME NEW S, NEW s \in Seq(S), NEW x
    PROVE  x \in Range(s) <=> \E i \in 1 .. Len(s) : s[i] = x
BY LenProperties DEF Range

LEMMA DistinctConcat ==
    ASSUME NEW S, NEW s \in Seq(S), NEW t \in Seq(S)
    PROVE  Distinct(s \o t) <=> /\ Distinct(s) /\ Distinct(t)
                                /\ Range(s) \cap Range(t) = {}
<1>. DEFINE u == s \o t
            m == Len(s)
            n == Len(t)
<1>1. /\ m \in Nat /\ DOMAIN s = 1 .. m
      /\ n \in Nat /\ DOMAIN t = 1 .. n
      /\ DOMAIN u = 1 .. m + n
  BY LenProperties, ConcatProperties
<1>2. /\ \A i \in 1 .. m : i \in 1 .. m + n /\ u[i] = s[i]
      /\ \A i \in 1 .. n : m + i \in 1 .. m + n /\ u[m + i] = t[i]
  <2>1. \A i \in 1 .. m + n : u[i] = IF i <= m THEN s[i] ELSE t[i - m]
    BY ConcatProperties
  <2>2. \A i \in 1 .. m : i \in 1 .. m + n /\ i <= m
    BY <1>1
  <2>3. \A i \in 1 .. n : m + i \in 1 .. m + n /\ ~(m + i <= m) /\ (m + i) - m = i
    BY <1>1
  <2>. HIDE DEF u, m, n
  <2>. QED
    BY <2>1, <2>2, <2>3
<1>3. \A i \in 1 .. m + n : i \in 1 .. m \/ \E j \in 1 .. n : i = m + j
  <2>. HIDE DEF m, n
  <2>. SUFFICES ASSUME NEW i \in 1 .. m + n, i \notin 1 .. m
                PROVE  \E j \in 1 .. n : i = m + j
    OBVIOUS
  <2>1. i - m \in 1 .. n /\ i = m + (i - m)
    BY <1>1
  <2>. QED
    BY <2>1
<1>4. /\ \A x : x \in Range(s) <=> \E i \in 1 .. m : s[i] = x
      /\ \A x : x \in Range(t) <=> \E i \in 1 .. n : t[i] = x
  BY InRange
<1>. HIDE DEF u, m, n
<1>5. ASSUME Distinct(u)
      PROVE  Distinct(s) /\ Distinct(t) /\ Range(s) \cap Range(t) = {}
  <2>1. Distinct(s)
    BY <1>1, <1>2, <1>5 DEF Distinct
  <2>2. Distinct(t)
    <3>. SUFFICES ASSUME NEW i \in 1 .. n, NEW j \in 1 .. n, t[i] = t[j] PROVE i = j
      BY <1>1 DEF Distinct
    <3>1. m + i = m + j
      BY <1>1, <1>2, <1>5 DEF Distinct
    <3>. QED
      BY <1>1, <3>1
  <2>3. ASSUME NEW x \in Range(s), x \in Range(t)
        PROVE  FALSE
    <3>1. PICK i \in 1 .. m : s[i] = x
      BY <1>4
    <3>2. PICK j \in 1 .. n : t[j] = x
      BY <1>4, <2>3
    <3>3. i = m + j
      BY <1>1, <1>2, <1>5, <3>1, <3>2 DEF Distinct
    <3>. QED
      BY <1>1, <3>3
  <2>. QED
    BY <2>1, <2>2, <2>3
<1>6. ASSUME Distinct(s), Distinct(t), Range(s) \cap Range(t) = {}
      PROVE  Distinct(u)
  <2>. SUFFICES ASSUME NEW i \in 1 .. m + n, NEW j \in 1 .. m + n, u[i] = u[j]
                PROVE  i = j
    BY <1>1 DEF Distinct
  <2>1. CASE i \in 1 .. m /\ j \in 1 .. m
    BY <1>1, <1>2, <1>6, <2>1 DEF Distinct
  <2>2. ASSUME NEW k \in 1 .. n, NEW l \in 1 .. n, i = m + k, j = m + l
        PROVE  i = j
    BY <1>1, <1>2, <1>6, <2>2 DEF Distinct
  <2>3. ASSUME NEW k \in 1 .. n, j = m + k, i \in 1 .. m
        PROVE  FALSE
    <3>1. s[i] = t[k]
      BY <1>2, <2>3
    <3>2. s[i] \in Range(s) /\ t[k] \in Range(t)
      BY <1>4, <2>3
    <3>. QED
      BY <1>6, <3>1, <3>2
  <2>4. ASSUME NEW k \in 1 .. n, i = m + k, j \in 1 .. m
        PROVE  FALSE
    <3>1. s[j] = t[k]
      BY <1>2, <2>4
    <3>2. s[j] \in Range(s) /\ t[k] \in Range(t)
      BY <1>4, <2>4
    <3>. QED
      BY <1>6, <3>1, <3>2
  <2>. QED
    BY <1>3, <2>1, <2>2, <2>3, <2>4
<1>. QED
  BY <1>5, <1>6 DEF u

LEMMA SingletonRange ==
    ASSUME NEW S, NEW e \in S
    PROVE  <<e>> \in Seq(S) /\ Range(<<e>>) = {e} /\ Distinct(<<e>>)
<1>1. <<e>> \in Seq(S) /\ Len(<<e>>) = 1 /\ <<e>>[1] = e
  OBVIOUS
<1>2. DOMAIN <<e>> = 1 .. 1
  BY <1>1, LenProperties
<1>3. \A i \in 1 .. 1 : i = 1
  OBVIOUS
<1>. QED
  BY <1>1, <1>2, <1>3 DEF Range, Distinct

LEMMA EmptyRange == Range(<<>>) = {} /\ Distinct(<<>>)
BY DEF Range, Distinct

\* Append(s, e): the new event goes to the back.
LEMMA AppendContents ==
    ASSUME NEW S, NEW s \in Seq(S), NEW e \in S
    PROVE  /\ Range(Append(s, e)) = Range(s) \cup {e}
           /\ Distinct(s) /\ e \notin Range(s) => Distinct(Append(s, e))
<1>. DEFINE last == <<e>>
<1>1. Append(s, e) = s \o last
  BY AppendIsConcat
<1>2. last \in Seq(S) /\ Range(last) = {e} /\ Distinct(last)
  BY SingletonRange
<1>. HIDE DEF last
<1>3. Range(s \o last) = Range(s) \cup {e}
  BY <1>2, RangeConcatenation
<1>4. Distinct(s) /\ e \notin Range(s) => Distinct(s \o last)
  BY <1>2, DistinctConcat
<1>. QED
  BY <1>1, <1>3, <1>4

\* A cut: the first n events and the rest.
LEMMA CutContents ==
    ASSUME NEW S, NEW s \in Seq(S), NEW n \in 0 .. Len(s)
    PROVE  LET a == SubSeq(s, 1, n)
               b == SubSeq(s, n + 1, Len(s))
           IN  /\ a \in Seq(S) /\ b \in Seq(S)
               /\ s = a \o b
               /\ Range(s) = Range(a) \cup Range(b)
               /\ Distinct(s) => /\ Distinct(a) /\ Distinct(b)
                                 /\ Range(a) \cap Range(b) = {}
<1>. DEFINE a == SubSeq(s, 1, n)
            b == SubSeq(s, n + 1, Len(s))
<1>1. Len(s) \in Nat /\ \A i \in 1 .. Len(s) : s[i] \in S
  BY LenProperties, ElementOfSeq
<1>2. /\ n \in Int /\ n + 1 \in Int /\ Len(s) \in Int
      /\ \A i \in 1 .. n : i \in 1 .. Len(s)
      /\ \A i \in n + 1 .. Len(s) : i \in 1 .. Len(s)
  BY <1>1
<1>3. a \in Seq(S) /\ b \in Seq(S)
  BY <1>1, <1>2, SubSeqProperties
<1>4. /\ 1 \in 1 .. Len(s) + 1 /\ n \in 1 - 1 .. Len(s) /\ Len(s) \in n .. Len(s)
  BY <1>1
<1>5. a \o b = SubSeq(s, 1, Len(s))
  BY <1>4, ConcatAdjacentSubSeq
<1>6. s = a \o b
  BY <1>5, SubSeqFull
<1>. HIDE DEF a, b
<1>7. Range(s) = Range(a) \cup Range(b)
  BY <1>3, <1>6, RangeConcatenation
<1>8. Distinct(s) => Distinct(a) /\ Distinct(b) /\ Range(a) \cap Range(b) = {}
  BY <1>3, <1>6, DistinctConcat
<1>. QED
  BY <1>3, <1>6, <1>7, <1>8 DEF a, b

\* Taking the head off.
LEMMA TailContents ==
    ASSUME NEW S, NEW s \in Seq(S), s # <<>>
    PROVE  /\ Tail(s) \in Seq(S)
           /\ Range(s) = {Head(s)} \cup Range(Tail(s))
           /\ Distinct(s) => Distinct(Tail(s)) /\ Head(s) \notin Range(Tail(s))
<1>. DEFINE a == SubSeq(s, 1, 1)
            b == SubSeq(s, 1 + 1, Len(s))
<1>1. Len(s) \in Nat \ {0} /\ s[1] = Head(s) /\ s[1] \in S
  BY EmptySeq, ElementOfSeq
<1>2. Tail(s) = b
  BY TailIsSubSeq
<1>3. 1 \in 0 .. Len(s)
  BY <1>1
<1>4. /\ a \in Seq(S) /\ b \in Seq(S)
      /\ Range(s) = Range(a) \cup Range(b)
      /\ Distinct(s) => Distinct(b) /\ Range(a) \cap Range(b) = {}
  BY <1>3, CutContents
<1>5. Range(a) = {Head(s)}
  <2>1. Len(a) = 1 /\ a[1] = s[1]
    <3>1. 1 \in Int /\ \A i \in 1 .. 1 : s[i] \in S
      BY <1>1
    <3>. QED
      BY <3>1, SubSeqProperties
  <2>2. \A i \in 1 .. 1 : i = 1
    OBVIOUS
  <2>3. \A x : x \in Range(a) <=> \E i \in 1 .. Len(a) : a[i] = x
    BY <1>4, InRange
  <2>. HIDE DEF a
  <2>. QED
    BY <1>1, <2>1, <2>2, <2>3
<1>. HIDE DEF a, b
<1>. QED
  BY <1>2, <1>4, <1>5

\* Removing one occurrence of an event.
LEMMA WithoutContents ==
    ASSUME NEW S, NEW s \in Seq(S), NEW e
    PROVE  /\ Range(s) \ {e} \subseteq Range(Without(s, e))
           /\ Range(Without(s, e)) \subseteq Range(s)
           /\ Distinct(s) => /\ Distinct(Without(s, e))
                             /\ e \notin Range(Without(s, e))
<1>1. CASE e \notin Range(s)
  BY <1>1 DEF Without
<1>2. CASE e \in Range(s)
  <2>. DEFINE i == CHOOSE k \in DOMAIN s : s[k] = e
              a == SubSeq(s, 1, i - 1)
              b == SubSeq(s, i, Len(s))
              d == SubSeq(s, i + 1, Len(s))
  <2>1. Len(s) \in Nat /\ DOMAIN s = 1 .. Len(s)
    BY LenProperties
  <2>2. i \in 1 .. Len(s) /\ s[i] = e
    BY <1>2, <2>1 DEF Range
  <2>3. Without(s, e) = a \o d
    BY <1>2 DEF Without
  <2>. HIDE DEF i
  <2>4. i - 1 \in 0 .. Len(s) /\ (i - 1) + 1 = i /\ i \in 0 .. Len(s) /\ Len(s) \in i .. Len(s)
    BY <2>1, <2>2
  <2>5. /\ a \in Seq(S) /\ SubSeq(s, (i - 1) + 1, Len(s)) \in Seq(S)
        /\ Range(s) = Range(a) \cup Range(SubSeq(s, (i - 1) + 1, Len(s)))
        /\ Distinct(s) => /\ Distinct(a) /\ Distinct(SubSeq(s, (i - 1) + 1, Len(s)))
                          /\ Range(a) \cap Range(SubSeq(s, (i - 1) + 1, Len(s))) = {}
    BY <2>4, CutContents
  <2>6. /\ a \in Seq(S) /\ b \in Seq(S)
        /\ Range(s) = Range(a) \cup Range(b)
        /\ Distinct(s) => Distinct(a) /\ Distinct(b) /\ Range(a) \cap Range(b) = {}
    BY <2>4, <2>5
  <2>7. d \in Seq(S)
    BY <2>4, CutContents
  <2>8. b = <<s[i]>> \o d
    BY <2>2, <2>4, SubSeqRecursiveFirst
  <2>. DEFINE one == <<s[i]>>
  <2>9. one \in Seq(S) /\ Range(one) = {e}
    BY <2>2, ElementOfSeq, SingletonRange
  <2>10. b = one \o d
    BY <2>8
  <2>. HIDE DEF one, a, b, d
  <2>11. /\ Range(b) = {e} \cup Range(d)
         /\ Distinct(b) => Distinct(d) /\ {e} \cap Range(d) = {}
    BY <2>7, <2>9, <2>10, RangeConcatenation, DistinctConcat
  <2>12. /\ Range(a \o d) = Range(a) \cup Range(d)
         /\ Distinct(a) /\ Distinct(d) /\ Range(a) \cap Range(d) = {} => Distinct(a \o d)
    BY <2>6, <2>7, RangeConcatenation, DistinctConcat
  <2>. QED
    BY <2>3, <2>6, <2>11, <2>12
<1>. QED
  BY <1>1, <1>2

\* Trimming at the cap: what stays and what is discarded.
LEMMA TrimContents ==
    ASSUME NEW s \in Seq(Events)
    PROVE  /\ Range(TrimBack(s)) \cup Trimmed(s) = Range(s)
           /\ Range(TrimBack(s)) \cap Trimmed(s) = {}
           /\ Distinct(s) => Distinct(TrimBack(s))
<1>1. Range(TrimBack(s)) \subseteq Range(s) /\ (Distinct(s) => Distinct(TrimBack(s)))
  <2>1. CASE Len(s) > MaxPending
    <3>1. MaxPending \in 0 .. Len(s)
      BY <2>1, LenProperties, QueueConstants
    <3>. DEFINE a == SubSeq(s, 1, MaxPending)
                b == SubSeq(s, MaxPending + 1, Len(s))
    <3>2. /\ Range(s) = Range(a) \cup Range(b)
          /\ Distinct(s) => Distinct(a)
      BY <3>1, CutContents
    <3>3. TrimBack(s) = a
      BY <2>1 DEF TrimBack
    <3>. HIDE DEF a, b
    <3>. QED
      BY <3>2, <3>3
  <2>2. CASE ~(Len(s) > MaxPending)
    BY <2>2 DEF TrimBack
  <2>. QED
    BY <2>1, <2>2
<1>. QED
  BY <1>1 DEF Trimmed

\* Events put in front of a queue, then trimmed at the cap.
LEMMA FrontContents ==
    ASSUME NEW s \in Seq(Events), NEW t \in Seq(Events)
    PROVE  /\ Range(TrimBack(s \o t)) \cup Trimmed(s \o t) = Range(s) \cup Range(t)
           /\ Range(TrimBack(s \o t)) \cap Trimmed(s \o t) = {}
           /\ Distinct(s) /\ Distinct(t) /\ Range(s) \cap Range(t) = {}
                => Distinct(TrimBack(s \o t))
<1>. DEFINE u == s \o t
<1>1. /\ u \in Seq(Events) /\ Range(u) = Range(s) \cup Range(t)
      /\ Distinct(s) /\ Distinct(t) /\ Range(s) \cap Range(t) = {} => Distinct(u)
  BY ConcatProperties, RangeConcatenation, DistinctConcat
<1>. HIDE DEF u
<1>2. /\ Range(TrimBack(u)) \cup Trimmed(u) = Range(u)
      /\ Range(TrimBack(u)) \cap Trimmed(u) = {}
      /\ Distinct(u) => Distinct(TrimBack(u))
  BY <1>1, TrimContents
<1>. QED
  BY <1>1, <1>2 DEF u

\* The sort of flush_next permutes the drained events.
LEMMA SortContents ==
    ASSUME NEW s \in Seq(Events)
    PROVE  /\ Range(SortByCreated(s)) = Range(s)
           /\ Distinct(s) => Distinct(SortByCreated(s))
<1>. DEFINE t == SortByCreated(s)
<1>1. /\ t \in Seq(Events) /\ Len(t) = Len(s) /\ DOMAIN s = 1 .. Len(s)
      /\ \A k \in 1 .. Len(s) : t[k] = s[Origin(s, k)]
  BY SortIsSeq, LenProperties
<1>2. DOMAIN t = 1 .. Len(s)
  BY <1>1, LenProperties
<1>3. \A k \in 1 .. Len(s) : /\ Origin(s, k) \in 1 .. Len(s)
                             /\ Cardinality(Before(s, Origin(s, k))) = k
  BY OriginHasRank
<1>. HIDE DEF t
<1>4. Distinct(s) => Distinct(t)
  BY <1>1, <1>2, <1>3 DEF Distinct
<1>. QED
  BY <1>4, SortByCreatedSorts DEF t

-----------------------------------------------------------------------------
(* Where the events of a channel go.  Each method accounts for every event *)
(* the channel held or was given, and keeps the tables apart.              *)

\* No table of a channel holds an event twice and no two hold the same one.
Apart(r) ==
    /\ Distinct(r.pending) /\ Distinct(r.cancelled) /\ Distinct(r.withheld)
    /\ Range(r.pending) \cap Range(r.cancelled) = {}
    /\ Range(r.pending) \cap Range(r.withheld) = {}
    /\ Range(r.cancelled) \cap Range(r.withheld) = {}

LEMMA TablesType ==
    ASSUME NEW r \in ChannelState
    PROVE  /\ r.pending \in Seq(Events) /\ r.cancelled \in Seq(Events)
           /\ r.withheld \in Seq(Events)
BY DEF ChannelState

LEMMA ApartIsDistinct ==
    ASSUME NEW r \in ChannelState
    PROVE  Apart(r) <=> Distinct(r.pending \o r.cancelled \o r.withheld)
<1>. DEFINE p == r.pending
            x == r.cancelled
            w == r.withheld
            px == p \o x
<1>1. p \in Seq(Events) /\ x \in Seq(Events) /\ w \in Seq(Events)
  BY TablesType
<1>. HIDE DEF p, x, w
<1>2. /\ px \in Seq(Events) /\ Range(px) = Range(p) \cup Range(x)
      /\ Distinct(px) <=> Distinct(p) /\ Distinct(x) /\ Range(p) \cap Range(x) = {}
  BY <1>1, ConcatProperties, RangeConcatenation, DistinctConcat
<1>. HIDE DEF px
<1>3. Distinct(px \o w) <=> Distinct(px) /\ Distinct(w) /\ Range(px) \cap Range(w) = {}
  BY <1>1, <1>2, DistinctConcat
<1>4. Distinct(px \o w) <=> /\ Distinct(p) /\ Distinct(x) /\ Distinct(w)
                            /\ Range(p) \cap Range(x) = {}
                            /\ Range(p) \cap Range(w) = {}
                            /\ Range(x) \cap Range(w) = {}
  BY <1>2, <1>3
<1>. QED
  BY <1>4 DEF Apart, p, x, w, px

\* The tables of a channel, for the methods that leave them alone.
SameTables(r, t) ==
    t.pending = r.pending /\ t.cancelled = r.cancelled /\ t.withheld = r.withheld

LEMMA SameTablesFollow ==
    ASSUME NEW r, NEW t, SameTables(r, t)
    PROVE  Drained(t) = Drained(r) /\ (Apart(r) => Apart(t))
BY DEF SameTables, Drained, Apart

LEMMA TablesKept ==
    ASSUME NEW r \in ChannelState
    PROVE  /\ SameTables(r, ExtendDeadline(r))
           /\ SameTables(r, MarkComplete(r))
           /\ SameTables(r, Compact(r))
           /\ r.deadline # "passed" => SameTables(r, Expire(r))
           /\ SameTables(r, [r EXCEPT !.retryAfter = "past"])
           /\ SameTables(r, [r EXCEPT !.deadline = "passed"])
<1>1. SameTables(r, ExtendDeadline(r))
  BY DEF SameTables, ExtendDeadline, ChannelState
<1>2. SameTables(r, MarkComplete(r))
  BY DEF SameTables, MarkComplete, ChannelState
<1>3. SameTables(r, Compact(r))
  BY DEF SameTables, Compact, ChannelState
<1>4. r.deadline # "passed" => SameTables(r, Expire(r))
  BY DEF SameTables, Expire
<1>5. SameTables(r, [r EXCEPT !.retryAfter = "past"])
  BY DEF SameTables, ChannelState
<1>6. SameTables(r, [r EXCEPT !.deadline = "passed"])
  BY DEF SameTables, ChannelState
<1>. QED
  BY <1>1, <1>2, <1>3, <1>4, <1>5, <1>6

LEMMA EmptyContents == Drained(EmptyChannel) = {} /\ Apart(EmptyChannel)
<1>1. /\ EmptyChannel.pending = <<>> /\ EmptyChannel.cancelled = <<>>
      /\ EmptyChannel.withheld = <<>>
  BY DEF EmptyChannel
<1>. QED
  BY <1>1, EmptyRange DEF Drained, Apart

LEMMA DrainContents ==
    ASSUME NEW r \in ChannelState
    PROVE  Drained(DrainChannel(r)) = {} /\ Apart(DrainChannel(r))
<1>1. /\ DrainChannel(r).pending = <<>> /\ DrainChannel(r).cancelled = <<>>
      /\ DrainChannel(r).withheld = <<>>
  BY DEF DrainChannel, EmptyChannel
<1>. QED
  BY <1>1, EmptyRange DEF Drained, Apart

LEMMA PushContents ==
    ASSUME NEW r \in ChannelState, NEW e \in Events
    PROVE  /\ Push(r, e).cancelled = r.cancelled /\ Push(r, e).withheld = r.withheld
           /\ e \in Range(Push(r, e).pending)
           /\ Drained(Push(r, e)) \cup PushEvicts(r) = Drained(r) \cup {e}
           /\ Apart(r) /\ e \notin Drained(r) =>
                /\ Apart(Push(r, e))
                /\ PushEvicts(r) \cap Drained(Push(r, e)) = {}
<1>. DEFINE p == r.pending
            room == IF Len(p) >= MaxPending THEN Tail(p) ELSE p
            t == Push(r, e)
<1>0. p \in Seq(Events)
  BY TablesType
<1>1. t.pending = Append(room, e) /\ t.cancelled = r.cancelled /\ t.withheld = r.withheld
  BY DEF Push, ChannelState
<1>2. /\ room \in Seq(Events)
      /\ Range(room) \cup PushEvicts(r) = Range(p)
      /\ Distinct(p) => Distinct(room) /\ PushEvicts(r) \cap Range(room) = {}
  <2>1. CASE Len(p) >= MaxPending
    <3>1. p # <<>>
      BY <1>0, <2>1, EmptySeq, QueueConstants
    <3>2. room = Tail(p) /\ PushEvicts(r) = {Head(p)}
      BY <2>1 DEF PushEvicts
    <3>. QED
      BY <1>0, <3>1, <3>2, TailContents
  <2>2. CASE ~(Len(p) >= MaxPending)
    BY <1>0, <2>2 DEF PushEvicts
  <2>. QED
    BY <2>1, <2>2
<1>. HIDE DEF room
<1>3. /\ Range(t.pending) = Range(room) \cup {e}
      /\ Distinct(room) /\ e \notin Range(room) => Distinct(t.pending)
  BY <1>1, <1>2, AppendContents
<1>4. Drained(t) \cup PushEvicts(r) = Drained(r) \cup {e}
  BY <1>1, <1>2, <1>3 DEF Drained
<1>5. ASSUME Apart(r), e \notin Drained(r)
      PROVE  Apart(t) /\ PushEvicts(r) \cap Drained(t) = {}
  <2>. HIDE DEF t
  <2>1. Apart(t)
    BY <1>1, <1>2, <1>3, <1>5 DEF Apart, Drained
  <2>2. PushEvicts(r) \cap Drained(t) = {}
    BY <1>1, <1>2, <1>3, <1>5 DEF Apart, Drained
  <2>. QED
    BY <2>1, <2>2
<1>. QED
  BY <1>1, <1>3, <1>4, <1>5

LEMMA WithholdContents ==
    ASSUME NEW r \in ChannelState, NEW e \in Events
    PROVE  /\ Withhold(r, e).cancelled = r.cancelled
           /\ Range(Withhold(r, e).withheld) \subseteq Range(r.withheld) \cup {e}
           /\ e \in Range(r.pending) => e \in Range(Withhold(r, e).withheld)
           /\ Range(r.withheld) \subseteq Range(Withhold(r, e).withheld)
           /\ Distinct(r.withheld) /\ e \notin Range(r.withheld)
                => Distinct(Withhold(r, e).withheld)
           /\ Drained(Withhold(r, e)) = Drained(r)
           /\ Apart(r) => Apart(Withhold(r, e))
<1>. DEFINE t == Withhold(r, e)
<1>1. CASE e \notin Range(r.pending)
  BY <1>1 DEF Withhold
<1>2. CASE e \in Range(r.pending)
  <2>1. /\ t.pending = Without(r.pending, e) /\ t.cancelled = r.cancelled
        /\ t.withheld = Append(r.withheld, e)
    BY <1>2 DEF Withhold, ChannelState
  <2>2. /\ Range(r.pending) \ {e} \subseteq Range(t.pending)
        /\ Range(t.pending) \subseteq Range(r.pending)
        /\ Distinct(r.pending) => Distinct(t.pending) /\ e \notin Range(t.pending)
    BY <2>1, TablesType, WithoutContents
  <2>3. /\ Range(t.withheld) = Range(r.withheld) \cup {e}
        /\ Distinct(r.withheld) /\ e \notin Range(r.withheld) => Distinct(t.withheld)
    BY <2>1, TablesType, AppendContents
  <2>. HIDE DEF t
  <2>4. Drained(t) = Drained(r)
    BY <1>2, <2>1, <2>2, <2>3 DEF Drained
  <2>5. Apart(r) => Apart(t)
    BY <1>2, <2>1, <2>2, <2>3 DEF Apart
  <2>. QED
    BY <2>1, <2>3, <2>4, <2>5 DEF t
<1>. QED
  BY <1>1, <1>2

LEMMA ReleaseContents ==
    ASSUME NEW r \in ChannelState, NEW e \in Events
    PROVE  /\ Release(r, e).cancelled = r.cancelled
           /\ Range(Release(r, e).withheld) \subseteq Range(r.withheld)
           /\ Range(r.withheld) \ {e} \subseteq Range(Release(r, e).withheld)
           /\ Distinct(r.withheld) => /\ Distinct(Release(r, e).withheld)
                                      /\ e \notin Range(Release(r, e).withheld)
           /\ Drained(Release(r, e)) \cup ReleaseEvicts(r, e) = Drained(r)
           /\ Apart(r) => /\ Apart(Release(r, e))
                          /\ ReleaseEvicts(r, e) \cap Drained(Release(r, e)) = {}
<1>. DEFINE t == Release(r, e)
            one == <<e>>
<1>1. CASE e \notin Range(r.withheld)
  BY <1>1 DEF Release, ReleaseEvicts
<1>2. CASE e \in Range(r.withheld)
  <2>1. /\ t.withheld = Without(r.withheld, e) /\ t.cancelled = r.cancelled
        /\ t.pending = TrimBack(one \o r.pending)
        /\ ReleaseEvicts(r, e) = Trimmed(one \o r.pending)
    BY <1>2 DEF Release, ReleaseEvicts, ChannelState
  <2>2. /\ Range(r.withheld) \ {e} \subseteq Range(t.withheld)
        /\ Range(t.withheld) \subseteq Range(r.withheld)
        /\ Distinct(r.withheld) => Distinct(t.withheld) /\ e \notin Range(t.withheld)
    BY <2>1, TablesType, WithoutContents
  <2>3. one \in Seq(Events) /\ Range(one) = {e} /\ Distinct(one) /\ r.pending \in Seq(Events)
    BY SingletonRange, TablesType
  <2>. HIDE DEF one
  <2>4. /\ Range(t.pending) \cup ReleaseEvicts(r, e) = {e} \cup Range(r.pending)
        /\ Range(t.pending) \cap ReleaseEvicts(r, e) = {}
        /\ Distinct(r.pending) /\ e \notin Range(r.pending) => Distinct(t.pending)
    BY <2>1, <2>3, FrontContents
  <2>. HIDE DEF t
  <2>5. Drained(t) \cup ReleaseEvicts(r, e) = Drained(r)
    BY <1>2, <2>1, <2>2, <2>4 DEF Drained
  <2>6. Apart(r) => Apart(t)
    BY <1>2, <2>1, <2>2, <2>4 DEF Apart
  <2>7. Apart(r) => ReleaseEvicts(r, e) \cap Drained(t) = {}
    BY <1>2, <2>1, <2>2, <2>4 DEF Apart, Drained
  <2>. QED
    BY <2>1, <2>2, <2>5, <2>6, <2>7 DEF t
<1>. QED
  BY <1>1, <1>2

LEMMA RemoveContents ==
    ASSUME NEW r \in ChannelState, NEW e
    PROVE  /\ RemoveEvent(r, e).cancelled = r.cancelled
           /\ Range(RemoveEvent(r, e).withheld) \subseteq Range(r.withheld)
           /\ Range(r.withheld) \ {e} \subseteq Range(RemoveEvent(r, e).withheld)
           /\ Distinct(r.withheld) => /\ Distinct(RemoveEvent(r, e).withheld)
                                      /\ e \notin Range(RemoveEvent(r, e).withheld)
           /\ Drained(RemoveEvent(r, e)) \cup {e} = Drained(r) \cup {e}
           /\ Apart(r) => /\ Apart(RemoveEvent(r, e))
                          /\ e \in Drained(RemoveEvent(r, e)) => e \in Range(r.cancelled)
<1>. DEFINE t == RemoveEvent(r, e)
<1>1. /\ t.withheld = Without(r.withheld, e) /\ t.cancelled = r.cancelled
      /\ t.pending = Without(r.pending, e)
  BY DEF RemoveEvent, ChannelState
<1>2. /\ Range(r.withheld) \ {e} \subseteq Range(t.withheld)
      /\ Range(t.withheld) \subseteq Range(r.withheld)
      /\ Distinct(r.withheld) => Distinct(t.withheld) /\ e \notin Range(t.withheld)
  BY <1>1, TablesType, WithoutContents
<1>3. /\ Range(r.pending) \ {e} \subseteq Range(t.pending)
      /\ Range(t.pending) \subseteq Range(r.pending)
      /\ Distinct(r.pending) => Distinct(t.pending) /\ e \notin Range(t.pending)
  BY <1>1, TablesType, WithoutContents
<1>. HIDE DEF t
<1>4. Drained(t) \cup {e} = Drained(r) \cup {e}
  BY <1>1, <1>2, <1>3 DEF Drained
<1>5. Apart(r) => Apart(t)
  BY <1>1, <1>2, <1>3 DEF Apart
<1>6. Apart(r) /\ e \in Drained(t) => e \in Range(r.cancelled)
  BY <1>1, <1>2, <1>3 DEF Apart, Drained
<1>. QED
  BY <1>1, <1>2, <1>4, <1>5, <1>6 DEF t

LEMMA ExpireContents ==
    ASSUME NEW r \in ChannelState
    PROVE  /\ Expire(r).cancelled = r.cancelled
           /\ Expire(r).withheld \in {r.withheld, <<>>}
           /\ Drained(Expire(r)) \cup ExpireEvicts(r) = Drained(r)
<1>. DEFINE t == Expire(r)
<1>1. CASE r.deadline # "passed"
  BY <1>1 DEF Expire, ExpireEvicts
<1>2. CASE r.deadline = "passed"
  <2>1. /\ t.withheld = <<>> /\ t.cancelled = r.cancelled
        /\ t.pending = TrimBack(r.withheld \o r.pending)
        /\ ExpireEvicts(r) = Trimmed(r.withheld \o r.pending)
    BY <1>2 DEF Expire, ExpireEvicts, ChannelState
  <2>2. Range(t.pending) \cup ExpireEvicts(r) = Range(r.withheld) \cup Range(r.pending)
    BY <2>1, TablesType, FrontContents
  <2>3. Range(t.withheld) = {}
    BY <2>1, EmptyRange
  <2>. HIDE DEF t
  <2>4. Drained(t) \cup ExpireEvicts(r) = Drained(r)
    BY <2>1, <2>2, <2>3 DEF Drained
  <2>. QED
    BY <2>1, <2>4 DEF t
<1>. QED
  BY <1>1, <1>2

\* A batch put back in front of the queue.
LEMMA FrontBatch ==
    ASSUME NEW r \in ChannelState, NEW t \in ChannelState, NEW s \in Seq(Events),
           t.pending = TrimBack(s \o r.pending),
           t.cancelled = r.cancelled, t.withheld = r.withheld
    PROVE  /\ Drained(t) \cup Trimmed(s \o r.pending) = Drained(r) \cup Range(s)
           /\ Apart(r) /\ Distinct(s) /\ Range(s) \cap Drained(r) = {} =>
                Apart(t) /\ Trimmed(s \o r.pending) \cap Drained(t) = {}
<1>. DEFINE evicted == Trimmed(s \o r.pending)
<1>1. /\ Range(t.pending) \cup evicted = Range(s) \cup Range(r.pending)
      /\ Range(t.pending) \cap evicted = {}
      /\ Distinct(s) /\ Distinct(r.pending) /\ Range(s) \cap Range(r.pending) = {}
            => Distinct(t.pending)
  BY TablesType, FrontContents
<1>. HIDE DEF evicted
<1>2. Drained(t) \cup evicted = Drained(r) \cup Range(s)
  BY <1>1 DEF Drained
<1>3. ASSUME Apart(r), Distinct(s), Range(s) \cap Drained(r) = {}
      PROVE  Apart(t) /\ evicted \cap Drained(t) = {}
  <2>1. Apart(t)
    BY <1>1, <1>3 DEF Apart, Drained
  <2>2. evicted \cap Drained(t) = {}
    BY <1>1, <1>3 DEF Apart, Drained
  <2>. QED
    BY <2>1, <2>2
<1>. QED
  BY <1>2, <1>3 DEF evicted

LEMMA RequeueContents ==
    ASSUME NEW r \in ChannelState, NEW b \in Batches
    PROVE  /\ RetriesSpent(r) => SameTables(r, Requeue(r, b))
           /\ ~RetriesSpent(r) =>
                /\ Requeue(r, b).pending = TrimBack(b.events \o r.pending)
                /\ Requeue(r, b).cancelled = r.cancelled
                /\ Requeue(r, b).withheld = r.withheld
BY DEF Requeue, SameTables, ChannelState

LEMMA RequeuePreserveContents ==
    ASSUME NEW r \in ChannelState, NEW b \in Batches
    PROVE  /\ RequeuePreserve(r, b).pending = TrimBack(b.events \o r.pending)
           /\ RequeuePreserve(r, b).cancelled = r.cancelled
           /\ RequeuePreserve(r, b).withheld = r.withheld
BY DEF RequeuePreserve, ChannelState

LEMMA CancelContents ==
    ASSUME NEW r \in ChannelState, NEW b \in Batches, NEW reason
    PROVE  LET t == RequeueAsCancelled(r, b, reason)
           IN  /\ t.pending = r.pending /\ t.withheld = r.withheld
               /\ Drained(t) = Drained(r) \cup Range(b.merged) \cup Range(b.events)
               /\ /\ Apart(r) /\ Distinct(b.merged) /\ Distinct(b.events)
                  /\ Range(b.merged) \cap Range(b.events) = {}
                  /\ Range(b.merged) \cap Drained(r) = {}
                  /\ Range(b.events) \cap Drained(r) = {}
                  => Apart(t)
<1>. DEFINE t == RequeueAsCancelled(r, b, reason)
            x == r.cancelled
            m == b.merged
            v == b.events
            xm == x \o m
<1>1. x \in Seq(Events) /\ m \in Seq(Events) /\ v \in Seq(Events)
  BY TablesType DEF Batches
<1>2. /\ t.pending = r.pending /\ t.withheld = r.withheld
      /\ t.cancelled = xm \o v
  BY DEF RequeueAsCancelled, ChannelState
<1>. HIDE DEF x, m, v, t
<1>3. /\ xm \in Seq(Events) /\ Range(xm) = Range(x) \cup Range(m)
      /\ Distinct(x) /\ Distinct(m) /\ Range(x) \cap Range(m) = {} => Distinct(xm)
  BY <1>1, ConcatProperties, RangeConcatenation, DistinctConcat
<1>. HIDE DEF xm
<1>4. /\ Range(t.cancelled) = Range(xm) \cup Range(v)
      /\ Distinct(xm) /\ Distinct(v) /\ Range(xm) \cap Range(v) = {} => Distinct(t.cancelled)
  BY <1>1, <1>2, <1>3, RangeConcatenation, DistinctConcat
<1>5. Drained(t) = Drained(r) \cup Range(m) \cup Range(v)
  BY <1>2, <1>3, <1>4 DEF Drained, x
<1>6. ASSUME Apart(r), Distinct(m), Distinct(v), Range(m) \cap Range(v) = {},
             Range(m) \cap Drained(r) = {}, Range(v) \cap Drained(r) = {}
      PROVE  Apart(t)
  <2>1. Distinct(x) /\ Range(x) \cap Range(m) = {} /\ Range(x) \cap Range(v) = {}
    BY <1>6 DEF Apart, Drained, x
  <2>2. Distinct(t.cancelled)
    BY <1>3, <1>4, <1>6, <2>1
  <2>3. /\ Range(t.cancelled) \cap Range(r.pending) = {}
        /\ Range(t.cancelled) \cap Range(r.withheld) = {}
    BY <1>3, <1>4, <1>6 DEF Apart, Drained, x
  <2>. QED
    BY <1>2, <1>6, <2>2, <2>3 DEF Apart
<1>. QED
  BY <1>2, <1>5, <1>6 DEF t, m, v

\* A flush hands out what it takes from the tables, and nothing else.
Parts(r, b, t) ==
    /\ Drained(t) \cup Range(b.events) \cup Range(b.merged) = Drained(r)
    /\ t.withheld = r.withheld /\ t.cancelled = <<>>
    /\ Range(b.merged) \subseteq Range(r.cancelled)
    /\ Apart(r) => /\ Apart(t) /\ Distinct(b.events) /\ Distinct(b.merged)
                   /\ Range(b.events) \cap Range(b.merged) = {}
                   /\ Drained(t) \cap (Range(b.events) \cup Range(b.merged)) = {}

LEMMA FlushQueuedContents ==
    ASSUME NEW r \in ChannelState
    PROVE  Parts(r, QueuedBatch(r), FlushQueued(r))
<1>. DEFINE b == QueuedBatch(r)
            t == FlushQueued(r)
            n == DrainCount(r)
            p == r.pending
            first == SubSeq(p, 1, n)
            rest == SubSeq(p, n + 1, Len(p))
<1>1. p \in Seq(Events)
  BY TablesType
<1>2. n \in 0 .. Len(p)
  BY <1>1, LenProperties, QueueConstants DEF DrainCount
<1>3. /\ first \in Seq(Events) /\ rest \in Seq(Events)
      /\ Range(p) = Range(first) \cup Range(rest)
      /\ Distinct(p) => Distinct(first) /\ Distinct(rest) /\ Range(first) \cap Range(rest) = {}
  BY <1>1, <1>2, CutContents
<1>4. b.events = SortByCreated(first) /\ b.merged = r.cancelled
  BY DEF QueuedBatch
<1>5. t.pending = rest /\ t.cancelled = <<>> /\ t.withheld = r.withheld
  BY DEF FlushQueued, StartFlight, ChannelState
<1>. HIDE DEF b, t, n, p, first, rest
<1>6. Range(b.events) = Range(first) /\ (Distinct(first) => Distinct(b.events))
  BY <1>3, <1>4, SortContents
<1>7. Range(t.cancelled) = {} /\ Distinct(t.cancelled)
  BY <1>5, EmptyRange
<1>8. Drained(t) \cup Range(b.events) \cup Range(b.merged) = Drained(r)
  BY <1>3, <1>4, <1>5, <1>6, <1>7 DEF Drained, p
<1>9. ASSUME Apart(r)
      PROVE  /\ Apart(t) /\ Distinct(b.events) /\ Distinct(b.merged)
             /\ Range(b.events) \cap Range(b.merged) = {}
             /\ Drained(t) \cap (Range(b.events) \cup Range(b.merged)) = {}
  <2>1. /\ Distinct(p) /\ Distinct(r.cancelled) /\ Distinct(r.withheld)
        /\ Range(p) \cap Range(r.cancelled) = {}
        /\ Range(p) \cap Range(r.withheld) = {}
        /\ Range(r.cancelled) \cap Range(r.withheld) = {}
    BY <1>9 DEF Apart, p
  <2>2. Apart(t)
    BY <1>3, <1>5, <1>7, <2>1 DEF Apart
  <2>3. Distinct(b.events) /\ Distinct(b.merged)
    BY <1>3, <1>4, <1>6, <2>1
  <2>4. Range(b.events) \cap Range(b.merged) = {}
    BY <1>3, <1>4, <1>6, <2>1
  <2>5. Drained(t) \cap (Range(b.events) \cup Range(b.merged)) = {}
    BY <1>3, <1>4, <1>5, <1>6, <1>7, <2>1 DEF Drained
  <2>. QED
    BY <2>2, <2>3, <2>4, <2>5
<1>. QED
  BY <1>4, <1>5, <1>8, <1>9 DEF Parts, b, t

LEMMA FlushCancelledContents ==
    ASSUME NEW r \in ChannelState
    PROVE  Parts(r, CancelledBatch(r), FlushCancelled(r))
<1>. DEFINE b == CancelledBatch(r)
            t == FlushCancelled(r)
<1>1. b.events = r.cancelled /\ b.merged = <<>>
  BY DEF CancelledBatch
<1>2. t.pending = r.pending /\ t.cancelled = <<>> /\ t.withheld = r.withheld
  BY DEF FlushCancelled, StartFlight, ChannelState
<1>. HIDE DEF b, t
<1>3. /\ Range(t.cancelled) = {} /\ Distinct(t.cancelled)
      /\ Range(b.merged) = {} /\ Distinct(b.merged)
  BY <1>1, <1>2, EmptyRange
<1>4. Drained(t) \cup Range(b.events) \cup Range(b.merged) = Drained(r)
  BY <1>1, <1>2, <1>3 DEF Drained
<1>5. ASSUME Apart(r)
      PROVE  /\ Apart(t) /\ Distinct(b.events) /\ Distinct(b.merged)
             /\ Range(b.events) \cap Range(b.merged) = {}
             /\ Drained(t) \cap (Range(b.events) \cup Range(b.merged)) = {}
  <2>1. Apart(t)
    BY <1>2, <1>3, <1>5 DEF Apart
  <2>2. Distinct(b.events) /\ Distinct(b.merged) /\ Range(b.events) \cap Range(b.merged) = {}
    BY <1>1, <1>3, <1>5 DEF Apart
  <2>3. Drained(t) \cap (Range(b.events) \cup Range(b.merged)) = {}
    BY <1>1, <1>2, <1>3, <1>5 DEF Apart, Drained
  <2>. QED
    BY <2>1, <2>2, <2>3
<1>. QED
  BY <1>2, <1>3, <1>4, <1>5 DEF Parts, b, t
================================================================================
