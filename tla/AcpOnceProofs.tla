--------------------------- MODULE AcpOnceProofs ---------------------------
(***************************************************************************)
(* Exactly-once delivery in AcpHarness, for every number of channels,      *)
(* slots and events and every cap: no event is delivered twice as long as  *)
(* no turn outlives its in-flight deadline, none is lost where no control  *)
(* signal makes a batch be merged into a later one, and a failing channel  *)
(* loses its retry budget in one place only.                               *)
(***************************************************************************)
EXTENDS AcpDeliveryProofs

-----------------------------------------------------------------------------
(* Every event is in one place.                                            *)

\* Each table and batch holds an event once, no two of them share one, none
\* holds one that is done with, and all of them have arrived.
OnceInv ==
    /\ \A c \in Channels :
          /\ Apart(q[c])
          /\ \A d \in Channels \ {c} : Drained(q[c]) \cap Drained(q[d]) = {}
          /\ \A s \in Slots : Drained(q[c]) \cap BatchOf(s) = {}
          /\ gone \cap Drained(q[c]) = {}
    /\ \A s \in Slots :
          /\ Distinct(task[s].events \o task[s].merged)
          /\ \A x \in Slots \ {s} : BatchOf(s) \cap BatchOf(x) = {}
          /\ gone \cap BatchOf(s) = {}

ArrivedInv ==
    /\ \A c \in Channels : \A e \in Drained(q[c]) : e <= arrived
    /\ \A s \in Slots : \A e \in BatchOf(s) : e <= arrived
    /\ \A e \in gone : e <= arrived

\* OnceInv reads the tables, the batches and the history only.
LEMMA OnceKept ==
    ASSUME OnceInv, StillStep
    PROVE  OnceInv'
<1>1. \A c \in Channels : Drained(q'[c]) = Drained(q[c]) /\ Apart(q'[c])
  BY SameTablesFollow DEF StillStep, OnceInv
<1>2. \A s \in Slots : /\ BatchOf(s)' = BatchOf(s)
                       /\ task'[s].events \o task'[s].merged =
                            task[s].events \o task[s].merged
  BY BatchKept DEF StillStep, KeepsBatches, SameBatch
<1>3. gone' = gone
  BY DEF StillStep
<1>. QED
  BY <1>1, <1>2, <1>3 DEF OnceInv

\* Events move within one channel, or come in fresh, or leave for good.
LEMMA OnceInChannel ==
    ASSUME OnceInv, NEW c \in Channels, NEW fresh,
           KeepsBatches,
           \A d \in Channels \ {c} : q'[d] = q[d],
           \A d \in Channels : fresh \cap Drained(q[d]) = {},
           \A s \in Slots : fresh \cap BatchOf(s) = {},
           Drained(q'[c]) \subseteq Drained(q[c]) \cup fresh,
           gone' \subseteq gone \cup Drained(q[c]) \cup fresh,
           gone' \cap Drained(q'[c]) = {},
           Apart(q'[c])
    PROVE  OnceInv'
<1>1. \A s \in Slots : /\ BatchOf(s)' = BatchOf(s)
                       /\ task'[s].events \o task'[s].merged =
                            task[s].events \o task[s].merged
  BY BatchKept DEF KeepsBatches, SameBatch
<1>. DEFINE X == Drained(q[c]) \cup fresh
<1>2. /\ \A d \in Channels \ {c} : X \cap Drained(q[d]) = {}
      /\ \A s \in Slots : X \cap BatchOf(s) = {}
  BY DEF OnceInv
<1>3. Drained(q'[c]) \subseteq X /\ gone' \subseteq gone \cup X
  OBVIOUS
<1>. HIDE DEF X
<1>4. ASSUME NEW d \in Channels
      PROVE  /\ Apart(q'[d])
             /\ \A x \in Channels \ {d} : Drained(q'[d]) \cap Drained(q'[x]) = {}
             /\ \A s \in Slots : Drained(q'[d]) \cap BatchOf(s)' = {}
             /\ gone' \cap Drained(q'[d]) = {}
  <2>1. Apart(q'[d])
    BY DEF OnceInv
  <2>2. \A x \in Channels \ {d} : Drained(q'[d]) \cap Drained(q'[x]) = {}
    BY <1>2, <1>3 DEF OnceInv
  <2>3. ASSUME NEW s \in Slots
        PROVE  Drained(q'[d]) \cap BatchOf(s)' = {}
    <3>1. BatchOf(s)' = BatchOf(s) /\ X \cap BatchOf(s) = {}
      BY <1>1, <1>2
    <3>2. CASE d = c
      BY <1>3, <3>1, <3>2
    <3>3. CASE d # c
      <4>1. q'[d] = q[d] /\ Drained(q[d]) \cap BatchOf(s) = {}
        BY <3>3 DEF OnceInv
      <4>. QED
        BY <3>1, <4>1
    <3>. QED
      BY <3>2, <3>3
  <2>4. gone' \cap Drained(q'[d]) = {}
    BY <1>2, <1>3 DEF OnceInv
  <2>. QED
    BY <2>1, <2>2, <2>3, <2>4
<1>5. ASSUME NEW s \in Slots
      PROVE  /\ Distinct(task'[s].events \o task'[s].merged)
             /\ \A x \in Slots \ {s} : BatchOf(s)' \cap BatchOf(x)' = {}
             /\ gone' \cap BatchOf(s)' = {}
  <2>1. Distinct(task'[s].events \o task'[s].merged)
    BY <1>1 DEF OnceInv
  <2>2. BatchOf(s)' = BatchOf(s) /\ X \cap BatchOf(s) = {}
        /\ gone \cap BatchOf(s) = {}
    BY <1>1, <1>2 DEF OnceInv
  <2>3. gone' \cap BatchOf(s)' = {}
    BY <1>3, <2>2
  <2>4. ASSUME NEW x \in Slots \ {s}
        PROVE  BatchOf(s)' \cap BatchOf(x)' = {}
    <3>1. BatchOf(x)' = BatchOf(x) /\ BatchOf(s) \cap BatchOf(x) = {}
      BY <1>1 DEF OnceInv
    <3>. QED
      BY <2>2, <3>1
  <2>. QED
    BY <2>1, <2>3, <2>4
<1>. QED
  BY <1>4, <1>5 DEF OnceInv

\* Events move between one channel and one batch, or leave for good.
LEMMA OnceInTurn ==
    ASSUME OnceInv, NEW c \in Channels, NEW s \in Slots,
           \A d \in Channels \ {c} : q'[d] = q[d],
           \A x \in Slots \ {s} : SameBatch(task[x], task'[x]),
           Drained(q'[c]) \subseteq Drained(q[c]) \cup BatchOf(s),
           BatchOf(s)' \subseteq Drained(q[c]) \cup BatchOf(s),
           gone' \subseteq gone \cup Drained(q[c]) \cup BatchOf(s),
           Drained(q'[c]) \cap BatchOf(s)' = {},
           gone' \cap Drained(q'[c]) = {},
           gone' \cap BatchOf(s)' = {},
           Apart(q'[c]),
           Distinct(task'[s].events \o task'[s].merged)
    PROVE  OnceInv'
<1>1. \A x \in Slots \ {s} : /\ BatchOf(x)' = BatchOf(x)
                             /\ task'[x].events \o task'[x].merged =
                                  task[x].events \o task[x].merged
  BY BatchKept DEF SameBatch
<1>. DEFINE X == Drained(q[c]) \cup BatchOf(s)
<1>2. /\ \A d \in Channels \ {c} : X \cap Drained(q[d]) = {}
      /\ \A x \in Slots \ {s} : X \cap BatchOf(x) = {}
  BY DEF OnceInv
<1>3. /\ Drained(q'[c]) \subseteq X /\ BatchOf(s)' \subseteq X
      /\ gone' \subseteq gone \cup X
  OBVIOUS
<1>. HIDE DEF X
<1>4. ASSUME NEW d \in Channels
      PROVE  /\ Apart(q'[d])
             /\ \A x \in Channels \ {d} : Drained(q'[d]) \cap Drained(q'[x]) = {}
             /\ \A x \in Slots : Drained(q'[d]) \cap BatchOf(x)' = {}
             /\ gone' \cap Drained(q'[d]) = {}
  <2>1. Apart(q'[d])
    BY DEF OnceInv
  <2>2. \A x \in Channels \ {d} : Drained(q'[d]) \cap Drained(q'[x]) = {}
    BY <1>2, <1>3 DEF OnceInv
  <2>3. ASSUME NEW x \in Slots
        PROVE  Drained(q'[d]) \cap BatchOf(x)' = {}
    <3>1. CASE d = c /\ x = s
      BY <3>1
    <3>2. CASE d = c /\ x # s
      <4>1. BatchOf(x)' = BatchOf(x) /\ X \cap BatchOf(x) = {}
        BY <1>1, <1>2, <3>2
      <4>. QED
        BY <1>3, <3>2, <4>1
    <3>3. CASE d # c /\ x = s
      <4>1. q'[d] = q[d] /\ X \cap Drained(q[d]) = {}
        BY <1>2, <3>3
      <4>. QED
        BY <1>3, <3>3, <4>1
    <3>4. CASE d # c /\ x # s
      <4>1. q'[d] = q[d] /\ BatchOf(x)' = BatchOf(x)
            /\ Drained(q[d]) \cap BatchOf(x) = {}
        BY <1>1, <3>4 DEF OnceInv
      <4>. QED
        BY <4>1
    <3>. QED
      BY <3>1, <3>2, <3>3, <3>4
  <2>4. gone' \cap Drained(q'[d]) = {}
    BY <1>2, <1>3 DEF OnceInv
  <2>. QED
    BY <2>1, <2>2, <2>3, <2>4
<1>5. ASSUME NEW y \in Slots
      PROVE  /\ Distinct(task'[y].events \o task'[y].merged)
             /\ \A x \in Slots \ {y} : BatchOf(y)' \cap BatchOf(x)' = {}
             /\ gone' \cap BatchOf(y)' = {}
  <2>1. Distinct(task'[y].events \o task'[y].merged)
    BY <1>1 DEF OnceInv
  <2>2. ASSUME NEW x \in Slots \ {y}
        PROVE  BatchOf(y)' \cap BatchOf(x)' = {}
    <3>1. CASE y = s
      <4>1. BatchOf(x)' = BatchOf(x) /\ X \cap BatchOf(x) = {}
        BY <1>1, <1>2, <3>1
      <4>. QED
        BY <1>3, <3>1, <4>1
    <3>2. CASE x = s
      <4>1. BatchOf(y)' = BatchOf(y) /\ X \cap BatchOf(y) = {}
        BY <1>1, <1>2, <3>2
      <4>. QED
        BY <1>3, <3>2, <4>1
    <3>3. CASE y # s /\ x # s
      <4>1. BatchOf(x)' = BatchOf(x) /\ BatchOf(y)' = BatchOf(y)
            /\ BatchOf(y) \cap BatchOf(x) = {}
        BY <1>1, <3>3 DEF OnceInv
      <4>. QED
        BY <4>1
    <3>. QED
      BY <3>1, <3>2, <3>3
  <2>3. gone' \cap BatchOf(y)' = {}
    <3>1. CASE y = s
      BY <3>1
    <3>2. CASE y # s
      <4>1. BatchOf(y)' = BatchOf(y) /\ X \cap BatchOf(y) = {}
            /\ gone \cap BatchOf(y) = {}
        BY <1>1, <1>2, <3>2 DEF OnceInv
      <4>. QED
        BY <1>3, <4>1
    <3>. QED
      BY <3>1, <3>2
  <2>. QED
    BY <2>1, <2>2, <2>3
<1>. QED
  BY <1>4, <1>5 DEF OnceInv

-----------------------------------------------------------------------------
(* The requests and acks of native steers.                                 *)

\* Each steered event has one holder: one slot of one task, or one ack.
TokensDistinct ==
    /\ \A s \in Slots :
          task[s].buffered # NoEvent => task[s].buffered # task[s].written
    /\ \A s, x \in Slots : s # x => Orphaned(task[s]) \cap Orphaned(task[x]) = {}
    /\ \A s \in Slots, a \in acks : a.ev \notin Orphaned(task[s])
    /\ \A a, b \in acks : a.ev = b.ev => a = b

Token(T, A, c, e) ==
    \/ \E s \in Slots : T[s].ch = c /\ e \in Orphaned(T[s])
    \/ \E a \in A : a.ch = c /\ a.ev = e

\* The event of a request or an ack is withheld on its channel, or done with.
TokensSecure ==
    \A c \in Channels, e \in Events :
        Token(task, acks, c, e) => e \in Range(q[c].withheld) \cup gone

LEMMA NothingExpires ==
    ASSUME TypeInv, NeverOverdue
    PROVE  (\A c \in Channels : Expired[c] = q[c]) /\ ExpiredGone = {}
<1>1. \A c \in Channels : Expired[c] = q[c]
  BY ExpiredMarks DEF NeverOverdue
<1>2. \A c \in Channels : ExpireEvicts(q[c]) = {}
  BY DEF ExpireEvicts, NeverOverdue
<1>3. ExpiredGone = {}
  BY <1>2 DEF ExpiredGone
<1>. QED
  BY <1>1, <1>3

\* What has arrived: the next event is in no place yet.
LEMMA NextIsFresh ==
    ASSUME TypeInv, ArrivedInv
    PROVE  /\ \A c \in Channels : arrived + 1 \notin Drained(q[c])
           /\ \A s \in Slots : arrived + 1 \notin BatchOf(s)
           /\ arrived + 1 \notin gone
<1>1. arrived \in Nat
  BY QueueConstants DEF TypeInv, TypeOK
<1>2. ~(arrived + 1 <= arrived)
  BY <1>1
<1>. QED
  BY <1>2 DEF ArrivedInv

LEMMA OnceStep ==
    ASSUME BaseInv, NeverOverdue, OnceInv, ArrivedInv, TokensSecure, [Next]_vars
    PROVE  OnceInv'
<1>1. /\ \A c \in Channels : Expired[c] = q[c]
      /\ ExpiredGone = {}
  BY NothingExpires DEF BaseInv
<1>2. CASE StillStep
  BY <1>2, OnceKept
<1>3. ASSUME NEW c \in Channels, RelayStep(c)
      PROVE  OnceInv'
  <2>. DEFINE e == arrived + 1
              fresh == {e}
  <2>1. /\ \A d \in Channels : fresh \cap Drained(q[d]) = {}
        /\ \A s \in Slots : fresh \cap BatchOf(s) = {}
        /\ e \notin gone
    BY NextIsFresh DEF BaseInv
  <2>2. /\ \A d \in Channels \ {c} : q'[d] = q[d]
        /\ \E x : Account(q[c], fresh, q'[c], x) /\ gone' = gone \cup x
    BY <1>3, RelayEffect DEF BaseInv
  <2>. HIDE DEF e
  <2>3. PICK let : Account(q[c], fresh, q'[c], let) /\ gone' = gone \cup let
    BY <2>2
  <2>4. Apart(q'[c]) /\ let \cap Drained(q'[c]) = {}
        /\ Drained(q'[c]) \cup let = Drained(q[c]) \cup fresh
    BY <2>1, <2>3 DEF Account, OnceInv
  <2>5. gone \cap Drained(q[c]) = {}
    BY DEF OnceInv
  <2>6. gone' \cap Drained(q'[c]) = {}
    BY <2>1, <2>3, <2>4, <2>5
  <2>7. /\ Drained(q'[c]) \subseteq Drained(q[c]) \cup fresh
        /\ gone' \subseteq gone \cup Drained(q[c]) \cup fresh
    BY <2>3, <2>4
  <2>8. KeepsBatches
    BY <1>3 DEF RelayStep
  <2>. HIDE DEF fresh
  <2>. QED
    BY <2>1, <2>2, <2>4, <2>6, <2>7, <2>8, OnceInChannel
<1>4. ASSUME NEW c \in Channels, KeepsBatches,
             \A d \in Channels \ {c} : q'[d] = q[d],
             Drained(q'[c]) \subseteq Drained(q[c]),
             gone' \subseteq gone \cup Drained(q[c]),
             gone' \cap Drained(q'[c]) = {},
             Apart(q'[c])
      PROVE  OnceInv'
  <2>. DEFINE fresh == {}
  <2>1. /\ \A d \in Channels : fresh \cap Drained(q[d]) = {}
        /\ \A s \in Slots : fresh \cap BatchOf(s) = {}
        /\ Drained(q'[c]) \subseteq Drained(q[c]) \cup fresh
        /\ gone' \subseteq gone \cup Drained(q[c]) \cup fresh
    BY <1>4
  <2>. HIDE DEF fresh
  <2>. QED
    BY <1>4, <2>1, OnceInChannel
<1>5. ASSUME NEW c \in Channels, RemovalStep(c)
      PROVE  OnceInv'
  BY <1>4, <1>5, RemovalEffect DEF BaseInv, RemovalStep
<1>6. ASSUME NEW a \in acks, AckStep(a)
      PROVE  OnceInv'
  <2>. DEFINE c == a.ch
              e == a.ev
  <2>1. /\ c \in Channels /\ e \in Events /\ KeepsBatches
        /\ \A d \in Channels \ {c} : q'[d] = q[d]
        /\ \/ \E let : Account(q[c], {}, q'[c], let) /\ gone' = gone \cup let
           \/ /\ gone' = gone \cup {e}
              /\ Drained(q'[c]) \cup {e} = Drained(q[c]) \cup {e}
              /\ Apart(q[c]) =>
                   /\ Apart(q'[c])
                   /\ e \in Drained(q'[c]) => e \in Range(q[c].cancelled)
    BY <1>6, AckEffect DEF BaseInv, AckStep
  <2>2. Apart(q[c]) /\ gone \cap Drained(q[c]) = {}
    BY <2>1 DEF OnceInv
  <2>3. e \in Range(q[c].withheld) \cup gone
    BY <2>1 DEF TokensSecure, Token
  <2>. HIDE DEF c, e
  <2>4. ASSUME NEW let, Account(q[c], {}, q'[c], let), gone' = gone \cup let
        PROVE  OnceInv'
    <3>1. Apart(q'[c]) /\ let \cap Drained(q'[c]) = {}
          /\ Drained(q'[c]) \cup let = Drained(q[c])
      BY <2>2, <2>4 DEF Account
    <3>2. /\ gone' \cap Drained(q'[c]) = {}
          /\ gone' \subseteq gone \cup Drained(q[c])
      BY <2>2, <2>4, <3>1
    <3>. QED
      BY <1>4, <2>1, <3>1, <3>2
  <2>5. CASE /\ gone' = gone \cup {e}
             /\ Drained(q'[c]) \cup {e} = Drained(q[c]) \cup {e}
             /\ Apart(q'[c])
             /\ e \in Drained(q'[c]) => e \in Range(q[c].cancelled)
    <3>1. e \notin Range(q[c].cancelled)
      BY <2>2, <2>3 DEF Apart, Drained
    <3>2. e \notin Drained(q'[c])
      BY <2>5, <3>1
    <3>3. e \in Drained(q[c]) \cup gone
      BY <2>3 DEF Drained
    <3>4. /\ gone' \cap Drained(q'[c]) = {}
          /\ gone' \subseteq gone \cup Drained(q[c])
          /\ Drained(q'[c]) \subseteq Drained(q[c])
      BY <2>2, <2>5, <3>2, <3>3
    <3>. QED
      BY <1>4, <2>1, <2>5, <3>4
  <2>. QED
    BY <2>1, <2>2, <2>4, <2>5
<1>7. CASE ExpiryStep
  <2>1. StillStep
    BY <1>1, <1>7 DEF ExpiryStep, StillStep, SameTables
  <2>. QED
    BY <2>1, OnceKept
<1>8. CASE FullPoolStep
  <2>1. PICK c \in Channels, let \in SUBSET Events, lost \in SUBSET Events :
            /\ gone' = gone \cup ExpiredGone \cup let
            /\ \A d \in Channels \ {c} : q'[d] = Expired[d]
            /\ Drained(q'[c]) \cup let \cup lost = Drained(Expired[c])
            /\ Apart(Expired[c]) =>
                 Apart(q'[c]) /\ let \cap Drained(q'[c]) = {}
    BY <1>8, FullPoolEffect DEF BaseInv
  <2>2. Apart(q[c]) /\ gone \cap Drained(q[c]) = {}
    BY DEF OnceInv
  <2>3. /\ gone' = gone \cup let
        /\ Drained(q'[c]) \cup let \cup lost = Drained(q[c])
        /\ Apart(q'[c]) /\ let \cap Drained(q'[c]) = {}
        /\ \A d \in Channels \ {c} : q'[d] = q[d]
    BY <1>1, <2>1, <2>2
  <2>4. /\ gone' \cap Drained(q'[c]) = {}
        /\ gone' \subseteq gone \cup Drained(q[c])
        /\ Drained(q'[c]) \subseteq Drained(q[c])
    BY <2>2, <2>3
  <2>. QED
    BY <1>4, <1>8, <2>3, <2>4 DEF FullPoolStep
<1>9. CASE Dispatch
  <2>1. PICK c \in Channels, s \in Slots, b \in Batches :
            /\ gone' = gone \cup ExpiredGone
            /\ \A d \in Channels \ {c} : q'[d] = Expired[d]
            /\ \A x \in Slots \ {s} : SameBatch(task[x], task'[x])
            /\ BatchOf(s) = {}
            /\ BatchAt(s, b)
            /\ Parts(Expired[c], b, q'[c])
    BY <1>9, DispatchEffect
  <2>2. /\ gone' = gone /\ Parts(q[c], b, q'[c])
        /\ \A d \in Channels \ {c} : q'[d] = q[d]
    BY <1>1, <2>1
  <2>3. BatchOf(s)' = Range(b.events) \cup Range(b.merged)
    BY <2>1 DEF BatchOf, BatchAt
  <2>4. Apart(q[c]) /\ gone \cap Drained(q[c]) = {}
    BY DEF OnceInv
  <2>5. /\ Drained(q'[c]) \cup BatchOf(s)' = Drained(q[c])
        /\ Apart(q'[c]) /\ Distinct(b.events) /\ Distinct(b.merged)
        /\ Range(b.events) \cap Range(b.merged) = {}
        /\ Drained(q'[c]) \cap BatchOf(s)' = {}
    BY <2>2, <2>3, <2>4 DEF Parts
  <2>6. b.events \in Seq(Events) /\ b.merged \in Seq(Events)
    BY DEF Batches
  <2>7. Distinct(b.events \o b.merged)
    BY <2>5, <2>6, DistinctConcat
  <2>8. Distinct(task'[s].events \o task'[s].merged)
    BY <2>1, <2>7 DEF BatchAt
  <2>9. /\ Drained(q'[c]) \subseteq Drained(q[c]) \cup BatchOf(s)
        /\ BatchOf(s)' \subseteq Drained(q[c]) \cup BatchOf(s)
        /\ gone' \subseteq gone \cup Drained(q[c]) \cup BatchOf(s)
        /\ gone' \cap Drained(q'[c]) = {} /\ gone' \cap BatchOf(s)' = {}
    BY <2>2, <2>4, <2>5
  <2>. QED
    BY <2>1, <2>2, <2>5, <2>8, <2>9, OnceInTurn
<1>10. ASSUME NEW s \in Slots, SettleStep(s)
       PROVE  OnceInv'
  <2>. DEFINE c == task[s].ch
  <2>1. /\ \A x \in Slots \ {s} : SameBatch(task[x], task'[x])
        /\ task'[s].events = <<>> /\ task'[s].merged = <<>>
        /\ UNCHANGED arrived
        /\ \/ UNCHANGED <<q, gone>> /\ KeepsBatches
           \/ /\ c \in Channels
              /\ \A d \in Channels \ {c} : q'[d] = q[d]
              /\ \E let, lost :
                    /\ gone' = gone \cup let
                    /\ Drained(q'[c]) \cup let \cup lost =
                         Drained(q[c]) \cup BatchOf(s)
                    /\ /\ Apart(q[c])
                       /\ Distinct(task[s].events \o task[s].merged)
                       /\ BatchOf(s) \cap Drained(q[c]) = {}
                       => Apart(q'[c]) /\ let \cap Drained(q'[c]) = {}
    BY <1>10, SettleEffect
  <2>2. CASE UNCHANGED <<q, gone>> /\ KeepsBatches
    <3>1. StillStep
      BY <2>1, <2>2 DEF StillStep, SameTables
    <3>. QED
      BY <3>1, OnceKept
  <2>3. ASSUME c \in Channels, \A d \in Channels \ {c} : q'[d] = q[d],
               NEW let, NEW lost,
               gone' = gone \cup let,
               Drained(q'[c]) \cup let \cup lost = Drained(q[c]) \cup BatchOf(s),
               /\ Apart(q[c])
               /\ Distinct(task[s].events \o task[s].merged)
               /\ BatchOf(s) \cap Drained(q[c]) = {}
               => Apart(q'[c]) /\ let \cap Drained(q'[c]) = {}
        PROVE  OnceInv'
    <3>1. /\ Apart(q[c]) /\ Distinct(task[s].events \o task[s].merged)
          /\ Drained(q[c]) \cap BatchOf(s) = {}
          /\ gone \cap Drained(q[c]) = {} /\ gone \cap BatchOf(s) = {}
      BY <2>3 DEF OnceInv
    <3>2. Apart(q'[c]) /\ let \cap Drained(q'[c]) = {}
      BY <2>3, <3>1
    <3>3. BatchOf(s)' = {}
      BY <2>1, EmptyRange DEF BatchOf
    <3>4. Distinct(task'[s].events \o task'[s].merged)
      <4>1. <<>> \o <<>> = <<>>
        OBVIOUS
      <4>. QED
        BY <2>1, <4>1, EmptyRange
    <3>5. /\ Drained(q'[c]) \subseteq Drained(q[c]) \cup BatchOf(s)
          /\ BatchOf(s)' \subseteq Drained(q[c]) \cup BatchOf(s)
          /\ gone' \subseteq gone \cup Drained(q[c]) \cup BatchOf(s)
          /\ gone' \cap Drained(q'[c]) = {} /\ gone' \cap BatchOf(s)' = {}
          /\ Drained(q'[c]) \cap BatchOf(s)' = {}
      BY <2>3, <3>1, <3>2, <3>3
    <3>. HIDE DEF c
    <3>. QED
      BY <2>1, <2>3, <3>2, <3>4, <3>5, OnceInTurn
  <2>. QED
    BY <2>1, <2>2, <2>3
<1>. QED
  BY <1>2, <1>3, <1>5, <1>6, <1>7, <1>8, <1>9, <1>10, StepKinds DEF BaseInv

-----------------------------------------------------------------------------
(* Only the relay brings events.                                           *)

\* The event is in a table or a batch, or done with.
Seen(e) ==
    \/ \E c \in Channels : e \in Drained(q[c])
    \/ \E s \in Slots : e \in BatchOf(s)
    \/ e \in gone

LEMMA NothingAppears ==
    ASSUME BaseInv, NeverOverdue, TokensSecure, [Next]_vars, NEW e, Seen(e)'
    PROVE  Seen(e) \/ (e = arrived + 1 /\ arrived' = arrived + 1)
<1>. DEFINE Goal == Seen(e) \/ (e = arrived + 1 /\ arrived' = arrived + 1)
<1>1. /\ \A c \in Channels : Expired[c] = q[c]
      /\ ExpiredGone = {}
  BY NothingExpires DEF BaseInv
<1>2. \/ \E c \in Channels : e \in Drained(q'[c])
      \/ \E s \in Slots : e \in BatchOf(s)'
      \/ e \in gone'
  BY DEF Seen
<1>3. ASSUME NEW X, KeepsBatches,
             \A c \in Channels : Drained(q'[c]) \subseteq Drained(q[c]) \cup X,
             \A x \in gone' : Seen(x) \/ x \in X
      PROVE  Seen(e) \/ e \in X
  <2>1. \A s \in Slots : BatchOf(s)' = BatchOf(s)
    BY <1>3, BatchKept DEF KeepsBatches
  <2>2. ASSUME NEW s \in Slots, e \in BatchOf(s)'
        PROVE  Seen(e)
    <3>1. e \in BatchOf(s)
      BY <2>1, <2>2
    <3>. QED
      BY <3>1 DEF Seen
  <2>3. ASSUME NEW c \in Channels, e \in Drained(q'[c])
        PROVE  Seen(e) \/ e \in X
    <3>1. e \in Drained(q[c]) \/ e \in X
      BY <1>3, <2>3
    <3>. QED
      BY <3>1 DEF Seen
  <2>. QED
    BY <1>2, <1>3, <2>2, <2>3
<1>4. ASSUME NEW c \in Channels, NEW s \in Slots,
             \A d \in Channels \ {c} : q'[d] = q[d],
             \A x \in Slots \ {s} : SameBatch(task[x], task'[x]),
             Drained(q'[c]) \subseteq Drained(q[c]) \cup BatchOf(s),
             BatchOf(s)' \subseteq Drained(q[c]) \cup BatchOf(s),
             gone' \subseteq gone \cup Drained(q[c]) \cup BatchOf(s)
      PROVE  Seen(e)
  <2>1. \A x \in Drained(q[c]) \cup BatchOf(s) \cup gone : Seen(x)
    BY DEF Seen
  <2>2. \A x \in Slots \ {s} : BatchOf(x)' = BatchOf(x)
    BY <1>4, BatchKept
  <2>3. ASSUME NEW x \in Slots, e \in BatchOf(x)'
        PROVE  Seen(e)
    <3>1. CASE x = s
      <4>1. e \in Drained(q[c]) \cup BatchOf(s)
        BY <1>4, <2>3, <3>1
      <4>. QED
        BY <2>1, <4>1
    <3>2. CASE x # s
      <4>1. e \in BatchOf(x)
        BY <2>2, <2>3, <3>2
      <4>. QED
        BY <4>1 DEF Seen
    <3>. QED
      BY <3>1, <3>2
  <2>4. ASSUME NEW d \in Channels, e \in Drained(q'[d])
        PROVE  Seen(e)
    <3>1. CASE d = c
      <4>1. e \in Drained(q[c]) \cup BatchOf(s)
        BY <1>4, <2>4, <3>1
      <4>. QED
        BY <2>1, <4>1
    <3>2. CASE d # c
      <4>1. e \in Drained(q[d])
        BY <1>4, <2>4, <3>2
      <4>. QED
        BY <4>1 DEF Seen
    <3>. QED
      BY <3>1, <3>2
  <2>. QED
    BY <1>2, <1>4, <2>1, <2>3, <2>4
<1>5. CASE StillStep
  <2>1. \A c \in Channels : Drained(q'[c]) \subseteq Drained(q[c]) \cup {}
    BY <1>5, SameTablesFollow DEF StillStep
  <2>2. \A x \in gone' : Seen(x)
    BY <1>5 DEF StillStep, Seen
  <2>. QED
    BY <1>3, <1>5, <2>1, <2>2 DEF StillStep
<1>6. ASSUME NEW c \in Channels, RelayStep(c)
      PROVE  Goal
  <2>. DEFINE X == {arrived + 1}
  <2>1. /\ arrived' = arrived + 1 /\ KeepsBatches
        /\ \A d \in Channels \ {c} : q'[d] = q[d]
        /\ \E let : Account(q[c], X, q'[c], let) /\ gone' = gone \cup let
    BY <1>6, RelayEffect DEF BaseInv, RelayStep
  <2>2. PICK let : Drained(q'[c]) \cup let = Drained(q[c]) \cup X
                   /\ gone' = gone \cup let
    BY <2>1 DEF Account
  <2>. HIDE DEF X
  <2>3. \A d \in Channels : Drained(q'[d]) \subseteq Drained(q[d]) \cup X
    BY <2>1, <2>2
  <2>4. \A x \in gone' : Seen(x) \/ x \in X
    BY <2>2 DEF Seen
  <2>5. Seen(e) \/ e \in X
    BY <1>3, <2>1, <2>3, <2>4
  <2>. QED
    BY <2>1, <2>5 DEF X
<1>7. ASSUME NEW c \in Channels, KeepsBatches,
             \A d \in Channels \ {c} : q'[d] = q[d],
             Drained(q'[c]) \subseteq Drained(q[c]),
             gone' \subseteq gone \cup Drained(q[c])
      PROVE  Seen(e)
  <2>1. \A d \in Channels : Drained(q'[d]) \subseteq Drained(q[d]) \cup {}
    BY <1>7
  <2>2. \A x \in gone' : Seen(x)
    BY <1>7 DEF Seen
  <2>. QED
    BY <1>3, <1>7, <2>1, <2>2
<1>8. ASSUME NEW c \in Channels, RemovalStep(c)
      PROVE  Goal
  BY <1>7, <1>8, RemovalEffect DEF BaseInv, RemovalStep
<1>9. ASSUME NEW a \in acks, AckStep(a)
      PROVE  Goal
  <2>. DEFINE c == a.ch
              n == a.ev
  <2>1. /\ c \in Channels /\ n \in Events /\ KeepsBatches
        /\ \A d \in Channels \ {c} : q'[d] = q[d]
        /\ \/ \E let : Account(q[c], {}, q'[c], let) /\ gone' = gone \cup let
           \/ /\ gone' = gone \cup {n}
              /\ Drained(q'[c]) \cup {n} = Drained(q[c]) \cup {n}
    BY <1>9, AckEffect DEF BaseInv, AckStep
  <2>2. n \in Range(q[c].withheld) \cup gone
    BY <2>1 DEF TokensSecure, Token
  <2>3. \/ n \in Drained(q[c])
        \/ n \in gone
    BY <2>2 DEF Drained
  <2>. HIDE DEF c, n
  <2>4. CASE \E let : Account(q[c], {}, q'[c], let) /\ gone' = gone \cup let
    BY <1>7, <2>1, <2>4 DEF Account
  <2>5. CASE /\ gone' = gone \cup {n}
             /\ Drained(q'[c]) \cup {n} = Drained(q[c]) \cup {n}
    <3>1. \A d \in Channels : Drained(q'[d]) \subseteq Drained(q[d]) \cup {n}
      BY <2>1, <2>5
    <3>2. Seen(n)
      BY <2>1, <2>3 DEF Seen
    <3>3. \A x \in gone' : Seen(x)
      BY <2>5, <3>2 DEF Seen
    <3>. QED
      BY <1>3, <2>1, <3>1, <3>2, <3>3
  <2>. QED
    BY <2>1, <2>4, <2>5
<1>10. CASE ExpiryStep
  <2>1. StillStep
    BY <1>1, <1>10 DEF ExpiryStep, StillStep, SameTables
  <2>. QED
    BY <1>5, <2>1
<1>11. CASE FullPoolStep
  <2>1. PICK c \in Channels, let \in SUBSET Events, lost \in SUBSET Events :
            /\ gone' = gone \cup ExpiredGone \cup let
            /\ \A d \in Channels \ {c} : q'[d] = Expired[d]
            /\ Drained(q'[c]) \cup let \cup lost = Drained(Expired[c])
    BY <1>11, FullPoolEffect DEF BaseInv
  <2>2. /\ gone' = gone \cup let
        /\ Drained(q'[c]) \cup let \cup lost = Drained(q[c])
        /\ \A d \in Channels \ {c} : q'[d] = q[d]
    BY <1>1, <2>1
  <2>3. /\ gone' \subseteq gone \cup Drained(q[c])
        /\ Drained(q'[c]) \subseteq Drained(q[c])
    BY <2>2
  <2>. QED
    BY <1>7, <1>11, <2>2, <2>3 DEF FullPoolStep
<1>12. CASE Dispatch
  <2>1. PICK c \in Channels, s \in Slots, b \in Batches :
            /\ gone' = gone \cup ExpiredGone
            /\ \A d \in Channels \ {c} : q'[d] = Expired[d]
            /\ \A x \in Slots \ {s} : SameBatch(task[x], task'[x])
            /\ BatchAt(s, b)
            /\ Parts(Expired[c], b, q'[c])
    BY <1>12, DispatchEffect
  <2>2. /\ gone' = gone /\ Parts(q[c], b, q'[c])
        /\ \A d \in Channels \ {c} : q'[d] = q[d]
    BY <1>1, <2>1
  <2>3. BatchOf(s)' = Range(b.events) \cup Range(b.merged)
    BY <2>1 DEF BatchOf, BatchAt
  <2>4. /\ Drained(q'[c]) \subseteq Drained(q[c]) \cup BatchOf(s)
        /\ BatchOf(s)' \subseteq Drained(q[c]) \cup BatchOf(s)
        /\ gone' \subseteq gone \cup Drained(q[c]) \cup BatchOf(s)
    BY <2>2, <2>3 DEF Parts
  <2>. QED
    BY <1>4, <2>1, <2>2, <2>4
<1>13. ASSUME NEW s \in Slots, SettleStep(s)
       PROVE  Goal
  <2>. DEFINE c == task[s].ch
  <2>1. /\ \A x \in Slots \ {s} : SameBatch(task[x], task'[x])
        /\ task'[s].events = <<>> /\ task'[s].merged = <<>>
        /\ UNCHANGED arrived
        /\ \/ UNCHANGED <<q, gone>> /\ KeepsBatches
           \/ /\ c \in Channels
              /\ \A d \in Channels \ {c} : q'[d] = q[d]
              /\ \E let, lost :
                    /\ gone' = gone \cup let
                    /\ Drained(q'[c]) \cup let \cup lost =
                         Drained(q[c]) \cup BatchOf(s)
    BY <1>13, SettleEffect
  <2>2. CASE UNCHANGED <<q, gone>> /\ KeepsBatches
    <3>1. StillStep
      BY <2>1, <2>2 DEF StillStep, SameTables
    <3>. QED
      BY <1>5, <3>1
  <2>3. ASSUME c \in Channels, \A d \in Channels \ {c} : q'[d] = q[d],
               NEW let, NEW lost,
               gone' = gone \cup let,
               Drained(q'[c]) \cup let \cup lost = Drained(q[c]) \cup BatchOf(s)
        PROVE  Goal
    <3>1. BatchOf(s)' = {}
      BY <2>1, EmptyRange DEF BatchOf
    <3>2. /\ Drained(q'[c]) \subseteq Drained(q[c]) \cup BatchOf(s)
          /\ BatchOf(s)' \subseteq Drained(q[c]) \cup BatchOf(s)
          /\ gone' \subseteq gone \cup Drained(q[c]) \cup BatchOf(s)
      BY <2>3, <3>1
    <3>. HIDE DEF c
    <3>. QED
      BY <1>4, <2>1, <2>3, <3>2
  <2>. QED
    BY <2>1, <2>2, <2>3
<1>. QED
  BY <1>5, <1>6, <1>8, <1>9, <1>10, <1>11, <1>12, <1>13, StepKinds DEF BaseInv

\* arrived counts up, and only with a relay event.
LEMMA ArrivedGrows ==
    ASSUME BaseInv, [Next]_vars
    PROVE  arrived \in Nat /\ arrived' \in Nat /\ arrived <= arrived'
<1>1. arrived \in Nat /\ arrived' \in Nat
  <2>1. TypeInv /\ TypeInv'
    BY TypeInvInductive DEF BaseInv
  <2>. QED
    BY <2>1, QueueConstants DEF TypeInv, TypeOK
<1>2. CASE arrived' = arrived
  BY <1>1, <1>2
<1>3. ASSUME NEW c \in Channels, RelayStep(c)
      PROVE  arrived' = arrived + 1
  BY <1>3, RelayEffect DEF BaseInv
<1>4. (\E a \in acks : AckStep(a)) \/ FullPoolStep \/ Dispatch
        => arrived' = arrived
  BY DEF AckStep, HandleAck, FullPoolStep, PoolExhausted, Dispatch
<1>5. (\E s \in Slots : SettleStep(s)) \/ ExpiryStep \/ StillStep
         \/ (\E c \in Channels : RemovalStep(c))
        => arrived' = arrived
  BY DEF SettleStep, ExpiryStep, StillStep, RemovalStep, MemberRemoved
<1>. QED
  BY <1>1, <1>2, <1>3, <1>4, <1>5, StepKinds DEF BaseInv

LEMMA ArrivedStep ==
    ASSUME BaseInv, NeverOverdue, TokensSecure, ArrivedInv, [Next]_vars
    PROVE  ArrivedInv'
<1>1. arrived \in Nat /\ arrived' \in Nat /\ arrived <= arrived'
  BY ArrivedGrows
<1>2. TypeInv /\ TypeInv'
  BY TypeInvInductive DEF BaseInv
<1>3. ASSUME NEW e \in Nat, Seen(e)'
      PROVE  e <= arrived'
  <2>1. Seen(e) \/ e = arrived'
    BY <1>3, NothingAppears
  <2>2. Seen(e) => e <= arrived
    BY DEF Seen, ArrivedInv
  <2>. QED
    BY <1>1, <1>3, <2>1, <2>2
<1>4. Events \subseteq Nat
  BY QueueConstants DEF Events
<1>5. /\ \A c \in Channels : Drained(q'[c]) \subseteq Events
      /\ gone' \subseteq Events
      /\ \A s \in Slots : BatchOf(s)' \subseteq Events
  <2>1. /\ q' \in [Channels -> ChannelState]
        /\ task' \in [Slots -> Tasks] /\ gone' \subseteq Events
    BY <1>2 DEF TypeInv, TypeOK
  <2>2. \A c \in Channels : Drained(q'[c]) \subseteq Events
    BY <2>1, TablesType, RangeOfEvents DEF Drained
  <2>3. \A s \in Slots : task'[s].events \in Seq(Events)
                         /\ task'[s].merged \in Seq(Events)
    BY <2>1 DEF Tasks
  <2>4. \A s \in Slots : BatchOf(s)' \subseteq Events
    BY <2>3, RangeOfEvents DEF BatchOf
  <2>. QED
    BY <2>1, <2>2, <2>4
<1>6. ASSUME NEW c \in Channels, NEW e \in Drained(q'[c])
      PROVE  e <= arrived'
  <2>1. Seen(e)' /\ e \in Nat
    BY <1>4, <1>5 DEF Seen
  <2>. QED
    BY <1>3, <2>1
<1>7. ASSUME NEW s \in Slots, NEW e \in BatchOf(s)'
      PROVE  e <= arrived'
  <2>1. e \in Nat
    BY <1>4, <1>5, <1>7
  <2>2. Seen(e)'
    BY <1>7 DEF Seen
  <2>. QED
    BY <1>3, <2>1, <2>2
<1>8. ASSUME NEW e \in gone'
      PROVE  e <= arrived'
  <2>1. Seen(e)' /\ e \in Nat
    BY <1>4, <1>5 DEF Seen
  <2>. QED
    BY <1>3, <2>1
<1>. QED
  BY <1>6, <1>7, <1>8 DEF ArrivedInv

-----------------------------------------------------------------------------
(* A steered event stays withheld, or done with, until its ack is handled. *)

LEMMA SecureStep ==
    ASSUME BaseInv, NeverOverdue, [Next]_vars, NEW c \in Channels, NEW e,
           e \in Range(q[c].withheld) \cup gone
    PROVE  \/ e \in Range(q'[c].withheld) \cup gone'
           \/ \E a \in acks : HandleAck(a) /\ a.ch = c /\ a.ev = e
<1>. DEFINE Goal ==
              \/ e \in Range(q'[c].withheld) \cup gone'
              \/ \E a \in acks : HandleAck(a) /\ a.ch = c /\ a.ev = e
<1>1. (\A d \in Channels : Expired[d] = q[d]) /\ ExpiredGone = {}
  BY NothingExpires DEF BaseInv
<1>2. CASE gone \subseteq gone' /\ Range(q[c].withheld) \subseteq Range(q'[c].withheld)
  BY <1>2
<1>3. CASE StillStep
  BY <1>2, <1>3 DEF StillStep, SameTables
<1>4. ASSUME NEW d \in Channels, RelayStep(d)
      PROVE  Goal
  <2>1. /\ \A x \in Channels \ {d} : q'[x] = q[x]
        /\ Range(q[d].withheld) \subseteq Range(q'[d].withheld)
        /\ \E let : gone' = gone \cup let
    BY <1>4, RelayEffect DEF BaseInv
  <2>2. Range(q[c].withheld) \subseteq Range(q'[c].withheld)
    BY <2>1
  <2>3. gone \subseteq gone'
    BY <2>1
  <2>. QED
    BY <1>2, <2>2, <2>3
<1>5. ASSUME NEW d \in Channels, RemovalStep(d)
      PROVE  Goal
  <2>1. /\ \A x \in Channels \ {d} : q'[x] = q[x]
        /\ gone' = gone \cup Drained(q[d])
    BY <1>5, RemovalEffect DEF BaseInv
  <2>2. CASE d = c
    BY <2>1, <2>2 DEF Drained
  <2>3. CASE d # c
    BY <2>1, <2>3
  <2>. QED
    BY <2>2, <2>3
<1>6. ASSUME NEW a \in acks, AckStep(a)
      PROVE  Goal
  <2>. DEFINE d == a.ch
              n == a.ev
  <2>1. /\ \A x \in Channels \ {d} : q'[x] = q[x]
        /\ Range(q[d].withheld) \ {n} \subseteq Range(q'[d].withheld)
        /\ \/ \E let : gone' = gone \cup let
           \/ gone' = gone \cup {n}
    BY <1>6, AckEffect DEF BaseInv
  <2>2. HandleAck(a)
    BY <1>6 DEF AckStep
  <2>3. gone \subseteq gone'
    BY <2>1
  <2>. HIDE DEF d, n
  <2>4. CASE d = c /\ n = e
    BY <2>2, <2>4 DEF d, n
  <2>5. CASE ~(d = c /\ n = e)
    BY <2>1, <2>3, <2>5
  <2>. QED
    BY <2>4, <2>5
<1>7. CASE ExpiryStep
  BY <1>1, <1>2, <1>7 DEF ExpiryStep
<1>8. CASE FullPoolStep
  <2>1. PICK d \in Channels, let \in SUBSET Events, lost \in SUBSET Events :
            /\ gone' = gone \cup ExpiredGone \cup let
            /\ \A x \in Channels \ {d} : q'[x] = Expired[x]
            /\ q'[d].withheld = Expired[d].withheld
    BY <1>8, FullPoolEffect DEF BaseInv
  <2>2. q'[c].withheld = q[c].withheld /\ gone \subseteq gone'
    BY <1>1, <2>1
  <2>. QED
    BY <1>2, <2>2
<1>9. CASE Dispatch
  <2>1. PICK d \in Channels, s \in Slots, b \in Batches :
            /\ gone' = gone \cup ExpiredGone
            /\ \A x \in Channels \ {d} : q'[x] = Expired[x]
            /\ Parts(Expired[d], b, q'[d])
    BY <1>9, DispatchEffect
  <2>2. q'[d].withheld = q[d].withheld
    BY <1>1, <2>1 DEF Parts
  <2>3. q'[c].withheld = q[c].withheld /\ gone \subseteq gone'
    BY <1>1, <2>1, <2>2
  <2>. QED
    BY <1>2, <2>3
<1>10. ASSUME NEW s \in Slots, SettleStep(s)
       PROVE  Goal
  <2>. DEFINE d == task[s].ch
  <2>1. \/ UNCHANGED <<q, gone>>
        \/ /\ \A x \in Channels \ {d} : q'[x] = q[x]
           /\ q'[d].withheld = q[d].withheld
           /\ \E let : gone' = gone \cup let
    BY <1>10, SettleEffect
  <2>2. q'[c].withheld = q[c].withheld /\ gone \subseteq gone'
    <3>. HIDE DEF d
    <3>. QED
      BY <2>1
  <2>. QED
    BY <1>2, <2>2
<1>. QED
  BY <1>3, <1>4, <1>5, <1>6, <1>7, <1>8, <1>9, <1>10, StepKinds DEF BaseInv

-----------------------------------------------------------------------------
(* How the requests and acks move.                                         *)

\* A task t that becomes u passes steers on to the acks N, each to one of them.
Passes(t, u, N) ==
    /\ Orphaned(u) \subseteq Orphaned(t)
    /\ Orphaned(u) # {} => u.ch = t.ch
    /\ u.buffered # NoEvent => u.buffered # u.written
    /\ \A a \in N : a.ch = t.ch /\ a.ev \in Orphaned(t) \ Orphaned(u)
    /\ \A a, b \in N : a.ev = b.ev => a = b

PassStep(s) ==
    \E N \in SUBSET [ch : Channels, ev : Events, kind : AckKinds] :
        /\ \A x \in Slots \ {s} : task'[x] = task[x]
        /\ acks' = acks \cup N
        /\ Passes(task[s], task'[s], N)

RestStep == acks' \subseteq acks /\ \A s \in Slots : SameTurn(task[s], task'[s])

\* A relay event that is steered: it is withheld, and some task holds it.
SteerStep(s) ==
    /\ UNCHANGED acks
    /\ \A x \in Slots \ {s} : task'[x] = task[x]
    /\ task'[s].buffered = arrived + 1 /\ task[s].buffered = NoEvent
    /\ task'[s].written = task[s].written /\ task'[s].ch = task[s].ch
    /\ arrived + 1 \in Range(q'[task[s].ch].withheld)

\* A task with no steer that is replaced by another with none.
LEMMA PassNothing ==
    ASSUME TypeInv, NEW s \in Slots, NEW u, task' = [task EXCEPT ![s] = u],
           UNCHANGED acks, u.buffered = NoEvent, u.written = NoEvent
    PROVE  PassStep(s)
<1>1. \A x \in Slots : task'[x] = IF x = s THEN u ELSE task[x]
  BY DEF TypeInv, TypeOK
<1>2. Passes(task[s], u, {})
  BY DEF Passes, Orphaned
<1>3. \A x \in Slots \ {s} : task'[x] = task[x]
  BY <1>1
<1>4. task'[s] = u /\ acks' = acks \cup {}
  BY <1>1
<1>5. {} \in SUBSET [ch : Channels, ev : Events, kind : AckKinds]
  OBVIOUS
<1>. QED
  BY <1>2, <1>3, <1>4, <1>5 DEF PassStep

LEMMA PassOn ==
    ASSUME TypeInv, TypeInv', NEW s \in Slots, NEW u, task' = [task EXCEPT ![s] = u],
           NEW N, acks' = acks \cup N, Passes(task[s], u, N)
    PROVE  PassStep(s)
<1>1. \A x \in Slots : task'[x] = IF x = s THEN u ELSE task[x]
  BY DEF TypeInv, TypeOK
<1>2. N \in SUBSET [ch : Channels, ev : Events, kind : AckKinds]
  BY DEF TypeInv, TypeOK
<1>. QED
  BY <1>1, <1>2 DEF PassStep

LEMMA PromptTokens ==
    ASSUME BaseInv, TypeInv', TokensDistinct, PromptTasks
    PROVE  \E s \in Slots : PassStep(s)
<1>. DEFINE Goal == \E s \in Slots : PassStep(s)
<1>1. \A s \in Slots : task[s] \in Tasks
  BY DEF BaseInv, TypeInv, TypeOK
<1>2. ASSUME NEW s \in Slots, NEW u, task' = [task EXCEPT ![s] = u],
             NEW N, acks' = acks \cup N, Passes(task[s], u, N)
      PROVE  Goal
  BY <1>2, PassOn DEF BaseInv
<1>3. ASSUME NEW s \in Slots, SteerTaken(s)
      PROVE  Goal
  <2>. DEFINE t == task[s]
              u1 == [t EXCEPT !.buffered = NoEvent, !.written = t.buffered]
              u2 == [t EXCEPT !.buffered = NoEvent]
              a == [ch |-> t.ch, ev |-> t.buffered, kind |-> "Fallback"]
              N == {a}
              none == {}
  <2>1. t \in Tasks /\ t.written = NoEvent /\ t.buffered # NoEvent
    BY <1>1, <1>3 DEF SteerTaken
  <2>2. \/ task' = [task EXCEPT ![s] = u1] /\ acks' = acks \cup none
        \/ task' = [task EXCEPT ![s] = u2] /\ acks' = acks \cup N
    BY <1>3 DEF SteerTaken, BaseInv, TypeInv, TypeOK
  <2>3. u1.ch = t.ch /\ u1.written = t.buffered /\ u1.buffered = NoEvent
    BY <2>1 DEF Tasks
  <2>4. u2.ch = t.ch /\ u2.written = NoEvent /\ u2.buffered = NoEvent
    BY <2>1 DEF Tasks
  <2>5. a.ch = t.ch /\ a.ev = t.buffered
    OBVIOUS
  <2>. HIDE DEF u1, u2, a
  <2>6. Passes(t, u1, none)
    BY <2>1, <2>3 DEF Passes, Orphaned
  <2>7. Passes(t, u2, N)
    BY <2>1, <2>4, <2>5 DEF Passes, Orphaned
  <2>. HIDE DEF N, none
  <2>. QED
    BY <1>2, <2>2, <2>6, <2>7
<1>4. ASSUME NEW s \in Slots, NEW kind \in AckKinds, SteerAnswered(s, kind)
      PROVE  Goal
  <2>. DEFINE t == task[s]
              u == [t EXCEPT !.written = NoEvent]
              a == [ch |-> t.ch, ev |-> t.written, kind |-> kind]
              N == {a}
  <2>1. t \in Tasks /\ t.written # NoEvent /\ acks' = acks \cup N
    BY <1>1, <1>4 DEF SteerAnswered
  <2>2. task' = [task EXCEPT ![s] = u]
    BY <1>4 DEF SteerAnswered, BaseInv, TypeInv, TypeOK
  <2>3. u.ch = t.ch /\ u.buffered = t.buffered /\ u.written = NoEvent
    BY <2>1 DEF Tasks
  <2>4. a.ch = t.ch /\ a.ev = t.written
    OBVIOUS
  <2>5. t.buffered # NoEvent => t.buffered # t.written
    BY DEF TokensDistinct
  <2>. HIDE DEF u, a
  <2>6. Passes(t, u, N)
    BY <2>1, <2>3, <2>4, <2>5 DEF Passes, Orphaned
  <2>. HIDE DEF N
  <2>. QED
    BY <1>2, <2>1, <2>2, <2>6
<1>5. ASSUME NEW s \in Slots, NEW u, task' = [task EXCEPT ![s] = u],
             u.buffered = NoEvent, u.written = NoEvent,
             acks' = acks \cup ReleaseAcks(task[s])
      PROVE  Goal
  <2>. DEFINE t == task[s]
              N == ReleaseAcks(t)
  <2>1. \A a \in N : /\ a.ch = t.ch /\ a.ev \in Orphaned(t)
                     /\ a = [ch |-> t.ch, ev |-> a.ev, kind |-> "Release"]
    BY DEF ReleaseAcks
  <2>2. Orphaned(u) = {}
    BY <1>5 DEF Orphaned
  <2>. HIDE DEF N
  <2>3. \A a, b \in N : a.ev = b.ev => a = b
    BY <2>1
  <2>4. Passes(t, u, N)
    BY <1>5, <2>1, <2>2, <2>3 DEF Passes
  <2>. QED
    BY <1>2, <1>5, <2>4 DEF N
<1>6. ASSUME NEW s \in Slots, ReadLoopReturns(s)
      PROVE  Goal
  <2>. DEFINE u == CloseSteer(task[s])
  <2>1. u.buffered = NoEvent /\ u.written = NoEvent
    BY <1>1 DEF CloseSteer, Tasks
  <2>2. task' = [task EXCEPT ![s] = u] /\ acks' = acks \cup ReleaseAcks(task[s])
    BY <1>6 DEF ReadLoopReturns
  <2>. HIDE DEF u
  <2>. QED
    BY <1>5, <2>1, <2>2
<1>7. ASSUME NEW s \in Slots, NEW out, NEW keep, Finish(s, out, keep)
      PROVE  Goal
  <2>. DEFINE t == task[s]
              u == [CloseSteer(t) EXCEPT !.st = "done", !.out = out,
                     !.keep = keep /\ DedupMode = "Queue" /\ t.ch # NoChannel]
  <2>1. u.buffered = NoEvent /\ u.written = NoEvent
    BY <1>1 DEF CloseSteer, Tasks
  <2>2. task' = [task EXCEPT ![s] = u] /\ acks' = acks \cup ReleaseAcks(t)
    BY <1>7 DEF Finish
  <2>. HIDE DEF u
  <2>. QED
    BY <1>5, <2>1, <2>2
<1>8. ASSUME NEW s \in Slots, TaskPanics(s)
      PROVE  Goal
  <2>. DEFINE t == task[s]
              u == [CloseSteer(t) EXCEPT !.st = "panicked", !.sig = "none",
                     !.keep = DedupMode = "Queue" /\ t.ch # NoChannel]
  <2>1. u.buffered = NoEvent /\ u.written = NoEvent
    BY <1>1 DEF CloseSteer, Tasks
  <2>2. task' = [task EXCEPT ![s] = u] /\ acks' = acks \cup ReleaseAcks(t)
    BY <1>8 DEF TaskPanics
  <2>. HIDE DEF u
  <2>. QED
    BY <1>5, <2>1, <2>2
<1>. QED
  BY <1>3, <1>4, <1>6, <1>7, <1>8
     DEF PromptTasks, TurnOk, TurnFails, TurnCancelled

LEMMA RelayTokens ==
    ASSUME BaseInv, NEW c \in Channels, NEW fromOwner \in BOOLEAN,
           RelayEvent(c, fromOwner)
    PROVE  RestStep \/ \E s \in Slots : SteerStep(s)
<1>. DEFINE n == arrived + 1
            r == Push(q[c], n)
            w == Withhold(r, n)
<1>1. q \in [Channels -> ChannelState] /\ task \in [Slots -> Tasks] /\ UNCHANGED acks
  BY DEF BaseInv, TypeInv, TypeOK, RelayEvent
<1>2. n \in Events
  BY QueueConstants DEF BaseInv, TypeInv, TypeOK, RelayEvent, Events
<1>3. r \in ChannelState /\ n \in Range(r.pending)
  BY <1>1, <1>2, PushType, PushContents
<1>4. n \in Range(w.withheld)
  <2>. HIDE DEF r, n
  <2>. QED
    BY <1>2, <1>3, WithholdContents
<1>5. CASE UNCHANGED task
  BY <1>1, <1>5 DEF RestStep, SameTurn
<1>6. CASE task' \in SignalTask(task, c, GateSignal(fromOwner))
           /\ GateSignal(fromOwner) # "none"
  <2>1. GateSignal(fromOwner) \in Signals
    BY <1>6, GateSignalType
  <2>. QED
    BY <1>1, <1>6, <2>1, SignalTaskEffect DEF RestStep
<1>7. ASSUME NEW s \in SteerAccepts(c),
             task' = [task EXCEPT ![s].buffered = n],
             q' = [q EXCEPT ![c] = w]
      PROVE  \E x \in Slots : SteerStep(x)
  <2>. DEFINE t == task[s]
              u == [t EXCEPT !.buffered = n]
  <2>1. s \in Slots /\ t \in Tasks /\ t.ch = c /\ t.buffered = NoEvent
    BY <1>1 DEF SteerAccepts, TasksOn
  <2>. HIDE DEF w, n
  <2>2. u.buffered = n /\ u.written = t.written /\ u.ch = t.ch
    BY <2>1 DEF Tasks
  <2>3. task' = [task EXCEPT ![s] = u]
    BY <1>1, <1>7, <2>1
  <2>. HIDE DEF u
  <2>4. \A x \in Slots : task'[x] = IF x = s THEN u ELSE task[x]
    BY <1>1, <2>3
  <2>5. q'[c] = w
    BY <1>1, <1>7
  <2>. QED
    BY <1>1, <1>4, <2>1, <2>2, <2>4, <2>5 DEF SteerStep, n
<1>. HIDE DEF w
<1>8. \/ UNCHANGED task
      \/ \E s \in SteerAccepts(c) : /\ task' = [task EXCEPT ![s].buffered = n]
                                    /\ q' = [q EXCEPT ![c] = w]
      \/ task' \in SignalTask(task, c, GateSignal(fromOwner))
           /\ GateSignal(fromOwner) # "none"
  BY DEF RelayEvent, w
<1>. QED
  BY <1>5, <1>6, <1>7, <1>8

LEMMA LoopTokens ==
    ASSUME BaseInv, MainLoop
    PROVE  \/ RestStep
           \/ \E s \in Slots : PassStep(s)
           \/ \E s \in Slots : SteerStep(s)
<1>. DEFINE Goal == \/ RestStep
                    \/ \E s \in Slots : PassStep(s)
                    \/ \E s \in Slots : SteerStep(s)
<1>1. task \in [Slots -> Tasks]
  BY DEF BaseInv, TypeInv, TypeOK
<1>2. CASE UNCHANGED task /\ acks' \subseteq acks
  BY <1>2 DEF RestStep, SameTurn
<1>3. ASSUME NEW c, NEW sig \in Signals, task' \in SignalTask(task, c, sig),
             acks' \subseteq acks
      PROVE  Goal
  BY <1>1, <1>3, SignalTaskEffect DEF RestStep
<1>4. ASSUME NEW s \in Slots, NEW u, task' = [task EXCEPT ![s] = u],
             UNCHANGED acks, u.buffered = NoEvent, u.written = NoEvent
      PROVE  Goal
  BY <1>4, PassNothing DEF BaseInv
<1>5. ASSUME NEW c \in Channels, NEW sig \in OwnerSignals, OwnerControl(c, sig)
      PROVE  Goal
  <2>1. sig \in Signals
    BY HarnessConstants DEF Signals
  <2>. QED
    BY <1>3, <1>5, <2>1 DEF OwnerControl
<1>6. ASSUME NEW a \in acks, HandleAck(a)
      PROVE  Goal
  <2>1. "Steer" \in Signals
    BY DEF Signals
  <2>. QED
    BY <1>2, <1>3, <1>6, <2>1 DEF HandleAck
<1>7. CASE HandleResult \/ \E s \in Slots : RecoverPanicked(s)
  <2>1. PICK s \in Slots : task' = [task EXCEPT ![s] = NoTask]
    BY <1>7, SettledTask DEF BaseInv
  <2>2. UNCHANGED acks
    BY <1>7 DEF HandleResult, RecoverPanicked
  <2>3. NoTask.buffered = NoEvent /\ NoTask.written = NoEvent
    BY DEF NoTask
  <2>. QED
    BY <1>4, <2>1, <2>2, <2>3
<1>8. idle \subseteq Slots
  BY DEF BaseInv, TypeInv, TypeOK
<1>9. CASE Dispatch
  <2>1. PICK f \in Flushes, s \in idle : task' = [task EXCEPT ![s] = NewTask(f)]
    BY <1>9 DEF Dispatch
  <2>. DEFINE u == NewTask(f)
  <2>2. u.buffered = NoEvent /\ u.written = NoEvent
    BY DEF NewTask, NoTask
  <2>3. UNCHANGED acks
    BY <1>9 DEF Dispatch
  <2>. HIDE DEF u
  <2>. QED
    BY <1>4, <1>8, <2>1, <2>2, <2>3 DEF u
<1>10. CASE HeartbeatTick
  <2>. DEFINE u == [NoTask EXCEPT !.st = "running"]
  <2>1. u.buffered = NoEvent /\ u.written = NoEvent
    BY DEF NoTask
  <2>2. \/ UNCHANGED task
        \/ \E s \in idle : task' = [task EXCEPT ![s] = u]
    BY <1>10 DEF HeartbeatTick
  <2>3. UNCHANGED acks
    BY <1>10 DEF HeartbeatTick
  <2>. HIDE DEF u
  <2>. QED
    BY <1>2, <1>4, <1>8, <2>1, <2>2, <2>3
<1>11. CASE \/ \E d \in Channels : MemberRemoved(d) \/ MemberAdded(d)
            \/ PoolExhausted \/ NothingToFlush \/ JoinsDrained \/ Maintenance
            \/ MaintenanceNotDue \/ RespawnsCollected
            \/ \E s \in Slots : RespawnOk(s) \/ RespawnFailed(s)
            \/ TimerTick \/ Shutdown
  BY <1>2, <1>11 DEF MemberRemoved, MemberAdded, PoolExhausted, NothingToFlush,
     JoinsDrained, Maintenance, MaintenanceNotDue, RespawnsCollected, RespawnOk,
     RespawnFailed, TimerTick, Shutdown
<1>. QED
  BY <1>5, <1>6, <1>7, <1>9, <1>10, <1>11, RelayTokens DEF MainLoop

LEMMA TokenKinds ==
    ASSUME BaseInv, TokensDistinct, [Next]_vars
    PROVE  \/ RestStep
           \/ \E s \in Slots : PassStep(s)
           \/ \E s \in Slots : SteerStep(s)
<1>1. CASE UNCHANGED <<task, acks>>
  BY <1>1 DEF RestStep, SameTurn
<1>2. CASE Time
  BY <1>1, <1>2 DEF Time, BackoffElapses, DeadlinePasses
<1>3. TypeInv'
  BY TypeInvInductive DEF BaseInv
<1>. QED
  BY <1>1, <1>2, <1>3, LoopTokens, PromptTokens DEF Next, Exited, vars

\* Every steered event has arrived.
LEMMA TokensArrived ==
    ASSUME BaseInv, TokensSecure, ArrivedInv
    PROVE  /\ \A s \in Slots : \A e \in Orphaned(task[s]) :
                task[s].ch \in Channels /\ e \in Events /\ e <= arrived
           /\ \A a \in acks : a.ev <= arrived
<1>1. ASSUME NEW c \in Channels, NEW e \in Events, Token(task, acks, c, e)
      PROVE  e <= arrived
  <2>1. e \in Range(q[c].withheld) \cup gone
    BY <1>1 DEF TokensSecure
  <2>2. e \in Drained(q[c]) \/ e \in gone
    BY <2>1 DEF Drained
  <2>. QED
    BY <2>2 DEF ArrivedInv
<1>2. ASSUME NEW s \in Slots, NEW e \in Orphaned(task[s])
      PROVE  task[s].ch \in Channels /\ e \in Events /\ e <= arrived
  <2>1. task[s] \in Tasks
    BY DEF BaseInv, TypeInv, TypeOK
  <2>2. e \in Events /\ task[s].ch \in Channels
    BY <2>1 DEF BaseInv, TypeInv, HeartbeatNeverSteered, Orphaned, Tasks
  <2>3. Token(task, acks, task[s].ch, e)
    BY DEF Token
  <2>. QED
    BY <1>1, <2>2, <2>3
<1>3. ASSUME NEW a \in acks
      PROVE  a.ev <= arrived
  <2>1. a.ch \in Channels /\ a.ev \in Events
    BY DEF BaseInv, TypeInv, TypeOK
  <2>2. Token(task, acks, a.ch, a.ev)
    BY DEF Token
  <2>. QED
    BY <1>1, <2>1, <2>2
<1>. QED
  BY <1>2, <1>3

LEMMA DistinctStep ==
    ASSUME BaseInv, TokensDistinct, TokensSecure, ArrivedInv, [Next]_vars
    PROVE  TokensDistinct'
<1>1. CASE RestStep
  <2>1. \A s \in Slots : /\ Orphaned(task'[s]) = Orphaned(task[s])
                         /\ task'[s].buffered = task[s].buffered
                         /\ task'[s].written = task[s].written
    BY <1>1 DEF RestStep, SameTurn, Orphaned
  <2>. QED
    BY <1>1, <2>1 DEF RestStep, TokensDistinct
<1>2. ASSUME NEW s \in Slots, PassStep(s)
      PROVE  TokensDistinct'
  <2>1. PICK N \in SUBSET [ch : Channels, ev : Events, kind : AckKinds] :
              /\ \A x \in Slots \ {s} : task'[x] = task[x]
              /\ acks' = acks \cup N
              /\ Passes(task[s], task'[s], N)
    BY <1>2 DEF PassStep
  <2>2. \A x \in Slots : Orphaned(task'[x]) \subseteq Orphaned(task[x])
    BY <2>1 DEF Passes
  <2>3. \A x \in Slots :
          task'[x].buffered # NoEvent => task'[x].buffered # task'[x].written
    BY <2>1 DEF Passes, TokensDistinct
  <2>4. \A x, y \in Slots :
          x # y => Orphaned(task'[x]) \cap Orphaned(task'[y]) = {}
    BY <2>2 DEF TokensDistinct
  <2>5. ASSUME NEW x \in Slots, NEW a \in acks'
        PROVE  a.ev \notin Orphaned(task'[x])
    <3>1. CASE a \in acks
      BY <2>2, <3>1 DEF TokensDistinct
    <3>2. CASE a \in N
      <4>1. a.ev \in Orphaned(task[s]) /\ a.ev \notin Orphaned(task'[s])
        BY <2>1, <3>2 DEF Passes
      <4>. QED
        BY <2>2, <4>1 DEF TokensDistinct
    <3>. QED
      BY <2>1, <3>1, <3>2
  <2>6. \A a \in N : a.ev \in Orphaned(task[s])
    BY <2>1 DEF Passes
  <2>7. \A a, b \in N : a.ev = b.ev => a = b
    BY <2>1 DEF Passes
  <2>8. \A a \in acks : a.ev \notin Orphaned(task[s])
    BY DEF TokensDistinct
  <2>9. \A a, b \in acks' : a.ev = b.ev => a = b
    BY <2>1, <2>6, <2>7, <2>8 DEF TokensDistinct
  <2>. QED
    BY <2>3, <2>4, <2>5, <2>9 DEF TokensDistinct
<1>3. ASSUME NEW s \in Slots, SteerStep(s)
      PROVE  TokensDistinct'
  <2>. DEFINE n == arrived + 1
  <2>1. arrived \in Nat
    BY QueueConstants DEF BaseInv, TypeInv, TypeOK
  <2>2. /\ \A x \in Slots : n \notin Orphaned(task[x])
        /\ \A a \in acks : a.ev # n
    BY <2>1, TokensArrived
  <2>3. n # NoEvent
    BY <2>1 DEF NoEvent
  <2>4. /\ acks' = acks /\ \A x \in Slots \ {s} : task'[x] = task[x]
        /\ task'[s].buffered = n /\ task[s].buffered = NoEvent
        /\ task'[s].written = task[s].written
    BY <1>3 DEF SteerStep
  <2>. HIDE DEF n
  <2>5. Orphaned(task'[s]) = Orphaned(task[s]) \cup {n}
    BY <2>3, <2>4 DEF Orphaned
  <2>6. \A x \in Slots :
          task'[x].buffered # NoEvent => task'[x].buffered # task'[x].written
    BY <2>2, <2>3, <2>4 DEF Orphaned, TokensDistinct
  <2>7. \A x, y \in Slots :
          x # y => Orphaned(task'[x]) \cap Orphaned(task'[y]) = {}
    BY <2>2, <2>4, <2>5 DEF TokensDistinct
  <2>8. \A x \in Slots, a \in acks' : a.ev \notin Orphaned(task'[x])
    BY <2>2, <2>4, <2>5 DEF TokensDistinct
  <2>. QED
    BY <2>4, <2>6, <2>7, <2>8 DEF TokensDistinct
<1>. QED
  BY <1>1, <1>2, <1>3, TokenKinds

\* A request or an ack is the one of the last state, or that of a new steer.
LEMMA TokenStep ==
    ASSUME BaseInv, TokensDistinct, [Next]_vars, NEW c \in Channels, NEW e \in Events,
           Token(task', acks', c, e)
    PROVE  Token(task, acks, c, e) \/ e \in Range(q'[c].withheld)
<1>. DEFINE Goal == Token(task, acks, c, e) \/ e \in Range(q'[c].withheld)
<1>1. CASE RestStep
  <2>1. \A s \in Slots : /\ Orphaned(task'[s]) = Orphaned(task[s])
                         /\ task'[s].ch = task[s].ch
    BY <1>1 DEF RestStep, SameTurn, Orphaned
  <2>. QED
    BY <1>1, <2>1 DEF RestStep, Token
<1>2. ASSUME NEW s \in Slots, PassStep(s)
      PROVE  Goal
  <2>1. PICK N \in SUBSET [ch : Channels, ev : Events, kind : AckKinds] :
              /\ \A x \in Slots \ {s} : task'[x] = task[x]
              /\ acks' = acks \cup N
              /\ Passes(task[s], task'[s], N)
    BY <1>2 DEF PassStep
  <2>2. ASSUME NEW x \in Slots, task'[x].ch = c, e \in Orphaned(task'[x])
        PROVE  Goal
    <3>1. task[x].ch = c /\ e \in Orphaned(task[x])
      BY <2>1, <2>2 DEF Passes
    <3>. QED
      BY <3>1 DEF Token
  <2>3. ASSUME NEW a \in acks', a.ch = c, a.ev = e
        PROVE  Goal
    <3>1. CASE a \in acks
      BY <2>3, <3>1 DEF Token
    <3>2. CASE a \in N
      <4>1. task[s].ch = c /\ e \in Orphaned(task[s])
        BY <2>1, <2>3, <3>2 DEF Passes
      <4>. QED
        BY <4>1 DEF Token
    <3>. QED
      BY <2>1, <3>1, <3>2
  <2>. QED
    BY <2>2, <2>3 DEF Token
<1>3. ASSUME NEW s \in Slots, SteerStep(s)
      PROVE  Goal
  <2>. DEFINE n == arrived + 1
  <2>1. /\ acks' = acks /\ \A x \in Slots \ {s} : task'[x] = task[x]
        /\ task'[s].buffered = n /\ task[s].buffered = NoEvent
        /\ task'[s].written = task[s].written /\ task'[s].ch = task[s].ch
        /\ n \in Range(q'[task[s].ch].withheld)
    BY <1>3 DEF SteerStep
  <2>. HIDE DEF n
  <2>2. Orphaned(task'[s]) \subseteq Orphaned(task[s]) \cup {n}
    BY <2>1 DEF Orphaned
  <2>3. ASSUME NEW x \in Slots, task'[x].ch = c, e \in Orphaned(task'[x])
        PROVE  Goal
    <3>1. CASE x = s /\ e = n
      BY <2>1, <2>3, <3>1
    <3>2. CASE ~(x = s /\ e = n)
      <4>1. task[x].ch = c /\ e \in Orphaned(task[x])
        BY <2>1, <2>2, <2>3, <3>2
      <4>. QED
        BY <4>1 DEF Token
    <3>. QED
      BY <3>1, <3>2
  <2>. QED
    BY <2>1, <2>3 DEF Token
<1>. QED
  BY <1>1, <1>2, <1>3, TokenKinds

LEMMA TokensSecureStep ==
    ASSUME BaseInv, NeverOverdue, TokensDistinct, TokensSecure, [Next]_vars
    PROVE  TokensSecure'
<1>. SUFFICES ASSUME NEW c \in Channels, NEW e \in Events,
                    Token(task', acks', c, e)
             PROVE  e \in Range(q'[c].withheld) \cup gone'
  BY DEF TokensSecure
<1>1. CASE e \in Range(q'[c].withheld)
  BY <1>1
<1>2. CASE Token(task, acks, c, e)
  <2>1. e \in Range(q[c].withheld) \cup gone
    BY <1>2 DEF TokensSecure
  <2>2. ASSUME NEW a \in acks, HandleAck(a), a.ch = c, a.ev = e
        PROVE  FALSE
    <3>1. acks' = acks \ {a}
      BY <2>2 DEF HandleAck
    <3>2. \A s \in Slots : Orphaned(task'[s]) = Orphaned(task[s])
      <4>1. "Steer" \in Signals /\ task \in [Slots -> Tasks]
        BY DEF Signals, BaseInv, TypeInv, TypeOK
      <4>2. UNCHANGED task \/ task' \in SignalTask(task, a.ch, "Steer")
        BY <2>2 DEF HandleAck
      <4>3. \A s \in Slots : SameTurn(task[s], task'[s])
        BY <4>1, <4>2, SignalTaskEffect DEF SameTurn
      <4>. QED
        BY <4>3 DEF SameTurn, Orphaned
    <3>3. \A b \in acks' : b.ev # e
      BY <2>2, <3>1 DEF TokensDistinct
    <3>4. \A s \in Slots : e \notin Orphaned(task'[s])
      BY <2>2, <3>2 DEF TokensDistinct
    <3>. QED
      BY <3>3, <3>4 DEF Token
  <2>. QED
    BY <2>1, <2>2, SecureStep
<1>. QED
  BY <1>1, <1>2, TokenStep

-----------------------------------------------------------------------------
(* The theorem.                                                            *)

\* The inductive invariant: the places do not overlap, what they hold has
\* arrived, and each pending steer answers for one withheld event.
DeliveryInv ==
    /\ TurnInv /\ ShapeInv
    /\ OnceInv /\ ArrivedInv
    /\ TokensDistinct /\ TokensSecure

LEMMA DeliveryInit == Init => DeliveryInv
<1>. SUFFICES ASSUME Init PROVE DeliveryInv
  OBVIOUS
<1>1. \A c \in Channels : Drained(q[c]) = {} /\ Apart(q[c])
  BY EmptyContents DEF Init
<1>2. \A s \in Slots : task[s] = NoTask
  BY DEF Init
<1>3. \A s \in Slots : BatchOf(s) = {} /\ Distinct(task[s].events \o task[s].merged)
  <2>1. NoTask.events = <<>> /\ NoTask.merged = <<>>
    BY DEF NoTask
  <2>2. <<>> \o <<>> = <<>>
    OBVIOUS
  <2>. QED
    BY <1>2, <2>1, <2>2, EmptyRange DEF BatchOf
<1>4. gone = {} /\ acks = {}
  BY DEF Init
<1>5. OnceInv
  BY <1>1, <1>3, <1>4 DEF OnceInv
<1>6. ArrivedInv
  BY <1>1, <1>3, <1>4 DEF ArrivedInv
<1>7. \A s \in Slots : Orphaned(task[s]) = {} /\ task[s].buffered = NoEvent
  BY <1>2 DEF Orphaned, NoTask
<1>8. TokensDistinct /\ TokensSecure
  BY <1>4, <1>7 DEF TokensDistinct, TokensSecure, Token
<1>. QED
  BY <1>5, <1>6, <1>8, TurnInvInit, ShapeInit DEF DeliveryInv

LEMMA DeliveryInductive ==
    ASSUME ~Overrun
    PROVE  DeliveryInv /\ [Next]_vars => DeliveryInv'
<1>. SUFFICES ASSUME DeliveryInv, [Next]_vars
             PROVE  DeliveryInv'
  OBVIOUS
<1>1. BaseInv /\ NeverOverdue
  BY DEF DeliveryInv, TurnInv, BaseInv
<1>2. TurnInv' /\ ShapeInv'
  BY <1>1, TurnInvInductive, StepKinds DEF DeliveryInv, BaseInv
<1>3. OnceInv' /\ ArrivedInv'
  BY <1>1, OnceStep, ArrivedStep DEF DeliveryInv
<1>4. TokensDistinct' /\ TokensSecure'
  BY <1>1, DistinctStep, TokensSecureStep DEF DeliveryInv
<1>. QED
  BY <1>2, <1>3, <1>4 DEF DeliveryInv

LEMMA OnceIsNoDouble ==
    ASSUME TypeInv, OnceInv
    PROVE  NoDoubleDelivery
<1>1. ASSUME NEW c \in Channels
      PROVE  Injective(q[c].pending \o q[c].cancelled \o q[c].withheld)
  <2>1. q[c] \in ChannelState /\ Apart(q[c])
    BY DEF TypeInv, TypeOK, OnceInv
  <2>2. Distinct(q[c].pending \o q[c].cancelled \o q[c].withheld)
    BY <2>1, ApartIsDistinct
  <2>. QED
    BY <2>2 DEF Injective, Distinct
<1>2. \A s \in Slots : Injective(task[s].events \o task[s].merged)
  BY DEF OnceInv, Injective, Distinct
<1>3. gone \cap Places = {}
  BY PlacesHold DEF OnceInv
<1>. QED
  BY <1>1, <1>2, <1>3 DEF OnceInv, NoDoubleDelivery

\* No event is delivered twice: across pushes, evictions, requeues, cancelled
\* batches that are merged, native steers and their late acks, panics and
\* membership changes, an event is in one table or batch, once, and one that was
\* answered, steered in or dropped never comes back, as long as no turn outlives
\* its in-flight deadline.
THEOREM NoEventTwice ==
    ASSUME ~Overrun
    PROVE  Spec => []NoDoubleDelivery
<1>1. DeliveryInv => NoDoubleDelivery
  BY OnceIsNoDouble DEF DeliveryInv, TurnInv
<1>. QED
  BY <1>1, DeliveryInit, DeliveryInductive, PTL DEF Spec

-----------------------------------------------------------------------------
(* Without a signal that keeps the batch, nothing is cancelled and merged. *)

\* A failed or signalled turn never hands its batch back to be merged: either
\* no batch is handed back at all, or the only signals are the ones that discard.
NothingMerged ==
    DedupMode = "Drop" \/ (Handling = "Queue" /\ "SwitchModel" \notin OwnerSignals)

Tame(t) ==
    /\ t.merged = <<>>
    /\ t.st = "running" => t.out = "none"
    /\ t.keep => t.out \notin {"Cancelled", "DrainTimeout"}
    /\ DedupMode = "Queue" => /\ t.sig \in {"none", "Cancel", "Rotate"}
                              /\ t.buffered = NoEvent /\ t.written = NoEvent

TameInv ==
    /\ \A s \in Slots : Tame(task[s])
    /\ \A c \in Channels : q[c].cancelled = <<>>
    /\ DedupMode = "Queue" => acks = {}

\* What TameInv asks of the tasks and of the steer acks after a step.
TameTasks ==
    /\ \A s \in Slots : Tame(task'[s])
    /\ DedupMode = "Queue" => acks' = {}

LEMMA TameReplaced ==
    ASSUME TypeInv, TameInv, NEW s \in Slots, NEW u, task' = [task EXCEPT ![s] = u],
           Tame(u), DedupMode = "Queue" => acks' = {}
    PROVE  TameTasks
<1>1. \A x \in Slots : task'[x] = IF x = s THEN u ELSE task[x]
  BY DEF TypeInv, TypeOK
<1>. QED
  BY <1>1 DEF TameInv, TameTasks

LEMMA TameSignalled ==
    ASSUME TypeInv, TameInv, NEW c, NEW sig,
           DedupMode = "Queue" => sig \in {"Cancel", "Rotate"},
           task' \in SignalTask(task, c, sig), acks' \subseteq acks
    PROVE  TameTasks
<1>1. task \in [Slots -> Tasks]
  BY DEF TypeInv, TypeOK
<1>2. DedupMode = "Queue" => acks' = {}
  BY DEF TameInv
<1>3. CASE task' = task
  BY <1>2, <1>3 DEF TameInv, TameTasks
<1>4. ASSUME NEW s \in Slots,
             task' = [task EXCEPT ![s].ctl = FALSE,
                           ![s].sig = IF task[s].ctl /\ task[s].st = "running"
                                      THEN sig ELSE @]
      PROVE  TameTasks
  <2>. DEFINE t == task[s]
              sent == IF t.ctl /\ t.st = "running" THEN sig ELSE t.sig
              u == [t EXCEPT !.ctl = FALSE, !.sig = sent]
  <2>1. t \in Tasks /\ Tame(t)
    BY <1>1 DEF TameInv
  <2>2. DedupMode = "Queue" => sent \in {"none", "Cancel", "Rotate"}
    BY <2>1 DEF Tame
  <2>3. task' = [task EXCEPT ![s] = u]
    BY <1>1, <1>4
  <2>. HIDE DEF sent
  <2>4. /\ u.merged = t.merged /\ u.st = t.st /\ u.out = t.out /\ u.keep = t.keep
        /\ u.sig = sent /\ u.buffered = t.buffered /\ u.written = t.written
    BY <2>1 DEF Tasks
  <2>. HIDE DEF u
  <2>5. Tame(u)
    BY <2>1, <2>2, <2>4 DEF Tame
  <2>. QED
    BY <1>2, <2>3, <2>5, TameReplaced
<1>. QED
  BY <1>3, <1>4 DEF SignalTask

\* Only a batch of cancelled events comes with merged ones.
LEMMA TameFlush ==
    ASSUME TypeInv, TameInv, NEW f \in Flushes
    PROVE  /\ f.batch.merged = <<>>
           /\ \E n \in Seq(Events) : f.batch.events = SortByCreated(n)
<1>1. Expired \in [Channels -> ChannelState]
      /\ \A c \in Channels : Expired[c].cancelled = <<>>
  BY ExpiredType, ExpiredContents DEF TameInv
<1>2. CancelledReady(Expired) = {}
  BY <1>1 DEF CancelledReady
<1>3. PICK c \in OldestFlushable(Expired) :
          f = [ch |-> c, batch |-> QueuedBatch(Expired[c]),
               next |-> FlushQueued(Expired[c])]
  BY <1>2 DEF Flushes
<1>4. c \in Channels /\ Expired[c] \in ChannelState
  BY <1>1 DEF OldestFlushable
<1>. DEFINE r == Expired[c]
            n == SubSeq(r.pending, 1, DrainCount(r))
<1>5. f.batch = [events |-> SortByCreated(n), merged |-> r.cancelled]
  BY <1>3 DEF QueuedBatch
<1>6. n \in Seq(Events)
  BY <1>4, DrainType
<1>. HIDE DEF n
<1>7. f.batch.events = SortByCreated(n) /\ f.batch.merged = r.cancelled
  BY <1>5
<1>. QED
  BY <1>1, <1>4, <1>6, <1>7

LEMMA TameLoop ==
    ASSUME BaseInv, NothingMerged, TameInv, MainLoop
    PROVE  TameTasks
<1>1. TypeInv /\ task \in [Slots -> Tasks] /\ idle \subseteq Slots
  BY DEF BaseInv, TypeInv, TypeOK
<1>2. CASE UNCHANGED task /\ acks' \subseteq acks
  BY <1>2 DEF TameInv, TameTasks
<1>3. DedupMode = "Queue" => /\ Handling = "Queue"
                             /\ "SwitchModel" \notin OwnerSignals
  BY DEF NothingMerged
<1>4. DedupMode = "Queue" => acks = {}
  BY DEF TameInv
<1>5. ASSUME NEW c \in Channels, NEW fromOwner \in BOOLEAN,
             RelayEvent(c, fromOwner)
      PROVE  TameTasks
  <2>1. DedupMode = "Queue" => GateSignal(fromOwner) = "none"
    BY <1>3 DEF GateSignal
  <2>2. UNCHANGED acks
    BY <1>5 DEF RelayEvent
  <2>3. CASE UNCHANGED task
    BY <1>2, <2>2, <2>3
  <2>4. CASE task' \in SignalTask(task, c, GateSignal(fromOwner))
             /\ GateSignal(fromOwner) # "none"
    BY <1>1, <2>1, <2>2, <2>4, TameSignalled
  <2>5. ASSUME NEW s \in SteerAccepts(c),
               task' = [task EXCEPT ![s].buffered = arrived + 1],
               GateSignal(fromOwner) # "none"
        PROVE  TameTasks
    <3>. DEFINE t == task[s]
                u == [t EXCEPT !.buffered = arrived + 1]
    <3>1. s \in Slots /\ t \in Tasks /\ Tame(t) /\ DedupMode # "Queue"
      BY <1>1, <2>1, <2>5 DEF SteerAccepts, TasksOn, TameInv
    <3>2. u.merged = t.merged /\ u.st = t.st /\ u.out = t.out /\ u.keep = t.keep
      BY <3>1 DEF Tasks
    <3>3. task' = [task EXCEPT ![s] = u]
      BY <1>1, <2>5, <3>1
    <3>. HIDE DEF u
    <3>4. Tame(u)
      BY <3>1, <3>2 DEF Tame
    <3>. QED
      BY <1>1, <3>1, <3>3, <3>4, TameReplaced
  <2>. QED
    BY <1>5, <2>3, <2>4, <2>5 DEF RelayEvent
<1>6. ASSUME NEW c \in Channels, NEW sig \in OwnerSignals, OwnerControl(c, sig)
      PROVE  TameTasks
  <2>1. DedupMode = "Queue" => sig \in {"Cancel", "Rotate"}
    BY <1>3, HarnessConstants
  <2>2. UNCHANGED acks /\ task' \in SignalTask(task, c, sig)
    BY <1>6 DEF OwnerControl
  <2>. QED
    BY <1>1, <2>1, <2>2, TameSignalled
<1>7. ASSUME NEW a \in acks, HandleAck(a)
      PROVE  TameTasks
  <2>1. acks' \subseteq acks /\ DedupMode # "Queue"
    BY <1>4, <1>7 DEF HandleAck
  <2>2. UNCHANGED task \/ task' \in SignalTask(task, a.ch, "Steer")
    BY <1>7 DEF HandleAck
  <2>. QED
    BY <1>1, <1>2, <2>1, <2>2, TameSignalled
<1>8. Tame(NoTask)
  BY DEF Tame, NoTask
<1>9. CASE HandleResult \/ \E s \in Slots : RecoverPanicked(s)
  <2>1. PICK s \in Slots : task' = [task EXCEPT ![s] = NoTask]
    BY <1>9, SettledTask DEF BaseInv
  <2>2. UNCHANGED acks
    BY <1>9 DEF HandleResult, RecoverPanicked
  <2>. QED
    BY <1>1, <1>4, <1>8, <2>1, <2>2, TameReplaced
<1>10. CASE Dispatch
  <2>1. PICK f \in Flushes, s \in idle : task' = [task EXCEPT ![s] = NewTask(f)]
    BY <1>10 DEF Dispatch
  <2>. DEFINE u == NewTask(f)
  <2>2. /\ u.merged = f.batch.merged /\ u.out = "none" /\ u.keep = FALSE
        /\ u.sig = "none" /\ u.buffered = NoEvent /\ u.written = NoEvent
    BY DEF NewTask, NoTask
  <2>3. UNCHANGED acks
    BY <1>10 DEF Dispatch
  <2>4. f.batch.merged = <<>>
    BY <1>1, TameFlush
  <2>. HIDE DEF u
  <2>5. Tame(u)
    BY <2>2, <2>4 DEF Tame
  <2>. QED
    BY <1>1, <1>4, <2>1, <2>3, <2>5, TameReplaced DEF u
<1>11. CASE HeartbeatTick
  <2>. DEFINE u == [NoTask EXCEPT !.st = "running"]
  <2>1. Tame(u)
    BY DEF Tame, NoTask
  <2>2. \/ UNCHANGED task
        \/ \E s \in idle : task' = [task EXCEPT ![s] = u]
    BY <1>11 DEF HeartbeatTick
  <2>3. UNCHANGED acks
    BY <1>11 DEF HeartbeatTick
  <2>. HIDE DEF u
  <2>. QED
    BY <1>1, <1>2, <1>4, <2>1, <2>2, <2>3, TameReplaced
<1>12. CASE \/ \E d \in Channels : MemberRemoved(d) \/ MemberAdded(d)
            \/ PoolExhausted \/ NothingToFlush \/ JoinsDrained \/ Maintenance
            \/ MaintenanceNotDue \/ RespawnsCollected
            \/ \E s \in Slots : RespawnOk(s) \/ RespawnFailed(s)
            \/ TimerTick \/ Shutdown
  BY <1>2, <1>12 DEF MemberRemoved, MemberAdded, PoolExhausted, NothingToFlush,
     JoinsDrained, Maintenance, MaintenanceNotDue, RespawnsCollected, RespawnOk,
     RespawnFailed, TimerTick, Shutdown
<1>. QED
  BY <1>5, <1>6, <1>7, <1>9, <1>10, <1>11, <1>12 DEF MainLoop

LEMMA TamePrompt ==
    ASSUME BaseInv, TameInv, PromptTasks
    PROVE  TameTasks
<1>1. TypeInv /\ task \in [Slots -> Tasks]
  BY DEF BaseInv, TypeInv, TypeOK
<1>2. \A s \in Slots : task[s] \in Tasks /\ Tame(task[s])
  BY <1>1 DEF TameInv
<1>3. ASSUME NEW s \in Slots, SteerTaken(s)
      PROVE  TameTasks
  <2>. DEFINE t == task[s]
              u1 == [t EXCEPT !.buffered = NoEvent, !.written = t.buffered]
              u2 == [t EXCEPT !.buffered = NoEvent]
  <2>1. t \in Tasks /\ Tame(t) /\ DedupMode # "Queue"
    BY <1>2, <1>3 DEF SteerTaken, Tame
  <2>2. task' = [task EXCEPT ![s] = u1] \/ task' = [task EXCEPT ![s] = u2]
    BY <1>1, <1>3 DEF SteerTaken
  <2>3. /\ u1.merged = t.merged /\ u1.st = t.st /\ u1.out = t.out
        /\ u1.keep = t.keep
        /\ u2.merged = t.merged /\ u2.st = t.st /\ u2.out = t.out
        /\ u2.keep = t.keep
    BY <2>1 DEF Tasks
  <2>. HIDE DEF u1, u2
  <2>4. Tame(u1) /\ Tame(u2)
    BY <2>1, <2>3 DEF Tame
  <2>. QED
    BY <1>1, <2>1, <2>2, <2>4, TameReplaced
<1>4. ASSUME NEW s \in Slots, NEW kind \in AckKinds, SteerAnswered(s, kind)
      PROVE  TameTasks
  <2>. DEFINE t == task[s]
              u == [t EXCEPT !.written = NoEvent]
  <2>1. t \in Tasks /\ Tame(t) /\ DedupMode # "Queue"
    BY <1>2, <1>4 DEF SteerAnswered, Tame
  <2>2. task' = [task EXCEPT ![s] = u]
    BY <1>1, <1>4 DEF SteerAnswered
  <2>3. u.merged = t.merged /\ u.st = t.st /\ u.out = t.out /\ u.keep = t.keep
    BY <2>1 DEF Tasks
  <2>. HIDE DEF u
  <2>4. Tame(u)
    BY <2>1, <2>3 DEF Tame
  <2>. QED
    BY <1>1, <2>1, <2>2, <2>4, TameReplaced
<1>5. ASSUME NEW s \in Slots, acks' = acks \cup ReleaseAcks(task[s])
      PROVE  DedupMode = "Queue" => acks' = {}
  <2>1. DedupMode = "Queue" => acks = {} /\ Orphaned(task[s]) = {}
    BY <1>2 DEF TameInv, Tame, Orphaned
  <2>2. Orphaned(task[s]) = {} => ReleaseAcks(task[s]) = {}
    BY DEF ReleaseAcks
  <2>. QED
    BY <1>5, <2>1, <2>2
<1>6. ASSUME NEW t \in Tasks
      PROVE  /\ CloseSteer(t).merged = t.merged /\ CloseSteer(t).st = t.st
             /\ CloseSteer(t).out = t.out /\ CloseSteer(t).keep = t.keep
             /\ CloseSteer(t).sig = t.sig /\ CloseSteer(t) \in Tasks
             /\ CloseSteer(t).buffered = NoEvent /\ CloseSteer(t).written = NoEvent
  BY CloseSteerType DEF CloseSteer, Tasks
<1>7. ASSUME NEW s \in Slots, ReadLoopReturns(s)
      PROVE  TameTasks
  <2>. DEFINE u == CloseSteer(task[s])
  <2>1. Tame(u)
    BY <1>2, <1>6 DEF Tame
  <2>2. task' = [task EXCEPT ![s] = u] /\ acks' = acks \cup ReleaseAcks(task[s])
    BY <1>7 DEF ReadLoopReturns
  <2>. HIDE DEF u
  <2>. QED
    BY <1>1, <1>5, <2>1, <2>2, TameReplaced
<1>8. ASSUME NEW s \in Slots, NEW out, NEW keep, Finish(s, out, keep),
             keep /\ DedupMode = "Queue" => out \notin {"Cancelled", "DrainTimeout"}
      PROVE  TameTasks
  <2>. DEFINE t == task[s]
              v == CloseSteer(t)
              k == keep /\ DedupMode = "Queue" /\ t.ch # NoChannel
              u == [v EXCEPT !.st = "done", !.out = out, !.keep = k]
  <2>1. task' = [task EXCEPT ![s] = u] /\ acks' = acks \cup ReleaseAcks(t)
    BY <1>8 DEF Finish
  <2>2. k => out \notin {"Cancelled", "DrainTimeout"}
    BY <1>8
  <2>3. v \in Tasks /\ Tame(t)
    BY <1>2, <1>6
  <2>4. /\ v.merged = t.merged /\ v.sig = t.sig
        /\ v.buffered = NoEvent /\ v.written = NoEvent
    BY <1>2, <1>6
  <2>. HIDE DEF k, v
  <2>5. /\ u.merged = v.merged /\ u.st = "done" /\ u.out = out /\ u.keep = k
        /\ u.sig = v.sig /\ u.buffered = v.buffered /\ u.written = v.written
    BY <2>3 DEF Tasks
  <2>. HIDE DEF u
  <2>6. Tame(u)
    BY <2>2, <2>3, <2>4, <2>5 DEF Tame
  <2>. QED
    BY <1>1, <1>5, <2>1, <2>6, TameReplaced
<1>9. ASSUME NEW s \in Slots, TaskPanics(s)
      PROVE  TameTasks
  <2>. DEFINE t == task[s]
              v == CloseSteer(t)
              k == DedupMode = "Queue" /\ t.ch # NoChannel
              u == [v EXCEPT !.st = "panicked", !.sig = "none", !.keep = k]
  <2>1. task' = [task EXCEPT ![s] = u] /\ acks' = acks \cup ReleaseAcks(t)
    BY <1>9 DEF TaskPanics
  <2>2. t.out = "none"
    BY <1>2, <1>9 DEF TaskPanics, Tame
  <2>3. v \in Tasks /\ Tame(t)
    BY <1>2, <1>6
  <2>4. /\ v.merged = t.merged /\ v.out = t.out
        /\ v.buffered = NoEvent /\ v.written = NoEvent
    BY <1>2, <1>6
  <2>. HIDE DEF k, v
  <2>5. /\ u.merged = v.merged /\ u.st = "panicked" /\ u.out = v.out
        /\ u.sig = "none" /\ u.buffered = v.buffered /\ u.written = v.written
    BY <2>3 DEF Tasks
  <2>. HIDE DEF u
  <2>6. Tame(u)
    BY <2>2, <2>3, <2>4, <2>5 DEF Tame
  <2>. QED
    BY <1>1, <1>5, <2>1, <2>6, TameReplaced
<1>10. ASSUME NEW s \in Slots, NEW out \in Failures, TurnFails(s, out)
       PROVE  TameTasks
  <2>1. out \notin {"Cancelled", "DrainTimeout"}
    BY <1>10, HarnessConstants DEF TurnFails
  <2>. QED
    BY <1>8, <1>10, <2>1 DEF TurnFails
<1>11. ASSUME NEW s \in Slots, NEW out \in Outcomes, TurnCancelled(s, out)
       PROVE  TameTasks
  <2>. DEFINE keep == KeepsBatch(task[s].sig)
  <2>1. DedupMode = "Queue" => ~keep
    BY <1>2, <1>11 DEF TurnCancelled, Tame, KeepsBatch
  <2>2. Finish(s, out, keep)
    BY <1>11 DEF TurnCancelled
  <2>. HIDE DEF keep
  <2>. QED
    BY <1>8, <2>1, <2>2
<1>12. ASSUME NEW s \in Slots, TurnOk(s)
       PROVE  TameTasks
  <2>. DEFINE keep == FALSE
  <2>1. Finish(s, "Ok", keep) /\ ~keep
    BY <1>12 DEF TurnOk
  <2>. HIDE DEF keep
  <2>. QED
    BY <1>8, <2>1
<1>. QED
  BY <1>3, <1>4, <1>7, <1>9, <1>10, <1>11, <1>12 DEF PromptTasks

LEMMA TameCancelled ==
    ASSUME BaseInv, TameInv, [Next]_vars
    PROVE  \A c \in Channels : q'[c].cancelled = <<>>
<1>1. q \in [Channels -> ChannelState] /\ \A c \in Channels : q[c].cancelled = <<>>
  BY DEF BaseInv, TypeInv, TypeOK, TameInv
<1>2. \A c \in Channels : Expired[c].cancelled = <<>>
  BY <1>1, ExpiredContents DEF BaseInv
<1>3. StillStep => \A c \in Channels : q'[c].cancelled = <<>>
  BY <1>1 DEF StillStep, SameTables
<1>4. ASSUME NEW c \in Channels, RelayStep(c) \/ RemovalStep(c)
      PROVE  \A d \in Channels : q'[d].cancelled = <<>>
  <2>1. /\ \A d \in Channels \ {c} : q'[d] = q[d]
        /\ q'[c].cancelled = q[c].cancelled \/ q'[c].cancelled = <<>>
    BY <1>4, RelayEffect, RemovalEffect DEF BaseInv
  <2>. QED
    BY <1>1, <2>1
<1>5. ASSUME NEW a \in acks, AckStep(a)
      PROVE  \A d \in Channels : q'[d].cancelled = <<>>
  <2>. DEFINE c == a.ch
  <2>1. /\ \A d \in Channels \ {c} : q'[d] = q[d]
        /\ c \in Channels /\ q'[c].cancelled = q[c].cancelled
    BY <1>5, AckEffect DEF BaseInv
  <2>. HIDE DEF c
  <2>. QED
    BY <1>1, <2>1
<1>6. ExpiryStep => \A c \in Channels : q'[c].cancelled = <<>>
  BY <1>2 DEF ExpiryStep
<1>7. CASE FullPoolStep
  <2>1. PICK c \in Channels, let \in SUBSET Events, lost \in SUBSET Events :
            /\ \A d \in Channels \ {c} : q'[d] = Expired[d]
            /\ q'[c].cancelled = <<>>
    BY <1>7, FullPoolEffect DEF BaseInv
  <2>. QED
    BY <1>2, <2>1
<1>8. CASE Dispatch
  <2>1. PICK c \in Channels, s \in Slots, b \in Batches :
            /\ \A d \in Channels \ {c} : q'[d] = Expired[d]
            /\ Parts(Expired[c], b, q'[c])
    BY <1>8, DispatchEffect
  <2>. QED
    BY <1>2, <2>1 DEF Parts
<1>9. ASSUME NEW s \in Slots, SettleStep(s)
      PROVE  \A d \in Channels : q'[d].cancelled = <<>>
  <2>. DEFINE t == task[s]
              c == t.ch
              r == q[c]
              b == [events |-> t.events, merged |-> t.merged]
              fate == BatchFate(r, t)
              n == MarkComplete(fate)
  <2>1. t \in Tasks /\ Tame(t) /\ Settle(t)
    BY <1>9 DEF SettleStep, BaseInv, TypeInv, TypeOK, TameInv
  <2>2. CASE c = NoChannel
    BY <1>1, <2>1, <2>2 DEF Settle
  <2>3. CASE c # NoChannel
    <3>1. c \in Channels /\ r \in ChannelState /\ b \in Batches
      BY <1>1, <2>1, <2>3 DEF Tasks, Batches
    <3>2. fate = r \/ fate = Requeue(r, b)
      BY <2>1 DEF BatchFate, Tame
    <3>. HIDE DEF b
    <3>3. fate \in ChannelState /\ fate.cancelled = r.cancelled
      <4>1. Requeue(r, b) \in ChannelState
        BY <3>1, RequeueType
      <4>2. Requeue(r, b).cancelled = r.cancelled
        BY <3>1, RequeueContents DEF SameTables
      <4>. HIDE DEF fate
      <4>. QED
        BY <3>1, <3>2, <4>1, <4>2
    <3>4. n.cancelled = fate.cancelled
      <4>. HIDE DEF fate
      <4>. QED
        BY <3>3, TablesKept DEF SameTables
    <3>5. q' = [q EXCEPT ![c] = n]
      BY <2>1, <2>3 DEF Settle
    <3>. HIDE DEF n, fate
    <3>. QED
      BY <1>1, <3>1, <3>3, <3>4, <3>5
  <2>. QED
    BY <2>2, <2>3
<1>. QED
  BY <1>3, <1>4, <1>5, <1>6, <1>7, <1>8, <1>9, StepKinds DEF BaseInv

LEMMA TameInductive ==
    ASSUME NothingMerged
    PROVE  BaseInv /\ TameInv /\ [Next]_vars => TameInv'
<1>. SUFFICES ASSUME BaseInv, TameInv, [Next]_vars
             PROVE  TameInv'
  OBVIOUS
<1>1. UNCHANGED <<task, acks>> => TameTasks
  BY DEF TameInv, TameTasks
<1>2. Time => UNCHANGED <<task, acks>>
  BY DEF Time, BackoffElapses, DeadlinePasses
<1>3. TameTasks
  BY <1>1, <1>2, TameLoop, TamePrompt DEF Next, Exited, vars, TameInv, TameTasks
<1>4. \A s \in Slots : Tame(task[s])'
  BY <1>3 DEF TameTasks, Tame
<1>. QED
  BY <1>3, <1>4, TameCancelled DEF TameInv, TameTasks

LEMMA TameInit == Init => TameInv
BY DEF Init, TameInv, Tame, NoTask, EmptyChannel

-----------------------------------------------------------------------------
(* No event is lost, and the last of a batch is its newest.                *)

LEMMA GoneGrows ==
    ASSUME BaseInv, [Next]_vars
    PROVE  gone \subseteq gone'
<1>1. StillStep \/ ExpiryStep \/ Dispatch => gone \subseteq gone'
  BY DEF StillStep, ExpiryStep, Dispatch
<1>2. ASSUME NEW c \in Channels, RelayStep(c) \/ RemovalStep(c)
      PROVE  gone \subseteq gone'
  <2>1. \E let : gone' = gone \cup let
    BY <1>2, RelayEffect, RemovalEffect DEF BaseInv
  <2>. QED
    BY <2>1
<1>3. ASSUME NEW a \in acks, AckStep(a)
      PROVE  gone \subseteq gone'
  <2>1. (\E let : gone' = gone \cup let) \/ gone' = gone \cup {a.ev}
    BY <1>3, AckEffect DEF BaseInv
  <2>. QED
    BY <2>1
<1>4. CASE FullPoolStep
  BY <1>4, FullPoolEffect DEF BaseInv
<1>5. ASSUME NEW s \in Slots, SettleStep(s)
      PROVE  gone \subseteq gone'
  <2>1. gone' = gone \/ \E let : gone' = gone \cup let
    BY <1>5, SettleEffect
  <2>. QED
    BY <2>1
<1>. QED
  BY <1>1, <1>2, <1>3, <1>4, <1>5, StepKinds DEF BaseInv

\* An event that comes in is queued, or its refusal or eviction is recorded.
LEMMA NewEventHeld ==
    ASSUME BaseInv, [Next]_vars, arrived' # arrived
    PROVE  arrived' = arrived + 1 /\ arrived + 1 \in Places' \cup gone'
<1>1. PICK c \in Channels : RelayStep(c)
  <2>1. (\E a \in acks : AckStep(a)) \/ FullPoolStep \/ Dispatch
           => arrived' = arrived
    BY DEF AckStep, HandleAck, FullPoolStep, PoolExhausted, Dispatch
  <2>2. (\E s \in Slots : SettleStep(s)) \/ ExpiryStep \/ StillStep
           \/ (\E c \in Channels : RemovalStep(c))
          => arrived' = arrived
    BY DEF SettleStep, ExpiryStep, StillStep, RemovalStep, MemberRemoved
  <2>. QED
    BY <2>1, <2>2, StepKinds DEF BaseInv
<1>. DEFINE n == arrived + 1
<1>2. /\ arrived' = n
      /\ \E let : Drained(q'[c]) \cup let = Drained(q[c]) \cup {n}
                  /\ gone' = gone \cup let
  BY <1>1, RelayEffect DEF BaseInv, Account
<1>. HIDE DEF n
<1>3. n \in Drained(q'[c]) \/ n \in gone'
  BY <1>2
<1>4. n \in Places' \cup gone'
  BY <1>3, PlacesHoldNext
<1>. QED
  BY <1>2, <1>4 DEF n

LEMMA LossInductive ==
    ASSUME BaseInv, TameInv, NoSilentLoss, [Next]_vars
    PROVE  NoSilentLoss'
<1>1. ASSUME NEW e \in 1 .. arrived
      PROVE  e \in Places' \cup gone'
  <2>1. e \in Places \/ e \in gone
    BY DEF NoSilentLoss
  <2>2. CASE e \in gone
    BY <2>2, GoneGrows
  <2>3. CASE e \in Places
    <3>1. /\ \A c \in Channels : e \notin Range(q[c].cancelled)
          /\ \A s \in Slots : e \notin Range(task[s].merged)
      BY EmptyRange DEF TameInv, Tame
    <3>. QED
      BY <2>3, <3>1, EventStep
  <2>. QED
    BY <2>1, <2>2, <2>3
<1>2. arrived \in Nat /\ arrived' \in Nat
  BY ArrivedGrows
<1>3. CASE arrived' = arrived
  BY <1>1, <1>3 DEF NoSilentLoss
<1>4. CASE arrived' # arrived
  <2>1. arrived' = arrived + 1 /\ arrived + 1 \in Places' \cup gone'
    BY <1>4, NewEventHeld
  <2>2. \A e \in 1 .. arrived' : e \in 1 .. arrived \/ e = arrived + 1
    BY <1>2, <2>1
  <2>3. \A e \in 1 .. arrived' : e \in Places' \cup gone'
    BY <1>1, <2>1, <2>2
  <2>. QED
    BY <2>3 DEF NoSilentLoss
<1>. QED
  BY <1>3, <1>4

\* No event is lost without a word where nothing is merged, turns that overrun
\* their deadline included: the events that arrived are queued, withheld or in a
\* batch, or the code has answered them or accounted for dropping them.
THEOREM NoEventIsLost ==
    ASSUME NothingMerged
    PROVE  Spec => []NoSilentLoss
<1>1. Init => NoSilentLoss
  <2>1. 1 .. 0 = {}
    OBVIOUS
  <2>. QED
    BY <2>1 DEF Init, NoSilentLoss
<1>2. BaseInv /\ TameInv /\ NoSilentLoss /\ [Next]_vars
        => (BaseInv /\ TameInv /\ NoSilentLoss)'
  BY BaseInvInductive, TameInductive, LossInductive
<1>. QED
  BY <1>1, <1>2, BaseInvInit, TameInit, PTL DEF Spec

\* The newest event of a sequence comes last.
NewestLast(s) == \A i \in DOMAIN s : CreatedAt[s[i]] <= CreatedAt[s[Len(s)]]

LEMMA SortedNewestLast ==
    ASSUME NEW n \in Seq(Events)
    PROVE  NewestLast(SortByCreated(n))
<1>. DEFINE t == SortByCreated(n)
<1>1. /\ t \in Seq(Events)
      /\ \A k, l \in 1 .. Len(t) : k <= l => CreatedAt[t[k]] <= CreatedAt[t[l]]
  BY SortByCreatedSorts
<1>. HIDE DEF t
<1>2. DOMAIN t = 1 .. Len(t) /\ Len(t) \in Nat
  BY <1>1, LenProperties
<1>3. \A i \in DOMAIN t : i <= Len(t) /\ Len(t) \in 1 .. Len(t)
  BY <1>2
<1>. QED
  BY <1>1, <1>2, <1>3 DEF NewestLast, t

LEMMA NewestInductive ==
    ASSUME BaseInv, TameInv, LastIsNewest, [Next]_vars
    PROVE  LastIsNewest'
<1>1. \A s \in Slots : NewestLast(task[s].events)
  BY DEF LastIsNewest, NewestLast
<1>2. ASSUME \A s \in Slots : NewestLast(task'[s].events)
      PROVE  LastIsNewest'
  BY <1>2 DEF LastIsNewest, NewestLast
<1>3. CASE KeepsBatches
  BY <1>1, <1>2, <1>3 DEF KeepsBatches, SameBatch
<1>4. CASE Dispatch
  <2>1. PICK f \in Flushes, s \in idle : task' = [task EXCEPT ![s] = NewTask(f)]
    BY <1>4 DEF Dispatch
  <2>2. /\ s \in Slots /\ task'[s].events = f.batch.events
        /\ \A x \in Slots \ {s} : SameBatch(task[x], task'[x])
    BY <2>1, DispatchShape DEF BaseInv
  <2>3. NewestLast(f.batch.events)
    BY TameFlush, SortedNewestLast DEF BaseInv
  <2>. QED
    BY <1>1, <1>2, <2>2, <2>3 DEF SameBatch
<1>5. ASSUME NEW s \in Slots, SettleStep(s)
      PROVE  LastIsNewest'
  <2>1. /\ task'[s].events = <<>>
        /\ \A x \in Slots \ {s} : SameBatch(task[x], task'[x])
    BY <1>5, ReturnShape DEF SettleStep, BaseInv
  <2>2. NewestLast(<<>>)
    BY DEF NewestLast
  <2>. QED
    BY <1>1, <1>2, <2>1, <2>2 DEF SameBatch
<1>. QED
  BY <1>3, <1>4, <1>5, StepKinds
     DEF BaseInv, StillStep, RelayStep, RemovalStep, AckStep, ExpiryStep,
         FullPoolStep

\* Where nothing is merged, the last event of every dispatched batch is its
\* newest, whatever the order the relay delivered them in and however often the
\* batch was requeued: the reply anchors to the newest event.
THEOREM ReplyAnchorsToNewest ==
    ASSUME NothingMerged
    PROVE  Spec => []LastIsNewest
<1>1. Init => LastIsNewest
  BY DEF Init, LastIsNewest, NoTask
<1>2. BaseInv /\ TameInv /\ LastIsNewest /\ [Next]_vars
        => (BaseInv /\ TameInv /\ LastIsNewest)'
  BY BaseInvInductive, TameInductive, NewestInductive
<1>. QED
  BY <1>1, <1>2, BaseInvInit, TameInit, PTL DEF Spec

-----------------------------------------------------------------------------
(* The retry budget.                                                       *)

\* The methods that leave the retry count alone.
LEMMA RetriesKept ==
    ASSUME NEW r \in ChannelState, NEW e
    PROVE  /\ Push(r, e).retryCount = r.retryCount
           /\ Withhold(r, e).retryCount = r.retryCount
           /\ Release(r, e).retryCount = r.retryCount
           /\ RemoveEvent(r, e).retryCount = r.retryCount
           /\ ExtendDeadline(r).retryCount = r.retryCount
           /\ Expire(r).retryCount = r.retryCount
           /\ FlushQueued(r).retryCount = r.retryCount
           /\ FlushCancelled(r).retryCount = r.retryCount
<1>1. Push(r, e).retryCount = r.retryCount
  BY DEF Push, ChannelState
<1>2. Withhold(r, e).retryCount = r.retryCount
  BY DEF Withhold, ChannelState
<1>3. Release(r, e).retryCount = r.retryCount
  BY DEF Release, ChannelState
<1>4. RemoveEvent(r, e).retryCount = r.retryCount
  BY DEF RemoveEvent, ChannelState
<1>5. ExtendDeadline(r).retryCount = r.retryCount
  BY DEF ExtendDeadline, ChannelState
<1>6. Expire(r).retryCount = r.retryCount
  BY DEF Expire, ChannelState
<1>7. FlushQueued(r).retryCount = r.retryCount
  BY DEF FlushQueued, StartFlight, ChannelState
<1>8. FlushCancelled(r).retryCount = r.retryCount
  BY DEF FlushCancelled, StartFlight, ChannelState
<1>. QED
  BY <1>1, <1>2, <1>3, <1>4, <1>5, <1>6, <1>7, <1>8

\* compact_expired_state forgets the count of a channel with nothing to retry.
LEMMA CompactRetries ==
    ASSUME NEW r \in ChannelState, Compact(r).retryCount # r.retryCount
    PROVE  r.pending = <<>> /\ ~r.inFlight
BY DEF Compact, ChannelState

BudgetKept ==
    \A c \in Channels :
        q'[c].retryCount < q[c].retryCount =>
            \/ TasksOn(c)' # TasksOn(c)
            \/ TasksOn(c)' = {} /\ q'[c].pending = <<>>
            \/ c \in removed'

LEMMA BudgetStep ==
    ASSUME TurnInv, ShapeInv, [Next]_vars, [~PoolExhausted]_vars
    PROVE  BudgetKept
<1>1. q \in [Channels -> ChannelState] /\ task \in [Slots -> Tasks] /\ TypeInv
      /\ BaseInv
  BY DEF TurnInv, TypeInv, TypeOK, BaseInv
<1>2. \A c \in Channels : q[c] \in ChannelState /\ q[c].retryCount \in Nat
  BY <1>1, QueueConstants DEF ChannelState
<1>3. ASSUME \A c \in Channels : q'[c].retryCount = q[c].retryCount
      PROVE  BudgetKept
  BY <1>2, <1>3 DEF BudgetKept
<1>4. ASSUME NEW c \in Channels, NEW r, q' = [q EXCEPT ![c] = r],
             r.retryCount = q[c].retryCount
      PROVE  BudgetKept
  <2>1. \A d \in Channels : q'[d] = IF d = c THEN r ELSE q[d]
    BY <1>1, <1>4
  <2>. QED
    BY <1>3, <1>4, <2>1
<1>5. UNCHANGED q => BudgetKept
  BY <1>3
<1>6. \A c \in Channels : Expired[c] = q[c]
  BY <1>1, NothingExpires DEF TurnInv
<1>7. CASE MainLoop
  <2>1. ASSUME NEW c \in Channels, NEW fromOwner \in BOOLEAN,
               RelayEvent(c, fromOwner)
        PROVE  BudgetKept
    <3>. DEFINE n == arrived + 1
                r == Push(q[c], n)
                w == Withhold(r, n)
    <3>1. n \in Events
      BY <1>1, <2>1, QueueConstants DEF TypeInv, TypeOK, RelayEvent, Events
    <3>2. r \in ChannelState /\ r.retryCount = q[c].retryCount
      BY <1>2, <3>1, PushType, RetriesKept
    <3>3. w.retryCount = r.retryCount
      <4>. HIDE DEF r, n
      <4>. QED
        BY <3>2, RetriesKept
    <3>4. \/ UNCHANGED q \/ q' = [q EXCEPT ![c] = r]
          \/ q' = [q EXCEPT ![c] = w]
      BY <2>1 DEF RelayEvent
    <3>. HIDE DEF r, w
    <3>. QED
      BY <1>4, <1>5, <3>2, <3>3, <3>4
  <2>2. ASSUME NEW c \in Channels, MemberRemoved(c)
        PROVE  BudgetKept
    <3>1. \A d \in Channels \ {c} : q'[d] = q[d]
      BY <1>1, <2>2 DEF MemberRemoved
    <3>2. c \in removed'
      BY <2>2 DEF MemberRemoved
    <3>. QED
      BY <1>2, <3>1, <3>2 DEF BudgetKept
  <2>3. ASSUME NEW a \in acks, HandleAck(a)
        PROVE  BudgetKept
    <3>. DEFINE c == a.ch
                e == a.ev
                x == ExtendDeadline(q[c])
                r1 == RemoveEvent(x, e)
                r2 == Release(q[c], e)
    <3>1. c \in Channels
      BY <1>1 DEF TypeInv, TypeOK
    <3>. HIDE DEF c, e
    <3>2. x \in ChannelState /\ x.retryCount = q[c].retryCount
      BY <1>2, <3>1, ExtendDeadlineType, RetriesKept
    <3>3. r1.retryCount = x.retryCount
      <4>. HIDE DEF x
      <4>. QED
        BY <3>2, RetriesKept
    <3>4. r2.retryCount = q[c].retryCount
      BY <1>2, <3>1, RetriesKept
    <3>5. q' = [q EXCEPT ![c] = r1] \/ q' = [q EXCEPT ![c] = r2]
      BY <2>3 DEF HandleAck, c, e
    <3>. HIDE DEF r1, r2, x
    <3>. QED
      BY <1>4, <3>1, <3>2, <3>3, <3>4, <3>5
  <2>4. CASE Dispatch
    <3>1. PICK f \in Flushes : q' = [Expired EXCEPT ![f.ch] = f.next]
      BY <2>4 DEF Dispatch
    <3>2. f.ch \in Channels /\ f.next.retryCount = q[f.ch].retryCount
      <4>1. ASSUME NEW c \in Channels,
                   f.ch = c,
                   \/ f.next = FlushQueued(Expired[c])
                   \/ f.next = FlushCancelled(Expired[c])
            PROVE  f.next.retryCount = q[f.ch].retryCount
        <5>1. Expired[c] = q[c] /\ q[c] \in ChannelState
          BY <1>2, <1>6
        <5>. QED
          BY <4>1, <5>1, RetriesKept
      <4>2. \E c \in Channels : /\ f.ch = c
                                /\ \/ f.next = FlushQueued(Expired[c])
                                   \/ f.next = FlushCancelled(Expired[c])
        BY DEF Flushes, OldestFlushable, CancelledReady
      <4>. QED
        BY <4>1, <4>2
    <3>3. Expired \in [Channels -> ChannelState]
      BY <1>1, ExpiredType
    <3>4. \A d \in Channels : q'[d] = IF d = f.ch THEN f.next ELSE Expired[d]
      BY <3>1, <3>3
    <3>. QED
      BY <1>3, <1>6, <3>2, <3>4
  <2>5. CASE NothingToFlush \/ HeartbeatTick
    BY <1>3, <1>6, <2>5 DEF NothingToFlush, HeartbeatTick
  <2>6. CASE HandleResult \/ \E s \in Slots : RecoverPanicked(s)
    <3>1. PICK s \in Slots : /\ Live(s) /\ Settle(task[s])
                             /\ task' = [task EXCEPT ![s] = NoTask]
      BY <1>1, <2>6, SettledTask DEF TurnInv
    <3>2. CASE task[s].ch = NoChannel
      BY <1>5, <3>1, <3>2 DEF Settle
    <3>3. CASE task[s].ch # NoChannel
      <4>1. PICK c \in Channels : /\ c = task[s].ch
                                 /\ \A d \in Channels \ {c} : q'[d] = q[d]
        BY <1>1, <3>1, <3>3, SettleMarks
      <4>2. s \in TasksOn(c)
        BY <3>1, <4>1 DEF TasksOn
      <4>3. task'[s].st = "none"
        BY <1>1, <3>1 DEF NoTask
      <4>4. s \notin TasksOn(c)'
        BY <4>3 DEF TasksOn, Live
      <4>. QED
        BY <1>2, <4>1, <4>2, <4>4 DEF BudgetKept
    <3>. QED
      BY <3>2, <3>3
  <2>7. CASE Maintenance
    <3>1. q' = [c \in Channels |-> Compact(q[c])] /\ UNCHANGED task
      BY <2>7 DEF Maintenance
    <3>2. ASSUME NEW c \in Channels, q'[c].retryCount < q[c].retryCount
          PROVE  TasksOn(c)' = {} /\ q'[c].pending = <<>>
      <4>1. q'[c] = Compact(q[c])
        BY <3>1
      <4>2. q[c].pending = <<>> /\ ~q[c].inFlight
        BY <1>2, <3>2, <4>1, CompactRetries
      <4>3. TasksOn(c)' = TasksOn(c) /\ TasksOn(c) = {}
        BY <3>1, <4>2 DEF TurnInv, OneTurnPerChannel, TasksOn, Live
      <4>4. q'[c].pending = q[c].pending
        BY <1>2, <4>1, TablesKept DEF SameTables
      <4>. QED
        BY <4>2, <4>3, <4>4
    <3>. QED
      BY <3>2 DEF BudgetKept
  <2>8. CASE PoolExhausted
    BY <1>5, <2>8 DEF vars
  <2>9. CASE \/ \E c \in Channels, sig \in OwnerSignals : OwnerControl(c, sig)
             \/ \E c \in Channels : MemberAdded(c)
             \/ JoinsDrained \/ MaintenanceNotDue \/ RespawnsCollected
             \/ \E s \in Slots : RespawnOk(s) \/ RespawnFailed(s)
             \/ TimerTick \/ Shutdown
    BY <1>5, <2>9 DEF OwnerControl, MemberAdded, JoinsDrained,
       MaintenanceNotDue, RespawnsCollected, RespawnOk, RespawnFailed,
       TimerTick, Shutdown
  <2>. QED
    BY <1>7, <2>1, <2>2, <2>3, <2>4, <2>5, <2>6, <2>7, <2>8, <2>9 DEF MainLoop
<1>8. CASE PromptTasks
  BY <1>5, <1>8 DEF PromptTasks, SteerTaken, SteerAnswered, ReadLoopReturns,
     TurnOk, TurnFails, TurnCancelled, TaskPanics, Finish
<1>9. CASE Time
  <2>1. PICK c \in Channels : BackoffElapses(c) \/ DeadlinePasses(c)
    BY <1>9 DEF Time
  <2>. DEFINE r1 == [q[c] EXCEPT !.retryAfter = "past"]
              r2 == [q[c] EXCEPT !.deadline = "passed"]
  <2>2. r1.retryCount = q[c].retryCount /\ r2.retryCount = q[c].retryCount
    BY <1>2 DEF ChannelState
  <2>3. q' = [q EXCEPT ![c] = r1] \/ q' = [q EXCEPT ![c] = r2]
    BY <1>1, <2>1 DEF BackoffElapses, DeadlinePasses
  <2>. HIDE DEF r1, r2
  <2>. QED
    BY <1>4, <2>2, <2>3
<1>. QED
  BY <1>5, <1>7, <1>8, <1>9 DEF Next, Exited, vars

\* The retry budget of a failing channel is lost in one place only, the no-agent
\* path of dispatch_pending: in a behaviour in which every flush finds a free
\* agent, and no turn outlives its deadline, the count of a channel is reset only
\* by the end of one of its turns, by its removal, or when nothing is left to retry.
THEOREM BudgetLostOnlyWithoutAgent ==
    ASSUME ~Overrun
    PROVE  Spec /\ [][~PoolExhausted]_vars => RetryBudgetKept
<1>1. TurnInv /\ ShapeInv /\ [Next]_vars => (TurnInv /\ ShapeInv)'
  BY TurnInvInductive, StepKinds DEF TurnInv
<1>2. Init => TurnInv /\ ShapeInv
  BY TurnInvInit, ShapeInit
<1>3. TurnInv /\ ShapeInv /\ [Next]_vars /\ [~PoolExhausted]_vars =>
        [\A c \in Channels :
            q'[c].retryCount < q[c].retryCount =>
                \/ TasksOn(c)' # TasksOn(c)
                \/ TasksOn(c)' = {} /\ q'[c].pending = <<>>
                \/ c \in removed']_vars
  BY BudgetStep DEF BudgetKept
<1>. QED
  BY <1>1, <1>2, <1>3, PTL DEF Spec, RetryBudgetKept
================================================================================
