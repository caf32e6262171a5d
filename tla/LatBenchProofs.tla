--------------------------- MODULE LatBenchProofs ---------------------------
(***************************************************************************)
(* Proofs about the NATS latency benchmark, for any number of messages and *)
(* any pending limit.                                                      *)
(*                                                                         *)
(* The invariant follows the messages and their stamps from the producer's *)
(* clock to the consumer (Lined, Stamped), and the handles (Owned, Joined).*)
(* The clock may be set back, but the clock plus all it was set back by    *)
(* never falls: no stamp is later than that.                               *)
(* On top of it, the statistics belong to one window (Windowed); what the  *)
(* recursive sum of AverageOfWindow is follows by induction.               *)
(***************************************************************************)
EXTENDS LatBench, SequenceTheorems, WellFoundedInduction, TLAPS

(* Which thread is where says which handles are open.                      *)
Owned ==
  /\ "producer" \in handles <=> producer \in {"loop", "publish", "return"}
  /\ "consumer" \in handles <=> consumer \notin {"create", "ended"}
  /\ "subscription" \in handles =>
       consumer \in {"begin", "next", "received", "failed", "count", "report", "return"}

Joined ==
  /\ main # "join_producer" => producer = "ended"
  /\ main \in {"close", "returned"} => consumer = "ended"

(* What is between Publish and next_msg, oldest first.                     *)
Line == sub.pending \o wire

(* The numbers of s rise from one message to the next, between lo and hi.  *)
Rising(s, lo, hi) ==
  /\ \A k \in 1 .. Len(s) : lo < s[k].n /\ s[k].n <= hi
  /\ \A j, k \in 1 .. Len(s) : j < k => s[j].n < s[k].n

(* No stamp of s is later than t.                                          *)
Past(s, t) == \A k \in 1 .. Len(s) : s[k].ts <= t

Latest == clock + back

Stamped ==
  /\ nanoseconds <= Latest /\ msg.ts <= Latest
  /\ Past(Line, Latest)
  /\ consumer = "count" => msg.ts <= ns + back

LastMeasured == IF measured = <<>> THEN 0 ELSE measured[Len(measured)].n

(* What was measured, the message at hand and the line continue each other *)
(* up to the last message published.                                       *)
Lined ==
  /\ producer = "publish" => i < Rounds
  /\ msg.n <= i
  /\ LastMeasured <= msg.n
  /\ consumer \in {"received", "count"} => LastMeasured < msg.n
  /\ Rising(Line, msg.n, i)

IInv == TypeOK /\ Owned /\ Joined /\ Stamped /\ Lined /\ NegativeOnlyByClock

-----------------------------------------------------------------------------
(* Subscriptions are records: changing one field keeps the others.         *)
LEMMA WithPending ==
  ASSUME NEW c \in SubscriptionOf(Sent), NEW q \in Seq(Sent)
  PROVE  [c EXCEPT !.pending = q] \in SubscriptionOf(Sent) /\ [c EXCEPT !.pending = q].pending = q
  BY DEF SubscriptionOf

LEMMA WithDelivered ==
  ASSUME NEW c \in SubscriptionOf(Sent), NEW d \in Nat
  PROVE  /\ [c EXCEPT !.delivered = d] \in SubscriptionOf(Sent)
         /\ [c EXCEPT !.delivered = d].pending = c.pending
  BY DEF SubscriptionOf

LEMMA WithDropped ==
  ASSUME NEW c \in SubscriptionOf(Sent), NEW d \in SUBSET Sent
  PROVE  /\ [c EXCEPT !.dropped = d] \in SubscriptionOf(Sent)
         /\ [c EXCEPT !.dropped = d].pending = c.pending
  BY DEF SubscriptionOf

LEMMA WithEnd ==
  ASSUME NEW c \in SubscriptionOf(Sent), NEW d \in Ends
  PROVE  /\ [c EXCEPT !.end = d] \in SubscriptionOf(Sent)
         /\ [c EXCEPT !.end = d].pending = c.pending
  BY DEF SubscriptionOf

LEMMA FieldTypes ==
  ASSUME NEW c \in SubscriptionOf(Sent)
  PROVE  /\ c.pending \in Seq(Sent)
         /\ c.dropped \in SUBSET Sent
         /\ c.delivered \in Nat
         /\ c.end \in Ends
  BY DEF SubscriptionOf

(* What the C library's operations do to the queue.                        *)
LEMMA TakeSub ==
  ASSUME NEW c \in SubscriptionOf(Sent), c.pending # <<>>
  PROVE  /\ Take(c) \in SubscriptionOf(Sent)
         /\ Take(c).pending = Tail(c.pending)
  <1> DEFINE end == IF c.max # 0 /\ c.delivered + 1 >= c.max THEN "cut" ELSE c.end
             c1 == [c EXCEPT !.pending = Tail(c.pending)]
             c2 == [c1 EXCEPT !.delivered = c.delivered + 1]
  <1>1. c1 \in SubscriptionOf(Sent) /\ c1.pending = Tail(c.pending)
    <2>1. Tail(c.pending) \in Seq(Sent)
      BY FieldTypes, HeadTailProperties
    <2>2. QED
      BY <2>1, WithPending
  <1>2. c2 \in SubscriptionOf(Sent) /\ c2.pending = c1.pending
    <2>1. c.delivered + 1 \in Nat
      BY FieldTypes
    <2>2. QED
      BY <1>1, <2>1, WithDelivered
  <1>3. end \in Ends
    BY FieldTypes DEF Ends
  <1>4. Take(c) = [c2 EXCEPT !.end = end]
    BY DEF Take
  <1> HIDE DEF end, c1, c2
  <1>5. QED
    BY <1>1, <1>2, <1>3, <1>4, WithEnd

LEMMA ArriveSub ==
  ASSUME NEW c \in SubscriptionOf(Sent), NEW m \in Sent
  PROVE  /\ Arrive(c, m) \in SubscriptionOf(Sent)
         /\ Arrive(c, m).pending \in {c.pending, Append(c.pending, m)}
  <1>1. CASE Full(c)
    <2>1. c.dropped \union {m} \in SUBSET Sent
      BY FieldTypes
    <2>2. Arrive(c, m) = [c EXCEPT !.dropped = c.dropped \union {m}]
      BY <1>1 DEF Arrive
    <2>3. QED
      BY <2>1, <2>2, WithDropped
  <1>2. CASE ~Full(c)
    <2>1. Append(c.pending, m) \in Seq(Sent)
      BY FieldTypes
    <2>2. Arrive(c, m) = [c EXCEPT !.pending = Append(c.pending, m)]
      BY <1>2 DEF Arrive
    <2>3. QED
      BY <2>1, <2>2, WithPending
  <1>3. QED
    BY <1>1, <1>2

LEMMA UnsubscribeSub ==
  ASSUME NEW c \in SubscriptionOf(Sent)
  PROVE  /\ Unsubscribe(c) \in SubscriptionOf(Sent)
         /\ Unsubscribe(c).pending = c.pending
  BY WithEnd DEF Unsubscribe, Ends

LEMMA SubscribedSub ==
  /\ [Subscribed EXCEPT !.limit = Limit] \in SubscriptionOf(Sent)
  /\ [Subscribed EXCEPT !.limit = Limit].pending = <<>>
  <1>1. Subscribed \in SubscriptionOf(Sent) /\ Subscribed.pending = <<>>
    BY DEF Subscribed, SubscriptionOf, Ends
  <1>2. ASSUME NEW c \in SubscriptionOf(Sent)
        PROVE  /\ [c EXCEPT !.limit = Limit] \in SubscriptionOf(Sent)
               /\ [c EXCEPT !.limit = Limit].pending = c.pending
    BY LimitAssumption DEF SubscriptionOf
  <1>3. QED
    BY <1>1, <1>2

LEMMA InitIInv == Init => IInv
  <1> SUFFICES ASSUME Init PROVE IInv
    OBVIOUS
  <1>1. sub \in SubscriptionOf(Sent) /\ sub.pending = <<>>
    BY SubscribedSub DEF Init
  <1>2. /\ producer = "create" /\ consumer = "create" /\ main = "join_producer"
        /\ i = 0 /\ nanoseconds = 0 /\ ns = 0 /\ clock = 0 /\ back = 0
        /\ counter = 0 /\ latency_sum = 0 /\ last_time = 0 /\ reported = 0
        /\ wire = <<>> /\ measured = <<>> /\ handles = {} /\ interest \in BOOLEAN
    BY Zenon DEF Init
  <1>3. msg \in Sent /\ msg.n = 0 /\ msg.ts = 0
    BY DEF Init, Sent
  <1>4. /\ wire \in Seq(Sent) /\ Len(wire) = 0 /\ Len(sub.pending) = 0
        /\ measured \in Seq([n : Nat, latency : Int]) /\ DOMAIN measured = {}
    BY <1>1, <1>2, EmptySeq
  <1>5. TypeOK
    BY <1>1, <1>2, <1>3, <1>4, RoundsAssumption DEF TypeOK
  <1>6. Owned /\ Joined
    BY <1>2 DEF Owned, Joined
  <1>7. Stamped /\ Lined /\ NegativeOnlyByClock
    <2>1. Line = <<>> /\ Len(<<>>) = 0
      BY <1>1, <1>2 DEF Line
    <2>2. QED
      BY <1>2, <1>3, <1>4, <2>1
      DEF Stamped, Latest, Past, Lined, Rising, LastMeasured, NegativeOnlyByClock
  <1>8. QED
    BY <1>5, <1>6, <1>7 DEF IInv

-----------------------------------------------------------------------------
(* Messages that arrive in a line, leave it at its head, or are lost where *)
(* the wire begins, leave it rising.                                       *)
LEMMA RisingAppend ==
  ASSUME NEW s \in Seq(Sent), NEW m \in Sent, NEW lo \in Nat, NEW hi \in Nat,
         Rising(s, lo, hi), lo <= hi, hi < m.n
  PROVE  Rising(Append(s, m), lo, m.n)
  <1> DEFINE q == Append(s, m)
  <1>1. /\ Len(s) \in Nat /\ Len(q) = Len(s) + 1
        /\ \A k \in 1 .. Len(s) : q[k] = s[k]
        /\ q[Len(s) + 1] = m
    BY AppendProperties, LenProperties
  <1>2. m.n \in Nat /\ \A k \in 1 .. Len(s) : s[k].n \in Nat
    <2>1. \A k \in 1 .. Len(s) : s[k] \in Sent
      BY ElementOfSeq
    <2>2. QED
      BY <2>1 DEF Sent
  <1> HIDE DEF q
  <1>3. \A k \in 1 .. Len(s) : q[k].n \in Nat /\ lo < q[k].n /\ q[k].n <= hi
    BY <1>1, <1>2 DEF Rising
  <1>4. ASSUME NEW k \in 1 .. Len(q) PROVE lo < q[k].n /\ q[k].n <= m.n
    <2>1. CASE k \in 1 .. Len(s)
      BY <1>2, <1>3, <2>1
    <2>2. CASE k = Len(s) + 1
      BY <1>1, <1>2, <2>2
    <2>3. QED
      BY <1>1, <2>1, <2>2
  <1>5. ASSUME NEW j \in 1 .. Len(q), NEW k \in 1 .. Len(q), j < k PROVE q[j].n < q[k].n
    <2>1. j \in 1 .. Len(s)
      BY <1>1, <1>5
    <2>2. CASE k \in 1 .. Len(s)
      BY <1>1, <1>5, <2>1, <2>2 DEF Rising
    <2>3. CASE k = Len(s) + 1
      BY <1>1, <1>2, <1>3, <2>1, <2>3
    <2>4. QED
      BY <1>1, <2>2, <2>3
  <1>6. QED
    BY <1>4, <1>5 DEF Rising, q

LEMMA PastAppend ==
  ASSUME NEW s \in Seq(Sent), NEW m \in Sent, NEW t \in Int, Past(s, t), m.ts <= t
  PROVE  Past(Append(s, m), t)
  BY AppendProperties, LenProperties DEF Past

LEMMA RisingTail ==
  ASSUME NEW s \in Seq(Sent), s # <<>>, NEW lo \in Nat, NEW hi \in Nat, Rising(s, lo, hi)
  PROVE  Rising(Tail(s), Head(s).n, hi)
  <1> DEFINE q == Tail(s)
  <1>1. /\ Len(s) \in Nat \ {0} /\ Len(q) = Len(s) - 1 /\ Head(s) = s[1]
        /\ \A k \in 1 .. Len(q) : q[k] = s[k + 1]
    BY HeadTailProperties, EmptySeq
  <1> HIDE DEF q
  <1>2. ASSUME NEW k \in 1 .. Len(q)
        PROVE  k + 1 \in 1 .. Len(s) /\ 1 \in 1 .. Len(s) /\ 1 < k + 1 /\ q[k] = s[k + 1]
    BY <1>1
  <1>3. \A k \in 1 .. Len(q) : Head(s).n < q[k].n /\ q[k].n <= hi
    BY <1>1, <1>2 DEF Rising
  <1>4. \A j, k \in 1 .. Len(q) : j < k => q[j].n < q[k].n
    <2> SUFFICES ASSUME NEW j \in 1 .. Len(q), NEW k \in 1 .. Len(q), j < k
                 PROVE  q[j].n < q[k].n
      OBVIOUS
    <2>1. j + 1 < k + 1
      BY <1>1
    <2>2. QED
      BY <1>2, <2>1 DEF Rising
  <1>5. QED
    BY <1>3, <1>4 DEF Rising, q

LEMMA PastTail ==
  ASSUME NEW s \in Seq(Sent), s # <<>>, NEW t \in Int, Past(s, t)
  PROVE  Past(Tail(s), t) /\ Head(s).ts <= t
  <1>1. /\ Len(s) \in Nat \ {0} /\ Len(Tail(s)) = Len(s) - 1 /\ Head(s) = s[1]
        /\ \A k \in 1 .. Len(Tail(s)) : Tail(s)[k] = s[k + 1]
    BY HeadTailProperties, EmptySeq
  <1>2. QED
    BY <1>1 DEF Past

(* What is left of the line p \o w when the head of w is lost: each place  *)
(* of the new line holds what some place of the old one did, in order.     *)
LEMMA LineWithout ==
  ASSUME NEW p \in Seq(Sent), NEW w \in Seq(Sent), w # <<>>
  PROVE  \A k \in 1 .. Len(p \o Tail(w)) :
           LET at(x) == IF x <= Len(p) THEN x ELSE x + 1
           IN  at(k) \in 1 .. Len(p \o w) /\ (p \o Tail(w))[k] = (p \o w)[at(k)]
  <1>1. /\ Tail(w) \in Seq(Sent) /\ Len(w) \in Nat \ {0} /\ Len(Tail(w)) = Len(w) - 1
        /\ \A k \in 1 .. Len(Tail(w)) : Tail(w)[k] = w[k + 1]
    BY HeadTailProperties, EmptySeq
  <1>2. /\ Len(p) \in Nat
        /\ Len(p \o w) = Len(p) + Len(w) /\ Len(p \o Tail(w)) = Len(p) + Len(Tail(w))
        /\ \A k \in 1 .. Len(p) + Len(w) :
             (p \o w)[k] = IF k <= Len(p) THEN p[k] ELSE w[k - Len(p)]
        /\ \A k \in 1 .. Len(p) + Len(Tail(w)) :
             (p \o Tail(w))[k] = IF k <= Len(p) THEN p[k] ELSE Tail(w)[k - Len(p)]
    BY <1>1, ConcatProperties, LenProperties
  <1> SUFFICES ASSUME NEW k \in 1 .. Len(p \o Tail(w))
               PROVE  LET at(x) == IF x <= Len(p) THEN x ELSE x + 1
                      IN  at(k) \in 1 .. Len(p \o w) /\ (p \o Tail(w))[k] = (p \o w)[at(k)]
    OBVIOUS
  <1>3. CASE k <= Len(p)
    BY <1>1, <1>2, <1>3
  <1>4. CASE k > Len(p)
    <2>1. k - Len(p) \in 1 .. Len(Tail(w)) /\ k + 1 \in 1 .. Len(p \o w)
      BY <1>1, <1>2, <1>4
    <2>2. (p \o Tail(w))[k] = w[k - Len(p) + 1]
      BY <1>1, <1>2, <1>4, <2>1
    <2>3. (p \o w)[k + 1] = w[k + 1 - Len(p)] /\ k + 1 - Len(p) = k - Len(p) + 1
      BY <1>1, <1>2, <1>4, <2>1
    <2>4. QED
      BY <1>2, <1>4, <2>1, <2>2, <2>3
  <1>5. QED
    BY <1>2, <1>3, <1>4

LEMMA LineLoses ==
  ASSUME NEW p \in Seq(Sent), NEW w \in Seq(Sent), w # <<>>, NEW t, NEW lo, NEW hi
  PROVE  /\ Rising(p \o w, lo, hi) => Rising(p \o Tail(w), lo, hi)
         /\ Past(p \o w, t) => Past(p \o Tail(w), t)
  <1> DEFINE r == p \o w
             q == p \o Tail(w)
             at(x) == IF x <= Len(p) THEN x ELSE x + 1
  <1>1. \A k \in 1 .. Len(q) : at(k) \in 1 .. Len(r) /\ q[k] = r[at(k)]
    BY LineWithout
  <1>2. \A j, k \in 1 .. Len(q) : j < k => at(j) < at(k)
    <2>1. Len(p) \in Nat /\ Len(q) \in Nat
      BY ConcatProperties, HeadTailProperties, LenProperties
    <2> HIDE DEF q
    <2>2. QED
      BY <2>1
  <1> HIDE DEF r, q, at
  <1>3. Rising(r, lo, hi) => Rising(q, lo, hi)
    BY <1>1, <1>2 DEF Rising
  <1>4. Past(r, t) => Past(q, t)
    BY <1>1 DEF Past
  <1>5. QED
    BY <1>3, <1>4 DEF r, q

(* The three ways in which an operation changes its line.                  *)
LEMMA LineAppends ==
  ASSUME NEW p \in Seq(Sent), NEW w \in Seq(Sent), NEW m \in Sent
  PROVE  p \o Append(w, m) = Append(p \o w, m)
  BY AppendIsConcat, ConcatAssociative, ConcatProperties

LEMMA LineMoves ==
  ASSUME NEW p \in Seq(Sent), NEW w \in Seq(Sent), w # <<>>
  PROVE  Append(p, Head(w)) \o Tail(w) = p \o w
  <1>1. Head(w) \in Sent /\ Tail(w) \in Seq(Sent)
    BY HeadTailProperties
  <1>2. w = <<Head(w)>> \o Tail(w)
    OBVIOUS
  <1>3. <<Head(w)>> \in Seq(Sent) /\ Append(p, Head(w)) = p \o <<Head(w)>>
    BY <1>1, AppendIsConcat
  <1>4. QED
    BY <1>1, <1>2, <1>3, ConcatAssociative

LEMMA LineLeaves ==
  ASSUME NEW p \in Seq(Sent), NEW w \in Seq(Sent), p # <<>>
  PROVE  Tail(p) \o w = Tail(p \o w) /\ Head(p) = Head(p \o w) /\ p \o w # <<>>
  OBVIOUS

-----------------------------------------------------------------------------
(* The types that the steps below rely on.                                 *)
LEMMA Types ==
  ASSUME TypeOK
  PROVE  /\ sub \in SubscriptionOf(Sent) /\ sub.pending \in Seq(Sent) /\ wire \in Seq(Sent)
         /\ Line \in Seq(Sent)
         /\ msg \in Sent /\ msg.n \in Nat /\ msg.ts \in Int
         /\ i \in Nat /\ clock \in Int /\ ns \in Int /\ nanoseconds \in Int
         /\ back \in Nat /\ Latest \in Int
  <1>1. sub \in SubscriptionOf(Sent) /\ wire \in Seq(Sent) /\ msg \in Sent
    BY DEF TypeOK
  <1>2. sub.pending \in Seq(Sent) /\ Line \in Seq(Sent)
    BY <1>1, FieldTypes, ConcatProperties DEF Line
  <1>3. QED
    BY <1>1, <1>2, RoundsAssumption DEF TypeOK, Sent, Latest

LEMMA LastType == ASSUME TypeOK PROVE LastMeasured \in Nat
  <1>1. measured \in Seq([n : Nat, latency : Int])
    BY DEF TypeOK
  <1>2. CASE measured # <<>>
    <2>1. Len(measured) \in 1 .. Len(measured)
      BY <1>1, <1>2, EmptySeq
    <2>2. measured[Len(measured)] \in [n : Nat, latency : Int]
      BY <1>1, <2>1, ElementOfSeq
    <2>3. QED
      BY <1>2, <2>2 DEF LastMeasured
  <1>3. QED
    BY <1>2 DEF LastMeasured

(* A reading of the clock: Latest does not fall, so that nothing that was  *)
(* stamped before is later than it now.                                    *)
LEMMA ReadingTypes ==
  ASSUME TypeOK, Reading
  PROVE  /\ clock' \in Int /\ back' \in Nat /\ Latest' \in Int
         /\ back <= back' /\ Latest <= Latest' /\ clock' <= Latest'
  <1>1. clock \in Int /\ back \in Nat
    BY DEF TypeOK
  <1>2. PICK d \in Int : clock' = clock + d /\ back' = IF d < 0 THEN back - d ELSE back
    BY TicksAssumption DEF Reading
  <1>3. CASE d < 0
    BY <1>1, <1>2, <1>3 DEF Latest
  <1>4. CASE ~(d < 0)
    BY <1>1, <1>2, <1>4 DEF Latest
  <1>5. QED
    BY <1>3, <1>4

LEMMA TimePasses ==
  ASSUME TypeOK, Stamped, Reading, UNCHANGED <<msg, wire, sub>>
  PROVE  msg'.ts <= Latest' /\ Past(Line', Latest')
  <1>1. Latest \in Int /\ msg.ts \in Int /\ Line \in Seq(Sent) /\ Line' = Line
    BY Types DEF Line
  <1>2. \A k \in 1 .. Len(Line) : Line[k] \in Sent
    BY <1>1, ElementOfSeq
  <1>3. PICK l \in Int : l = Latest' /\ Latest <= l
    BY ReadingTypes
  <1>4. \A m \in Sent : m.ts <= Latest => m.ts <= l
    BY <1>1, <1>3 DEF Sent
  <1>5. Past(Line, l)
    BY <1>2, <1>4 DEF Stamped, Past
  <1>6. QED
    BY <1>1, <1>3, <1>4, <1>5, Types DEF Stamped

(* The producer's steps, and the others that move no message.              *)
LEMMA QuietIInv ==
  ASSUME IInv,
         \/ ProducerConnects \/ ProducerReturns \/ ConsumerConnects \/ subscribe_sync
         \/ Main \/ Register
  PROVE  IInv'
  <1> USE RoundsAssumption
      DEF IInv, TypeOK, Owned, Joined, Stamped, Latest, LastMeasured, Lined, Line,
          NegativeOnlyByClock, producing, statistics, time, transport
  <1>1. CASE ProducerConnects
    BY <1>1 DEF ProducerConnects
  <1>2. CASE ProducerReturns
    BY <1>2 DEF ProducerReturns
  <1>3. CASE ConsumerConnects
    BY <1>3 DEF ConsumerConnects
  <1>4. CASE subscribe_sync
    BY <1>4 DEF subscribe_sync
  <1>5. CASE Main
    BY <1>5 DEF Main
  <1>6. CASE Register
    BY <1>6 DEF Register
  <1>7. QED
    BY <1>1, <1>2, <1>3, <1>4, <1>5, <1>6

(* The steps that read the clock.                                          *)
LEMMA ReadingIInv ==
  ASSUME IInv, Stamp \/ BeginMeasuring \/ Now \/ Report
  PROVE  IInv'
  <1> USE DEF IInv, producing, statistics, transport
  <1>1. Reading /\ UNCHANGED <<msg, wire, sub, measured, i>>
    BY DEF Stamp, BeginMeasuring, Now, Report
  <1>2. /\ clock' \in Int /\ back' \in Nat /\ Latest' \in Int
        /\ back <= back' /\ Latest <= Latest' /\ clock' <= Latest'
    BY <1>1, ReadingTypes
  <1>3. TypeOK'
    <2> USE <1>2 DEF TypeOK
    <2>1. CASE Stamp
      BY <2>1 DEF Stamp
    <2>2. CASE BeginMeasuring
      BY <2>2 DEF BeginMeasuring
    <2>3. CASE Now
      BY <2>3 DEF Now
    <2>4. CASE Report
      BY <2>4, LenProperties DEF Report, Reset
    <2>5. QED
      BY <2>1, <2>2, <2>3, <2>4
  <1>4. Owned' /\ Joined'
    BY DEF TypeOK, Owned, Joined, Stamp, BeginMeasuring, Now, Report
  <1>5. nanoseconds' <= Latest'
    <2>1. nanoseconds' = clock' \/ nanoseconds' = nanoseconds
      BY DEF Stamp, BeginMeasuring, Now, Report
    <2>2. QED
      BY <1>2, <2>1, Types DEF Stamped
  <1>6. msg'.ts <= Latest' /\ Past(Line', Latest')
    BY <1>1, TimePasses
  <1>7. consumer' = "count" => msg'.ts <= ns' + back'
    <2>1. CASE Now
      BY <1>6, <2>1 DEF Now, Latest
    <2>2. CASE Stamp
      BY <1>1, <1>2, <2>2, Types DEF Stamp, Stamped
    <2>3. CASE BeginMeasuring \/ Report
      BY <2>3 DEF BeginMeasuring, Report
    <2>4. QED
      BY <2>1, <2>2, <2>3
  <1>8. Stamped'
    BY <1>5, <1>6, <1>7 DEF Stamped
  <1>9. consumer' \in {"received", "count"} => consumer \in {"received", "count"}
    BY DEF Stamp, BeginMeasuring, Now, Report
  <1>10. producer' = "publish" => i' < Rounds
    BY <1>1 DEF Lined, Stamp, BeginMeasuring, Now, Report
  <1>11. Line' = Line
    BY <1>1 DEF Line
  <1>12. Lined'
    BY <1>1, <1>9, <1>10, <1>11 DEF Lined, LastMeasured
  <1>13. NegativeOnlyByClock'
    <2>1. \A k \in DOMAIN measured : measured[k].latency \in Int
      <3>1. measured \in Seq([n : Nat, latency : Int])
        BY DEF TypeOK
      <3>2. \A k \in DOMAIN measured : measured[k] \in [n : Nat, latency : Int]
        BY <3>1, ElementOfSeq, LenProperties
      <3>3. QED
        BY <3>2
    <2>2. QED
      BY <1>1, <1>2, <2>1, Types DEF NegativeOnlyByClock
  <1>14. QED
    BY <1>3, <1>4, <1>8, <1>12, <1>13

(* A message goes onto the wire: its number is the highest so far.         *)
LEMMA PublishIInv == ASSUME IInv, Publish PROVE IInv'
  <1> USE DEF IInv, statistics
  <1>1. CASE UNCHANGED <<wire, i>> /\ producer' = "return"
    BY <1>1
    DEF Publish, TypeOK, Owned, Joined, Stamped, Latest, Line, Lined, LastMeasured,
        NegativeOnlyByClock, time
  <1>2. CASE publish([n |-> i + 1, ts |-> nanoseconds]) /\ i' = i + 1 /\ producer' = "loop"
    <2> DEFINE m == [n |-> i + 1, ts |-> nanoseconds]
    <2>1. m \in Sent /\ m.n = i + 1 /\ m.ts = nanoseconds
      BY Types DEF Sent
    <2>2. wire' = Append(wire, m)
      BY <1>2 DEF publish
    <2> HIDE DEF m
    <2>3. UNCHANGED <<msg, ns, consumer, clock, back, sub, measured, nanoseconds>>
      BY DEF Publish, time
    <2>4. wire' \in Seq(Sent) /\ Line' = Append(Line, m)
      BY <2>1, <2>2, <2>3, Types, AppendProperties, LineAppends DEF Line
    <2>5. i < Rounds /\ i' \in 0 .. Rounds
      BY <1>2, Types, RoundsAssumption DEF Publish, Lined
    <2>6. TypeOK'
      BY <1>2, <2>4, <2>5 DEF Publish, TypeOK, time
    <2>7. Owned' /\ Joined'
      BY <1>2 DEF Publish, Owned, Joined
    <2>8. Stamped'
      BY <2>1, <2>3, <2>4, Types, PastAppend DEF Stamped, Latest
    <2>9. Rising(Line', msg'.n, i')
      BY <1>2, <2>1, <2>3, <2>4, Types, RisingAppend DEF Lined
    <2>10. Lined'
      BY <1>2, <2>3, <2>9, Types DEF Lined, LastMeasured
    <2>11. NegativeOnlyByClock'
      BY <2>3 DEF NegativeOnlyByClock
    <2>12. QED
      BY <2>6, <2>7, <2>8, <2>10, <2>11
  <1>3. QED
    BY <1>1, <1>2 DEF Publish

(* The oldest message of the wire joins the queue, or is lost.             *)
LEMMA TransmitIInv == ASSUME IInv, Transmit PROVE IInv'
  <1> USE DEF IInv, producing, statistics
  <1>1. wire # <<>> /\ wire' = Tail(wire) /\ wire' \in Seq(Sent) /\ Head(wire) \in Sent
    BY Types, HeadTailProperties DEF Transmit
  <1>2. /\ sub' \in SubscriptionOf(Sent)
        /\ sub'.pending \in {sub.pending, Append(sub.pending, Head(wire))}
    BY <1>1, Types, ArriveSub DEF Transmit
  <1>3. TypeOK'
    BY <1>1, <1>2 DEF Transmit, TypeOK, time
  <1>4. UNCHANGED <<msg, ns, nanoseconds, consumer, producer, i, clock, back, measured, main,
               handles>>
    BY DEF Transmit, time
  <1>5. Owned' /\ Joined' /\ NegativeOnlyByClock'
    BY <1>4 DEF Owned, Joined, NegativeOnlyByClock
  <1>6. Line' = Line \/ Line' = sub.pending \o Tail(wire)
    BY <1>1, <1>2, Types, LineMoves DEF Line
  <1>7. Past(Line', Latest) /\ Rising(Line', msg.n, i)
    BY <1>1, <1>6, Types, LineLoses DEF Line, Stamped, Lined
  <1>8. Stamped' /\ Lined'
    BY <1>4, <1>7 DEF Stamped, Latest, Lined, LastMeasured
  <1>9. QED
    BY <1>3, <1>5, <1>8

(* The consumer takes the head of the line, or gives up.                   *)
LEMMA NextMsgIInv == ASSUME IInv, next_msg PROVE IInv'
  <1> USE DEF IInv, producing, statistics
  <1>1. CASE consumer' = "failed" /\ UNCHANGED <<msg, sub>>
    BY <1>1
    DEF next_msg, TypeOK, Owned, Joined, Stamped, Latest, Line, Lined, LastMeasured,
        NegativeOnlyByClock, time
  <1>2. CASE /\ sub.pending # <<>> /\ consumer' = "received"
             /\ msg' = Head(sub.pending) /\ sub' = Take(sub)
    <2>1. UNCHANGED <<wire, i, nanoseconds, ns, clock, back, producer, measured, main, handles>>
      BY DEF next_msg, time
    <2>2. sub' \in SubscriptionOf(Sent) /\ sub'.pending = Tail(sub.pending)
      BY <1>2, Types, TakeSub
    <2>3. Line # <<>> /\ Line' = Tail(Line) /\ msg' = Head(Line) /\ msg' \in Sent
      BY <1>2, <2>1, <2>2, Types, LineLeaves, HeadTailProperties DEF Line
    <2>4. TypeOK'
      BY <1>2, <2>2, <2>3 DEF next_msg, TypeOK, time
    <2>5. Owned' /\ Joined' /\ NegativeOnlyByClock'
      BY <1>2, <2>1 DEF next_msg, Owned, Joined, NegativeOnlyByClock
    <2>6. Stamped'
      BY <1>2, <2>1, <2>3, Types, PastTail DEF Stamped, Latest
    <2>7. Rising(Line', msg'.n, i')
      BY <2>1, <2>3, Types, RisingTail DEF Lined
    <2>8. msg.n < msg'.n /\ msg'.n <= i
      BY <2>3, Types, EmptySeq DEF Lined, Rising
    <2>9. LastMeasured' = LastMeasured /\ LastMeasured \in Nat
      BY <2>1, LastType DEF LastMeasured
    <2>10. msg'.n \in Nat
      BY <2>3 DEF Sent
    <2>11. LastMeasured' < msg'.n
      BY <2>8, <2>9, <2>10, Types DEF Lined
    <2>12. Lined'
      BY <1>2, <2>1, <2>7, <2>8, <2>10, <2>11, Types, <2>9 DEF Lined
    <2>13. QED
      BY <2>4, <2>5, <2>6, <2>12
  <1>3. QED
    BY <1>1, <1>2 DEF next_msg

(* A latency joins the measured ones.                                      *)
LEMMA CountMessageIInv == ASSUME IInv, CountMessage PROVE IInv'
  <1> DEFINE x == [n |-> msg.n, latency |-> Latency]
  <1> USE DEF IInv, producing, time, transport
  <1>1. UNCHANGED <<producer, i, nanoseconds, msg, ns, main, handles, clock, back, wire, sub>>
    BY DEF CountMessage
  <1>2. consumer = "count" /\ consumer' = "report" /\ measured' = Append(measured, x)
    BY DEF CountMessage
  <1>3. Latency \in Int /\ Latency >= -back
    BY <1>2, Types DEF Stamped, Latency
  <1>4. x \in [n : Nat, latency : Int] /\ x.n = msg.n /\ x.latency >= -back
    BY <1>3, Types
  <1> HIDE DEF x
  <1>5. measured \in Seq([n : Nat, latency : Int])
    BY DEF TypeOK
  <1>6. /\ measured' \in Seq([n : Nat, latency : Int])
        /\ Len(measured) \in Nat /\ Len(measured') = Len(measured) + 1
        /\ \A k \in 1 .. Len(measured) : measured'[k] = measured[k]
        /\ measured'[Len(measured) + 1] = x
    BY <1>2, <1>4, <1>5, AppendProperties, LenProperties
  <1>7. DOMAIN measured = 1 .. Len(measured) /\ DOMAIN measured' = 1 .. Len(measured) + 1
    BY <1>5, <1>6, LenProperties
  <1>8. \A k \in DOMAIN measured' : k \in DOMAIN measured \/ k = Len(measured) + 1
    BY <1>6, <1>7
  <1>9. NegativeOnlyByClock'
    BY <1>1, <1>4, <1>6, <1>7, <1>8 DEF NegativeOnlyByClock
  <1>10. TypeOK'
    <2>1. counter' \in Nat
      BY DEF CountMessage, TypeOK
    <2>2. latency_sum' \in Int
      BY <1>3 DEF CountMessage, TypeOK
    <2>3. QED
      BY <1>1, <1>2, <1>6, <2>1, <2>2 DEF CountMessage, TypeOK
  <1>11. Owned' /\ Joined'
    BY <1>1, <1>2 DEF Owned, Joined
  <1>12. Line' = Line
    BY <1>1 DEF Line
  <1>13. LastMeasured' = msg.n
    BY <1>4, <1>6, EmptySeq DEF LastMeasured
  <1>14. Stamped'
    BY <1>1, <1>2, <1>12 DEF Stamped, Latest
  <1>15. Lined'
    BY <1>1, <1>2, <1>12, <1>13, Types DEF Lined
  <1>16. QED
    BY <1>9, <1>10, <1>11, <1>14, <1>15

(* The handles of the consumer go; the queue of a closed subscription is   *)
(* still there, and nobody reads it any more.                              *)
LEMMA ConsumerReturnsIInv == ASSUME IInv, ConsumerReturns PROVE IInv'
  <1> USE DEF IInv, producing, statistics, time
  <1>1. UNCHANGED <<producer, i, nanoseconds, msg, ns, measured, main, clock, back, wire>>
    BY DEF ConsumerReturns
  <1>2. sub' \in SubscriptionOf(Sent) /\ sub'.pending = sub.pending
    BY Types, UnsubscribeSub DEF ConsumerReturns
  <1>3. consumer = "return" /\ consumer' \in {"return", "ended"}
    BY DEF ConsumerReturns
  <1>4. TypeOK'
    BY <1>2, <1>3 DEF ConsumerReturns, TypeOK
  <1>5. Owned' /\ Joined' /\ NegativeOnlyByClock'
    BY DEF ConsumerReturns, Owned, Joined, NegativeOnlyByClock
  <1>6. Line' = Line
    BY <1>1, <1>2 DEF Line
  <1>7. Stamped' /\ Lined'
    BY <1>1, <1>3, <1>6 DEF Stamped, Latest, Lined, LastMeasured
  <1>8. QED
    BY <1>4, <1>5, <1>7

LEMMA StepIInv == IInv /\ [Next]_vars => IInv'
  <1>1. ASSUME IInv, UNCHANGED vars PROVE IInv'
    BY <1>1
    DEF vars, producing, statistics, time, transport, IInv, TypeOK, Owned, Joined, Stamped,
        Latest, Lined, Line, LastMeasured, NegativeOnlyByClock
  <1>2. ASSUME IInv, Next PROVE IInv'
    BY <1>2, QuietIInv, ReadingIInv, PublishIInv, TransmitIInv, NextMsgIInv, CountMessageIInv,
       ConsumerReturnsIInv
    DEF Next, run_producer, run_consumer
  <1>3. QED
    BY <1>1, <1>2

LEMMA AlwaysIInv == Spec => []IInv
  BY InitIInv, StepIInv, PTL DEF Spec

-----------------------------------------------------------------------------
(* Every variable keeps its type, whatever the numbers of messages and the *)
(* pending limit are; in particular the queue and the wire hold messages,  *)
(* and the producer's loop does not exceed its bound.                      *)
THEOREM TypeCorrect == Spec => []TypeOK
  BY AlwaysIInv, PTL DEF IInv

(* However the clock moves, no latency is more negative than the clock was *)
(* set back: the stamp of a message is read before it is published, and    *)
(* ns = nanos() after it came.                                             *)
THEOREM LatencyNegativeOnlyByClock == Spec => []NegativeOnlyByClock
  BY AlwaysIInv, PTL DEF IInv

NeverSetBack == back = 0
NeverNegative == \A k \in DOMAIN measured : measured[k].latency >= 0

(* On a clock that is never set back no measured latency is negative.      *)
THEOREM LatencyNeverNegative ==
  ASSUME \A d \in Ticks : d >= 0
  PROVE  Spec => []NeverNegative
  <1>1. Init => NeverSetBack
    BY DEF Init, NeverSetBack
  <1>2. IInv /\ NeverSetBack /\ [Next]_vars => NeverSetBack'
    <2> SUFFICES ASSUME IInv, NeverSetBack, [Next]_vars PROVE NeverSetBack'
      OBVIOUS
    <2> USE DEF NeverSetBack
    <2>1. CASE Reading
      BY <2>1, TicksAssumption DEF Reading
    <2>2. CASE UNCHANGED time
      BY <2>2 DEF time
    <2>3. Reading \/ UNCHANGED time
      BY DEF vars, Next, run_producer, run_consumer, ProducerConnects, Stamp, Publish,
             ProducerReturns, ConsumerConnects, subscribe_sync, BeginMeasuring, next_msg, Now,
             CountMessage, Report, ConsumerReturns, Main, Register, Transmit
    <2>4. QED
      BY <2>1, <2>2, <2>3
  <1>3. NegativeOnlyByClock /\ NeverSetBack => NeverNegative
    BY DEF NegativeOnlyByClock, NeverSetBack, NeverNegative
  <1>4. QED
    BY <1>1, <1>2, <1>3, AlwaysIInv, LatencyNegativeOnlyByClock, PTL DEF Spec

(* nats_Close() runs when both threads have closed what they opened, and a *)
(* subscription is destroyed before its client.                            *)
THEOREM AlwaysClosedLast == Spec => []ClosedLast
  <1>1. IInv => ClosedLast
    <2> SUFFICES ASSUME IInv PROVE ClosedLast
      OBVIOUS
    <2>1. /\ main \in {"close", "returned"} => producer = "ended" /\ consumer = "ended"
          /\ main \in {"join_producer", "join_consumer", "close", "returned"}
      BY DEF IInv, TypeOK, Joined
    <2>2. handles \subseteq {"producer", "consumer", "subscription"}
      BY DEF IInv, TypeOK
    <2>3. QED
      BY <2>1, <2>2 DEF IInv, Owned, ClosedLast
  <1>2. QED
    BY <1>1, AlwaysIInv, PTL

-----------------------------------------------------------------------------
(* Every set of natural numbers has a least element: the way to induction  *)
(* without a theorem about operators.                                      *)
LEMMA LeastElement ==
  ASSUME NEW S \in SUBSET Nat, S # {}
  PROVE  \E m \in S : \A k \in S : m <= k
  <1> DEFINE Less == {ss \in Nat \X Nat : ss[1] < ss[2]}
  <1>1. IsWellFoundedOn(Less, Nat)
    BY NatLessThanWellFounded DEF OpToRel
  <1>2. \A j, k \in Nat : <<k, j>> \in Less <=> k < j
    OBVIOUS
  <1> HIDE DEF Less
  <1>3. PICK m \in S : \A k \in S : ~(<<k, m>> \in Less)
    BY <1>1, WFMin
  <1>4. ASSUME NEW k \in S PROVE m <= k
    <2>1. m \in Nat /\ k \in Nat
      OBVIOUS
    <2>2. ~(k < m)
      BY <1>2, <1>3, <2>1
    <2>3. QED
      BY <2>1, <2>2
  <1>5. QED
    BY <1>4

(* p[k] is the sum of the first k of the n numbers l.                      *)
Sums(p, l, n) ==
  p \in [0 .. n -> Int] /\ p[0] = 0 /\ \A k \in 1 .. n : p[k] = p[k - 1] + l[k]

(* f[k] is the sum of all but the first k of them, for k from r on.        *)
Remaining(f, l, r, n) ==
  f = [k \in r .. n |-> IF k = n THEN 0 ELSE l[k + 1] + f[k + 1]]

(* There is such an f, and it is the difference of two sums.               *)
LEMMA RemainingExists ==
  ASSUME NEW n \in Nat, NEW r \in 0 .. n, NEW l \in [1 .. n -> Int], NEW p, Sums(p, l, n)
  PROVE  \E f : Remaining(f, l, r, n)
  <1> DEFINE f == [k \in r .. n |-> p[n] - p[k]]
  <1>1. \A k \in 0 .. n : p[k] \in Int
    BY DEF Sums
  <1>2. ASSUME NEW k \in r .. n, k # n
        PROVE  p[n] - p[k] = l[k + 1] + f[k + 1]
    <2>1. k \in 0 .. n /\ k + 1 \in 1 .. n /\ k + 1 \in r .. n /\ (k + 1) - 1 = k
      BY <1>2
    <2>2. p[k + 1] = p[k] + l[k + 1]
      BY <2>1 DEF Sums
    <2>3. p[n] \in Int /\ p[k] \in Int /\ p[k + 1] \in Int /\ l[k + 1] \in Int
      BY <1>1, <2>1
    <2>4. f[k + 1] = p[n] - p[k + 1]
      BY <2>1
    <2>5. QED
      BY <2>2, <2>3, <2>4
  <1>3. p[n] - p[n] = 0
    BY <1>1
  <1>4. \A k \in r .. n : p[n] - p[k] = IF k = n THEN 0 ELSE l[k + 1] + f[k + 1]
    BY <1>2, <1>3
  <1>5. Remaining(f, l, r, n)
    <2>1. f = [k \in r .. n |-> p[n] - p[k]]
      OBVIOUS
    <2> HIDE DEF f
    <2>2. QED
      BY <1>4, <2>1 DEF Remaining
  <1> HIDE DEF f
  <1>6. QED
    BY <1>5

LEMMA RemainingSum ==
  ASSUME NEW n \in Nat, NEW r \in 0 .. n, NEW l \in [1 .. n -> Int], NEW p, Sums(p, l, n),
         NEW f, Remaining(f, l, r, n)
  PROVE  f[r] = p[n] - p[r]
  <1> DEFINE Wrong == {j \in Nat : j <= n - r /\ f[n - j] # p[n] - p[n - j]}
  <1>1. \A k \in r .. n : f[k] = IF k = n THEN 0 ELSE l[k + 1] + f[k + 1]
    BY DEF Remaining
  <1>2. \A k \in 0 .. n : p[k] \in Int
    BY DEF Sums
  <1>3. ASSUME NEW j \in Wrong, \A k \in Wrong : j <= k PROVE FALSE
    <2>1. j \in Nat /\ j <= n - r /\ f[n - j] # p[n] - p[n - j]
      OBVIOUS
    <2>2. CASE j = 0
      <3>1. n - j = n /\ n \in r .. n
        BY <2>2
      <3>2. f[n] = 0 /\ p[n] - p[n] = 0
        BY <1>1, <1>2, <3>1
      <3>3. QED
        BY <2>1, <3>1, <3>2
    <2>3. CASE j # 0
      <3>1. j - 1 \in Nat /\ j - 1 \notin Wrong
        BY <1>3, <2>1, <2>3
      <3> DEFINE k == n - j
      <3>2. k \in r .. n /\ k \in 0 .. n /\ k # n /\ k + 1 \in 1 .. n /\ n - (j - 1) = k + 1
        BY <2>1, <2>3
      <3>3. f[n - (j - 1)] = p[n] - p[n - (j - 1)]
        BY <2>1, <3>1
      <3>4. f[k + 1] = p[n] - p[k + 1]
        BY <3>2, <3>3
      <3> HIDE DEF Wrong, k
      <3>5. f[k] = l[k + 1] + f[k + 1]
        BY <1>1, <3>2
      <3>6. p[k + 1] = p[k] + l[k + 1]
        <4>1. (k + 1) - 1 = k
          BY <3>2
        <4>2. QED
          BY <3>2, <4>1 DEF Sums
      <3>7. p[n] \in Int /\ p[k] \in Int /\ p[k + 1] \in Int /\ l[k + 1] \in Int
        BY <1>2, <3>2
      <3>8. f[k] = p[n] - p[k]
        BY <3>4, <3>5, <3>6, <3>7
      <3>9. QED
        BY <2>1, <3>8 DEF k
    <2>4. QED
      BY <2>2, <2>3
  <1>4. Wrong = {}
    <2>1. Wrong \in SUBSET Nat
      OBVIOUS
    <2> HIDE DEF Wrong
    <2>2. QED
      BY <1>3, <2>1, LeastElement
  <1>5. n - r \in Nat /\ n - r <= n - r /\ n - (n - r) = r
    OBVIOUS
  <1>6. n - r \notin Wrong
    BY <1>4
  <1>7. QED
    BY <1>5, <1>6

(* The latencies, and the statistics of the window: the sum is what was    *)
(* added to the sum of all latencies since the last report.                *)
Latencies == [k \in 1 .. Len(measured) |-> measured[k].latency]

Windowed ==
  /\ reported \in 0 .. Len(measured)
  /\ counter = Len(measured) - reported
  /\ \E p : Sums(p, Latencies, Len(measured)) /\ latency_sum = p[Len(measured)] - p[reported]

LEMMA LatencyTypes ==
  ASSUME TypeOK
  PROVE  Len(measured) \in Nat /\ Latencies \in [1 .. Len(measured) -> Int]
  <1>1. measured \in Seq([n : Nat, latency : Int])
    BY DEF TypeOK
  <1>2. Len(measured) \in Nat /\ \A k \in 1 .. Len(measured) : measured[k] \in [n : Nat, latency : Int]
    BY <1>1, LenProperties
  <1>3. QED
    BY <1>2 DEF Latencies

LEMMA InitWindowed == Init => Windowed
  <1> SUFFICES ASSUME Init PROVE Windowed
    OBVIOUS
  <1> DEFINE p == [k \in 0 .. 0 |-> 0]
  <1>1. measured = <<>> /\ Len(measured) = 0 /\ reported = 0 /\ counter = 0 /\ latency_sum = 0
    BY DEF Init
  <1>2. Sums(p, Latencies, 0) /\ latency_sum = p[0] - p[0]
    BY <1>1 DEF Sums
  <1> HIDE DEF p
  <1>3. QED
    BY <1>1, <1>2 DEF Windowed

(* Measuring a message adds its latency to both sums.                      *)
LEMMA CountMessageWindowed ==
  ASSUME IInv, IInv', Windowed, CountMessage
  PROVE  Windowed'
  <1> DEFINE x == [n |-> msg.n, latency |-> Latency]
             n == Len(measured)
  <1>1. measured' = Append(measured, x) /\ reported' = reported /\ counter' = counter + 1
        /\ latency_sum' = latency_sum + Latency
    BY DEF CountMessage
  <1>2. Latency \in Int
    BY Types DEF IInv, CountMessage, Latency
  <1>3. measured \in Seq([n : Nat, latency : Int]) /\ x \in [n : Nat, latency : Int] /\ x.latency = Latency
    BY <1>2, Types DEF IInv, TypeOK
  <1>4. n \in Nat /\ Latencies \in [1 .. n -> Int]
    BY LatencyTypes DEF IInv
  <1> HIDE DEF x
  <1>5. Len(measured') = n + 1 /\ measured'[n + 1] = x /\ \A k \in 1 .. n : measured'[k] = measured[k]
    BY <1>1, <1>3, AppendProperties
  <1> HIDE DEF n
  <1>6. /\ \A k \in 1 .. n : Latencies'[k] = Latencies[k]
        /\ Latencies'[n + 1] = Latency
    BY <1>3, <1>4, <1>5 DEF Latencies, n
  <1>7. PICK p : Sums(p, Latencies, n) /\ latency_sum = p[n] - p[reported]
    BY DEF Windowed, n
  <1> DEFINE q == [k \in 0 .. n + 1 |-> IF k = n + 1 THEN p[n] + Latency ELSE p[k]]
  <1>8. p[n] \in Int /\ \A k \in 0 .. n : p[k] \in Int
    BY <1>4, <1>7 DEF Sums
  <1>9. reported \in 0 .. n /\ counter = n - reported
    BY DEF Windowed, n
  <1>10. /\ q \in [0 .. n + 1 -> Int] /\ q[n + 1] = p[n] + Latency
         /\ \A k \in 0 .. n : q[k] = p[k]
    BY <1>2, <1>4, <1>8
  <1> HIDE DEF q
  <1>11. Sums(q, Latencies', n + 1)
    <2>1. q[0] = 0
      BY <1>4, <1>7, <1>10 DEF Sums
    <2>2. ASSUME NEW k \in 1 .. n PROVE q[k] = q[k - 1] + Latencies'[k]
      <3>1. k \in 0 .. n /\ k - 1 \in 0 .. n
        BY <1>4
      <3>2. p[k] = p[k - 1] + Latencies[k]
        BY <1>7 DEF Sums
      <3>3. QED
        BY <1>6, <1>10, <3>1, <3>2
    <2>3. q[n + 1] = q[(n + 1) - 1] + Latencies'[n + 1]
      BY <1>4, <1>6, <1>10
    <2>4. \A k \in 1 .. n + 1 : k \in 1 .. n \/ k = n + 1
      BY <1>4
    <2>5. QED
      BY <1>10, <2>1, <2>2, <2>3, <2>4 DEF Sums
  <1>12. latency_sum' = q[n + 1] - q[reported]
    BY <1>1, <1>2, <1>7, <1>8, <1>9, <1>10
  <1>13. reported' \in 0 .. n + 1 /\ counter' = (n + 1) - reported'
    BY <1>1, <1>4, <1>9
  <1>14. QED
    BY <1>1, <1>5, <1>11, <1>12, <1>13 DEF Windowed

LEMMA StepWindowed == IInv /\ IInv' /\ Windowed /\ [Next]_vars => Windowed'
  <1> SUFFICES ASSUME IInv, IInv', Windowed, [Next]_vars PROVE Windowed'
    OBVIOUS
  <1>1. CASE CountMessage
    BY <1>1, CountMessageWindowed
  <1>2. CASE UNCHANGED <<measured, reported, counter, latency_sum>>
    BY <1>2 DEF Windowed, Latencies
  <1>3. CASE UNCHANGED measured /\ Reset /\ reported' = Len(measured)
    <2>1. Len(measured) \in Nat /\ Latencies' = Latencies /\ Len(measured') = Len(measured)
      BY <1>3, LatencyTypes DEF IInv, Latencies
    <2>2. PICK p : Sums(p, Latencies, Len(measured))
      BY DEF Windowed
    <2>3. p[Len(measured)] \in Int
      BY <2>1, <2>2 DEF Sums
    <2>4. latency_sum' = p[Len(measured)] - p[reported'] /\ counter' = Len(measured) - reported'
      BY <1>3, <2>1, <2>3 DEF Reset
    <2>5. QED
      BY <1>3, <2>1, <2>2, <2>4 DEF Windowed
  <1>4. \/ CountMessage \/ UNCHANGED <<measured, reported, counter, latency_sum>>
        \/ UNCHANGED measured /\ Reset /\ reported' = Len(measured)
    BY DEF vars, producing, statistics, transport, Next, run_producer, run_consumer,
           ProducerConnects, Stamp, Publish, ProducerReturns, ConsumerConnects, subscribe_sync,
           BeginMeasuring, next_msg, Now, Report, ConsumerReturns, Main, Register, Transmit
  <1>5. QED
    BY <1>1, <1>2, <1>3, <1>4

LEMMA WindowedAverages == IInv /\ Windowed => AverageOfWindow
  <1> SUFFICES ASSUME IInv, Windowed PROVE AverageOfWindow
    OBVIOUS
  <1> DEFINE n == Len(measured)
             Since[k \in reported .. Len(measured)] ==
               IF k = Len(measured) THEN 0 ELSE measured[k + 1].latency + Since[k + 1]
  <1>1. n \in Nat /\ reported \in 0 .. n /\ Latencies \in [1 .. n -> Int]
    BY LatencyTypes DEF IInv, Windowed
  <1>2. PICK p : Sums(p, Latencies, n) /\ latency_sum = p[n] - p[reported]
    BY DEF Windowed
  <1>3. ASSUME NEW f
        PROVE  Remaining(f, Latencies, reported, n) <=>
                 f = [k \in reported .. Len(measured) |->
                        IF k = Len(measured) THEN 0 ELSE measured[k + 1].latency + f[k + 1]]
    <2>1. \A k \in reported .. n : k # n => Latencies[k + 1] = measured[k + 1].latency
      BY <1>1 DEF Latencies
    <2>2. QED
      BY <2>1 DEF Remaining
  <1>4. Remaining(Since, Latencies, reported, n)
    <2>1. PICK f : Remaining(f, Latencies, reported, n)
      BY <1>1, <1>2, RemainingExists
    <2>2. f = [k \in reported .. Len(measured) |->
                 IF k = Len(measured) THEN 0 ELSE measured[k + 1].latency + f[k + 1]]
      BY <1>3, <2>1
    <2>3. Since = [k \in reported .. Len(measured) |->
                     IF k = Len(measured) THEN 0 ELSE measured[k + 1].latency + Since[k + 1]]
      BY <2>2
    <2> HIDE DEF Since
    <2>4. QED
      BY <1>3, <2>3
  <1>5. latency_sum = Since[reported]
    <2> HIDE DEF Since
    <2>1. QED
      BY <1>1, <1>2, <1>4, RemainingSum
  <1>6. counter = Len(measured) - reported
    BY DEF Windowed
  <1> HIDE DEF n, Since
  <1>7. QED
    BY <1>5, <1>6 DEF AverageOfWindow, Since

(* counter and latency_sum always belong to the same messages, those that  *)
(* were measured since the last report, however many they are: what a      *)
(* report prints is their average.                                         *)
THEOREM AverageAlwaysOfWindow == Spec => []AverageOfWindow
  <1>1. Spec => []Windowed
    BY InitWindowed, StepWindowed, AlwaysIInv, PTL DEF Spec
  <1>2. QED
    BY <1>1, WindowedAverages, AlwaysIInv, PTL

-----------------------------------------------------------------------------
(* What the abstract consumer received when q was measured.                *)
NumbersOf(q) == [k \in DOMAIN q |-> q[k].n]
Numbers == NumbersOf(measured)

LEMMA NumbersType ==
  ASSUME NEW q \in Seq([n : Nat, latency : Int])
  PROVE  /\ NumbersOf(q) \in Seq(Nat) /\ Len(NumbersOf(q)) = Len(q)
         /\ \A k \in 1 .. Len(q) : NumbersOf(q)[k] = q[k].n
  <1>1. Len(q) \in Nat /\ DOMAIN q = 1 .. Len(q)
    BY LenProperties
  <1>2. \A k \in 1 .. Len(q) : q[k].n \in Nat
    <2>1. \A k \in 1 .. Len(q) : q[k] \in [n : Nat, latency : Int]
      BY ElementOfSeq
    <2>2. QED
      BY <2>1
  <1>3. NumbersOf(q) \in [1 .. Len(q) -> Nat]
    BY <1>1, <1>2 DEF NumbersOf
  <1>4. NumbersOf(q) \in Seq(Nat)
    BY <1>1, <1>3, SeqDef
  <1>5. Len(NumbersOf(q)) = Len(q)
    BY <1>1, <1>3
  <1>6. QED
    BY <1>1, <1>4, <1>5 DEF NumbersOf

LEMMA NumbersLast == ASSUME TypeOK PROVE T!Last = LastMeasured
  <1>1. T!Last = IF Numbers = <<>> THEN 0 ELSE Numbers[Len(Numbers)]
    BY DEF T!Last, Numbers, NumbersOf
  <1>2. measured \in Seq([n : Nat, latency : Int])
    BY DEF TypeOK
  <1>3. /\ Numbers \in Seq(Nat) /\ Len(Numbers) = Len(measured)
        /\ \A k \in 1 .. Len(measured) : Numbers[k] = measured[k].n
    BY <1>2, NumbersType DEF Numbers
  <1>4. CASE measured = <<>>
    BY <1>1, <1>3, <1>4, EmptySeq DEF LastMeasured
  <1>5. CASE measured # <<>>
    <2>1. Len(measured) \in Nat \ {0}
      BY <1>2, <1>5, EmptySeq
    <2>2. Numbers # <<>> /\ Len(measured) \in 1 .. Len(measured)
      BY <1>3, <2>1, EmptySeq
    <2>3. QED
      BY <1>1, <1>3, <1>5, <2>2 DEF LastMeasured
  <1>6. QED
    BY <1>4, <1>5

(* A measurement is the abstract Receive.                                  *)
LEMMA CountReceives == ASSUME IInv, IInv', CountMessage PROVE T!Receive
  <1>1. TypeOK /\ TypeOK'
    BY DEF IInv
  <1>2. measured \in Seq([n : Nat, latency : Int]) /\ msg.n \in Nat
    BY <1>1, Types DEF TypeOK
  <1>3. /\ Latency \in Int
        /\ measured' = Append(measured, [n |-> msg.n, latency |-> Latency])
    BY <1>1, Types DEF CountMessage, Latency
  <1>4. /\ Len(measured') = Len(measured) + 1 /\ Len(measured) \in Nat
        /\ \A k \in 1 .. Len(measured) : measured'[k] = measured[k]
        /\ measured'[Len(measured) + 1].n = msg.n
    BY <1>2, <1>3, AppendProperties, LenProperties
  <1>5. /\ Numbers \in Seq(Nat) /\ Len(Numbers) = Len(measured)
        /\ \A k \in 1 .. Len(measured) : Numbers[k] = measured[k].n
    BY <1>2, NumbersType DEF Numbers
  <1>6. /\ Numbers' \in Seq(Nat) /\ Len(Numbers') = Len(measured')
        /\ \A k \in 1 .. Len(measured') : Numbers'[k] = measured'[k].n
    <2>1. measured' \in Seq([n : Nat, latency : Int])
      BY <1>1 DEF TypeOK
    <2>2. QED
      BY <2>1, NumbersType DEF Numbers
  <1>7. Numbers' = Append(Numbers, msg.n)
    <2> DEFINE a == Append(Numbers, msg.n)
    <2>1. /\ a \in Seq(Nat) /\ Len(a) = Len(Numbers) + 1
          /\ \A k \in 1 .. Len(Numbers) : a[k] = Numbers[k]
          /\ a[Len(Numbers) + 1] = msg.n
      BY <1>2, <1>5, AppendProperties
    <2> HIDE DEF a
    <2>2. \A k \in 1 .. Len(measured') : k \in 1 .. Len(measured) \/ k = Len(measured) + 1
      BY <1>4
    <2>3. ASSUME NEW k \in 1 .. Len(measured) PROVE Numbers'[k] = a[k]
      <3>1. k \in 1 .. Len(measured')
        BY <1>4
      <3>2. Numbers'[k] = measured[k].n
        BY <1>4, <1>6, <3>1
      <3>3. a[k] = measured[k].n
        BY <1>5, <2>1
      <3>4. QED
        BY <3>2, <3>3
    <2>4. Numbers'[Len(measured) + 1] = a[Len(measured) + 1]
      BY <1>4, <1>5, <1>6, <2>1
    <2>5. \A k \in 1 .. Len(Numbers') : Numbers'[k] = a[k]
      BY <1>6, <2>2, <2>3, <2>4
    <2>6. Numbers' = a
      BY <1>4, <1>5, <1>6, <2>1, <2>5, SeqEqual
    <2>7. QED
      BY <2>6 DEF a
  <1>8. msg.n \in T!Last + 1 .. i
    BY <1>1, <1>2, Types, LastType, NumbersLast DEF IInv, Lined, CountMessage
  <1>9. i' = i
    BY DEF CountMessage, producing
  <1>10. QED
    BY <1>7, <1>8, <1>9 DEF T!Receive, Numbers, NumbersOf

LEMMA StepTopic ==
  IInv /\ IInv' /\ [Next]_vars => [T!Publish \/ T!Receive]_<<i, Numbers>>
  <1> SUFFICES ASSUME IInv, IInv', [Next]_vars
               PROVE  T!Publish \/ T!Receive \/ UNCHANGED <<i, Numbers>>
    OBVIOUS
  <1>1. CASE CountMessage
    BY <1>1, CountReceives
  <1>2. CASE Publish
    <2>1. i \in Nat /\ i < Rounds
      BY <1>2, Types, RoundsAssumption DEF IInv, Lined, Publish
    <2>2. Numbers' = Numbers
      BY <1>2 DEF Publish, statistics, Numbers, NumbersOf
    <2>3. i' = i + 1 \/ i' = i
      BY <1>2 DEF Publish
    <2>4. QED
      BY <2>1, <2>2, <2>3, RoundsAssumption DEF T!Publish, Numbers, NumbersOf
  <1>3. CASE i' = i /\ measured' = measured
    BY <1>3 DEF Numbers, NumbersOf
  <1>4. CountMessage \/ Publish \/ (i' = i /\ measured' = measured)
    BY DEF vars, producing, statistics, transport, Next, run_producer, run_consumer,
           ProducerConnects, Stamp, ProducerReturns, ConsumerConnects, subscribe_sync,
           BeginMeasuring, next_msg, Now, Report, ConsumerReturns, Main, Register, Transmit
  <1>5. QED
    BY <1>1, <1>2, <1>3, <1>4

(* The benchmark implements Topic: whatever the transport loses and the    *)
(* full queue drops, no message is measured twice, out of order or before  *)
(* it was published.                                                       *)
THEOREM TopicImplemented == Spec => ImplementsTopic
  <1>1. Init => T!Init
    <2>1. ASSUME Init PROVE i = 0 /\ measured = <<>>
      BY <2>1 DEF Init
    <2>2. ASSUME Init PROVE [k \in DOMAIN measured |-> measured[k].n] = <<>>
      <3>1. DOMAIN measured = {}
        BY <2>1, <2>2
      <3>2. QED
        BY <3>1
    <2>3. QED
      BY <2>1, <2>2 DEF T!Init
  <1>2. IInv /\ IInv' /\ [Next]_vars
          => [T!Publish \/ T!Receive]_<<i, [k \in DOMAIN measured |-> measured[k].n]>>
    BY StepTopic DEF Numbers, NumbersOf
  <1>3. QED
    BY <1>1, <1>2, AlwaysIInv, PTL DEF Spec, ImplementsTopic, T!Spec
=============================================================================
