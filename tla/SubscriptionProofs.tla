-------------------------- MODULE SubscriptionProofs --------------------------
(***************************************************************************)
(* Proofs about Subscription, for any threads and any number of messages,  *)
(* in builds in which a call tests its own status, or with one thread      *)
(* (OwnStatus).  Without that not even the types hold: next_msg may return *)
(* a null message.                                                         *)
(*                                                                         *)
(* Besides the types the invariant has four parts: what a thread inside a  *)
(* call can rely on (Local), where each message is (Placed), what the      *)
(* counters of the C subscription have to do with each other (Counted),    *)
(* and what the callers of auto_unsunscribe and wait_for_drain_completion  *)
(* were promised (Promises).                                               *)
(***************************************************************************)
EXTENDS Subscription, SequenceTheorems, FiniteSetTheorems, TLAPS

OwnStatus == Reload = FALSE \/ \A t, u \in Threads : t = u

Subs == SubscriptionOf(Msgs)

(* What a thread can rely on inside a call: its arguments, its own status  *)
(* and the message it took.                                                *)
Local ==
  \A t \in Threads :
    /\ op[t] = "auto_unsunscribe" => arg[t] \in Msgs
    /\ step[t] = "stored" => Tested(t) = ret[t]
    /\ step[t] = "failing" => ret[t] # "ok"
    /\ Holds(t) => out[t] \in Msgs

Distinct(l) == \A i, j \in 1 .. Len(l) : l[i] = l[j] => i = j

(* The message that t holds; 0: none.                                      *)
Hand == [t \in Threads |-> IF Holds(t) THEN out[t] ELSE 0]
Hands == [Threads -> 0 .. MaxMsgs]
InHands(h) == Range(h) \ {0}

(* The messages 1 .. n are divided between the queue q, what was returned  *)
(* r, what was dropped d and the hands h of the threads.                   *)
Placed(q, r, d, h, n) ==
  /\ Distinct(q) /\ Distinct(r)
  /\ \A t, u \in Threads : h[t] # 0 /\ h[t] = h[u] => t = u
  /\ Range(q) \union Range(r) \union d \union InHands(h) = 1 .. n
  /\ Range(q) \intersect (Range(r) \union d \union InHands(h)) = {}
  /\ Range(r) \intersect (d \union InHands(h)) = {}
  /\ d \intersect InHands(h) = {}

(* The subscription c after n arrivals.                                    *)
Counted(c, n) ==
  /\ c.delivered + Len(c.pending) <= n
  /\ c.end = "drained" => c.pending = <<>>
  /\ Open(c) /\ c.max # 0 => c.delivered < c.max

(* The C call of t, the last one or the one t is in, succeeded.            *)
Succeeded(t) ==
  \/ step[t] = "idle" /\ answer[t] = Done
  \/ step[t] \in {"returned", "stored"} /\ ret[t] = "ok"

Promises ==
  \A t \in Threads :
    /\ Controllers = {t} /\ op[t] = "auto_unsunscribe" /\ Succeeded(t) => sub.max = arg[t]
    /\ op[t] = "wait_for_drain_completion" /\ Succeeded(t) => ~Open(sub)

IInv ==
  /\ TypeOK /\ Local /\ Counted(sub, arrived) /\ Promises
  /\ Placed(sub.pending, returned, sub.dropped, Hand, arrived)

-----------------------------------------------------------------------------

(* Nothing but the fields named differs between c and d.                   *)
Keeps(c, d, fields) ==
  /\ d \in Subs
  /\ "pending" \in fields \/ d.pending = c.pending
  /\ "dropped" \in fields \/ d.dropped = c.dropped
  /\ "delivered" \in fields \/ d.delivered = c.delivered
  /\ "max" \in fields \/ d.max = c.max
  /\ "drain" \in fields \/ d.drain = c.drain
  /\ "end" \in fields \/ d.end = c.end

LEMMA SubTypes ==
  ASSUME NEW c \in Subs
  PROVE  /\ c.pending \in Seq(Msgs) /\ c.dropped \in SUBSET Msgs /\ c.delivered \in Nat
         /\ c.limit \in Nat /\ c.max \in Nat /\ c.drain \in {"no", "yes", "timed"} /\ c.end \in Ends
  BY DEF Subs, SubscriptionOf

LEMMA WithPending ==
  ASSUME NEW c \in Subs, NEW x \in Seq(Msgs)
  PROVE  Keeps(c, [c EXCEPT !.pending = x], {"pending"}) /\ [c EXCEPT !.pending = x].pending = x
  BY DEF Keeps, Subs, SubscriptionOf

LEMMA WithDropped ==
  ASSUME NEW c \in Subs, NEW x \in SUBSET Msgs
  PROVE  Keeps(c, [c EXCEPT !.dropped = x], {"dropped"}) /\ [c EXCEPT !.dropped = x].dropped = x
  BY DEF Keeps, Subs, SubscriptionOf

LEMMA WithDelivered ==
  ASSUME NEW c \in Subs, NEW x \in Nat
  PROVE  Keeps(c, [c EXCEPT !.delivered = x], {"delivered"}) /\ [c EXCEPT !.delivered = x].delivered = x
  BY DEF Keeps, Subs, SubscriptionOf

LEMMA WithMax ==
  ASSUME NEW c \in Subs, NEW x \in Nat
  PROVE  Keeps(c, [c EXCEPT !.max = x], {"max"}) /\ [c EXCEPT !.max = x].max = x
  BY DEF Keeps, Subs, SubscriptionOf

LEMMA WithLimit ==
  ASSUME NEW c \in Subs, NEW x \in Nat
  PROVE  Keeps(c, [c EXCEPT !.limit = x], {})
  BY DEF Keeps, Subs, SubscriptionOf

LEMMA WithDrain ==
  ASSUME NEW c \in Subs, NEW x \in {"no", "yes", "timed"}
  PROVE  Keeps(c, [c EXCEPT !.drain = x], {"drain"}) /\ [c EXCEPT !.drain = x].drain = x
  BY DEF Keeps, Subs, SubscriptionOf

LEMMA WithEnd ==
  ASSUME NEW c \in Subs, NEW x \in Ends
  PROVE  Keeps(c, [c EXCEPT !.end = x], {"end"}) /\ [c EXCEPT !.end = x].end = x
  BY DEF Keeps, Subs, SubscriptionOf

(* What the C library's operations leave behind.                           *)
LEMMA ArriveSub ==
  ASSUME NEW c \in Subs, NEW m \in Msgs
  PROVE  \/ /\ Keeps(c, Arrive(c, m), {"dropped"})
            /\ Arrive(c, m).dropped = c.dropped \union {m}
         \/ /\ Keeps(c, Arrive(c, m), {"pending"})
            /\ Arrive(c, m).pending = Append(c.pending, m)
  <1>1. CASE Full(c)
    <2>1. c.dropped \union {m} \in SUBSET Msgs
      BY SubTypes
    <2>2. Arrive(c, m) = [c EXCEPT !.dropped = c.dropped \union {m}]
      BY <1>1 DEF Arrive
    <2>3. QED
      BY <2>1, <2>2, WithDropped
  <1>2. CASE ~Full(c)
    <2>1. Append(c.pending, m) \in Seq(Msgs)
      BY SubTypes
    <2>2. Arrive(c, m) = [c EXCEPT !.pending = Append(c.pending, m)]
      BY <1>2 DEF Arrive
    <2>3. QED
      BY <2>1, <2>2, WithPending
  <1>3. QED
    BY <1>1, <1>2

LEMMA TakeSub ==
  ASSUME NEW c \in Subs, c.pending # <<>>
  PROVE  /\ Keeps(c, Take(c), {"pending", "delivered", "end"})
         /\ Take(c).pending = Tail(c.pending)
         /\ Take(c).delivered = c.delivered + 1
         /\ Take(c).end = IF c.max # 0 /\ c.delivered + 1 >= c.max THEN "cut" ELSE c.end
  <1> DEFINE end == IF c.max # 0 /\ c.delivered + 1 >= c.max THEN "cut" ELSE c.end
             c1 == [c EXCEPT !.pending = Tail(c.pending)]
             c2 == [c1 EXCEPT !.delivered = c.delivered + 1]
             c3 == [c2 EXCEPT !.end = end]
  <1>1. Keeps(c, c1, {"pending"}) /\ c1.pending = Tail(c.pending)
    <2>1. Tail(c.pending) \in Seq(Msgs)
      BY SubTypes, HeadTailProperties
    <2>2. QED
      BY <2>1, WithPending
  <1>2. Keeps(c1, c2, {"delivered"}) /\ c2.delivered = c.delivered + 1
    <2>1. c.delivered + 1 \in Nat
      BY SubTypes
    <2>2. c1 \in Subs
      BY <1>1 DEF Keeps
    <2> HIDE DEF c1
    <2>3. QED
      BY <2>1, <2>2, WithDelivered
  <1>3. Keeps(c2, c3, {"end"}) /\ c3.end = end
    <2>1. end \in Ends
      BY SubTypes DEF Ends
    <2>2. c2 \in Subs
      BY <1>2 DEF Keeps
    <2> HIDE DEF c2, end
    <2>3. QED
      BY <2>1, <2>2, WithEnd
  <1>4. Take(c) = c3
    BY DEF Take
  <1> HIDE DEF end, c1, c2, c3
  <1>5. QED
    BY <1>1, <1>2, <1>3, <1>4 DEF Keeps, end

LEMMA AutoUnsubscribeSub ==
  ASSUME NEW c \in Subs, NEW max \in Nat
  PROVE  /\ Keeps(c, AutoUnsubscribe(c, max), {"max", "end"})
         /\ AutoUnsubscribe(c, max).max = max
         /\ AutoUnsubscribe(c, max).end = IF max <= c.delivered THEN "cut" ELSE c.end
  <1> DEFINE end == IF max <= c.delivered THEN "cut" ELSE c.end
             c1 == [c EXCEPT !.max = max]
             c2 == [c1 EXCEPT !.end = end]
  <1>1. Keeps(c, c1, {"max"}) /\ c1.max = max
    BY WithMax
  <1>2. Keeps(c1, c2, {"end"}) /\ c2.end = end
    <2>1. end \in Ends
      BY SubTypes DEF Ends
    <2>2. c1 \in Subs
      BY <1>1 DEF Keeps
    <2> HIDE DEF c1, end
    <2>3. QED
      BY <2>1, <2>2, WithEnd
  <1>3. AutoUnsubscribe(c, max) = c2
    BY DEF AutoUnsubscribe
  <1> HIDE DEF end, c1, c2
  <1>4. QED
    BY <1>1, <1>2, <1>3 DEF Keeps, end

LEMMA OtherSubs ==
  ASSUME NEW c \in Subs
  PROVE  /\ \A n \in Nat : Keeps(c, SetPendingLimit(c, n), {})
         /\ \A how \in {"yes", "timed"} : /\ Keeps(c, Drain(c, how), {"drain"})
                                         /\ Drain(c, how).drain # "no"
         /\ Keeps(c, Unsubscribe(c), {"end"}) /\ Unsubscribe(c).end = "cut"
         /\ Keeps(c, Drained(c), {"end"}) /\ Drained(c).end = "drained"
         /\ Keeps(c, Expired(c), {"end"}) /\ Expired(c).end = "cut"
  <1>1. \A n \in Nat : Keeps(c, SetPendingLimit(c, n), {})
    BY WithLimit DEF SetPendingLimit
  <1>2. ASSUME NEW how \in {"yes", "timed"}
        PROVE  Keeps(c, Drain(c, how), {"drain"}) /\ Drain(c, how).drain # "no"
    <2>1. CASE c.drain = "no"
      BY <2>1, WithDrain DEF Drain
    <2>2. CASE c.drain # "no"
      BY <2>2 DEF Drain, Keeps
    <2>3. QED
      BY <2>1, <2>2
  <1>3. \A x \in {"cut", "drained"} :
          Keeps(c, [c EXCEPT !.end = x], {"end"}) /\ [c EXCEPT !.end = x].end = x
    BY WithEnd DEF Ends
  <1>4. QED
    BY <1>1, <1>2, <1>3 DEF Unsubscribe, Drained, Expired

LEMMA SubscribedSub ==
  /\ Subscribed \in Subs /\ Subscribed.pending = <<>> /\ Subscribed.dropped = {}
  /\ Subscribed.delivered = 0 /\ Subscribed.max = 0 /\ Open(Subscribed)
  BY DEF Subs, SubscriptionOf, Subscribed, Open, Ends

-----------------------------------------------------------------------------
LEMMA AppendRange ==
  ASSUME NEW q \in Seq(Msgs), NEW x \in Msgs, Distinct(q), x \notin Range(q)
  PROVE  Distinct(Append(q, x)) /\ Range(Append(q, x)) = Range(q) \union {x}
  <1> DEFINE w == Append(q, x)
  <1>1. /\ Len(q) \in Nat /\ Len(w) = Len(q) + 1 /\ w \in Seq(Msgs)
        /\ \A i \in 1 .. Len(q) : w[i] = q[i]
        /\ w[Len(q) + 1] = x
    BY AppendProperties, LenProperties
  <1> HIDE DEF w
  <1>2. /\ Range(q) = {q[i] : i \in 1 .. Len(q)}
        /\ Range(w) = {w[i] : i \in 1 .. Len(w)}
    BY <1>1, RangeEquality
  <1>3. Range(w) = Range(q) \union {x}
    BY <1>1, <1>2
  <1>4. Distinct(w)
    BY <1>1, <1>2 DEF Distinct
  <1>5. QED
    BY <1>3, <1>4 DEF w

LEMMA TailRange ==
  ASSUME NEW q \in Seq(Msgs), q # <<>>, Distinct(q)
  PROVE  /\ Distinct(Tail(q)) /\ Tail(q) \in Seq(Msgs) /\ Head(q) \in Msgs
         /\ Head(q) \notin Range(Tail(q))
         /\ Range(q) = Range(Tail(q)) \union {Head(q)}
         /\ Len(Tail(q)) = Len(q) - 1 /\ Len(q) \in Nat \ {0}
  <1> DEFINE w == Tail(q)
             x == Head(q)
  <1>1. /\ Len(q) \in Nat \ {0} /\ Len(w) = Len(q) - 1 /\ w \in Seq(Msgs)
        /\ \A k \in 1 .. Len(w) : w[k] = q[k + 1]
        /\ x = q[1] /\ x \in Msgs
    BY HeadTailProperties, EmptySeq, LenProperties
  <1> HIDE DEF w, x
  <1>2. /\ Range(q) = {q[i] : i \in 1 .. Len(q)}
        /\ Range(w) = {w[i] : i \in 1 .. Len(w)}
    BY <1>1, RangeEquality
  <1>3. \A k \in 1 .. Len(w) : k + 1 \in 1 .. Len(q) /\ w[k] = q[k + 1] /\ k + 1 # 1
    BY <1>1
  <1>4. Distinct(w) /\ x \notin Range(w)
    BY <1>1, <1>2, <1>3 DEF Distinct
  <1>5. ASSUME NEW i \in 1 .. Len(q) PROVE q[i] \in Range(w) \union {x}
    <2>1. CASE i = 1
      BY <1>1, <2>1
    <2>2. CASE i # 1
      <3>1. i - 1 \in 1 .. Len(w) /\ w[i - 1] = q[i]
        BY <1>1, <2>2
      <3>2. QED
        BY <1>2, <3>1
    <2>3. QED
      BY <2>1, <2>2
  <1>6. Range(q) = Range(w) \union {x}
    BY <1>1, <1>2, <1>3, <1>5
  <1>7. QED
    BY <1>1, <1>4, <1>6 DEF w, x

(* A thread whose hand is empty gets x; one that holds x lets go of it.    *)
LEMMA HandTakes ==
  ASSUME NEW h \in Hands, NEW t \in Threads, h[t] = 0, NEW x \in Msgs,
         NEW g, g = [h EXCEPT ![t] = x]
  PROVE  InHands(g) = InHands(h) \union {x}
  <1>1. x # 0
    BY MsgsAssumption DEF Msgs
  <1>2. QED
    BY <1>1 DEF Hands, InHands, Range

LEMMA HandGives ==
  ASSUME NEW h \in Hands, NEW t \in Threads, h[t] # 0,
         \A u, v \in Threads : h[u] # 0 /\ h[u] = h[v] => u = v,
         NEW g, g = [h EXCEPT ![t] = 0]
  PROVE  InHands(g) = InHands(h) \ {h[t]} /\ h[t] \in InHands(h)
  BY DEF Hands, InHands, Range

LEMMA PlacedQueued ==
  ASSUME NEW q \in Seq(Msgs), NEW r, NEW d, NEW h, NEW n \in Nat, n + 1 \in Msgs,
         Placed(q, r, d, h, n)
  PROVE  Placed(Append(q, n + 1), r, d, h, n + 1)
  <1>1. 1 .. n + 1 = 1 .. n \union {n + 1} /\ n + 1 \notin 1 .. n
    OBVIOUS
  <1>2. n + 1 \notin Range(q)
    BY <1>1 DEF Placed
  <1>3. Distinct(Append(q, n + 1)) /\ Range(Append(q, n + 1)) = Range(q) \union {n + 1}
    BY <1>2, AppendRange DEF Placed
  <1>4. QED
    BY <1>1, <1>3 DEF Placed

LEMMA PlacedDropped ==
  ASSUME NEW q, NEW r, NEW d, NEW h, NEW n \in Nat, Placed(q, r, d, h, n)
  PROVE  Placed(q, r, d \union {n + 1}, h, n + 1)
  <1>1. 1 .. n + 1 = 1 .. n \union {n + 1} /\ n + 1 \notin 1 .. n
    OBVIOUS
  <1>2. QED
    BY <1>1 DEF Placed

LEMMA PlacedTaken ==
  ASSUME NEW q \in Seq(Msgs), q # <<>>, NEW r, NEW d, NEW n, NEW t \in Threads,
         NEW h \in Hands, h[t] = 0, Placed(q, r, d, h, n)
  PROVE  Placed(Tail(q), r, d, [h EXCEPT ![t] = Head(q)], n)
  <1> DEFINE w == Tail(q)
             x == Head(q)
             g == [h EXCEPT ![t] = x]
  <1>1. /\ Distinct(w) /\ x \in Msgs /\ x \notin Range(w)
        /\ Range(q) = Range(w) \union {x}
    BY TailRange DEF Placed
  <1> HIDE DEF w, x
  <1>2. g = [h EXCEPT ![t] = x] /\ \A u \in Threads : g[u] = IF u = t THEN x ELSE h[u]
    BY DEF Hands
  <1> HIDE DEF g
  <1>3. InHands(g) = InHands(h) \union {x}
    BY <1>1, <1>2, HandTakes
  <1>4. \A u \in Threads : h[u] # x
    <2>1. x \notin InHands(h) /\ x # 0
      BY <1>1, MsgsAssumption DEF Placed, Msgs
    <2>2. QED
      BY <2>1 DEF Hands, InHands, Range
  <1>5. \A u, v \in Threads : g[u] # 0 /\ g[u] = g[v] => u = v
    <2>1. \A u, v \in Threads : h[u] # 0 /\ h[u] = h[v] => u = v
      BY DEF Placed
    <2>2. QED
      BY <1>2, <1>4, <2>1
  <1>6. Placed(w, r, d, g, n)
    BY <1>1, <1>3, <1>5 DEF Placed
  <1>7. QED
    BY <1>6 DEF w, x, g

LEMMA PlacedReturned ==
  ASSUME NEW q, NEW r \in Seq(Msgs), NEW d, NEW n, NEW t \in Threads,
         NEW h \in Hands, h[t] \in Msgs, Placed(q, r, d, h, n)
  PROVE  Placed(q, Append(r, h[t]), d, [h EXCEPT ![t] = 0], n)
  <1> DEFINE g == [h EXCEPT ![t] = 0]
  <1>1. h[t] # 0
    BY MsgsAssumption DEF Msgs
  <1>2. InHands(g) = InHands(h) \ {h[t]} /\ h[t] \in InHands(h)
    BY <1>1, HandGives DEF Placed
  <1>3. \A u, v \in Threads : g[u] # 0 /\ g[u] = g[v] => u = v
    BY DEF Placed, Hands
  <1> HIDE DEF g
  <1>4. /\ Distinct(Append(r, h[t]))
        /\ Range(Append(r, h[t])) = Range(r) \union {h[t]}
    BY <1>2, AppendRange DEF Placed
  <1>5. QED
    BY <1>2, <1>3, <1>4 DEF Placed, g

-----------------------------------------------------------------------------
LEMMA AnswerTypes ==
  /\ Done \in Answers /\ Nothing \in Answers /\ Nothing # Done
  /\ \A n \in Nat : Message(n) \in Answers /\ Count(n) \in Answers
  /\ \A n : Message(n) # Done /\ Count(n) # Done
  /\ \A status \in Status : Error(status) \in Answers
  /\ \A status : Error(status) # Done
  BY DEF Answers, Done, Nothing, Message, Count, Error

(* t is in the C library; it comes out of it.                              *)
Library(t) ==
  \/ natsSubscription_NextMsg(t)
  \/ /\ t \in Controllers
     /\ \/ natsSubscription_AutoUnsubscribe(t) \/ natsSubscription_SetPendingLimits(t)
        \/ natsSubscription_Drain(t) \/ natsSubscription_WaitForDrainCompletion(t)
        \/ natsSubscription_GetDelivered(t)

(* What a C call does: fail and change nothing; hand out a message; set a  *)
(* maximum; change what no other part of the invariant is about, or read a *)
(* counter; wait for the end.                                              *)
Outcome(t, status, value) ==
  \/ status # "ok" /\ sub' = sub /\ value = out[t]
  \/ /\ op[t] = "next_msg" /\ status = "ok" /\ Open(sub) /\ sub.pending # <<>>
     /\ sub' = Take(sub) /\ value = Head(sub.pending)
  \/ /\ op[t] = "auto_unsunscribe" /\ t \in Controllers /\ status = "ok" /\ Open(sub)
     /\ sub' = AutoUnsubscribe(sub, arg[t]) /\ value = out[t]
  \/ /\ op[t] \notin {"next_msg", "auto_unsunscribe", "wait_for_drain_completion"}
     /\ status = "ok" /\ Open(sub) /\ Keeps(sub, sub', {"drain"})
     /\ value \in {out[t], sub.delivered}
  \/ /\ op[t] = "wait_for_drain_completion" /\ status = "ok" /\ ~Open(sub)
     /\ sub' = sub /\ value = out[t]

LEMMA LibraryStep ==
  ASSUME TypeOK, NEW t \in Threads, Library(t)
  PROVE  \E status, value :
           /\ status \in Status
           /\ step[t] = "called"
           /\ step' = [step EXCEPT ![t] = "returned"]
           /\ ret' = [ret EXCEPT ![t] = status]
           /\ out' = [out EXCEPT ![t] = value]
           /\ Outcome(t, status, value)
           /\ UNCHANGED <<s, op, arg, answer, returned, arrived>>
  <1> DEFINE Comes(status, value) ==
               /\ step[t] = "called"
               /\ step' = [step EXCEPT ![t] = "returned"]
               /\ ret' = [ret EXCEPT ![t] = status]
               /\ out' = [out EXCEPT ![t] = value]
               /\ Outcome(t, status, value)
               /\ UNCHANGED <<s, op, arg, answer, returned, arrived>>
             Goal == \E status, value : status \in Status /\ Comes(status, value)
  <1>0. sub \in Subs
    BY DEF TypeOK, Subs
  <1>1. ASSUME NEW f, NEW status \in Status, NEW after, NEW value,
               Return(t, f, status, after, value),
               op[t] = f /\ sub' = after => Outcome(t, status, value)
        PROVE  Goal
    <2>1. Comes(status, value)
      BY <1>1 DEF Return, results
    <2> HIDE DEF Comes
    <2>2. QED
      BY <2>1
  <1> SUFFICES Goal
    OBVIOUS
  <1> HIDE DEF Goal
  <1>2. ASSUME NEW f, Refuse(t, f) PROVE Goal
    <2>1. "error" \in Status /\ Return(t, f, "error", sub, out[t])
      BY <1>2 DEF Refuse, Status
    <2>2. sub' = sub => Outcome(t, "error", out[t])
      BY DEF Outcome
    <2>3. QED
      BY <2>1, <2>2, <1>1
  <1>3. CASE natsSubscription_NextMsg(t)
    <2>1. ASSUME Return(t, "next_msg", "timeout", sub, out[t]) PROVE Goal
      <3>1. "timeout" \in Status /\ (sub' = sub => Outcome(t, "timeout", out[t]))
        BY DEF Outcome, Status
      <3>2. QED
        BY <2>1, <3>1, <1>1
    <2>2. ASSUME Open(sub), sub.pending # <<>>,
                 Return(t, "next_msg", "ok", Take(sub), Head(sub.pending))
          PROVE  Goal
      <3>1. /\ "ok" \in Status
            /\ op[t] = "next_msg" /\ sub' = Take(sub) => Outcome(t, "ok", Head(sub.pending))
        BY <2>2 DEF Outcome, Status
      <3>2. QED
        BY <2>2, <3>1, <1>1
    <2>3. QED
      BY <1>2, <1>3, <2>1, <2>2 DEF natsSubscription_NextMsg
  <1>4. CASE t \in Controllers /\ natsSubscription_AutoUnsubscribe(t)
    <2>1. ASSUME Open(sub), Return(t, "auto_unsunscribe", "ok", AutoUnsubscribe(sub, arg[t]), out[t])
          PROVE  Goal
      <3>1. /\ "ok" \in Status
            /\ op[t] = "auto_unsunscribe" /\ sub' = AutoUnsubscribe(sub, arg[t]) =>
                 Outcome(t, "ok", out[t])
        BY <1>4, <2>1 DEF Outcome, Status
      <3>2. QED
        BY <2>1, <3>1, <1>1
    <2>2. QED
      BY <1>2, <1>4, <2>1 DEF natsSubscription_AutoUnsubscribe
  <1>5. ASSUME NEW f \in {"set_pending_limits", "drain", "drain_timeout", "get_delivered"},
               NEW after, NEW value \in {out[t], sub.delivered},
               Open(sub), Keeps(sub, after, {"drain"}), Return(t, f, "ok", after, value)
        PROVE  Goal
    <2>1. "ok" \in Status /\ (op[t] = f /\ sub' = after => Outcome(t, "ok", value))
      BY <1>5 DEF Outcome, Status
    <2>2. QED
      BY <1>5, <2>1, <1>1
  <1>6. CASE natsSubscription_SetPendingLimits(t)
    <2>1. Keeps(sub, SetPendingLimit(sub, arg[t]), {"drain"})
      <3>1. arg[t] \in Nat
        BY MsgsAssumption DEF TypeOK
      <3>2. QED
        BY <1>0, <3>1, OtherSubs DEF Keeps
    <2>2. QED
      BY <1>2, <1>5, <1>6, <2>1 DEF natsSubscription_SetPendingLimits
  <1>7. CASE natsSubscription_Drain(t)
    <2>1. Keeps(sub, Drain(sub, "yes"), {"drain"}) /\ Keeps(sub, Drain(sub, "timed"), {"drain"})
      BY <1>0, OtherSubs
    <2>2. QED
      BY <1>2, <1>5, <1>7, <2>1 DEF natsSubscription_Drain
  <1>8. CASE natsSubscription_WaitForDrainCompletion(t)
    <2>1. PICK status \in Status :
            /\ Return(t, "wait_for_drain_completion", status, sub, out[t])
            /\ status = "ok" => ~Open(sub)
      BY <1>8 DEF natsSubscription_WaitForDrainCompletion, Status
    <2>2. op[t] = "wait_for_drain_completion" /\ sub' = sub => Outcome(t, status, out[t])
      BY <2>1 DEF Outcome
    <2>3. QED
      BY <1>1, <2>1, <2>2
  <1>9. CASE natsSubscription_GetDelivered(t)
    <2>1. Keeps(sub, sub, {"drain"})
      BY <1>0 DEF Keeps
    <2>2. QED
      BY <1>2, <1>5, <1>9, <2>1 DEF natsSubscription_GetDelivered
  <1>10. QED
    BY <1>3, <1>4, <1>6, <1>7, <1>8, <1>9 DEF Library

(* What t's other steps have in common.                                    *)
Enters(t, f, a) ==
  /\ step[t] = "idle" /\ step' = [step EXCEPT ![t] = "called"]
  /\ op' = [op EXCEPT ![t] = f] /\ arg' = [arg EXCEPT ![t] = a]
  /\ answer' = [answer EXCEPT ![t] = Nothing]
  /\ UNCHANGED <<s, ret, out, returned, sub, arrived>>

LEMMA NextCases ==
  ASSUME Next
  PROVE  \/ MessageArrives \/ DrainEnds
         \/ \E t \in Threads :
              \/ \E f \in Functions \ {"auto_unsunscribe"} : \E a \in Msgs \union {0} : Enters(t, f, a)
              \/ \E a \in Msgs : Enters(t, "auto_unsunscribe", a)
              \/ Library(t)
              \/ t \in Controllers /\ unsubscribe(t)
              \/ Store(t) \/ Test(t) \/ Fail(t)
  <1>1. ASSUME NEW t \in Consumers, Consume(t)
        PROVE  \/ \E a \in Msgs \union {0} : Enters(t, "next_msg", a)
               \/ Library(t)
    BY <1>1 DEF Consume, next_msg, Call, Enters, Library
  <1>2. ASSUME NEW t \in Controllers, Control(t)
        PROVE  \/ \E f \in Functions \ {"auto_unsunscribe"} : \E a \in Msgs \union {0} : Enters(t, f, a)
               \/ \E a \in Msgs : Enters(t, "auto_unsunscribe", a)
               \/ Library(t)
               \/ unsubscribe(t)
    <2>1. ASSUME NEW f \in Functions \ {"auto_unsunscribe"}, NEW a \in Msgs \union {0}, Call(t, f, a)
          PROVE  \E g \in Functions \ {"auto_unsunscribe"} : \E b \in Msgs \union {0} : Enters(t, g, b)
      <3>1. Enters(t, f, a)
        BY <2>1 DEF Call, Enters
      <3>2. QED
        BY <3>1
    <2>2. CASE auto_unsunscribe(t)
      BY <2>2 DEF auto_unsunscribe, Call, Enters
    <2>3. CASE set_pending_limits(t)
      BY <2>1, <2>3 DEF set_pending_limits, Functions
    <2>4. CASE drain(t) \/ drain_timeout(t) \/ wait_for_drain_completion(t) \/ get_delivered(t)
      BY <2>1, <2>4
      DEF drain, drain_timeout, wait_for_drain_completion, get_delivered, Functions
    <2>5. QED
      BY <1>2, <2>2, <2>3, <2>4 DEF Control, Library
  <1>3. QED
    BY <1>1, <1>2, ThreadsAssumption DEF Next, Functions

-----------------------------------------------------------------------------
LEMMA InitIInv == Init => IInv
  <1> SUFFICES ASSUME Init PROVE IInv
    OBVIOUS
  <1>1. TypeOK
    BY AnswerTypes, SubscribedSub, EmptySeq, MsgsAssumption
    DEF Init, TypeOK, Status, Subs
  <1>2. Local /\ Promises
    BY AnswerTypes DEF Init, Local, Holds, Promises, Succeeded
  <1>3. Counted(sub, arrived)
    BY SubscribedSub, EmptySeq DEF Init, Counted, Open
  <1>4. Placed(sub.pending, returned, sub.dropped, Hand, arrived)
    <2>1. Hand = [t \in Threads |-> 0] /\ InHands(Hand) = {}
      BY DEF Init, Hand, Holds, InHands, Range
    <2>2. Distinct(<<>>) /\ Range(<<>>) = {}
      BY EmptySeq DEF Distinct, Range
    <2>3. sub.pending = <<>> /\ returned = <<>> /\ sub.dropped = {} /\ arrived = 0
      BY SubscribedSub DEF Init
    <2>4. QED
      BY <2>1, <2>2, <2>3 DEF Placed
  <1>5. QED
    BY <1>1, <1>2, <1>3, <1>4 DEF IInv

LEMMA NextTypeOK ==
  ASSUME TypeOK, Local, Counted(sub, arrived), Next
  PROVE  TypeOK'
  <1> USE DEF TypeOK
  <1>a. sub \in Subs /\ MaxMsgs \in Nat /\ Msgs \subseteq Nat /\ Msgs \subseteq 0 .. MaxMsgs
    BY MsgsAssumption DEF Subs, Msgs
  <1>1. CASE MessageArrives
    <2>1. arrived + 1 \in Msgs /\ arrived' = arrived + 1 /\ sub' = Arrive(sub, arrived + 1)
      BY <1>1, <1>a DEF MessageArrives, Msgs
    <2>2. sub' \in Subs
      BY <1>a, <2>1, ArriveSub DEF Keeps
    <2>3. QED
      BY <1>1, <1>a, <2>1, <2>2 DEF MessageArrives, locals, results, Subs
  <1>2. CASE DrainEnds
    <2>1. sub' \in Subs
      BY <1>2, <1>a, OtherSubs DEF DrainEnds, Keeps
    <2>2. QED
      BY <1>2, <2>1 DEF DrainEnds, locals, results, Subs
  <1>3. ASSUME NEW t \in Threads, NEW f \in Functions, NEW a \in Msgs \union {0}, Enters(t, f, a)
        PROVE  TypeOK'
    BY <1>3, <1>a, AnswerTypes DEF Enters
  <1>4. ASSUME NEW t \in Threads, Library(t) PROVE TypeOK'
    <2>1. PICK status, value :
            /\ status \in Status
            /\ step' = [step EXCEPT ![t] = "returned"]
            /\ ret' = [ret EXCEPT ![t] = status]
            /\ out' = [out EXCEPT ![t] = value]
            /\ Outcome(t, status, value)
            /\ UNCHANGED <<s, op, arg, answer, returned, arrived>>
      BY <1>4, LibraryStep
    <2>2. sub.delivered \in 0 .. MaxMsgs
      BY <1>a, SubTypes, LenProperties DEF Counted
    <2>3. sub' \in Subs /\ value \in 0 .. MaxMsgs
      <3>1. sub.pending # <<>> => Head(sub.pending) \in Msgs
        BY <1>a, SubTypes, HeadTailProperties
      <3>2. arg[t] \in Nat /\ out[t] \in 0 .. MaxMsgs
        BY <1>a
      <3>3. QED
        BY <1>a, <2>1, <2>2, <3>1, <3>2, TakeSub, AutoUnsubscribeSub DEF Outcome, Keeps
    <2>4. QED
      BY <2>1, <2>3 DEF Subs
  <1>5. ASSUME NEW t \in Threads, unsubscribe(t) PROVE TypeOK'
    <2>1. sub' \in Subs
      BY <1>5, <1>a, OtherSubs DEF unsubscribe, Keeps
    <2>2. answer' \in [Threads -> Answers]
      BY <1>5, AnswerTypes DEF unsubscribe, Status
    <2>3. QED
      BY <1>5, <2>1, <2>2 DEF unsubscribe, Subs, Functions
  <1>6. ASSUME NEW t \in Threads, Store(t) PROVE TypeOK'
    BY <1>6 DEF Store, locals, results
  <1>7. ASSUME NEW t \in Threads, Test(t) PROVE TypeOK'
    <2>1. CASE Tested(t) = "ok" /\ Succeed(t)
      <3>1. Success(t) \in Answers
        BY <1>a, AnswerTypes DEF Success
      <3>2. returned' \in Seq(Msgs)
        <4>1. op[t] = "next_msg" => out[t] \in Msgs
          BY <1>7, <2>1 DEF Test, Local, Holds
        <4>2. QED
          BY <2>1, <4>1, AppendProperties DEF Succeed
      <3>3. QED
        BY <1>7, <1>a, <2>1, <3>1, <3>2 DEF Test, Succeed, Leave, Status
    <2>2. CASE step' = [step EXCEPT ![t] = "failing"] /\ UNCHANGED <<ret, out, results>>
      BY <1>7, <2>2 DEF Test, results
    <2>3. QED
      BY <1>7, <2>1, <2>2 DEF Test
  <1>8. ASSUME NEW t \in Threads, Fail(t) PROVE TypeOK'
    BY <1>8, <1>a, AnswerTypes DEF Fail, Leave, Status
  <1>9. QED
    BY <1>1, <1>2, <1>3, <1>4, <1>5, <1>6, <1>7, <1>8, NextCases DEF Functions

(* Only t's own steps change what t relies on.                             *)
LEMMA NextLocal ==
  ASSUME OwnStatus, TypeOK, Local, Next
  PROVE  Local'
  <1> USE DEF TypeOK, Local, Holds, Tested
  <1>1. CASE MessageArrives \/ DrainEnds
    BY <1>1 DEF MessageArrives, DrainEnds, locals
  <1>2. ASSUME NEW t \in Threads, NEW f \in Functions, NEW a \in Msgs \union {0}, Enters(t, f, a),
               f = "auto_unsunscribe" => a \in Msgs
        PROVE  Local'
    BY <1>2 DEF Enters
  <1>3. ASSUME NEW t \in Threads, Library(t) PROVE Local'
    <2>1. PICK status, value :
            /\ status \in Status
            /\ step' = [step EXCEPT ![t] = "returned"]
            /\ ret' = [ret EXCEPT ![t] = status]
            /\ out' = [out EXCEPT ![t] = value]
            /\ Outcome(t, status, value)
            /\ UNCHANGED <<s, op, arg, answer, returned, arrived>>
      BY <1>3, LibraryStep
    <2>2. sub.pending # <<>> => Head(sub.pending) \in Msgs
      BY SubTypes, HeadTailProperties DEF Subs
    <2>3. op[t] = "next_msg" /\ status = "ok" => value \in Msgs
      BY <2>1, <2>2 DEF Outcome
    <2>4. QED
      BY <2>1, <2>3
  <1>4. ASSUME NEW t \in Threads, unsubscribe(t) PROVE Local'
    BY <1>4 DEF unsubscribe
  <1>5. ASSUME NEW t \in Threads, Store(t) PROVE Local'
    BY <1>5 DEF Store, locals, OwnStatus
  <1>6. ASSUME NEW t \in Threads, Test(t) PROVE Local'
    BY <1>6 DEF Test, Succeed, Leave
  <1>7. ASSUME NEW t \in Threads, Fail(t) PROVE Local'
    BY <1>7 DEF Fail, Leave
  <1>8. QED
    BY <1>1, <1>2, <1>3, <1>4, <1>5, <1>6, <1>7, NextCases DEF Functions

LEMMA NextCounted ==
  ASSUME TypeOK, Counted(sub, arrived), Next
  PROVE  Counted(sub', arrived')
  <1>a. sub \in Subs /\ arrived \in Nat /\ sub.pending \in Seq(Msgs) /\ Len(sub.pending) \in Nat
    BY SubTypes, LenProperties DEF TypeOK, Subs
  <1>b. sub.delivered \in Nat /\ sub.max \in Nat
    BY <1>a, SubTypes
  <1>c. sub.end # "drained" \/ ~Open(sub)
    BY DEF Open
  <1>1. CASE MessageArrives
    <2>1. /\ Open(sub) /\ arrived' = arrived + 1 /\ arrived + 1 \in Msgs
          /\ sub' = Arrive(sub, arrived + 1)
      BY <1>1, <1>a, MsgsAssumption DEF MessageArrives, Msgs
    <2>2. CASE Keeps(sub, sub', {"dropped"})
      BY <1>a, <1>b, <2>1, <2>2 DEF Keeps, Counted, Open
    <2>3. CASE Keeps(sub, sub', {"pending"}) /\ sub'.pending = Append(sub.pending, arrived + 1)
      <3>1. Len(sub'.pending) = Len(sub.pending) + 1
        BY <1>a, <2>1, <2>3, AppendProperties
      <3>2. QED
        BY <1>a, <1>b, <2>1, <2>3, <3>1 DEF Keeps, Counted, Open
    <2>4. QED
      BY <1>a, <2>1, <2>2, <2>3, ArriveSub
  <1>2. ASSUME Keeps(sub, sub', {"end"}), UNCHANGED arrived,
               sub'.end = "cut" \/ (sub'.end = "drained" /\ sub.pending = <<>>)
        PROVE  Counted(sub', arrived')
    BY <1>2 DEF Keeps, Counted, Open
  <1>3. CASE DrainEnds
    BY <1>3, <1>a, <1>2, OtherSubs DEF DrainEnds, Drainable
  <1>4. ASSUME NEW t \in Threads, Library(t) PROVE Counted(sub', arrived')
    <2>1. PICK status, value : status \in Status /\ Outcome(t, status, value) /\ UNCHANGED arrived
      BY <1>4, LibraryStep
    <2>2. CASE Open(sub) /\ sub.pending # <<>> /\ sub' = Take(sub)
      <3>1. Len(sub'.pending) = Len(sub.pending) - 1
        BY <1>a, <2>2, TakeSub, HeadTailProperties
      <3>2. /\ sub'.delivered = sub.delivered + 1 /\ sub'.max = sub.max
            /\ sub'.end = IF sub.max # 0 /\ sub.delivered + 1 >= sub.max THEN "cut" ELSE sub.end
        BY <1>a, <2>2, TakeSub DEF Keeps
      <3>3. QED
        BY <1>a, <1>b, <2>1, <2>2, <3>1, <3>2 DEF Counted, Open
    <2>3. CASE Open(sub) /\ sub' = AutoUnsubscribe(sub, arg[t])
      <3>1. arg[t] \in Nat
        BY MsgsAssumption DEF TypeOK
      <3>2. /\ sub'.delivered = sub.delivered /\ sub'.pending = sub.pending /\ sub'.max = arg[t]
            /\ sub'.end = IF arg[t] <= sub.delivered THEN "cut" ELSE sub.end
        BY <1>a, <2>3, <3>1, AutoUnsubscribeSub DEF Keeps
      <3>3. QED
        BY <1>a, <1>b, <2>1, <2>3, <3>1, <3>2 DEF Counted, Open
    <2>4. CASE Keeps(sub, sub', {"drain"})
      BY <2>1, <2>4 DEF Keeps, Counted, Open
    <2>5. CASE sub' = sub
      BY <2>1, <2>5
    <2>6. QED
      BY <2>1, <2>2, <2>3, <2>4, <2>5 DEF Outcome
  <1>5. ASSUME NEW t \in Threads, unsubscribe(t) PROVE Counted(sub', arrived')
    <2>1. CASE sub' = Unsubscribe(sub)
      BY <1>5, <1>a, <1>2, <2>1, OtherSubs DEF unsubscribe
    <2>2. CASE UNCHANGED sub
      BY <1>5, <2>2 DEF unsubscribe
    <2>3. QED
      BY <1>5, <2>1, <2>2 DEF unsubscribe
  <1>6. CASE UNCHANGED <<sub, arrived>>
    BY <1>6
  <1>7. QED
    BY <1>1, <1>3, <1>4, <1>5, <1>6, NextCases DEF Enters, Store, Test, Fail

(* A message is handed on from the queue to a thread and from the thread   *)
(* to its caller; no other step touches one that arrived.                  *)
LEMMA NextPlaced ==
  ASSUME TypeOK, Local, Placed(sub.pending, returned, sub.dropped, Hand, arrived), Next
  PROVE  Placed(sub'.pending, returned', sub'.dropped, Hand', arrived')
  <1> DEFINE Goal == Placed(sub'.pending, returned', sub'.dropped, Hand', arrived')
  <1>a. /\ sub \in Subs /\ arrived \in Nat /\ sub.pending \in Seq(Msgs) /\ returned \in Seq(Msgs)
        /\ Hand \in Hands
    BY SubTypes, MsgsAssumption DEF TypeOK, Subs, Hand, Hands
  <1>b. ASSUME UNCHANGED <<returned, arrived>>, \A u \in Threads : Hand'[u] = Hand[u],
               sub'.pending = sub.pending, sub'.dropped = sub.dropped
        PROVE  Goal
    <2>1. Hand' = Hand
      BY <1>b DEF Hand
    <2>2. QED
      BY <1>b, <2>1
  <1>1. CASE MessageArrives
    <2>1. /\ arrived' = arrived + 1 /\ arrived + 1 \in Msgs /\ returned' = returned
          /\ sub' = Arrive(sub, arrived + 1)
      BY <1>1, <1>a, MsgsAssumption DEF MessageArrives, results, Msgs
    <2>2. Hand' = Hand
      BY <1>1 DEF MessageArrives, locals, Hand, Holds
    <2>3. CASE Keeps(sub, sub', {"dropped"}) /\ sub'.dropped = sub.dropped \union {arrived + 1}
      <3>1. sub'.pending = sub.pending
        BY <2>3 DEF Keeps
      <3>2. QED
        BY <1>a, <2>1, <2>2, <2>3, <3>1, PlacedDropped
    <2>4. CASE Keeps(sub, sub', {"pending"}) /\ sub'.pending = Append(sub.pending, arrived + 1)
      <3>1. sub'.dropped = sub.dropped
        BY <2>4 DEF Keeps
      <3>2. QED
        BY <1>a, <2>1, <2>2, <2>4, <3>1, PlacedQueued
    <2>5. QED
      BY <1>a, <2>1, <2>3, <2>4, ArriveSub
  <1>2. CASE DrainEnds
    <2>1. \A u \in Threads : Hand'[u] = Hand[u]
      BY <1>2 DEF DrainEnds, locals, Hand, Holds
    <2>2. Keeps(sub, sub', {"end"})
      BY <1>2, <1>a, OtherSubs DEF DrainEnds
    <2>3. QED
      BY <1>2, <1>b, <2>1, <2>2 DEF DrainEnds, results, Keeps
  <1>3. ASSUME NEW t \in Threads, NEW f, NEW a, Enters(t, f, a) PROVE Goal
    <2>1. \A u \in Threads : Hand'[u] = Hand[u]
      BY <1>3 DEF Enters, TypeOK, Hand, Holds
    <2>2. QED
      BY <1>3, <1>b, <2>1 DEF Enters
  <1>4. ASSUME NEW t \in Threads, Library(t) PROVE Goal
    <2>1. PICK status, value :
            /\ status \in Status
            /\ step[t] = "called"
            /\ step' = [step EXCEPT ![t] = "returned"]
            /\ ret' = [ret EXCEPT ![t] = status]
            /\ out' = [out EXCEPT ![t] = value]
            /\ Outcome(t, status, value)
            /\ UNCHANGED <<s, op, arg, answer, returned, arrived>>
      BY <1>4, LibraryStep
    <2>2. CASE op[t] = "next_msg" /\ status = "ok"
      <3>1. sub.pending # <<>> /\ sub' = Take(sub) /\ value = Head(sub.pending)
        BY <2>1, <2>2 DEF Outcome
      <3>2. Hand[t] = 0 /\ Hand' = [Hand EXCEPT ![t] = Head(sub.pending)]
        BY <2>1, <2>2, <3>1 DEF TypeOK, Hand, Holds
      <3>3. sub'.pending = Tail(sub.pending) /\ sub'.dropped = sub.dropped
        BY <1>a, <3>1, TakeSub DEF Keeps
      <3>4. Placed(Tail(sub.pending), returned, sub.dropped,
                   [Hand EXCEPT ![t] = Head(sub.pending)], arrived)
        BY <1>a, <3>1, <3>2, PlacedTaken
      <3>5. QED
        BY <2>1, <3>2, <3>3, <3>4
    <2>3. CASE ~(op[t] = "next_msg" /\ status = "ok")
      <3>1. \A u \in Threads : Hand'[u] = Hand[u]
        BY <2>1, <2>3 DEF TypeOK, Hand, Holds
      <3>2. sub'.pending = sub.pending /\ sub'.dropped = sub.dropped
        <4>1. arg[t] \in Nat
          BY MsgsAssumption DEF TypeOK
        <4>2. sub' = sub \/ sub' = AutoUnsubscribe(sub, arg[t]) \/ Keeps(sub, sub', {"drain"})
          BY <2>1, <2>3 DEF Outcome
        <4>3. Keeps(sub, AutoUnsubscribe(sub, arg[t]), {"max", "end"})
          BY <1>a, <4>1, AutoUnsubscribeSub
        <4>4. QED
          BY <4>2, <4>3 DEF Keeps
      <3>3. QED
        BY <1>b, <2>1, <3>1, <3>2
    <2>4. QED
      BY <2>2, <2>3
  <1>5. ASSUME NEW t \in Threads, unsubscribe(t) PROVE Goal
    <2>1. \A u \in Threads : Hand'[u] = Hand[u]
      BY <1>5 DEF unsubscribe, TypeOK, Hand, Holds
    <2>2. sub'.pending = sub.pending /\ sub'.dropped = sub.dropped
      BY <1>5, <1>a, OtherSubs DEF unsubscribe, Keeps
    <2>3. QED
      BY <1>5, <1>b, <2>1, <2>2 DEF unsubscribe
  <1>6. ASSUME NEW t \in Threads, Store(t) PROVE Goal
    <2>1. \A u \in Threads : Hand'[u] = Hand[u]
      BY <1>6 DEF Store, locals, TypeOK, Hand, Holds
    <2>2. QED
      BY <1>6, <1>b, <2>1 DEF Store, results
  <1>7. ASSUME NEW t \in Threads, Test(t) PROVE Goal
    <2>1. step[t] = "stored" /\ Tested(t) = ret[t] /\ UNCHANGED <<op, sub, arrived>>
      BY <1>7 DEF Test, Local
    <2>2. CASE ret[t] = "ok" /\ op[t] = "next_msg"
      <3>1. /\ returned' = Append(returned, out[t])
            /\ step' = [step EXCEPT ![t] = "idle"] /\ out' = [out EXCEPT ![t] = 0]
            /\ ret' = [ret EXCEPT ![t] = "ok"]
        BY <1>7, <2>1, <2>2 DEF Test, Succeed, Leave
      <3>2. Hand[t] = out[t] /\ out[t] \in Msgs
        BY <2>1, <2>2 DEF Hand, Holds, Local
      <3>3. Hand' = [Hand EXCEPT ![t] = 0]
        BY <2>1, <3>1 DEF TypeOK, Hand, Holds
      <3>4. QED
        BY <1>a, <2>1, <3>1, <3>2, <3>3, PlacedReturned
    <2>3. CASE ~(ret[t] = "ok" /\ op[t] = "next_msg")
      <3>1. \A u \in Threads : Hand'[u] = Hand[u]
        BY <1>7, <2>1, <2>3 DEF Test, Succeed, Leave, TypeOK, Hand, Holds
      <3>2. returned' = returned
        BY <1>7, <2>1, <2>3 DEF Test, Succeed, results
      <3>3. QED
        BY <1>b, <2>1, <3>1, <3>2
    <2>4. QED
      BY <2>2, <2>3
  <1>8. ASSUME NEW t \in Threads, Fail(t) PROVE Goal
    <2>1. ret[t] # "ok"
      BY <1>8 DEF Fail, Local
    <2>2. \A u \in Threads : Hand'[u] = Hand[u]
      BY <1>8, <2>1 DEF Fail, Leave, TypeOK, Hand, Holds
    <2>3. QED
      BY <1>8, <1>b, <2>2 DEF Fail
  <1>9. QED
    BY <1>1, <1>2, <1>3, <1>4, <1>5, <1>6, <1>7, <1>8, NextCases

(* Only the C call of t that set the maximum changes it, and an end is for *)
(* good.                                                                   *)
LEMMA SubSteps ==
  ASSUME TypeOK, Next
  PROVE  /\ ~Open(sub) => sub' = sub
         /\ \/ sub'.max = sub.max
            \/ \E t \in Controllers : op[t] = "auto_unsunscribe" /\ sub'.max = arg[t] /\ Library(t)
  <1> DEFINE Goal == /\ ~Open(sub) => sub' = sub
                     /\ \/ sub'.max = sub.max
                        \/ \E t \in Controllers :
                             op[t] = "auto_unsunscribe" /\ sub'.max = arg[t] /\ Library(t)
  <1>a. sub \in Subs
    BY DEF TypeOK, Subs
  <1>1. CASE MessageArrives
    <2>1. Open(sub) /\ arrived + 1 \in Msgs /\ sub' = Arrive(sub, arrived + 1)
      BY <1>1, MsgsAssumption DEF MessageArrives, Msgs, TypeOK
    <2>2. QED
      BY <1>a, <2>1, ArriveSub DEF Keeps
  <1>2. CASE DrainEnds
    BY <1>2, <1>a, OtherSubs DEF DrainEnds, Drainable, Expirable, Keeps
  <1>3. ASSUME NEW t \in Threads, Library(t) PROVE Goal
    <2>1. PICK status, value : status \in Status /\ Outcome(t, status, value)
      BY <1>3, LibraryStep
    <2>2. CASE /\ Open(sub) /\ sub' = AutoUnsubscribe(sub, arg[t])
               /\ t \in Controllers /\ op[t] = "auto_unsunscribe"
      <3>1. arg[t] \in Nat
        BY MsgsAssumption DEF TypeOK
      <3>2. sub'.max = arg[t]
        BY <1>a, <2>2, <3>1, AutoUnsubscribeSub
      <3>3. QED
        BY <1>3, <2>2, <3>2
    <2>3. CASE sub.pending # <<>> /\ Open(sub) /\ sub' = Take(sub)
      BY <1>a, <2>3, TakeSub DEF Keeps
    <2>4. CASE Open(sub) /\ Keeps(sub, sub', {"drain"})
      BY <2>4 DEF Keeps
    <2>5. CASE sub' = sub
      BY <2>5
    <2>6. QED
      BY <2>1, <2>2, <2>3, <2>4, <2>5 DEF Outcome
  <1>4. ASSUME NEW t \in Threads, unsubscribe(t) PROVE Goal
    BY <1>4, <1>a, OtherSubs DEF unsubscribe, Keeps
  <1>5. CASE UNCHANGED sub
    BY <1>5
  <1>6. QED
    BY <1>1, <1>2, <1>3, <1>4, <1>5, NextCases DEF Enters, Store, Test, Fail

(* A caller is told of a success only after a C call that was one.         *)
LEMMA SuccessSteps ==
  ASSUME TypeOK, Local, Next, NEW t \in Threads, Succeeded(t)',
         op'[t] \in {"auto_unsunscribe", "wait_for_drain_completion"}
  PROVE  /\ op'[t] = op[t] /\ arg'[t] = arg[t]
         /\ \/ Succeeded(t)
            \/ \E value : Outcome(t, "ok", value)
  <1> USE DEF TypeOK
  <1>1. CASE MessageArrives \/ DrainEnds
    BY <1>1 DEF MessageArrives, DrainEnds, locals, results, Succeeded
  <1>2. ASSUME NEW u \in Threads, NEW f, NEW a, Enters(u, f, a)
        PROVE  op'[t] = op[t] /\ arg'[t] = arg[t] /\ Succeeded(t)
    <2>1. u # t
      BY <1>2 DEF Enters, Succeeded
    <2>2. QED
      BY <1>2, <2>1 DEF Enters, Succeeded
  <1>3. ASSUME NEW u \in Threads, Library(u)
        PROVE  /\ op'[t] = op[t] /\ arg'[t] = arg[t]
               /\ Succeeded(t) \/ \E value : Outcome(t, "ok", value)
    <2>1. PICK status, value :
            /\ status \in Status
            /\ step' = [step EXCEPT ![u] = "returned"]
            /\ ret' = [ret EXCEPT ![u] = status]
            /\ Outcome(u, status, value)
            /\ UNCHANGED <<op, arg, answer>>
      BY <1>3, LibraryStep
    <2>2. CASE u = t
      <3>1. status = "ok"
        BY <2>1, <2>2 DEF Succeeded
      <3>2. QED
        BY <2>1, <2>2, <3>1
    <2>3. CASE u # t
      BY <2>1, <2>3 DEF Succeeded
    <2>4. QED
      BY <2>2, <2>3
  <1>4. ASSUME NEW u \in Threads, unsubscribe(u)
        PROVE  op'[t] = op[t] /\ arg'[t] = arg[t] /\ Succeeded(t)
    <2>1. u # t
      BY <1>4 DEF unsubscribe
    <2>2. QED
      BY <1>4, <2>1 DEF unsubscribe, Succeeded
  <1>5. ASSUME NEW u \in Threads, Store(u)
        PROVE  op'[t] = op[t] /\ arg'[t] = arg[t] /\ Succeeded(t)
    BY <1>5 DEF Store, locals, results, Succeeded
  <1>6. ASSUME NEW u \in Threads, Test(u)
        PROVE  op'[t] = op[t] /\ arg'[t] = arg[t] /\ Succeeded(t)
    <2>1. step[u] = "stored" /\ Tested(u) = ret[u] /\ UNCHANGED <<op, arg>>
      BY <1>6 DEF Test, Local
    <2>2. CASE u = t
      BY <1>6, <2>1, <2>2 DEF Test, Succeeded
    <2>3. CASE u # t
      BY <1>6, <2>1, <2>3 DEF Test, Succeed, Leave, results, Succeeded
    <2>4. QED
      BY <2>2, <2>3
  <1>7. ASSUME NEW u \in Threads, Fail(u)
        PROVE  op'[t] = op[t] /\ arg'[t] = arg[t] /\ Succeeded(t)
    <2>1. u # t
      BY <1>7, AnswerTypes DEF Fail, Leave, Succeeded
    <2>2. QED
      BY <1>7, <2>1 DEF Fail, Leave, Succeeded
  <1>8. QED
    BY <1>1, <1>2, <1>3, <1>4, <1>5, <1>6, <1>7, NextCases

LEMMA NextPromises ==
  ASSUME TypeOK, Local, Promises, Next
  PROVE  Promises'
  <1>a. sub \in Subs
    BY DEF TypeOK, Subs
  <1>1. ASSUME NEW t \in Threads, Controllers = {t}, op'[t] = "auto_unsunscribe", Succeeded(t)'
        PROVE  sub'.max = arg'[t]
    <2>1. /\ op[t] = "auto_unsunscribe" /\ arg'[t] = arg[t]
          /\ Succeeded(t) \/ \E value : Outcome(t, "ok", value)
      BY <1>1, SuccessSteps
    <2>2. CASE Succeeded(t)
      <3>1. sub.max = arg[t]
        BY <1>1, <2>1, <2>2 DEF Promises
      <3>2. QED
        BY <1>1, <2>1, <3>1, SubSteps
    <2>3. ASSUME NEW value, Outcome(t, "ok", value) PROVE sub'.max = arg[t]
      <3>1. sub' = AutoUnsubscribe(sub, arg[t])
        BY <2>1, <2>3 DEF Outcome
      <3>2. arg[t] \in Nat
        BY MsgsAssumption DEF TypeOK
      <3>3. QED
        BY <1>a, <3>1, <3>2, AutoUnsubscribeSub
    <2>4. QED
      BY <2>1, <2>2, <2>3
  <1>2. ASSUME NEW t \in Threads, op'[t] = "wait_for_drain_completion", Succeeded(t)'
        PROVE  ~Open(sub')
    <2>1. /\ op[t] = "wait_for_drain_completion"
          /\ Succeeded(t) \/ \E value : Outcome(t, "ok", value)
      BY <1>2, SuccessSteps
    <2>2. ~Open(sub)
      BY <2>1 DEF Promises, Outcome
    <2>3. QED
      BY <2>2, SubSteps
  <1>3. QED
    BY <1>1, <1>2 DEF Promises, Open

THEOREM AlwaysIInv ==
  ASSUME OwnStatus
  PROVE  Spec => []IInv
  <1>1. IInv /\ Next => IInv'
    <2> SUFFICES ASSUME IInv, Next PROVE IInv'
      OBVIOUS
    <2>1. TypeOK' /\ Local' /\ Promises'
      BY NextTypeOK, NextLocal, NextPromises DEF IInv
    <2>2. Counted(sub', arrived')
      BY NextCounted DEF IInv
    <2>3. Placed(sub'.pending, returned', sub'.dropped, Hand', arrived')
      BY NextPlaced DEF IInv
    <2>4. QED
      BY <2>1, <2>2, <2>3 DEF IInv, Counted, Open
  <1>2. IInv /\ UNCHANGED vars => IInv'
    <2> SUFFICES ASSUME IInv, UNCHANGED vars PROVE IInv'
      OBVIOUS
    <2>1. TypeOK' /\ Local' /\ Promises'
      BY DEF IInv, TypeOK, Local, Promises, Holds, Tested, Succeeded, Open, vars, locals, results
    <2>2. Hand' = Hand /\ sub' = sub /\ returned' = returned /\ arrived' = arrived
      BY DEF Hand, Holds, vars, locals, results
    <2>3. QED
      BY <2>1, <2>2 DEF IInv, Counted, Open
  <1>3. QED
    BY <1>1, <1>2, InitIInv, PTL DEF Spec

-----------------------------------------------------------------------------
(* A subscription keeps its types, and next_msg never returns a view of a  *)
(* null message.                                                           *)
THEOREM TypeCorrect ==
  ASSUME OwnStatus
  PROVE  Spec => []TypeOK
  <1>1. IInv => TypeOK
    BY DEF IInv
  <1>2. QED
    BY <1>1, AlwaysIInv, PTL

LEMMA PlacesOf ==
  ASSUME TypeOK, NEW m, NEW p
  PROVE  p \in Places(m) <=>
           \/ \E k \in 1 .. Len(sub.pending) : sub.pending[k] = m /\ p = <<"queued", k>>
           \/ \E k \in 1 .. Len(returned) : returned[k] = m /\ p = <<"returned", k>>
           \/ m \in sub.dropped /\ p = <<"dropped", m>>
           \/ \E t \in Threads : Holds(t) /\ out[t] = m /\ p = <<"held", t>>
  <1>1. /\ DOMAIN sub.pending = 1 .. Len(sub.pending)
        /\ DOMAIN returned = 1 .. Len(returned)
    BY SubTypes, LenProperties DEF TypeOK, Subs
  <1>2. QED
    BY <1>1 DEF Places, Holders

(* next_msg loses no message and returns none twice: each that arrived is  *)
(* queued, dropped, in the hands of one call or returned, and only one of  *)
(* those, whatever limits, maxima and drains meanwhile do.                 *)
THEOREM NothingLostAlways ==
  ASSUME OwnStatus
  PROVE  Spec => []NothingLost
  <1>1. ASSUME IInv, NEW m \in 1 .. arrived PROVE Cardinality(Places(m)) = 1
    <2> DEFINE Q == 1 .. Len(sub.pending)
               R == 1 .. Len(returned)
    <2>1. TypeOK /\ Placed(sub.pending, returned, sub.dropped, Hand, arrived)
      BY <1>1 DEF IInv
    <2>2. /\ Range(sub.pending) = {sub.pending[i] : i \in Q}
          /\ Range(returned) = {returned[i] : i \in R}
      BY <2>1, SubTypes, RangeEquality DEF TypeOK, Subs
    <2>3. ASSUME NEW x PROVE x \in InHands(Hand) <=> \E t \in Threads : Holds(t) /\ out[t] = x
      <3>1. \A t \in Threads : Holds(t) => out[t] # 0
        BY <1>1, MsgsAssumption DEF IInv, Local, Msgs
      <3>2. QED
        BY <3>1 DEF InHands, Range, Hand
    <2>4. /\ \A j, k \in Q : sub.pending[j] = m /\ sub.pending[k] = m => j = k
          /\ \A j, k \in R : returned[j] = m /\ returned[k] = m => j = k
      BY <2>1 DEF Placed, Distinct
    <2>5. ASSUME NEW t \in Threads, NEW u \in Threads,
                 Holds(t), Holds(u), out[t] = m, out[u] = m
          PROVE  t = u
      <3>1. Hand[t] = m /\ Hand[u] = m /\ m # 0
        BY <2>1, <2>5 DEF Hand, TypeOK
      <3>2. QED
        BY <2>1, <3>1 DEF Placed
    <2>6. /\ m \in Range(sub.pending) \union Range(returned) \union sub.dropped \union InHands(Hand)
          /\ Range(sub.pending) \intersect (Range(returned) \union sub.dropped \union InHands(Hand)) = {}
          /\ Range(returned) \intersect (sub.dropped \union InHands(Hand)) = {}
          /\ sub.dropped \intersect InHands(Hand) = {}
      BY <2>1 DEF Placed
    <2>7. \E p : p \in Places(m)
      <3>1. CASE m \in Range(sub.pending) \/ m \in Range(returned)
        BY <2>1, <2>2, <3>1, PlacesOf
      <3>2. CASE m \in sub.dropped \/ m \in InHands(Hand)
        BY <2>1, <2>3, <3>2, PlacesOf
      <3>3. QED
        BY <2>6, <3>1, <3>2
    <2>8. ASSUME NEW p \in Places(m), NEW q \in Places(m) PROVE p = q
      <3> DEFINE Is(x) == \/ \E k \in Q : sub.pending[k] = m /\ x = <<"queued", k>>
                          \/ \E k \in R : returned[k] = m /\ x = <<"returned", k>>
                          \/ m \in sub.dropped /\ x = <<"dropped", m>>
                          \/ \E t \in Threads : Holds(t) /\ out[t] = m /\ x = <<"held", t>>
      <3>1. Is(p) /\ Is(q)
        BY <2>1, <2>8, PlacesOf
      <3>2. CASE m \in Range(sub.pending)
        <4>1. ~(m \in Range(returned)) /\ ~(m \in sub.dropped) /\ ~(m \in InHands(Hand))
          BY <2>6, <3>2
        <4>2. QED
          BY <2>2, <2>3, <2>4, <3>1, <4>1
      <3>3. CASE m \in Range(returned)
        <4>1. ~(m \in Range(sub.pending)) /\ ~(m \in sub.dropped) /\ ~(m \in InHands(Hand))
          BY <2>6, <3>3
        <4>2. QED
          BY <2>2, <2>3, <2>4, <3>1, <4>1
      <3>4. CASE m \in sub.dropped
        <4>1. ~(m \in Range(sub.pending)) /\ ~(m \in Range(returned)) /\ ~(m \in InHands(Hand))
          BY <2>6, <3>4
        <4>2. QED
          BY <2>2, <2>3, <3>1, <4>1
      <3>5. CASE m \in InHands(Hand)
        <4>1. ~(m \in Range(sub.pending)) /\ ~(m \in Range(returned)) /\ ~(m \in sub.dropped)
          BY <2>6, <3>5
        <4>2. QED
          BY <2>2, <2>5, <3>1, <4>1
      <3>6. QED
        BY <2>6, <3>2, <3>3, <3>4, <3>5
    <2>9. \E p : Places(m) = {p}
      BY <2>7, <2>8
    <2>10. QED
      BY <2>9, FS_Singleton
  <1>2. IInv => NothingLost
    BY <1>1 DEF NothingLost
  <1>3. QED
    BY <1>2, AlwaysIInv, PTL

(* Whoever was told that the drain is complete can rely on it.             *)
THEOREM DrainToldAlways ==
  ASSUME OwnStatus
  PROVE  Spec => []DrainTold
  <1>1. ASSUME IInv, NEW t \in Threads,
               answer[t] = Done, op[t] = "wait_for_drain_completion", step[t] = "idle"
        PROVE  ~Open(sub)
    BY <1>1 DEF IInv, Promises, Succeeded
  <1>2. ASSUME IInv, sub.end = "drained", NEW m \in 1 .. arrived
        PROVE  Holders(m) # {} \/ m \in sub.dropped \/ \E i \in DOMAIN returned : returned[i] = m
    <2>1. Range(sub.pending) = {}
      <3>1. sub.pending = <<>>
        BY <1>2 DEF IInv, Counted
      <3>2. QED
        BY <3>1, EmptySeq DEF Range
    <2>2. m \in Range(returned) \/ m \in sub.dropped \/ m \in InHands(Hand)
      BY <1>2, <2>1 DEF IInv, Placed
    <2>3. m \in InHands(Hand) => Holders(m) # {}
      BY DEF InHands, Range, Hand, Holders
    <2>4. QED
      BY <2>2, <2>3 DEF Range
  <1>3. IInv => DrainTold
    BY <1>1, <1>2 DEF DrainTold
  <1>4. QED
    BY <1>3, AlwaysIInv, PTL

(* After a successful auto_unsunscribe(max) no more than max messages are  *)
(* handed out.                                                             *)
THEOREM AtMostMaxAlways ==
  ASSUME OwnStatus
  PROVE  Spec => AtMostMax
  <1> DEFINE Bounded == \A t \in Threads :
               Controllers = {t} /\ Promised(t) /\ sub'.delivered # sub.delivered =>
                 sub.delivered < arg[t]
  <1>1. ASSUME IInv, Next, NEW t \in Threads,
               Controllers = {t}, Promised(t), sub'.delivered # sub.delivered
        PROVE  sub.delivered < arg[t]
    <2>1. sub.max = arg[t] /\ arg[t] \in Msgs /\ arg[t] # 0
      BY <1>1, MsgsAssumption DEF IInv, Promises, Succeeded, Promised, Local, Msgs
    <2>2. Open(sub)
      BY <1>1, SubSteps DEF IInv
    <2>3. QED
      BY <1>1, <2>1, <2>2 DEF IInv, Counted
  <1>2. IInv /\ Next => Bounded
    BY <1>1
  <1>3. UNCHANGED vars => Bounded
    BY DEF vars
  <1>4. IInv /\ [Next]_vars => [Bounded]_vars
    BY <1>2, <1>3
  <1>5. QED
    BY <1>4, AlwaysIInv, PTL DEF Spec, AtMostMax
=============================================================================
