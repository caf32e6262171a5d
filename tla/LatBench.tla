------------------------------ MODULE LatBench ------------------------------
(***************************************************************************)
(* bench_lat_pub_sub.cpp: a producer thread publishes its clock reading    *)
(* over and over, a consumer thread with a client of its own measures how  *)
(* old the readings are, and main joins both and closes the library.       *)
(*                                                                         *)
(* 100'000'000 messages become Rounds, a second becomes Second units of    *)
(* time, and the C library's pending limit becomes Limit.  A message is    *)
(* [n |-> its number, ts |-> the clock reading it carries].                *)
(*                                                                         *)
(* high_resolution_clock need not be steady: between two readings, which   *)
(* all threads take from the same clock, it moves by any amount in Ticks,  *)
(* may stand still, and may be set back.                                   *)
(***************************************************************************)
EXTENDS CSubscription, Integers

CONSTANTS
  Rounds,  (* messages the producer publishes                              *)
  Limit,   (* pending limit of the subscription, 0: none                   *)
  Second,  (* units of time in a second                                    *)
  Ticks    (* by how much the clock may move between two readings          *)

ASSUME RoundsAssumption == Rounds \in Nat
ASSUME LimitAssumption == Limit \in Nat
ASSUME SecondAssumption == Second \in Nat \ {0}
ASSUME TicksAssumption == Ticks \subseteq Int

VARIABLES
  producer,      (* where run_producer is                                  *)
  i,             (* its messages so far                                    *)
  nanoseconds,   (* its reading of the clock                               *)
  consumer,      (* where run_consumer is                                  *)
  msg,           (* the last message in res_msg                            *)
  ns,            (* the consumer's reading of the clock                    *)
  counter,       (* messages since last_time                               *)
  latency_sum,   (* sum of their latencies                                 *)
  last_time,     (* when the consumer reported last                        *)
  main,          (* where main is                                          *)
  handles,       (* the C handles that are open                            *)
  clock,         (* high_resolution_clock                                  *)
  back,          (* history: by how much it was set back, in total         *)
  wire,          (* published, and not yet at the subscription             *)
  interest,      (* the server knows of the subscription                   *)
  sub,           (* the C subscription                                     *)
  measured,      (* history: number and latency of what was measured       *)
  reported       (* history: how much of it the last report had seen       *)

producing == <<producer, i, nanoseconds>>
statistics == <<counter, latency_sum, last_time, measured, reported>>
time == <<clock, back>>
transport == <<wire, interest, sub>>
vars == <<producing, consumer, msg, ns, statistics, main, handles, time, transport>>

Init ==
  /\ producer = "create" /\ i = 0 /\ nanoseconds = 0
  /\ consumer = "create" /\ msg = [n |-> 0, ts |-> 0] /\ ns = 0
  /\ counter = 0 /\ latency_sum = 0 /\ last_time = 0
  /\ measured = <<>> /\ reported = 0
  /\ main = "join_producer"
  /\ handles = {}
  /\ clock = 0 /\ back = 0
  /\ wire = <<>> /\ interest = FALSE /\ sub = [Subscribed EXCEPT !.limit = Limit]

(* nanos(), high_resolution_clock::now(): the result is clock'.            *)
Reading ==
  \E d \in Ticks :
    /\ clock' = clock + d
    /\ back' = IF d < 0 THEN back - d ELSE back

-----------------------------------------------------------------------------
(* create and connect; a failure ends the thread, with no handle left.     *)
ProducerConnects ==
  /\ producer = "create"
  /\ \/ producer' = "loop" /\ handles' = handles \union {"producer"}
     \/ producer' = "ended" /\ UNCHANGED handles
  /\ UNCHANGED <<i, nanoseconds, consumer, msg, ns, statistics, main, time, transport>>

(* Mutant: the loop runs once more than asked.                             *)
StampOnceMore ==
  /\ producer = "loop" /\ i <= Rounds
  /\ Reading /\ nanoseconds' = clock'
  /\ producer' = "publish"
  /\ UNCHANGED <<i, consumer, msg, ns, statistics, main, handles, transport>>

Stamp ==
  /\ producer = "loop" /\ i < Rounds
  /\ Reading /\ nanoseconds' = clock'
  /\ producer' = "publish"
  /\ UNCHANGED <<i, consumer, msg, ns, statistics, main, handles, transport>>

(* NatsClient::publish, when it succeeds.                                  *)
publish(payload) == wire' = Append(wire, payload)

Publish ==
  /\ producer = "publish"
  /\ \/ /\ publish([n |-> i + 1, ts |-> nanoseconds])
        /\ i' = i + 1
        /\ producer' = "loop"
     \/ /\ producer' = "return"                     \* return res_pub.error()
        /\ UNCHANGED <<wire, i>>
  /\ UNCHANGED <<nanoseconds, consumer, msg, ns, statistics, main, handles, time>>
  /\ UNCHANGED <<interest, sub>>

(* The function returns: its client is destroyed.                          *)
ProducerReturns ==
  /\ \/ producer = "loop" /\ i = Rounds
     \/ producer = "return"
  /\ handles' = handles \ {"producer"}
  /\ producer' = "ended"
  /\ UNCHANGED <<i, nanoseconds, consumer, msg, ns, statistics, main, time, transport>>

run_producer == ProducerConnects \/ Stamp \/ Publish \/ ProducerReturns

-----------------------------------------------------------------------------
ConsumerConnects ==
  /\ consumer = "create"
  /\ \/ consumer' = "subscribe" /\ handles' = handles \union {"consumer"}
     \/ consumer' = "ended" /\ UNCHANGED handles
  /\ UNCHANGED <<producing, msg, ns, statistics, main, time, transport>>

subscribe_sync ==
  /\ consumer = "subscribe"
  /\ \/ consumer' = "begin" /\ handles' = handles \union {"subscription"}
     \/ consumer' = "return" /\ UNCHANGED handles
  /\ UNCHANGED <<producing, msg, ns, statistics, main, time, transport>>

BeginMeasuring ==
  /\ consumer = "begin"
  /\ Reading /\ last_time' = clock'
  /\ consumer' = "next"
  /\ UNCHANGED <<producing, msg, ns, counter, latency_sum, measured, reported>>
  /\ UNCHANGED <<main, handles, transport>>

(* Mutant: after an error the consumer goes on, with the message it has.   *)
NextMsgGoesOn ==
  /\ consumer = "next"
  /\ \/ /\ sub.pending # <<>>
        /\ msg' = Head(sub.pending) /\ sub' = Take(sub)
     \/ msg.n # 0 /\ UNCHANGED <<msg, sub>>
  /\ consumer' = "received"
  /\ UNCHANGED <<producing, ns, statistics, main, handles, time, wire, interest>>

(* Mutant: an error of next_msg is taken for a timeout and tried again.    *)
NextMsgRetries ==
  /\ consumer = "next"
  /\ \/ /\ sub.pending # <<>>
        /\ msg' = Head(sub.pending) /\ sub' = Take(sub)
        /\ consumer' = "received"
     \/ UNCHANGED <<msg, sub, consumer>>
  /\ UNCHANGED <<producing, ns, statistics, main, handles, time, wire, interest>>

(* sub.next_msg(99999999): a message, or an error, which may come at any   *)
(* time, and comes at last when the timeout ends.                          *)
next_msg ==
  /\ consumer = "next"
  /\ \/ /\ sub.pending # <<>>
        /\ msg' = Head(sub.pending) /\ sub' = Take(sub)
        /\ consumer' = "received"
     \/ /\ consumer' = "failed"
        /\ UNCHANGED <<msg, sub>>
  /\ UNCHANGED <<producing, ns, statistics, main, handles, time, wire, interest>>

(* Mutant: the time of the last report is taken for the current time.      *)
NowTooEarly ==
  /\ consumer \in {"received", "failed"}
  /\ Reading /\ ns' = last_time
  /\ consumer' = IF consumer = "received" THEN "count" ELSE "return"
  /\ UNCHANGED <<producing, msg, statistics, main, handles, transport>>

(* ns = nanos(); if (!res_msg) return ...                                  *)
Now ==
  /\ consumer \in {"received", "failed"}
  /\ Reading /\ ns' = clock'
  /\ consumer' = IF consumer = "received" THEN "count" ELSE "return"
  /\ UNCHANGED <<producing, msg, statistics, main, handles, transport>>

Latency == ns - msg.ts

CountMessage ==
  /\ consumer = "count"
  /\ counter' = counter + 1
  /\ latency_sum' = latency_sum + Latency
  /\ measured' = Append(measured, [n |-> msg.n, latency |-> Latency])
  /\ consumer' = "report"
  /\ UNCHANGED <<producing, msg, ns, last_time, reported, main, handles, time, transport>>

(* Mutant: the sum is not reset with the counter.                          *)
ResetKeepsSum == counter' = 0 /\ UNCHANGED latency_sum

Reset == counter' = 0 /\ latency_sum' = 0

(* Once a second throughput and average latency are printed.               *)
Report ==
  /\ consumer = "report"
  /\ Reading
  /\ \/ /\ clock' - last_time >= Second
        /\ Reset
        /\ last_time' = clock'
        /\ reported' = Len(measured)
     \/ /\ clock' - last_time < Second
        /\ UNCHANGED <<counter, latency_sum, last_time, reported>>
  /\ consumer' = "next"
  /\ UNCHANGED <<producing, msg, ns, measured, main, handles, transport>>

(* The function returns: the subscription is destroyed, then the client.   *)
ConsumerReturns ==
  /\ consumer = "return"
  /\ \/ /\ "subscription" \in handles
        /\ handles' = handles \ {"subscription"}
        /\ sub' = Unsubscribe(sub)
        /\ UNCHANGED consumer
     \/ /\ "subscription" \notin handles
        /\ handles' = handles \ {"consumer"}
        /\ consumer' = "ended"
        /\ UNCHANGED sub
  /\ UNCHANGED <<producing, msg, ns, statistics, main, time, wire, interest>>

run_consumer ==
  \/ ConsumerConnects \/ subscribe_sync \/ BeginMeasuring
  \/ next_msg \/ Now \/ CountMessage \/ Report \/ ConsumerReturns

-----------------------------------------------------------------------------
(* Mutant: main leaves the joining of the consumer to the destructor of    *)
(* its jthread, which runs after nats_Close.                               *)
JoinsProducerOnly ==
  /\ \/ main = "join_producer" /\ producer = "ended" /\ main' = "close"
     \/ main = "close" /\ main' = "join_consumer"
     \/ main = "join_consumer" /\ consumer = "ended" /\ main' = "returned"
  /\ UNCHANGED <<producing, consumer, msg, ns, statistics, handles, time, transport>>

(* Both threads are joined, then nats_Close() and return.                  *)
Main ==
  /\ \/ main = "join_producer" /\ producer = "ended" /\ main' = "join_consumer"
     \/ main = "join_consumer" /\ consumer = "ended" /\ main' = "close"
     \/ main = "close" /\ main' = "returned"
  /\ UNCHANGED <<producing, consumer, msg, ns, statistics, handles, time, transport>>

(* The server gets to know of the subscription.                            *)
Register ==
  /\ "subscription" \in handles
  /\ ~interest
  /\ interest' = TRUE
  /\ UNCHANGED <<producing, consumer, msg, ns, statistics, main, handles, time, wire, sub>>

(* The oldest message on its way reaches the subscription, or is lost:     *)
(* the server does not know of a subscription, or drops it.                *)
Transmit ==
  /\ wire # <<>>
  /\ wire' = Tail(wire)
  /\ \/ interest /\ Open(sub) /\ sub' = Arrive(sub, Head(wire))
     \/ UNCHANGED sub
  /\ UNCHANGED <<producing, consumer, msg, ns, statistics, main, handles, time, interest>>

Next == run_producer \/ run_consumer \/ Main \/ Register \/ Transmit

(* The scheduler runs every thread.  That next_msg comes back is not a     *)
(* further assumption: its timeout is finite.                              *)
Fairness == WF_vars(run_producer) /\ WF_vars(run_consumer) /\ WF_vars(Main)

Spec == Init /\ [][Next]_vars /\ Fairness

-----------------------------------------------------------------------------
Sent == [n : Nat, ts : Int]

TypeOK ==
  /\ producer \in {"create", "loop", "publish", "return", "ended"}
  /\ i \in 0 .. Rounds
  /\ consumer \in {"create", "subscribe", "begin", "next", "received", "failed", "count",
                   "report", "return", "ended"}
  /\ msg \in Sent
  /\ nanoseconds \in Int /\ ns \in Int /\ clock \in Int /\ back \in Nat
  /\ counter \in Nat /\ latency_sum \in Int /\ last_time \in Int /\ reported \in Nat
  /\ main \in {"join_producer", "join_consumer", "close", "returned"}
  /\ handles \subseteq {"producer", "consumer", "subscription"}
  /\ wire \in Seq(Sent)
  /\ interest \in BOOLEAN
  /\ sub \in SubscriptionOf(Sent)
  /\ measured \in Seq([n : Nat, latency : Int])

(* A message is stamped before it is published, and its latency is taken   *)
(* from the stamp of this very message and a reading made after it came:   *)
(* only the clock can make it negative, and by no more than it was set     *)
(* back.                                                                   *)
NegativeOnlyByClock == \A k \in DOMAIN measured : measured[k].latency >= -back

(* What a report averages are exactly the messages measured since the last *)
(* one: counter and latency_sum belong to the same messages.               *)
AverageOfWindow ==
  LET Since[k \in reported .. Len(measured)] ==
        IF k = Len(measured) THEN 0 ELSE measured[k + 1].latency + Since[k + 1]
  IN  /\ counter = Len(measured) - reported
      /\ latency_sum = Since[reported]

(* nats_Close() runs when no handle of the library is left, and the        *)
(* subscription does not outlive the client it belongs to.                 *)
ClosedLast ==
  /\ main \in {"close", "returned"} => handles = {}
  /\ "subscription" \in handles => "consumer" \in handles

(* The consumer sees the subject as Topic promises: the slow consumer's    *)
(* drops, lost messages and the late subscription leave gaps, and nothing  *)
(* is measured twice, out of order or before it was published.             *)
T == INSTANCE Topic WITH published <- i, received <- [k \in DOMAIN measured |-> measured[k].n]
ImplementsTopic == T!Spec

(* The benchmark ends, whatever fails in either thread.                    *)
Terminates == <>(main = "returned")
=============================================================================
