--------------------------- MODULE ZmqBenchProofs ---------------------------
(***************************************************************************)
(* What the contexts of the ZeroMQ benchmark mean for it, for any number   *)
(* of rounds.  The two sockets are never in one context, hence no trigger  *)
(* arrives, hence nobody lowers ready, hence the producer stays in its     *)
(* first round and should_exit is never set.                               *)
(***************************************************************************)
EXTENDS ZmqBench, TLAPS

(* A socket has a context that was made for it alone.                      *)
Apart ==
  /\ contexts \in Nat
  /\ context \in [{"producer", "consumer"} -> Nat]
  /\ context["producer"] <= contexts /\ context["consumer"] <= contexts
  /\ context["producer"] = context["consumer"] => context["producer"] = 0
  /\ consumer \in {"connect", "poll", "recv"} => context["consumer"] > 0

(* The consumer has received nothing and been told nothing.                *)
Unheard ==
  /\ inbox = 0
  /\ consumer \in {"unborn", "open", "connect", "poll", "recv", "failed"}

(* The producer is in its first round.                                     *)
Stuck ==
  /\ i = 0
  /\ should_exit = FALSE
  /\ producer \in {"unborn", "open", "bind", "loop", "raise", "send", "wait", "failed"}
  /\ producer \in {"send", "wait"} => ready = TRUE

(* main has joined the threads that it says it has joined.                 *)
JoinedEnded ==
  /\ main \in {"join_consumer", "done"} => producer \in Ended
  /\ main = "done" => consumer \in Ended

IInv == Apart /\ Unheard /\ Stuck /\ JoinedEnded

LEMMA InitIInv == Init => IInv
  BY DEF Init, IInv, Apart, Unheard, Stuck, JoinedEnded

LEMMA ProducerIInv ==
  ASSUME Rounds \in Nat \ {0}, IInv, run_producer, main # "aborted"
  PROVE  IInv'
  <1> USE DEF IInv, Apart, Unheard, Stuck, JoinedEnded, Ended, shared, zmq
  <1>1. CASE ProducerOpens
    BY <1>1 DEF ProducerOpens, Open
  <1>2. CASE Bind
    BY <1>2 DEF Bind, Close
  <1>3. CASE Loop
    BY <1>3 DEF Loop
  <1>4. CASE Raise
    BY <1>4 DEF Raise
  <1>5. CASE Send
    <2>1. ~Joined
      BY DEF Joined
    <2>2. QED
      BY <1>5, <2>1 DEF Send
  <1>6. CASE Wait
    BY <1>6 DEF Wait
  <1>7. CASE Exit
    BY <1>7 DEF Exit
  <1>8. CASE ProducerThrows
    BY <1>8 DEF ProducerThrows, Terminate
  <1>9. QED
    BY <1>1, <1>2, <1>3, <1>4, <1>5, <1>6, <1>7, <1>8 DEF run_producer

LEMMA ConsumerIInv ==
  ASSUME IInv, run_consumer, main # "aborted"
  PROVE  IInv'
  <1> USE DEF IInv, Apart, Unheard, Stuck, JoinedEnded, Ended, shared, zmq
  <1>1. CASE ConsumerOpens
    BY <1>1 DEF ConsumerOpens, Open
  <1>2. CASE Connect
    BY <1>2 DEF Connect, Close
  <1>3. CASE Poll
    BY <1>3 DEF Poll
  <1>4. CASE Recv
    BY <1>4 DEF Recv, Close
  <1>5. CASE Await
    BY <1>5 DEF Await
  <1>6. CASE Lower
    BY <1>6 DEF Lower
  <1>7. CASE ConsumerThrows
    BY <1>7 DEF ConsumerThrows, Terminate
  <1>8. QED
    BY <1>1, <1>2, <1>3, <1>4, <1>5, <1>6, <1>7 DEF run_consumer

LEMMA MainIInv ==
  ASSUME IInv, Main
  PROVE  IInv'
  <1> USE DEF IInv, Apart, Unheard, Stuck, JoinedEnded, Ended, shared, zmq
  <1>1. CASE Setup
    BY <1>1 DEF Setup
  <1>2. CASE Start
    BY <1>2 DEF Start
  <1>3. CASE Join
    BY <1>3 DEF Join
  <1>4. QED
    BY <1>1, <1>2, <1>3 DEF Main

LEMMA AlwaysIInv ==
  ASSUME Rounds \in Nat \ {0}
  PROVE  Spec => []IInv
  <1>1. Init => IInv
    BY InitIInv
  <1>2. IInv /\ [Next]_vars => IInv'
    <2> SUFFICES ASSUME IInv, [Next]_vars PROVE IInv'
      OBVIOUS
    <2>1. CASE UNCHANGED vars
      BY <2>1 DEF vars, IInv, Apart, Unheard, Stuck, JoinedEnded, Ended, shared, zmq
    <2>2. CASE Next
      BY <2>2, ProducerIInv, ConsumerIInv, MainIInv DEF Next
    <2>3. QED
      BY <2>1, <2>2
  <1>3. QED
    BY <1>1, <1>2, PTL DEF Spec

(* For any number of rounds the benchmark says "Done" only after both      *)
(* threads have failed: no behaviour of its loops ends it.                 *)
THEOREM DoneOnlyByFailure ==
  ASSUME Rounds \in Nat \ {0}
  PROVE  Spec => []DoneByFailureOnly
  <1>1. IInv => DoneByFailureOnly
    BY DEF IInv, Unheard, Stuck, JoinedEnded, Ended, DoneByFailureOnly
  <1>2. QED
    BY <1>1, AlwaysIInv, PTL

(* For any number of rounds no trigger is received and no latency is       *)
(* measured: the code behind a successful recv (bench_zeromq.cpp, lines    *)
(* 111 to 134) does not run.                                               *)
THEOREM NothingEverMeasured ==
  ASSUME Rounds \in Nat \ {0}
  PROVE  Spec => []NothingMeasured
  <1>1. IInv => NothingMeasured
    BY DEF IInv, Unheard, NothingMeasured
  <1>2. QED
    BY <1>1, AlwaysIInv, PTL
=============================================================================
