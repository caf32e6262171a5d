------------------------------ MODULE ZmqBench ------------------------------
(***************************************************************************)
(* bench/bench_zeromq.cpp: a producer and a consumer thread hand a stamp   *)
(* over in shared memory.  For every stamp the producer raises ready,      *)
(* sends a trigger and waits until ready is lowered; the consumer waits    *)
(* for the trigger and lowers it.                                          *)
(*                                                                         *)
(* Each thread opens a socket in a ZeroMQ context of its own.  The         *)
(* endpoint is "inproc://trigger", and ZeroMQ joins inproc endpoints       *)
(* within one context only.                                                *)
(*                                                                         *)
(* What the stamps are and what is computed from them is left out: whether *)
(* the program ends does not depend on it.                                 *)
(***************************************************************************)
EXTENDS Integers

CONSTANT Rounds  (* rounds of the producer's loop; 10'000'000 in the code   *)

VARIABLES
  main,                  (* where main is                                  *)
  ready, should_exit,    (* struct SharedData                              *)
  producer, i,           (* where run_producer is; its rounds so far       *)
  consumer,              (* where run_consumer is                          *)
  contexts,              (* ZeroMQ contexts made so far                    *)
  context,               (* thread -> the context of its socket, 0: none   *)
  inbox                  (* triggers that the consumer's socket holds      *)

shared == <<ready, should_exit>>
zmq == <<contexts, context, inbox>>
vars == <<main, shared, producer, i, consumer, zmq>>

Init ==
  /\ main = "setup"
  /\ ready = FALSE /\ should_exit = FALSE
  /\ producer = "unborn" /\ i = 0
  /\ consumer = "unborn"
  /\ contexts = 0 /\ context = [t \in {"producer", "consumer"} |-> 0] /\ inbox = 0

-----------------------------------------------------------------------------
(* An exception that nobody catches ends the process.                      *)
Terminate ==
  /\ main' = "aborted"
  /\ UNCHANGED <<shared, producer, i, consumer, zmq>>

(* zmq::context_t context(1); zmq::socket_t socket(context, ...)           *)
Open(t) ==
  /\ contexts' = contexts + 1
  /\ context' = [context EXCEPT ![t] = contexts']
  /\ UNCHANGED inbox

(* The socket and its context are destroyed when the thread's function     *)
(* returns.                                                                *)
Close(t) ==
  /\ context' = [context EXCEPT ![t] = 0]
  /\ UNCHANGED <<contexts, inbox>>

(* What the producer publishes reaches the consumer's socket.              *)
Joined ==
  /\ consumer \in {"poll", "recv", "await", "load"}
  /\ context["producer"] = context["consumer"]

-----------------------------------------------------------------------------
(* run_producer                                                            *)
ProducerOpens ==
  /\ producer = "open"
  /\ Open("producer")
  /\ producer' = "bind"
  /\ UNCHANGED <<main, shared, i, consumer>>

Bind ==
  /\ producer = "bind"
  /\ \/ producer' = "loop" /\ UNCHANGED zmq
     \/ producer' = "failed" /\ Close("producer")       \* bind has thrown
  /\ UNCHANGED <<main, shared, i, consumer>>

Loop ==
  /\ producer = "loop"
  /\ producer' = IF i < Rounds /\ ~should_exit THEN "raise" ELSE "exit"
  /\ UNCHANGED <<main, shared, i, consumer, zmq>>

(* The stamp is stored and ready is raised.                                *)
Raise ==
  /\ producer = "raise"
  /\ ready' = TRUE
  /\ producer' = "send"
  /\ UNCHANGED <<main, should_exit, i, consumer, zmq>>

(* A PUB socket drops what no subscriber is there for, and may drop more.  *)
Send ==
  /\ producer = "send"
  /\ \/ Joined /\ inbox' = inbox + 1
     \/ UNCHANGED inbox
  /\ producer' = "wait"
  /\ UNCHANGED <<main, shared, i, consumer, contexts, context>>

Wait ==
  /\ producer = "wait"
  /\ ~ready \/ should_exit                     \* else yield and look again
  /\ i' = i + 1
  /\ producer' = "loop"
  /\ UNCHANGED <<main, shared, consumer, zmq>>

Exit ==
  /\ producer = "exit"
  /\ should_exit' = TRUE
  /\ producer' = "done"
  /\ Close("producer")
  /\ UNCHANGED <<main, ready, i, consumer>>

(* Constructing the socket and sending are outside the try block.          *)
ProducerThrows == producer \in {"open", "send"} /\ Terminate

run_producer ==
  \/ ProducerOpens \/ Bind \/ Loop \/ Raise \/ Send \/ Wait \/ Exit
  \/ ProducerThrows

-----------------------------------------------------------------------------
(* run_consumer                                                            *)
ConsumerOpens ==
  /\ consumer = "open"
  /\ Open("consumer")
  /\ consumer' = "connect"
  /\ UNCHANGED <<main, shared, producer, i>>

Connect ==
  /\ consumer = "connect"
  /\ \/ consumer' = "poll" /\ UNCHANGED zmq
     \/ consumer' = "failed" /\ Close("consumer")   \* connect or set has thrown
  /\ UNCHANGED <<main, shared, producer, i>>

Poll ==
  /\ consumer = "poll"
  /\ \/ ~should_exit /\ consumer' = "recv" /\ UNCHANGED zmq
     \/ should_exit /\ consumer' = "done" /\ Close("consumer")
  /\ UNCHANGED <<main, shared, producer, i>>

(* recv finds a trigger, finds none, or throws.                            *)
Recv ==
  /\ consumer = "recv"
  /\ \/ /\ inbox > 0
        /\ inbox' = inbox - 1
        /\ consumer' = "await"
        /\ UNCHANGED <<contexts, context>>
     \/ inbox = 0 /\ consumer' = "poll" /\ UNCHANGED zmq
     \/ consumer' = "failed" /\ Close("consumer")
  /\ UNCHANGED <<main, shared, producer, i>>

Await ==
  /\ consumer = "await"
  /\ ready \/ should_exit                      \* else yield and look again
  /\ consumer' = "load"
  /\ UNCHANGED <<main, shared, producer, i, zmq>>

(* The stamp is loaded, ready is lowered and the latency is counted.       *)
Lower ==
  /\ consumer = "load"
  /\ ready' = FALSE
  /\ consumer' = "poll"
  /\ UNCHANGED <<main, should_exit, producer, i, zmq>>

(* Constructing the socket is outside the try block.                       *)
ConsumerThrows == consumer = "open" /\ Terminate

run_consumer ==
  \/ ConsumerOpens \/ Connect \/ Poll \/ Recv \/ Await \/ Lower
  \/ ConsumerThrows

-----------------------------------------------------------------------------
Ended == {"done", "failed"}

(* The shared memory is made, or the program returns 1.                    *)
Setup ==
  /\ main = "setup"
  /\ main' \in {"start_producer", "refused"}
  /\ UNCHANGED <<shared, producer, i, consumer, zmq>>

(* The constructors of the two threads; std::jthread may throw.            *)
Start ==
  /\ \/ /\ main = "start_producer" /\ main' = "start_consumer"
        /\ producer' = "open" /\ UNCHANGED consumer
     \/ /\ main = "start_consumer" /\ main' = "join_producer"
        /\ consumer' = "open" /\ UNCHANGED producer
     \/ /\ main \in {"start_producer", "start_consumer"} /\ main' = "aborted"
        /\ UNCHANGED <<producer, consumer>>
  /\ UNCHANGED <<shared, i, zmq>>

(* Both threads are joined, then "Done" is printed.                        *)
Join ==
  /\ \/ main = "join_producer" /\ producer \in Ended /\ main' = "join_consumer"
     \/ main = "join_consumer" /\ consumer \in Ended /\ main' = "done"
  /\ UNCHANGED <<shared, producer, i, consumer, zmq>>

Main == Setup \/ Start \/ Join

Next == main # "aborted" /\ (run_producer \/ run_consumer \/ Main)

(* The scheduler runs every thread.                                        *)
Fairness == WF_vars(run_producer) /\ WF_vars(run_consumer) /\ WF_vars(Main)

Spec == Init /\ [][Next]_vars /\ Fairness

-----------------------------------------------------------------------------
(* The benchmark ends and says "Done", unless it could not be set up or a  *)
(* call of ZeroMQ fails.                                                   *)
Ends ==
  <>(\/ main \in {"done", "refused", "aborted"}
     \/ producer = "failed" \/ consumer = "failed")

(* "Done" is printed only after both threads have failed.                  *)
DoneByFailureOnly ==
  main = "done" => producer = "failed" /\ consumer = "failed"

(* No latency is ever measured: no trigger is received, so that nobody     *)
(* lowers ready.                                                           *)
NothingMeasured == consumer \notin {"await", "load"}
=============================================================================
