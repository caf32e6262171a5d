---------------------------- MODULE Subscription ----------------------------
(***************************************************************************)
(* One NatsSubscriptionSync used by several threads, statement by          *)
(* statement: consumers call next_msg, controllers everything else.  Every *)
(* member function that returns an expected has the same shape             *)
(*                                                                         *)
(*     if ((s = natsSubscription_X(...)) != NATS_OK)                       *)
(*         return unexpected(NatsError(s, ...));                           *)
(*     return ...;                                                         *)
(*                                                                         *)
(* and all of them use the same member s, so calls that overlap race on    *)
(* it.  As in KvWatcher the test reads s again in an unoptimised build     *)
(* (Reload = TRUE) and the value just returned in an optimised one; the    *)
(* error object reads s in both.                                           *)
(*                                                                         *)
(* Messages are the numbers 1, 2, ... in the order of their arrival; 0 is  *)
(* the null natsMsg*.                                                      *)
(***************************************************************************)
EXTENDS CSubscription, FiniteSets

CONSTANTS
  Threads,      (* the threads that use the subscription                   *)
  Consumers,    (* the ones among them that call next_msg                  *)
  Controllers,  (* the ones among them that call the other functions       *)
  MaxMsgs,      (* bound on the messages, and on limits and maxima         *)
  Reload        (* TRUE: the test of the status reads the member s again   *)

ASSUME ThreadsAssumption ==
  Consumers \subseteq Threads /\ Controllers \subseteq Threads /\ IsFiniteSet(Threads)
ASSUME MsgsAssumption == MaxMsgs \in Nat
ASSUME ReloadAssumption == Reload \in BOOLEAN

Msgs == 1 .. MaxMsgs
Status == {"ok", "timeout", "error"}    \* "error": any other
Functions == {"next_msg", "auto_unsunscribe", "set_pending_limits", "drain", "drain_timeout",
              "wait_for_drain_completion", "get_delivered", "unsubscribe"}

Message(m) == [kind |-> "message", what |-> m]
Count(n) == [kind |-> "count", what |-> n]
Done == [kind |-> "done", what |-> 0]
Nothing == [kind |-> "nothing", what |-> 0]
Error(status) == [kind |-> "error", what |-> status]
Answers ==
  [kind : {"message", "count"}, what : Nat] \union {Done, Nothing}
    \union [kind : {"error"}, what : Status]

VARIABLES
  s,         (* the member NatsSubscriptionSync::s                         *)
  op,        (* op[t]: the function t is in, or was in last                *)
  arg,       (* arg[t]: its argument, a maximum or a limit                 *)
  step,      (* step[t]: how far t is in it                                *)
  ret,       (* ret[t]: the status the C call returned to t                *)
  out,       (* out[t]: the local the C call fills in: a message, a count  *)
  answer,    (* answer[t]: what t's last call returned; Nothing during one *)
  returned,  (* the messages that next_msg returned, in order              *)
  sub,       (* the C subscription                                         *)
  arrived    (* how many messages reached it                               *)

locals == <<op, arg, ret, out>>
results == <<answer, returned>>
vars == <<s, locals, step, results, sub, arrived>>

Init ==
  /\ s \in Status                              \* nothing initialises it
  /\ op = [t \in Threads |-> "none"]
  /\ arg = [t \in Threads |-> 0]
  /\ step = [t \in Threads |-> "idle"]
  /\ ret = [t \in Threads |-> "ok"]
  /\ out = [t \in Threads |-> 0]
  /\ answer = [t \in Threads |-> Nothing]
  /\ returned = <<>>
  /\ sub = Subscribed
  /\ arrived = 0

-----------------------------------------------------------------------------
(* The C library's own steps.                                              *)
MessageArrives ==
  /\ Open(sub)
  /\ arrived < MaxMsgs
  /\ arrived' = arrived + 1
  /\ sub' = Arrive(sub, arrived + 1)
  /\ UNCHANGED <<s, locals, step, results>>

DrainEnds ==
  /\ \/ Drainable(sub) /\ sub' = Drained(sub)
     \/ Expirable(sub) /\ sub' = Expired(sub)
  /\ UNCHANGED <<s, locals, step, results, arrived>>

(* The C call of t's function f returns.                                   *)
Return(t, f, status, after, value) ==
  /\ step[t] = "called" /\ op[t] = f
  /\ ret' = [ret EXCEPT ![t] = status]
  /\ out' = [out EXCEPT ![t] = value]
  /\ sub' = after
  /\ step' = [step EXCEPT ![t] = "returned"]
  /\ UNCHANGED <<s, op, arg, results, arrived>>

Refuse(t, f) == Return(t, f, "error", sub, out[t])

natsSubscription_NextMsg(t) ==
  \/ Refuse(t, "next_msg")
  \/ /\ Open(sub) /\ sub.pending = <<>>
     /\ Return(t, "next_msg", "timeout", sub, out[t])
  \/ /\ Open(sub) /\ sub.pending # <<>>
     /\ Return(t, "next_msg", "ok", Take(sub), Head(sub.pending))

natsSubscription_AutoUnsubscribe(t) ==
  \/ Refuse(t, "auto_unsunscribe")
  \/ Open(sub) /\ Return(t, "auto_unsunscribe", "ok", AutoUnsubscribe(sub, arg[t]), out[t])

natsSubscription_SetPendingLimits(t) ==
  \/ Refuse(t, "set_pending_limits")
  \/ Open(sub) /\ Return(t, "set_pending_limits", "ok", SetPendingLimit(sub, arg[t]), out[t])

natsSubscription_Drain(t) ==
  \/ Refuse(t, "drain") \/ Refuse(t, "drain_timeout")
  \/ Open(sub) /\ Return(t, "drain", "ok", Drain(sub, "yes"), out[t])
  \/ Open(sub) /\ Return(t, "drain_timeout", "ok", Drain(sub, "timed"), out[t])

natsSubscription_WaitForDrainCompletion(t) ==
  LET Answer(status) == Return(t, "wait_for_drain_completion", status, sub, out[t]) IN
  \/ sub.drain = "no" /\ Answer("error")
  \/ sub.drain # "no" /\ Open(sub) /\ Answer("timeout")
  \/ sub.drain # "no" /\ ~Open(sub) /\ Answer("ok")

natsSubscription_GetDelivered(t) ==
  \/ Refuse(t, "get_delivered")
  \/ Open(sub) /\ Return(t, "get_delivered", "ok", sub, sub.delivered)

-----------------------------------------------------------------------------
(* A thread enters function f with argument a.                             *)
Call(t, f, a) ==
  /\ step[t] = "idle"
  /\ op' = [op EXCEPT ![t] = f]
  /\ arg' = [arg EXCEPT ![t] = a]
  /\ answer' = [answer EXCEPT ![t] = Nothing]
  /\ step' = [step EXCEPT ![t] = "called"]
  /\ UNCHANGED <<s, ret, out, returned, sub, arrived>>

next_msg(t) == Call(t, "next_msg", 0)

auto_unsunscribe(t) == \E max \in Msgs : Call(t, "auto_unsunscribe", max)
set_pending_limits(t) == \E limit \in Msgs : Call(t, "set_pending_limits", limit)
drain(t) == Call(t, "drain", 0)
drain_timeout(t) == Call(t, "drain_timeout", 0)
wait_for_drain_completion(t) == Call(t, "wait_for_drain_completion", 0)

(* One for all the getters and no_delivery_delay, which change only s.     *)
get_delivered(t) == Call(t, "get_delivered", 0)

(* NatsClient::unsubscribe(sub) keeps its status in the client.            *)
unsubscribe(t) ==
  /\ step[t] = "idle"
  /\ op' = [op EXCEPT ![t] = "unsubscribe"]
  /\ \/ /\ Open(sub)
        /\ sub' = Unsubscribe(sub)
        /\ answer' = [answer EXCEPT ![t] = Done]
     \/ /\ answer' = [answer EXCEPT ![t] = Error("error")]
        /\ UNCHANGED sub
  /\ UNCHANGED <<s, arg, ret, out, step, returned, arrived>>

(* s = ...                                                                 *)
Store(t) ==
  /\ step[t] = "returned"
  /\ s' = ret[t]
  /\ step' = [step EXCEPT ![t] = "stored"]
  /\ UNCHANGED <<locals, results, sub, arrived>>

(* Mutant: whatever the build, the test reads what other threads write.    *)
TestedShared(t) == s

(* ... != NATS_OK                                                          *)
Tested(t) == IF Reload THEN s ELSE ret[t]

Success(t) ==
  CASE op[t] = "next_msg"      -> Message(out[t])
    [] op[t] = "get_delivered" -> Count(out[t])
    [] OTHER                   -> Done

(* The function returns a; its locals end with it.                         *)
Leave(t, a) ==
  /\ answer' = [answer EXCEPT ![t] = a]
  /\ ret' = [ret EXCEPT ![t] = "ok"]
  /\ out' = [out EXCEPT ![t] = 0]
  /\ step' = [step EXCEPT ![t] = "idle"]

Succeed(t) ==
  /\ Leave(t, Success(t))
  /\ returned' = IF op[t] = "next_msg" THEN Append(returned, out[t]) ELSE returned

(* Mutant: the functions that return nothing do not look at the status.    *)
TestForgotten(t) ==
  /\ step[t] = "stored"
  /\ \/ Success(t) = Done /\ Succeed(t)
     \/ Success(t) # Done /\ Tested(t) = "ok" /\ Succeed(t)
     \/ /\ Success(t) # Done /\ Tested(t) # "ok"
        /\ step' = [step EXCEPT ![t] = "failing"]
        /\ UNCHANGED <<ret, out, results>>
  /\ UNCHANGED <<s, op, arg, sub, arrived>>

(* Mutant: a function whose C call failed calls it again.                  *)
TestRetries(t) ==
  /\ step[t] = "stored"
  /\ \/ Tested(t) = "ok" /\ Succeed(t)
     \/ /\ Tested(t) # "ok"
        /\ step' = [step EXCEPT ![t] = "called"]
        /\ UNCHANGED <<ret, out, results>>
  /\ UNCHANGED <<s, op, arg, sub, arrived>>

Test(t) ==
  /\ step[t] = "stored"
  /\ \/ Tested(t) = "ok" /\ Succeed(t)
     \/ /\ Tested(t) # "ok"
        /\ step' = [step EXCEPT ![t] = "failing"]
        /\ UNCHANGED <<ret, out, results>>
  /\ UNCHANGED <<s, op, arg, sub, arrived>>

(* return unexpected(NatsError(s, ...))                                    *)
Fail(t) ==
  /\ step[t] = "failing"
  /\ Leave(t, Error(s))
  /\ UNCHANGED <<s, op, arg, returned, sub, arrived>>

Consume(t) == next_msg(t) \/ natsSubscription_NextMsg(t)

Control(t) ==
  \/ auto_unsunscribe(t) \/ natsSubscription_AutoUnsubscribe(t)
  \/ set_pending_limits(t) \/ natsSubscription_SetPendingLimits(t)
  \/ drain(t) \/ drain_timeout(t) \/ natsSubscription_Drain(t)
  \/ wait_for_drain_completion(t) \/ natsSubscription_WaitForDrainCompletion(t)
  \/ get_delivered(t) \/ natsSubscription_GetDelivered(t)
  \/ unsubscribe(t)

Next ==
  \/ MessageArrives \/ DrainEnds
  \/ \E t \in Consumers : Consume(t)
  \/ \E t \in Controllers : Control(t)
  \/ \E t \in Threads : Store(t) \/ Test(t) \/ Fail(t)

(* Once the subscription has ended the C library wakes the calls that wait *)
(* on it, and a thread inside a function keeps running.  Nobody has to     *)
(* call, no message has to arrive and no timeout to end.                   *)
Woken(t) ==
  ~Open(sub) /\ (natsSubscription_NextMsg(t) \/ natsSubscription_WaitForDrainCompletion(t))

Fairness == \A t \in Threads : WF_vars(Woken(t)) /\ WF_vars(Store(t) \/ Test(t) \/ Fail(t))

Spec == Init /\ [][Next]_vars /\ Fairness

-----------------------------------------------------------------------------
(* In particular next_msg never returns a view of a null message.          *)
TypeOK ==
  /\ s \in Status
  /\ op \in [Threads -> Functions \union {"none"}]
  /\ arg \in [Threads -> 0 .. MaxMsgs]
  /\ step \in [Threads -> {"idle", "called", "returned", "stored", "failing"}]
  /\ ret \in [Threads -> Status]
  /\ out \in [Threads -> 0 .. MaxMsgs]
  /\ answer \in [Threads -> Answers]
  /\ returned \in Seq(Msgs)
  /\ sub \in SubscriptionOf(Msgs)
  /\ arrived \in 0 .. MaxMsgs

(* The calls to next_msg that hold a message taken from the C library.     *)
Holds(t) ==
  op[t] = "next_msg" /\ ret[t] = "ok" /\ step[t] \in {"returned", "stored", "failing"}

Holders(m) == {t \in Threads : Holds(t) /\ out[t] = m}

Places(m) ==
  {<<"queued", k>> : k \in {j \in DOMAIN sub.pending : sub.pending[j] = m}}
    \union {<<"returned", k>> : k \in {j \in DOMAIN returned : returned[j] = m}}
    \union {<<"dropped", d>> : d \in sub.dropped \intersect {m}}
    \union {<<"held", t>> : t \in Holders(m)}

(* Every message that reached the subscription is at every moment in       *)
(* exactly one place: queued, dropped at the limit, in the hands of one    *)
(* call to next_msg, or returned to a caller.  next_msg loses nothing and  *)
(* returns nothing twice, whatever limits, maxima and drains meanwhile do. *)
NothingLost == \A m \in 1 .. arrived : Cardinality(Places(m)) = 1

(* After auto_unsunscribe(max) succeeded, a message is handed out only if  *)
(* fewer than max were handed out before: a failure is not taken for a     *)
(* success, whatever the other threads store in s.                         *)
Promised(t) == answer[t] = Done /\ op[t] = "auto_unsunscribe" /\ step[t] = "idle"

AtMostMax ==
  [][\A t \in Threads :
       Controllers = {t} /\ Promised(t) /\ sub'.delivered # sub.delivered =>
         sub.delivered < arg[t]]_vars

(* A caller whom wait_for_drain_completion told that the drain is complete *)
(* is right: the subscription has ended, and if the drain ended it, every  *)
(* message that arrived was consumed or dropped at the limit.              *)
DrainTold ==
  \A t \in Threads :
    answer[t] = Done /\ op[t] = "wait_for_drain_completion" /\ step[t] = "idle" =>
      /\ ~Open(sub)
      /\ sub.end = "drained" =>
           \A m \in 1 .. arrived :
             Holders(m) # {} \/ m \in sub.dropped \/ \E i \in DOMAIN returned : returned[i] = m

(* The end of the subscription ends the calls that wait on it, however     *)
(* long their timeout: next_msg with an error, and                         *)
(* wait_for_drain_completion with success.                                 *)
Waiting(t) ==
  /\ ~Open(sub) /\ step[t] = "called"
  /\ op[t] = "next_msg" \/ (op[t] = "wait_for_drain_completion" /\ sub.drain # "no")

EndWakesCallers ==
  \A t \in Threads :
    Waiting(t) ~>
      step[t] = "idle" /\ IF op[t] = "next_msg" THEN answer[t].kind = "error" ELSE answer[t] = Done
=============================================================================
