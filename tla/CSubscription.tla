--------------------------- MODULE CSubscription ---------------------------
(***************************************************************************)
(* The C library's subscription (natsSubscription) as far as               *)
(* SubscriptionSync.hpp and the latency benchmark rely on it: a queue with *)
(* a pending limit, that counts what it delivers and drops, and that a     *)
(* maximum, a drain or an unsubscribe ends.  A subscription is a record;   *)
(* the operators give the subscription that a call or a message leaves     *)
(* behind.  The modules that use it own the threads and the messages.      *)
(***************************************************************************)
EXTENDS Naturals, Sequences

(* How a subscription ended: its drain took out the last message, or       *)
(* something cut it short; "none" while it is open.                        *)
Ends == {"none", "drained", "cut"}

SubscriptionOf(Msgs) ==
  [pending : Seq(Msgs),     \* the queue, oldest first
   dropped : SUBSET Msgs,   \* what found the queue full
   delivered : Nat,         \* how many messages it handed out
   limit : Nat,             \* pending limit; 0: none
   max : Nat,               \* auto-unsubscribe after so many; 0: never
   drain : {"no", "yes", "timed"},
   end : Ends]

Subscribed ==
  [pending |-> <<>>, dropped |-> {}, delivered |-> 0, limit |-> 0, max |-> 0,
   drain |-> "no", end |-> "none"]

Open(sub) == sub.end = "none"

Full(sub) == sub.limit # 0 /\ Len(sub.pending) >= sub.limit

(* A message reaches an open subscription.                                 *)
Arrive(sub, m) ==
  IF Full(sub) THEN [sub EXCEPT !.dropped = @ \union {m}]
               ELSE [sub EXCEPT !.pending = Append(@, m)]

(* NextMsg hands out the oldest message.                                   *)
Take(sub) ==
  [sub EXCEPT !.pending = Tail(@), !.delivered = @ + 1,
              !.end = IF sub.max # 0 /\ sub.delivered + 1 >= sub.max THEN "cut" ELSE @]

AutoUnsubscribe(sub, max) ==
  [sub EXCEPT !.max = max, !.end = IF max <= sub.delivered THEN "cut" ELSE @]

SetPendingLimit(sub, limit) == [sub EXCEPT !.limit = limit]

(* Drain and DrainTimeout: a drain under way goes on as it is.             *)
Drain(sub, how) == IF sub.drain = "no" THEN [sub EXCEPT !.drain = how] ELSE sub

Unsubscribe(sub) == [sub EXCEPT !.end = "cut"]

(* A drain ends with the last message; one with a timeout, at any moment.  *)
Drainable(sub) == Open(sub) /\ sub.drain # "no" /\ sub.pending = <<>>
Expirable(sub) == Open(sub) /\ sub.drain = "timed" /\ sub.pending # <<>>
Drained(sub) == [sub EXCEPT !.end = "drained"]
Expired(sub) == [sub EXCEPT !.end = "cut"]
=============================================================================
