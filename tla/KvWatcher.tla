----------------------------- MODULE KvWatcher -----------------------------
(***************************************************************************)
(* One KvWatcher used by several threads: next and stop, statement by      *)
(* statement.  Both store the status of the C call in the member s and     *)
(* read it back, so two calls that overlap race on it: the steps Store,    *)
(* Test and Fail of different threads interleave.                          *)
(*                                                                         *)
(* `if ((s = kvWatcher_Next(...)) != NATS_OK)` tests s as found in memory  *)
(* in an unoptimised build (Reload = TRUE) and the value just returned in  *)
(* an optimised one (Reload = FALSE); NatsError(s, ...) reads memory in    *)
(* both.                                                                   *)
(*                                                                         *)
(* The C library's watcher is modelled by what next and stop rely on: a    *)
(* queue of updates with one null entry where the initial state ends, and  *)
(* a stopped flag that wakes waiting calls.                                *)
(***************************************************************************)
EXTENDS Naturals, Sequences, FiniteSets

CONSTANTS
  Threads,     (* the threads that use the watcher                         *)
  Consumers,   (* the ones among them that call next                       *)
  MaxUpdates,  (* bound on the updates of the bucket                       *)
  Reload,      (* TRUE: the test of the status reads the member s again    *)
  NULL         (* the null pointer                                         *)

ASSUME ThreadsAssumption == Consumers \subseteq Threads
ASSUME UpdatesAssumption == MaxUpdates \in Nat /\ NULL \notin 1 .. MaxUpdates
ASSUME ReloadAssumption == Reload \in BOOLEAN

Updates == 1 .. MaxUpdates
Status == {"ok", "timeout", "illegal_state", "stop_failed"}
Steps == {"idle", "called", "returned", "stored", "failing"}

(* The returned expected: an entry, nullopt, void, or a NatsError.         *)
Entry(u) == [kind |-> "entry", what |-> u]
Initial == [kind |-> "initial", what |-> NULL]
Stopped == [kind |-> "stopped", what |-> NULL]
Error(status) == [kind |-> "error", what |-> status]
Nothing == [kind |-> "nothing", what |-> NULL]
Answers ==
  [kind : {"entry"}, what : Updates] \union {Initial, Stopped, Nothing}
    \union [kind : {"error"}, what : Status]

VARIABLES
  s,          (* the member KvWatcher::s                                   *)
  op,         (* op[t]: the member function t is in, or was in last        *)
  step,       (* step[t]: how far t is in it                               *)
  ret,        (* ret[t]: what the C call returned to t                     *)
  e,          (* e[t]: the local kvEntry* of next                          *)
  overlapped, (* overlapped[t]: history, another call met the one t is in  *)
  answer,     (* answer[t]: what t's last call returned to its caller      *)
  delivered,  (* delivered[t]: what next returned to t without error       *)
  pending,    (* the C watcher's queue; NULL ends the initial state        *)
  log,        (* everything that was ever in it                            *)
  stopped     (* the C watcher has been stopped                            *)

locals == <<op, ret, e>>
watcher == <<pending, log, stopped>>
vars == <<s, locals, step, overlapped, answer, delivered, watcher>>

Init ==
  /\ s \in Status                              \* nothing initialises it
  /\ op = [t \in Threads |-> "none"]
  /\ step = [t \in Threads |-> "idle"]
  /\ ret = [t \in Threads |-> "ok"]
  /\ e = [t \in Threads |-> NULL]
  /\ overlapped = [t \in Threads |-> FALSE]
  /\ answer = [t \in Threads |-> Nothing]
  /\ delivered = [t \in Threads |-> <<>>]
  /\ \E n \in 0 .. MaxUpdates : log = [i \in 1 .. n |-> i] \o <<NULL>>
  /\ pending = log
  /\ stopped = FALSE

-----------------------------------------------------------------------------
(* The bucket gets its u-th update.                                        *)
Put(u) ==
  /\ Len(log) = u
  /\ log' = Append(log, u)
  /\ pending' = Append(pending, u)
  /\ UNCHANGED <<s, locals, step, overlapped, answer, delivered, stopped>>

(* The C call of next ends: it is woken by stop, takes the oldest entry,   *)
(* or times out on an empty queue.                                         *)
Woken(t) ==
  /\ step[t] = "called" /\ op[t] = "next"
  /\ stopped
  /\ ret' = [ret EXCEPT ![t] = "illegal_state"]
  /\ step' = [step EXCEPT ![t] = "returned"]
  /\ UNCHANGED <<s, op, e, overlapped, answer, delivered, watcher>>

Taken(t) ==
  /\ step[t] = "called" /\ op[t] = "next"
  /\ ~stopped /\ pending # <<>>
  /\ ret' = [ret EXCEPT ![t] = "ok"]
  /\ e' = [e EXCEPT ![t] = Head(pending)]
  /\ pending' = Tail(pending)
  /\ step' = [step EXCEPT ![t] = "returned"]
  /\ UNCHANGED <<s, op, overlapped, answer, delivered, log, stopped>>

TimedOut(t) ==
  /\ step[t] = "called" /\ op[t] = "next"
  /\ ~stopped /\ pending = <<>>
  /\ ret' = [ret EXCEPT ![t] = "timeout"]
  /\ step' = [step EXCEPT ![t] = "returned"]
  /\ UNCHANGED <<s, op, e, overlapped, answer, delivered, watcher>>

kvWatcher_Next(t) == Woken(t) \/ Taken(t) \/ TimedOut(t)

kvWatcher_Stop(t) ==
  /\ step[t] = "called" /\ op[t] = "stop"
  /\ \/ stopped' = TRUE /\ ret' = [ret EXCEPT ![t] = "ok"]
     \/ ret' = [ret EXCEPT ![t] = "stop_failed"] /\ UNCHANGED stopped
  /\ step' = [step EXCEPT ![t] = "returned"]
  /\ UNCHANGED <<s, op, e, overlapped, answer, delivered, pending, log>>

-----------------------------------------------------------------------------
(* A thread enters next or stop, and meets the calls others are in.        *)
Meet ==
  LET inside == {u \in Threads : step'[u] # "idle"}
  IN overlapped' = [u \in Threads |-> overlapped[u] \/ (u \in inside /\ inside # {u})]

(* What is noted of a call goes with it.                                   *)
Part(t) == overlapped' = [overlapped EXCEPT ![t] = FALSE]

next(t) ==
  /\ step[t] = "idle"
  /\ op' = [op EXCEPT ![t] = "next"]
  /\ e' = [e EXCEPT ![t] = NULL]
  /\ step' = [step EXCEPT ![t] = "called"]
  /\ Meet
  /\ UNCHANGED <<s, ret, answer, delivered, watcher>>

stop(t) ==
  /\ step[t] = "idle"
  /\ op' = [op EXCEPT ![t] = "stop"]
  /\ step' = [step EXCEPT ![t] = "called"]
  /\ Meet
  /\ UNCHANGED <<s, ret, e, answer, delivered, watcher>>

(* Mutant: the status of the C call is not stored.                         *)
StoreForgotten(t) ==
  /\ step[t] = "returned"
  /\ step' = [step EXCEPT ![t] = "stored"]
  /\ UNCHANGED <<s, locals, overlapped, answer, delivered, watcher>>

(* s = ...                                                                 *)
Store(t) ==
  /\ step[t] = "returned"
  /\ s' = ret[t]
  /\ step' = [step EXCEPT ![t] = "stored"]
  /\ UNCHANGED <<locals, overlapped, answer, delivered, watcher>>

(* Mutant: whatever the build, the test reads what other threads write.    *)
TestedShared(t) == s

(* ... != NATS_OK, and the ways to leave the function if it is not.        *)
Tested(t) == IF Reload THEN s ELSE ret[t]

(* Mutant: next does not return nullopt for a null entry.                  *)
TestWithoutNull(t) ==
  /\ step[t] = "stored"
  /\ \/ /\ Tested(t) # "ok"
        /\ step' = [step EXCEPT ![t] = "failing"]
        /\ UNCHANGED <<overlapped, answer, delivered>>
     \/ /\ Tested(t) = "ok"
        /\ answer' = [answer EXCEPT ![t] = IF op[t] = "stop" THEN Stopped ELSE Entry(e[t])]
        /\ delivered' = IF op[t] = "stop" THEN delivered
                         ELSE [delivered EXCEPT ![t] = Append(@, e[t])]
        /\ step' = [step EXCEPT ![t] = "idle"]
        /\ Part(t)
  /\ UNCHANGED <<s, locals, watcher>>

Test(t) ==
  /\ step[t] = "stored"
  /\ \/ /\ Tested(t) # "ok"
        /\ step' = [step EXCEPT ![t] = "failing"]
        /\ UNCHANGED <<overlapped, answer, delivered>>
     \/ /\ Tested(t) = "ok" /\ op[t] = "next"
        /\ answer' = [answer EXCEPT ![t] = IF e[t] = NULL THEN Initial ELSE Entry(e[t])]
        /\ delivered' = [delivered EXCEPT ![t] = Append(@, e[t])]
        /\ step' = [step EXCEPT ![t] = "idle"]
        /\ Part(t)
     \/ /\ Tested(t) = "ok" /\ op[t] = "stop"
        /\ answer' = [answer EXCEPT ![t] = Stopped]
        /\ step' = [step EXCEPT ![t] = "idle"]
        /\ Part(t)
        /\ UNCHANGED delivered
  /\ UNCHANGED <<s, locals, watcher>>

(* return unexpected(NatsError(s, ...))                                    *)
Fail(t) ==
  /\ step[t] = "failing"
  /\ answer' = [answer EXCEPT ![t] = Error(s)]
  /\ step' = [step EXCEPT ![t] = "idle"]
  /\ Part(t)
  /\ UNCHANGED <<s, locals, delivered, watcher>>

Next ==
  \/ \E u \in Updates : Put(u)
  \/ \E t \in Consumers : next(t) \/ kvWatcher_Next(t)
  \/ \E t \in Threads : stop(t) \/ kvWatcher_Stop(t) \/ Store(t) \/ Test(t) \/ Fail(t)

(* A stopped C watcher wakes the calls that wait on it, and a thread       *)
(* inside next or stop keeps running; nobody has to call, to put, or to    *)
(* have its timeout end.                                                   *)
Fairness ==
  \A t \in Threads : WF_vars(Woken(t)) /\ WF_vars(Store(t) \/ Test(t) \/ Fail(t))

Spec == Init /\ [][Next]_vars /\ Fairness

-----------------------------------------------------------------------------
TypeOK ==
  /\ s \in Status
  /\ op \in [Threads -> {"none", "next", "stop"}]
  /\ step \in [Threads -> Steps]
  /\ ret \in [Threads -> Status]
  /\ e \in [Threads -> Updates \union {NULL}]
  /\ overlapped \in [Threads -> BOOLEAN]
  /\ answer \in [Threads -> Answers]
  /\ delivered \in [Threads -> Seq(Updates \union {NULL})]
  /\ pending \in Seq(Updates \union {NULL})
  /\ log \in Seq(Updates \union {NULL})
  /\ stopped \in BOOLEAN

(* The calls to next that hold something taken from the C watcher.         *)
Returned(t) == step[t] \in {"returned", "stored", "failing"}

Holds(t) == Returned(t) /\ op[t] = "next" /\ ret[t] = "ok"

Places(x) ==
  {<<NULL, k>> : k \in {j \in DOMAIN pending : pending[j] = x}}
    \union (UNION {{<<t, k>> : k \in {j \in DOMAIN delivered[t] : delivered[t][j] = x}} : t \in Threads})
    \union {<<t, 0>> : t \in {u \in Threads : Holds(u) /\ e[u] = x}}

(* Whatever the C watcher ever had, an update or the end of the initial    *)
(* state, is at every moment in exactly one place: queued, in the hands of *)
(* one call to next, or returned to a caller.  No update is dropped or     *)
(* returned twice, and the end of the initial state is announced once.     *)
ExactlyOnce == \A i \in DOMAIN log : Cardinality(Places(log[i])) = 1

(* Each consumer sees the bucket's history in order, its share of it if    *)
(* there are several, and the end of the initial state only where it is;   *)
(* what is still queued comes later than all that was returned.            *)
Position(x) == CHOOSE i \in DOMAIN log : log[i] = x

Seen(t) == delivered[t] \o (IF Holds(t) THEN <<e[t]>> ELSE <<>>) \o pending

InOrder ==
  \A t \in Consumers : \A j, k \in DOMAIN Seen(t) :
    j < k => Position(Seen(t)[j]) < Position(Seen(t)[k])

(* "After this call, new and existing calls to next will return error with *)
(* NATS_ILLEGAL_STATE", Kv.hpp 232-233: a call that the C library answered *)
(* with this status returns this error.                                    *)
StopEndsNext ==
  \A t \in Threads :
    step[t] = "idle" /\ op[t] = "next" /\ ret[t] = "illegal_state" =>
      answer[t] = Error("illegal_state")

(* A call to next that waits when stop takes effect comes back with an     *)
(* error, however long its timeout.                                        *)
StopWakesNext ==
  \A t \in Consumers :
    stopped /\ op[t] = "next" /\ step[t] = "called" ~>
      step[t] = "idle" /\ answer[t].kind = "error"

(* The watcher keeps WatchContract: a call takes effect at one instant,    *)
(* what it took is what its caller gets, an error is never mistaken for    *)
(* success or the reverse, and a call that met no other call is told its   *)
(* own status.  In unoptimised builds this needs calls not to overlap.     *)
Told(t) ==
  CASE ~Returned(t)                                    -> Nothing
    [] Returned(t) /\ ret[t] # "ok"                    -> Error(ret[t])
    [] Returned(t) /\ ret[t] = "ok" /\ op[t] = "stop"  -> Stopped
    [] OTHER -> IF e[t] = NULL THEN Initial ELSE Entry(e[t])

W == INSTANCE WatchContract
       WITH call <- [t \in Threads |-> IF step[t] = "idle" THEN "none" ELSE op[t]],
            served <- [t \in Threads |-> Told(t)]

ImplementsContract == W!Spec
=============================================================================
