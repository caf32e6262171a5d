--------------------------- MODULE WatchContract ---------------------------
(***************************************************************************)
(* What a watcher of a key-value bucket promises its callers: a call takes *)
(* effect at one instant between its start and its end (Serve), and the    *)
(* caller is told what happened at that instant (Tell): exactly, if no     *)
(* other call overlapped it; otherwise the status of an error, and only    *)
(* that, may be another one.  Updates are handed out in the order of the   *)
(* bucket, the end of the initial state is announced in its place among    *)
(* them, and once stop has taken effect every call to next fails.          *)
(***************************************************************************)
EXTENDS Naturals, Sequences

CONSTANTS
  Threads,     (* the threads that use the watcher                         *)
  Consumers,   (* the ones among them that call next                       *)
  MaxUpdates,  (* bound on the updates of the bucket                       *)
  NULL         (* the null entry: the initial state has been retrieved     *)

Updates == 1 .. MaxUpdates

(* What a caller can be told: an update, the end of the initial state,     *)
(* success (of stop), or an error and its status.                          *)
Status == {"ok", "timeout", "illegal_state", "stop_failed"}
Entry(u) == [kind |-> "entry", what |-> u]
Initial == [kind |-> "initial", what |-> NULL]
Stopped == [kind |-> "stopped", what |-> NULL]
Error(status) == [kind |-> "error", what |-> status]
Nothing == [kind |-> "nothing", what |-> NULL]

VARIABLES
  pending,   (* what the bucket has for the watcher, oldest first          *)
  log,       (* everything the bucket ever had for it                      *)
  stopped,   (* stop has taken effect                                      *)
  call,      (* call[t]: "next" or "stop" while t waits, else "none"       *)
  overlapped,(* overlapped[t]: another call met the one t is in            *)
  served,    (* served[t]: what t's call came to, Nothing before that      *)
  answer     (* answer[t]: what t was told last                            *)

vars == <<pending, log, stopped, call, overlapped, served, answer>>

Answered(x) == IF x = NULL THEN Initial ELSE Entry(x)

Init ==
  /\ \E n \in 0 .. MaxUpdates : log = [i \in 1 .. n |-> i] \o <<NULL>>
  /\ pending = log
  /\ stopped = FALSE
  /\ call = [t \in Threads |-> "none"]
  /\ overlapped = [t \in Threads |-> FALSE]
  /\ served = [t \in Threads |-> Nothing]
  /\ answer = [t \in Threads |-> Nothing]

Put(u) ==
  /\ Len(log) = u                          \* the u-th update follows u - 1
  /\ log' = Append(log, u)
  /\ pending' = Append(pending, u)
  /\ UNCHANGED <<stopped, call, overlapped, served, answer>>

Begin(t, f) ==
  /\ call[t] = "none"
  /\ call' = [call EXCEPT ![t] = f]
  /\ overlapped' = [u \in Threads |->
                      overlapped[u] \/ \E v \in Threads \ {u} : call'[u] # "none" /\ call'[v] # "none"]
  /\ UNCHANGED <<pending, log, stopped, served, answer>>

ServeNext(t) ==
  /\ call[t] = "next" /\ served[t] = Nothing
  /\ \/ /\ stopped
        /\ served' = [served EXCEPT ![t] = Error("illegal_state")]
        /\ UNCHANGED pending
     \/ /\ ~stopped /\ pending # <<>>
        /\ served' = [served EXCEPT ![t] = Answered(Head(pending))]
        /\ pending' = Tail(pending)
     \/ /\ ~stopped /\ pending = <<>>
        /\ served' = [served EXCEPT ![t] = Error("timeout")]
        /\ UNCHANGED pending
  /\ UNCHANGED <<log, stopped, call, overlapped, answer>>

ServeStop(t) ==
  /\ call[t] = "stop" /\ served[t] = Nothing
  /\ \/ stopped' = TRUE /\ served' = [served EXCEPT ![t] = Stopped]
     \/ served' = [served EXCEPT ![t] = Error("stop_failed")] /\ UNCHANGED stopped
  /\ UNCHANGED <<pending, log, call, overlapped, answer>>

Tell(t) ==
  /\ served[t] # Nothing
  /\ \/ answer' = [answer EXCEPT ![t] = served[t]]
     \/ /\ overlapped[t] /\ served[t].kind = "error"
        /\ \E status \in Status : answer' = [answer EXCEPT ![t] = Error(status)]
  /\ call' = [call EXCEPT ![t] = "none"]
  /\ overlapped' = [overlapped EXCEPT ![t] = FALSE]
  /\ served' = [served EXCEPT ![t] = Nothing]
  /\ UNCHANGED <<pending, log, stopped>>

Next ==
  \/ \E u \in Updates : Put(u)
  \/ \E t \in Consumers : Begin(t, "next") \/ ServeNext(t)
  \/ \E t \in Threads : Begin(t, "stop") \/ ServeStop(t) \/ Tell(t)

Spec == Init /\ [][Next]_vars
=============================================================================
