------------------------------- MODULE KvMap -------------------------------
(***************************************************************************)
(* What the key-value calls of NatsClient promise: a map from keys to      *)
(* values on which every call takes effect at one instant between its      *)
(* start and its end, or not at all.  Success means that it did, and any   *)
(* error but "timeout" that it did not.  A call that timed out may still   *)
(* take effect later, at most once.                                        *)
(*                                                                         *)
(* Calls on one client that overlap share its status: they are told        *)
(* whether they succeeded, but the status of an error may be another one.  *)
(***************************************************************************)
EXTENDS Naturals, FiniteSets

CONSTANTS
  Threads,   (* the callers                                                *)
  Keys,      (* the keys, as the callers spell them                        *)
  Requests,  (* the calls: kind, key and value                             *)
  MaxLate,   (* bound on the timed-out calls that are still to take effect *)
  NoCall,    (* no call, not among Requests                                *)
  Absent     (* no value                                                   *)

Status == {"ok", "timeout", "error"}
Done(r) == [kind |-> "done", what |-> IF r.kind = "create" THEN r.key ELSE Absent]
Entry(v) == [kind |-> "entry", what |-> v]
Error(status) == [kind |-> "error", what |-> status]
Nothing == [kind |-> "nothing", what |-> Absent]

VARIABLES
  exists,     (* there is a bucket                                         *)
  map,        (* map[k]: the value of key k                                *)
  client,     (* client[t]: the client object t uses                       *)
  request,    (* request[t]: the call t is in                              *)
  overlapped, (* overlapped[t]: another call on its client met it          *)
  served,     (* served[t]: what it came to, Nothing before that           *)
  late,       (* timed-out calls that may still take effect                *)
  answer      (* answer[t]: what t was told last, Nothing during a call    *)

bucket == <<exists, map>>
vars == <<bucket, client, request, overlapped, served, late, answer>>

Init ==
  /\ exists = TRUE
  /\ map = [k \in Keys |-> Absent]
  /\ client \in [Threads -> Threads]
  /\ request = [t \in Threads |-> NoCall]
  /\ overlapped = [t \in Threads |-> FALSE]
  /\ served = [t \in Threads |-> Nothing]
  /\ late = {}
  /\ answer = [t \in Threads |-> Nothing]

-----------------------------------------------------------------------------
Possible(r) ==
  CASE r.kind \in {"open", "init"}                  -> TRUE
    [] r.kind \in {"look", "drop", "put", "delete"} -> exists
    [] r.kind = "get"                               -> map[r.key] # Absent
    [] r.kind = "create"                            -> exists /\ map[r.key] = Absent

(* The change call r makes at its instant.                                 *)
Effect(r) ==
  \/ r.kind = "open" /\ exists' = TRUE /\ UNCHANGED map
  \/ r.kind = "drop" /\ exists' = FALSE /\ map' = [k \in Keys |-> Absent]
  \/ r.kind \in {"put", "create"} /\ map' = [map EXCEPT ![r.key] = r.value] /\ UNCHANGED exists
  \/ r.kind = "delete" /\ map' = [map EXCEPT ![r.key] = Absent] /\ UNCHANGED exists
  \/ r.kind \in {"look", "get", "init"} /\ UNCHANGED bucket

Success(r) == IF r.kind = "get" THEN Entry(map[r.key]) ELSE Done(r)

Begin(t) ==
  /\ request[t] = NoCall
  /\ request'[t] \in Requests
  /\ request' = [request EXCEPT ![t] = request'[t]]
  /\ LET inside == {u \in Threads : request'[u] # NoCall /\ client[u] = client[t]}
     IN overlapped' = [u \in Threads |-> overlapped[u] \/ (u \in inside /\ inside # {u})]
  /\ answer' = [answer EXCEPT ![t] = Nothing]
  /\ UNCHANGED <<bucket, client, served, late>>

(* A call with an argument that cannot be meant is refused on the spot.    *)
Reject(t) ==
  /\ request[t] = NoCall
  /\ answer' = [answer EXCEPT ![t] = Error("error")]
  /\ UNCHANGED <<bucket, client, request, overlapped, served, late>>

TakeEffect(t) ==
  /\ request[t] # NoCall /\ served[t] = Nothing
  /\ Possible(request[t])
  /\ Effect(request[t])
  /\ served' = [served EXCEPT ![t] = Success(request[t])]
  /\ UNCHANGED <<client, request, overlapped, late, answer>>

Refuse(t) ==
  /\ request[t] # NoCall /\ served[t] = Nothing
  /\ served' = [served EXCEPT ![t] = Error("error")]
  /\ UNCHANGED <<bucket, client, request, overlapped, late, answer>>

TimeOut(t) ==
  /\ request[t] # NoCall /\ served[t] = Nothing
  /\ served' = [served EXCEPT ![t] = Error("timeout")]
  /\ late' = late \/ late' = late \union {request[t]}
  /\ Cardinality(late') <= MaxLate
  /\ UNCHANGED <<bucket, client, request, overlapped, answer>>

TakeLateEffect(r) ==
  /\ r \in late
  /\ late' = late \ {r}
  /\ (Possible(r) /\ Effect(r)) \/ UNCHANGED bucket
  /\ UNCHANGED <<client, request, overlapped, served, answer>>

Tell(t) ==
  /\ served[t] # Nothing
  /\ \/ answer'[t] = served[t]
     \/ overlapped[t] /\ served[t].kind = "error" /\ answer'[t].kind = "error"
  /\ answer' = [answer EXCEPT ![t] = answer'[t]]
  /\ request' = [request EXCEPT ![t] = NoCall]
  /\ overlapped' = [overlapped EXCEPT ![t] = FALSE]
  /\ served' = [served EXCEPT ![t] = Nothing]
  /\ UNCHANGED <<bucket, client, late>>

Next ==
  \/ \E t \in Threads :
       Begin(t) \/ Reject(t) \/ TakeEffect(t) \/ Refuse(t) \/ TimeOut(t) \/ Tell(t)
  \/ \E r \in late : TakeLateEffect(r)

Spec == Init /\ [][Next]_vars
=============================================================================
