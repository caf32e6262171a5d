------------------------------ MODULE KvBucket ------------------------------
(***************************************************************************)
(* The key-value calls of NatsClient on one bucket, by several threads     *)
(* that have a client each or share one, statement by statement.  Every    *)
(* function has the shape                                                  *)
(*                                                                         *)
(*     if ((s = kvStore_X(..., key.data(), ...)) != NATS_OK)               *)
(*         return unexpected(NatsError(s, ...));                           *)
(*     return ...;                                                         *)
(*                                                                         *)
(* with s a member of the client, so calls that overlap on one client race *)
(* on it.  The test finds s as it is in memory in an unoptimised build     *)
(* (reload), and the value just returned in an optimised one;              *)
(* NatsError(s, ...) reads memory in both.                                 *)
(*                                                                         *)
(* A call sends a request and waits for the reply for a finite time.       *)
(* Request, reply or both may be lost or late; a request whose caller no   *)
(* longer waits may still be dealt with.  asked is a call in the words of  *)
(* its caller, sent what the C library reads through data().               *)
(***************************************************************************)
EXTENDS CString, CBucket, FiniteSets

CONSTANTS
  Threads,     (* the threads that call the client                         *)
  Managers,    (* the ones among them that call kvs_... functions          *)
  KeyViews,    (* the views they pass as keys                              *)
  ByteViews,   (* the spans they pass as data                              *)
  StringViews, (* the views they pass as string values                     *)
  MaxRemovals, (* bound on the deletions of keys and of the bucket         *)
  MaxLate      (* bound on the timed-out requests still on their way       *)

ASSUME ManagersAssumption == Managers \subseteq Threads
ASSUME ViewsAssumption == \A v \in KeyViews \union StringViews : Terminated(v)
ASSUME BoundsAssumption == MaxRemovals \in Nat /\ MaxLate \in Nat

Status == {"ok", "timeout", "error"}    \* "error": any other, e.g. NATS_NOT_FOUND
Steps == {"idle", "called", "returned", "stored", "failing"}
Local == {"config", "init"}             \* C calls that send nothing

Keys == {Text(k) : k \in KeyViews}
SentKeys == {Reads(k) : k \in KeyViews}
Values == {Text(d) : d \in ByteViews \union StringViews}
None == <<>>                            \* no key, no value

(* The null pointer is not a string of bytes.                              *)
ASSUME NullAssumption == NULL \notin Keys \union Values

NoCall == Request("none", None, None)

Entry(v) == [kind |-> "entry", what |-> v]
Done(r) == [kind |-> "done", what |-> IF r.kind = "create" THEN r.key ELSE NULL]
Nothing == [kind |-> "nothing", what |-> NULL]
Error(status) == [kind |-> "error", what |-> status]

VARIABLES
  client,     (* client[t]: the client t uses, named after a user of it    *)
  reload,     (* the build: the test of the status reads s again           *)
  s,          (* s[c]: the member NatsClient::s of client c                *)
  step,       (* step[t]: how far t is in a call                           *)
  asked,      (* asked[t]: what t's call is asked to do                    *)
  sent,       (* sent[t]: what the C library is asked to do for it         *)
  ret,        (* ret[t]: what the C call returned to t                     *)
  e,          (* e[t]: the value of the local kvEntry* of kv_get           *)
  overlapped, (* overlapped[t]: history, another call on its client met it *)
  answer,     (* answer[t]: what t's last call returned, Nothing during one*)
  bucket,     (* the bucket in the server                                  *)
  late        (* timed-out requests on their way: [asked, sent]            *)

call == <<asked, sent>>
server == <<bucket, late>>
vars == <<client, reload, s, step, call, ret, e, overlapped, answer, server>>

Init ==
  /\ client \in {[t \in Threads |-> t], [t \in Threads |-> CHOOSE u \in Threads : TRUE]}
  /\ reload \in BOOLEAN
  /\ s = [c \in Threads |-> "ok"]           \* what connect and jet_stream left
  /\ step = [t \in Threads |-> "idle"]
  /\ asked = [t \in Threads |-> NoCall]
  /\ sent = asked
  /\ ret = [t \in Threads |-> "ok"]
  /\ e = [t \in Threads |-> NULL]
  /\ overlapped = [t \in Threads |-> FALSE]
  /\ answer = [t \in Threads |-> Nothing]
  /\ bucket = Opened(Keys \union SentKeys)  \* the stores were created or bound
  /\ late = {}

-----------------------------------------------------------------------------
(* The C call of t returns.                                                *)
Return(t, status, value) ==
  /\ ret' = [ret EXCEPT ![t] = status]
  /\ e' = [e EXCEPT ![t] = value]
  /\ step' = [step EXCEPT ![t] = "returned"]
  /\ UNCHANGED <<client, reload, s, call, overlapped, answer>>

(* kvConfig_Init and kvWatchOptions_Init.                                  *)
LocalCall(t) ==
  /\ step[t] = "called" /\ sent[t].kind \in Local
  /\ \E status \in {"ok", "error"} : Return(t, status, NULL)
  /\ UNCHANGED server

(* The server deals with t's request, and the reply reaches t.             *)
Reply(t) ==
  LET r == sent[t] IN
  /\ step[t] = "called" /\ r.kind \notin Local
  /\ \/ /\ Granted(bucket, r)
        /\ bucket' = After(bucket, r)
        /\ Return(t, "ok", IF r.kind = "get" THEN bucket.map[r.key] ELSE NULL)
     \/ UNCHANGED bucket /\ Return(t, "error", NULL)
  /\ bucket'.removals <= MaxRemovals
  /\ UNCHANGED late

(* t waits no longer, and the request, or the reply, is lost or late.  A   *)
(* reply that is lost needs no step of its own: t cannot tell it from a    *)
(* late request that the server deals with as soon as t has given up.      *)
Timeout(t) ==
  /\ step[t] = "called" /\ sent[t].kind \notin Local
  /\ Return(t, "timeout", NULL)
  /\ \/ UNCHANGED late
     \/ /\ sent[t].kind \in Writes /\ Cardinality(late) < MaxLate
        /\ late' = late \union {[asked |-> asked[t], sent |-> sent[t]]}
  /\ UNCHANGED bucket

(* The server deals with a late request, or drops it.                      *)
LateRequest(r) ==
  /\ late' = late \ {r}
  /\ \/ Granted(bucket, r.sent) /\ bucket' = After(bucket, r.sent)
     \/ UNCHANGED bucket
  /\ bucket'.removals <= MaxRemovals
  /\ UNCHANGED <<client, reload, s, step, call, ret, e, overlapped, answer>>

C(t) == LocalCall(t) \/ Reply(t) \/ Timeout(t)

-----------------------------------------------------------------------------
(* A thread calls the client, and meets the other calls on it.             *)
Call(t, a, r) ==
  /\ step[t] = "idle"
  /\ asked' = [asked EXCEPT ![t] = a]
  /\ sent' = [sent EXCEPT ![t] = r]
  /\ step' = [step EXCEPT ![t] = "called"]
  /\ LET inside == {u \in Threads : step'[u] # "idle" /\ client[u] = client[t]}
     IN overlapped' = [u \in Threads |-> overlapped[u] \/ (u \in inside /\ inside # {u})]
  /\ answer' = [answer EXCEPT ![t] = Nothing]
  /\ UNCHANGED <<client, reload, s, ret, e, server>>

OnBucket(t, kind) == Call(t, Request(kind, None, None), Request(kind, None, None))

OnKey(t, kind) ==
  \E k \in KeyViews : Call(t, Request(kind, Text(k), None), Request(kind, Reads(k), None))

(* kvs_create begins with kvs_config_init and refuses an empty name.       *)
kvs_create(t) == Call(t, Request("open", None, None), Request("config", None, None))

kvs_create_unnamed(t) ==
  /\ step[t] = "idle"
  /\ answer' = [answer EXCEPT ![t] = Error("error")]
  /\ UNCHANGED <<client, reload, s, step, call, ret, e, overlapped, server>>

kvs_delete(t) == OnBucket(t, "drop")

(* Of what these return only the handle matters elsewhere.                 *)
kvs_bind(t) == OnBucket(t, "look")
kvs_watch(t) == OnBucket(t, "look")
kvs_keys(t) == OnBucket(t, "look")
kvs_config_init(t) == OnBucket(t, "init")
kvs_watch_options(t) == OnBucket(t, "init")

kv_get(t) == OnKey(t, "get")
kv_delete(t) == OnKey(t, "delete")

(* Values that are passed with their size, and values that are not.        *)
WithBytes(t, kind) ==
  \E k \in KeyViews, d \in ByteViews :
    Call(t, Request(kind, Text(k), Text(d)), Request(kind, Reads(k), Text(d)))

WithString(t, kind) ==
  \E k \in KeyViews, d \in StringViews :
    Call(t, Request(kind, Text(k), Text(d)), Request(kind, Reads(k), Reads(d)))

kv_create_string(t) == WithString(t, "create")
kv_put_string(t) == WithString(t, "put")

(* Mutant: kv_create puts.                                                 *)
CreateOverwrites(t) ==
  \E k \in KeyViews, d \in ByteViews :
    Call(t, Request("create", Text(k), Text(d)), Request("put", Reads(k), Text(d)))
kv_create(t) == WithBytes(t, "create")

(* Mutant: the data is passed without its size.                            *)
PutWithoutSize(t) ==
  \E k \in KeyViews, d \in ByteViews :
    Call(t, Request("put", Text(k), Text(d)), Request("put", Reads(k), Reads(d)))
kv_put(t) == WithBytes(t, "put")

-----------------------------------------------------------------------------
(* The call of t returns a to its caller, and its locals are gone.         *)
Leave(t, a) ==
  /\ answer' = [answer EXCEPT ![t] = a]
  /\ step' = [step EXCEPT ![t] = "idle"]
  /\ asked' = [asked EXCEPT ![t] = NoCall]
  /\ sent' = [sent EXCEPT ![t] = NoCall]
  /\ ret' = [ret EXCEPT ![t] = "ok"]
  /\ e' = [e EXCEPT ![t] = NULL]
  /\ overlapped' = [overlapped EXCEPT ![t] = FALSE]

(* s = ...                                                                 *)
Store(t) ==
  /\ step[t] = "returned"
  /\ s' = [s EXCEPT ![client[t]] = ret[t]]
  /\ step' = [step EXCEPT ![t] = "stored"]
  /\ UNCHANGED <<client, reload, call, ret, e, overlapped, answer, server>>

(* Mutant: whatever the build, the test reads what other threads write.    *)
TestedShared(t) == s[client[t]]

(* The status that is compared with NATS_OK.                               *)
Tested(t) == IF reload THEN s[client[t]] ELSE ret[t]

(* ... != NATS_OK, and a return, or the next C call, if it is not.         *)
Test(t) ==
  /\ step[t] = "stored"
  /\ \/ /\ Tested(t) # "ok"
        /\ step' = [step EXCEPT ![t] = "failing"]
        /\ UNCHANGED <<call, ret, e, overlapped, answer>>
     \/ /\ Tested(t) = "ok" /\ sent[t].kind = "config"
        /\ sent' = [sent EXCEPT ![t] = asked[t]]
        /\ step' = [step EXCEPT ![t] = "called"]
        /\ UNCHANGED <<asked, ret, e, overlapped, answer>>
     \/ /\ Tested(t) = "ok" /\ sent[t].kind # "config"
        /\ Leave(t, IF sent[t].kind = "get" THEN Entry(e[t]) ELSE Done(asked[t]))
  /\ UNCHANGED <<client, reload, s, server>>

(* return unexpected(NatsError(s, ...))                                    *)
Fail(t) ==
  /\ step[t] = "failing"
  /\ Leave(t, Error(s[client[t]]))
  /\ UNCHANGED <<client, reload, s, server>>

Manage(t) ==
  \/ kvs_create(t) \/ kvs_create_unnamed(t) \/ kvs_bind(t) \/ kvs_watch(t)
  \/ kvs_delete(t) \/ kvs_keys(t) \/ kvs_config_init(t) \/ kvs_watch_options(t)

Use(t) ==
  \/ kv_get(t) \/ kv_delete(t)
  \/ kv_create(t) \/ kv_create_string(t) \/ kv_put(t) \/ kv_put_string(t)

Next ==
  \/ \E t \in Managers : Manage(t)
  \/ \E t \in Threads : Use(t) \/ C(t) \/ Store(t) \/ Test(t) \/ Fail(t)
  \/ \E r \in late : LateRequest(r)

Spec == Init /\ [][Next]_vars

(* What is claimed below is claimed where a test cannot meet the status of *)
(* another call: in optimised builds, and in all builds if every thread    *)
(* has a client of its own.  Neither client nor reload ever changes.       *)
OwnClients == \A t, u \in Threads : client[t] = client[u] => t = u
OwnStatus == ~reload \/ OwnClients

-----------------------------------------------------------------------------
Asked ==
  [kind : {"open", "drop", "look", "init"}, key : {None}, value : {None}]
    \union [kind : {"get", "delete"}, key : Keys, value : {None}]
    \union [kind : {"put", "create"}, key : Keys, value : Values]

Answers ==
  {Nothing} \union [kind : {"entry"}, what : Values] \union [kind : {"done"}, what : Keys \union {NULL}]
    \union [kind : {"error"}, what : Status]

TypeOK ==
  /\ client \in [Threads -> Threads]
  /\ reload \in BOOLEAN
  /\ s \in [Threads -> Status]
  /\ step \in [Threads -> Steps]
  /\ asked \in [Threads -> Asked \union {NoCall}]
  /\ \A t \in Threads : sent[t].kind \in {asked[t].kind, "config"}
  /\ ret \in [Threads -> Status]
  /\ e \in [Threads -> Values \union {NULL}]
  /\ overlapped \in [Threads -> BOOLEAN]
  /\ answer \in [Threads -> Answers]
  /\ bucket \in [exists : BOOLEAN, map : [Keys \union SentKeys -> Values \union {NULL}],
                removals : 0 .. MaxRemovals]
  /\ \A r \in late : r.asked \in Asked /\ r.sent.kind \in Writes
  /\ Cardinality(late) <= MaxLate

(* "Places the value for the key into the store if and only if the key     *)
(* does not exist", Client.hpp 318: of several threads that created a key, *)
(* and were told so, all but one need a deletion.                          *)
Creators(k) ==
  {t \in Threads : answer[t] = Done(Request("create", k, None))}

OneCreator == \A k \in Keys : Cardinality(Creators(k)) <= 1 + bucket.removals

(* "Places the new value for the key into the store", Client.hpp 386, and  *)
(* 318 for kv_create: a call that stores a value stores it under the key   *)
(* that its caller named, and under no other.                              *)
PutPlacesItsKey == \A k \in DOMAIN bucket.map : bucket.map[k] # NULL => k \in Keys

(* The calls implement KvMap: on keys and values as their callers spell    *)
(* them each takes effect at one instant while it runs, or not at all if   *)
(* it is answered with an error, or at most once later if it timed out;    *)
(* a call that met no other on its client is told its own status.          *)
Returned(t) == step[t] \in {"returned", "stored", "failing"}

Served(t) ==
  CASE ~Returned(t)                  -> Nothing
    [] Returned(t) /\ ret[t] # "ok" -> Error(ret[t])
    [] OTHER ->
         CASE sent[t].kind = "config" -> Nothing
           [] sent[t].kind = "get"    -> Entry(e[t])
           [] OTHER                   -> Done(asked[t])

M == INSTANCE KvMap
       WITH Requests <- Asked,
            Absent <- NULL,
            exists <- bucket.exists,
            map <- [k \in Keys |-> bucket.map[k]],
            request <- asked,
            served <- [t \in Threads |-> Served(t)],
            late <- {r.asked : r \in late}

ImplementsMap == M!Spec
=============================================================================
