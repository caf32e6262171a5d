---------------------------- MODULE KvBucketProofs ----------------------------
(***************************************************************************)
(* Proofs about KvBucket, for any threads, clients, keys and values, when  *)
(* every view that is passed without its size is a whole string            *)
(* (WholeViews) and the test of a status cannot meet the status of another *)
(* call (OwnStatus).  Without the first a call stores under another key    *)
(* than the one its caller named, which the run kv_views shows; without    *)
(* the second a call may take the failure of another for its own.          *)
(*                                                                         *)
(* Besides the types the invariant has three parts: what a thread inside a *)
(* call can rely on (Inner), what the requests that nobody waits for are   *)
(* (Lost), and that those who created a key, and were or will be told so,  *)
(* are accounted for by the deletions and the key that is there (Counted). *)
(* With it every step is shown to be a step of KvMap, or none.             *)
(***************************************************************************)
EXTENDS KvBucket, FiniteSetTheorems, TLAPS

WholeViews == \A v \in KeyViews \union StringViews : Reads(v) = Text(v)

Buckets == [exists : BOOLEAN, map : [Keys -> Values \union {NULL}], removals : Nat]
Config == Request("config", None, None)

Inside(t) == step[t] # "idle"

(* What the C library is asked to do is what t asked for, or comes first;  *)
(* the status in s is the one of t's call unless another call met it, and  *)
(* the one that t tests is its own in any case.                            *)
Inner ==
  /\ OwnStatus
  /\ sent \in [Threads -> Asked \union {NoCall, Config}]
  /\ \A t \in Threads :
      /\ asked[t] = NoCall <=> ~Inside(t)
      /\ sent[t] = asked[t] \/ (sent[t] = Config /\ asked[t].kind = "open")
      /\ step[t] = "failing" => ret[t] # "ok"
      /\ step[t] \in {"stored", "failing"} /\ ~overlapped[t] => s[client[t]] = ret[t]
      /\ step[t] = "stored" => Tested(t) = ret[t]
      /\ step[t] \in {"returned", "stored"} /\ ret[t] = "ok" /\ sent[t].kind = "get" => e[t] \in Values
      /\ \A u \in Threads :
           Inside(t) /\ Inside(u) /\ t # u /\ client[t] = client[u] => overlapped[t]

Lost ==
  /\ IsFiniteSet(late)
  /\ \A r \in late : r = [asked |-> r.asked, sent |-> r.asked] /\ r.asked.kind \in Writes

(* Who created k and will be told so.                                      *)
Creating(k) ==
  {t \in Threads :
     /\ step[t] \in {"returned", "stored"} /\ ret[t] = "ok"
     /\ asked[t].kind = "create" /\ asked[t].key = k}

Created(k) == Creators(k) \union Creating(k)

There(b, k) == IF b.map[k] = NULL THEN 0 ELSE 1

Counted ==
  \A k \in Keys :
    IsFiniteSet(Created(k)) /\ Cardinality(Created(k)) <= bucket.removals + There(bucket, k)

IInv == TypeOK /\ Inner /\ Lost /\ Counted

-----------------------------------------------------------------------------
(* Calls, answers and buckets.                                             *)
LEMMA AskedFields ==
  /\ \A a \in Asked :
       /\ a.kind \in {"open", "drop", "look", "init", "get", "delete", "put", "create"}
       /\ a.kind \in {"get", "delete", "put", "create"} => a.key \in Keys
       /\ a.kind \in {"put", "create"} => a.value \in Values
       /\ a # NoCall
  /\ NoCall.kind = "none" /\ Config.kind = "config"
  BY DEF Asked, NoCall, Config, Request

LEMMA Requests ==
  /\ \A kind \in {"open", "drop", "look", "init"} : Request(kind, None, None) \in Asked
  /\ \A kind \in {"get", "delete"}, k \in Keys : Request(kind, k, None) \in Asked
  /\ \A kind \in {"put", "create"}, k \in Keys, d \in Values : Request(kind, k, d) \in Asked
  /\ Request("open", None, None).kind = "open"
  BY DEF Asked, Request

LEMMA AnswerTypes ==
  /\ Nothing \in Answers
  /\ \A v \in Values : Entry(v) \in Answers
  /\ \A a \in Asked : Done(a) \in Answers
  /\ \A status \in Status : Error(status) \in Answers
  <1>1. ASSUME NEW a \in Asked PROVE Done(a) \in Answers
    BY AskedFields DEF Done, Answers
  <1>2. QED
    BY <1>1 DEF Answers, Nothing, Entry, Error

(* Who is told of a creation has created.                                  *)
LEMMA DoneOf ==
  ASSUME NEW k \in Keys
  PROVE  /\ Done(Request("create", k, None)) = [kind |-> "done", what |-> k]
         /\ \A a \in Asked :
              Done(a) = Done(Request("create", k, None)) <=> a.kind = "create" /\ a.key = k
         /\ Nothing # Done(Request("create", k, None))
         /\ \A v : Entry(v) # Done(Request("create", k, None))
         /\ \A status : Error(status) # Done(Request("create", k, None))
  <1>1. Done(Request("create", k, None)) = [kind |-> "done", what |-> k]
    BY DEF Done, Request
  <1>2. k # NULL
    BY NullAssumption
  <1>3. ASSUME NEW a \in Asked
        PROVE  Done(a) = [kind |-> "done", what |-> k] <=> a.kind = "create" /\ a.key = k
    BY <1>2 DEF Done
  <1>4. QED
    BY <1>1, <1>3 DEF Nothing, Entry, Error

LEMMA WholeKeys ==
  ASSUME WholeViews
  PROVE  /\ SentKeys = Keys
         /\ \A k \in KeyViews : Reads(k) = Text(k) /\ Text(k) \in Keys
         /\ \A d \in StringViews : Reads(d) = Text(d) /\ Text(d) \in Values
         /\ \A d \in ByteViews : Text(d) \in Values
  BY DEF WholeViews, SentKeys, Keys, Values

(* What a granted request makes of a bucket.                               *)
Makes(b, r, a) ==
  \/ r.kind = "open" /\ a.exists = TRUE /\ a.map = b.map /\ a.removals = b.removals
  \/ /\ r.kind = "drop" /\ a.exists = FALSE /\ a.map = [k \in Keys |-> NULL]
     /\ a.removals = b.removals + 1
  \/ /\ r.kind \in {"put", "create"} /\ a.exists = b.exists /\ a.removals = b.removals
     /\ a.map = [b.map EXCEPT ![r.key] = r.value]
     /\ r.kind = "create" => b.map[r.key] = NULL
  \/ /\ r.kind = "delete" /\ a.exists = b.exists /\ a.map = [b.map EXCEPT ![r.key] = NULL]
     /\ a.removals = b.removals + There(b, r.key)
  \/ r.kind \in {"look", "get"} /\ a = b

LEMMA GrantedMakes ==
  ASSUME NEW b \in Buckets, NEW r \in Asked, Granted(b, r)
  PROVE  After(b, r) \in Buckets /\ Makes(b, r, After(b, r))
  <1> USE AskedFields DEF Buckets, Makes
  <1>1. CASE r.kind = "open"
    BY <1>1 DEF After
  <1>2. CASE r.kind = "drop"
    BY <1>2 DEF After
  <1>3. CASE r.kind \in {"put", "create"}
    <2>1. After(b, r) = [b EXCEPT !.map[r.key] = r.value]
      BY <1>3 DEF After
    <2>2. r.key \in Keys /\ r.value \in Values
      BY <1>3
    <2>3. r.kind = "create" => b.map[r.key] = NULL
      BY DEF Granted
    <2>4. /\ After(b, r).exists = b.exists /\ After(b, r).removals = b.removals
          /\ After(b, r).map = [b.map EXCEPT ![r.key] = r.value]
      BY <2>1
    <2>5. After(b, r) \in Buckets
      <3> DEFINE map == [b.map EXCEPT ![r.key] = r.value]
      <3>1. map \in [Keys -> Values \union {NULL}]
        BY <2>2
      <3>2. After(b, r) = [b EXCEPT !.map = map]
        BY <2>1
      <3> HIDE DEF map
      <3>3. QED
        BY <3>1, <3>2
    <2>6. QED
      BY <1>3, <2>3, <2>4, <2>5
  <1>4. CASE r.kind = "delete" /\ b.map[r.key] # NULL
    <2>1. After(b, r) = [b EXCEPT !.map[r.key] = NULL, !.removals = b.removals + 1]
      BY <1>4 DEF After
    <2>2. After(b, r) \in Buckets
      <3> DEFINE map == [b.map EXCEPT ![r.key] = NULL]
      <3>1. map \in [Keys -> Values \union {NULL}]
        BY <1>4
      <3>2. After(b, r) = [exists |-> b.exists, map |-> map, removals |-> b.removals + 1]
        BY <2>1
      <3> HIDE DEF map
      <3>3. QED
        BY <3>1, <3>2
    <2>3. /\ After(b, r).exists = b.exists /\ After(b, r).removals = b.removals + 1
          /\ After(b, r).map = [b.map EXCEPT ![r.key] = NULL]
      BY <2>1
    <2>4. There(b, r.key) = 1
      BY <1>4 DEF There
    <2>5. QED
      BY <1>4, <2>2, <2>3, <2>4
  <1>5. CASE r.kind = "delete" /\ b.map[r.key] = NULL
    <2>1. After(b, r) = b
      BY <1>5 DEF After
    <2>2. b.map = [b.map EXCEPT ![r.key] = NULL] /\ There(b, r.key) = 0
      BY <1>5 DEF There
    <2>3. QED
      BY <1>5, <2>1, <2>2
  <1>6. CASE r.kind \in {"look", "get"}
    BY <1>6 DEF After
  <1>7. CASE r.kind = "init"
    BY <1>7 DEF Granted
  <1>8. QED
    BY <1>1, <1>2, <1>3, <1>4, <1>5, <1>6, <1>7

-----------------------------------------------------------------------------
(* t enters a call, with what it asks for and what the C library is asked. *)
Enters(t, a, r) ==
  /\ a \in Asked
  /\ r = a \/ (r = Config /\ a.kind = "open")
  /\ Call(t, a, r)

LEMMA NextCases ==
  ASSUME WholeViews, Next
  PROVE  \/ \E t \in Threads : \/ \E a, r : Enters(t, a, r)
                               \/ kvs_create_unnamed(t) \/ C(t)
                               \/ Store(t) \/ Test(t) \/ Fail(t)
         \/ \E r \in late : LateRequest(r)
  <1> DEFINE Entering(t) == \E a, r : Enters(t, a, r)
  <1>1. ASSUME NEW t, NEW a \in Asked, Call(t, a, a) PROVE Entering(t)
    <2>1. Enters(t, a, a)
      BY <1>1 DEF Enters
    <2>2. QED
      BY <2>1
  <1>2. ASSUME NEW t, NEW kind \in {"drop", "look", "init"}, OnBucket(t, kind) PROVE Entering(t)
    BY <1>1, <1>2, Requests DEF OnBucket
  <1>3. ASSUME NEW t, NEW kind \in {"get", "delete"}, OnKey(t, kind) PROVE Entering(t)
    <2>1. PICK k \in KeyViews : Call(t, Request(kind, Text(k), None), Request(kind, Reads(k), None))
      BY <1>3 DEF OnKey
    <2>2. Reads(k) = Text(k) /\ Request(kind, Text(k), None) \in Asked
      BY WholeKeys, Requests
    <2>3. QED
      BY <1>1, <2>1, <2>2
  <1>4. ASSUME NEW t, NEW kind \in {"put", "create"}, WithBytes(t, kind) PROVE Entering(t)
    <2>1. PICK k \in KeyViews, d \in ByteViews :
            Call(t, Request(kind, Text(k), Text(d)), Request(kind, Reads(k), Text(d)))
      BY <1>4 DEF WithBytes
    <2>2. Reads(k) = Text(k) /\ Request(kind, Text(k), Text(d)) \in Asked
      BY WholeKeys, Requests
    <2>3. QED
      BY <1>1, <2>1, <2>2
  <1>5. ASSUME NEW t, NEW kind \in {"put", "create"}, WithString(t, kind) PROVE Entering(t)
    <2>1. PICK k \in KeyViews, d \in StringViews :
            Call(t, Request(kind, Text(k), Text(d)), Request(kind, Reads(k), Reads(d)))
      BY <1>5 DEF WithString
    <2>2. /\ Reads(k) = Text(k) /\ Reads(d) = Text(d)
          /\ Request(kind, Text(k), Text(d)) \in Asked
      BY WholeKeys, Requests
    <2>3. QED
      BY <1>1, <2>1, <2>2
  <1>6. ASSUME NEW t, kvs_create(t) PROVE Entering(t)
    <2>1. Enters(t, Request("open", None, None), Config)
      BY <1>6, Requests DEF kvs_create, Enters, Config
    <2>2. QED
      BY <2>1
  <1> HIDE DEF Entering
  <1>7. ASSUME NEW t, Use(t) PROVE Entering(t)
    BY <1>7, <1>3, <1>4, <1>5
    DEF Use, kv_get, kv_delete, kv_create, kv_create_string, kv_put, kv_put_string
  <1>8. ASSUME NEW t, Manage(t) PROVE Entering(t) \/ kvs_create_unnamed(t)
    BY <1>8, <1>2, <1>6
    DEF Manage, kvs_bind, kvs_watch, kvs_delete, kvs_keys, kvs_config_init, kvs_watch_options
  <1>9. QED
    BY <1>7, <1>8, ManagersAssumption DEF Next, Entering

(* What the C library and the server make of the call of t: it fails; it   *)
(* was one that sends nothing; it is granted; or it times out, and may be  *)
(* late.                                                                   *)
Outcome(t, status, value) ==
  \/ status = "error" /\ UNCHANGED server /\ value = NULL
  \/ /\ status = "ok" /\ sent[t].kind \in Local /\ UNCHANGED server /\ value = NULL
  \/ /\ status = "ok" /\ sent[t] = asked[t] /\ Granted(bucket, asked[t]) /\ late' = late
     /\ bucket' = After(bucket, asked[t]) /\ bucket'.removals <= MaxRemovals
     /\ value = IF asked[t].kind = "get" THEN bucket.map[asked[t].key] ELSE NULL
  \/ /\ status = "timeout" /\ sent[t] = asked[t] /\ bucket' = bucket /\ value = NULL
     /\ \/ late' = late
        \/ /\ asked[t].kind \in Writes /\ Cardinality(late) < MaxLate
           /\ late' = late \union {[asked |-> asked[t], sent |-> asked[t]]}

LEMMA LibraryStep ==
  ASSUME Inner, NEW t \in Threads, C(t)
  PROVE  \E status, value :
           /\ status \in Status
           /\ step[t] = "called"
           /\ step' = [step EXCEPT ![t] = "returned"]
           /\ ret' = [ret EXCEPT ![t] = status]
           /\ e' = [e EXCEPT ![t] = value]
           /\ Outcome(t, status, value)
           /\ UNCHANGED <<client, reload, s, call, overlapped, answer>>
  <1> DEFINE Comes(status, value) ==
               /\ step[t] = "called"
               /\ step' = [step EXCEPT ![t] = "returned"]
               /\ ret' = [ret EXCEPT ![t] = status]
               /\ e' = [e EXCEPT ![t] = value]
               /\ Outcome(t, status, value)
               /\ UNCHANGED <<client, reload, s, call, overlapped, answer>>
             Goal == \E status, value : status \in Status /\ Comes(status, value)
  <1> SUFFICES Goal
    OBVIOUS
  <1>1. ASSUME NEW status \in Status, NEW value,
               Return(t, status, value), step[t] = "called", Outcome(t, status, value)
        PROVE  Goal
    <2>1. Comes(status, value)
      BY <1>1 DEF Return
    <2> HIDE DEF Comes
    <2>2. QED
      BY <2>1
  <1> HIDE DEF Goal
  <1>2. sent[t].kind \notin Local => sent[t] = asked[t]
    BY AskedFields DEF Inner, Local
  <1>3. CASE LocalCall(t)
    <2>1. PICK status \in {"ok", "error"} : Return(t, status, NULL)
      BY <1>3 DEF LocalCall
    <2>2. Outcome(t, status, NULL) /\ status \in Status
      BY <1>3, <2>1 DEF LocalCall, Outcome, Status
    <2>3. QED
      BY <1>1, <1>3, <2>1, <2>2 DEF LocalCall
  <1>4. CASE Reply(t)
    <2>1. step[t] = "called" /\ sent[t] = asked[t] /\ late' = late
      BY <1>2, <1>4 DEF Reply
    <2>2. CASE bucket' = bucket /\ Return(t, "error", NULL)
      <3>1. Outcome(t, "error", NULL) /\ "error" \in Status
        BY <2>1, <2>2 DEF Outcome, Status, server
      <3>2. QED
        BY <1>1, <2>1, <2>2, <3>1
    <2>3. CASE ~(bucket' = bucket /\ Return(t, "error", NULL))
      <3> DEFINE value == IF asked[t].kind = "get" THEN bucket.map[asked[t].key] ELSE NULL
      <3>1. /\ Granted(bucket, asked[t]) /\ bucket' = After(bucket, asked[t])
            /\ Return(t, "ok", value) /\ bucket'.removals <= MaxRemovals
        BY <1>4, <2>1, <2>3 DEF Reply
      <3>2. Outcome(t, "ok", value) /\ "ok" \in Status
        BY <2>1, <3>1 DEF Outcome, Status
      <3> HIDE DEF value
      <3>3. QED
        BY <1>1, <2>1, <3>1, <3>2
    <2>4. QED
      BY <2>2, <2>3
  <1>5. CASE Timeout(t)
    <2>1. /\ step[t] = "called" /\ sent[t] = asked[t] /\ bucket' = bucket
          /\ Return(t, "timeout", NULL)
      BY <1>2, <1>5 DEF Timeout
    <2>2. Outcome(t, "timeout", NULL) /\ "timeout" \in Status
      BY <1>5, <2>1 DEF Timeout, Outcome, Status
    <2>3. QED
      BY <1>1, <2>1, <2>2
  <1>6. QED
    BY <1>3, <1>4, <1>5 DEF C

LEMMA BucketTypes ==
  ASSUME WholeViews, NEW b
  PROVE  b \in [exists : BOOLEAN, map : [Keys \union SentKeys -> Values \union {NULL}],
                removals : 0 .. MaxRemovals]
           <=> b \in Buckets /\ b.removals <= MaxRemovals
  <1>1. Keys \union SentKeys = Keys
    BY WholeKeys
  <1>2. \A n : n \in 0 .. MaxRemovals <=> n \in Nat /\ n <= MaxRemovals
    BY BoundsAssumption
  <1>3. QED
    BY <1>1, <1>2 DEF Buckets

LEMMA LateTypes ==
  ASSUME Lost, NEW a \in Asked, a.kind \in Writes, NEW r, r = [asked |-> a, sent |-> a]
  PROVE  /\ IsFiniteSet(late \union {r})
         /\ Cardinality(late) < MaxLate => Cardinality(late \union {r}) <= MaxLate
         /\ \A q \in late \union {r} : q = [asked |-> q.asked, sent |-> q.asked] /\ q.asked.kind \in Writes
  <1>1. /\ IsFiniteSet(late \union {r}) /\ Cardinality(late) \in Nat
        /\ Cardinality(late \union {r}) = IF r \in late THEN Cardinality(late) ELSE Cardinality(late) + 1
    BY FS_AddElement, FS_CardinalityType DEF Lost
  <1>2. QED
    BY <1>1, BoundsAssumption DEF Lost

-----------------------------------------------------------------------------
LEMMA InitIInv ==
  ASSUME WholeViews, OwnStatus, Init
  PROVE  IInv
  <1>1. TypeOK
    <2>1. client \in [Threads -> Threads]
      BY DEF Init
    <2>2. bucket \in Buckets /\ bucket.removals <= MaxRemovals
      BY WholeKeys, BoundsAssumption DEF Init, Opened, Buckets
    <2>3. late = {} /\ Cardinality(late) <= MaxLate
      BY FS_EmptySet, BoundsAssumption DEF Init
    <2>4. \A t \in Threads : sent[t].kind \in {asked[t].kind, "config"}
      BY DEF Init
    <2>5. QED
      BY <2>1, <2>2, <2>3, <2>4, BucketTypes, AnswerTypes DEF Init, TypeOK, Status, Steps
  <1>2. Inner /\ Lost
    BY FS_EmptySet, AskedFields DEF Init, Inner, Inside, Lost
  <1>3. Counted
    <2>1. ASSUME NEW k \in Keys PROVE Created(k) = {}
      BY DoneOf DEF Init, Created, Creators, Creating
    <2>2. bucket.removals = 0 /\ \A k \in Keys : There(bucket, k) = 0
      BY DEF Init, Opened, There
    <2>3. QED
      BY <2>1, <2>2, FS_EmptySet DEF Counted
  <1>4. QED
    BY <1>1, <1>2, <1>3 DEF IInv

LEMMA NextTypeOK ==
  ASSUME WholeViews, TypeOK, Inner, Lost, Next
  PROVE  TypeOK'
  <1> USE DEF TypeOK
  <1>a. bucket \in Buckets /\ bucket.removals <= MaxRemovals
    BY BucketTypes
  <1>b. \A t \in Threads : Inside(t) => asked[t] \in Asked
    BY DEF Inner
  <1>c. sent \in [Threads -> Asked \union {NoCall, Config}]
    BY DEF Inner
  <1>d. ASSUME NEW t \in Threads, NEW a \in Answers, Leave(t, a), UNCHANGED <<client, reload, server>>,
               s' \in [Threads -> Status]
        PROVE  TypeOK'
    <2>1. \A u \in Threads : sent'[u].kind \in {asked'[u].kind, "config"}
      BY <1>c, <1>d DEF Leave
    <2>2. QED
      BY <1>d, <2>1 DEF Leave, server, Steps, Status
  <1>1. ASSUME NEW t \in Threads, NEW a, NEW r, Enters(t, a, r) PROVE TypeOK'
    <2>1. /\ asked' = [asked EXCEPT ![t] = a] /\ sent' = [sent EXCEPT ![t] = r]
          /\ a \in Asked /\ r.kind \in {a.kind, "config"}
          /\ step' = [step EXCEPT ![t] = "called"]
          /\ answer' = [answer EXCEPT ![t] = Nothing]
          /\ UNCHANGED <<client, reload, s, ret, e, server>>
      BY <1>1, AskedFields DEF Enters, Call
    <2>2. overlapped' \in [Threads -> BOOLEAN]
      BY <1>1 DEF Enters, Call
    <2>3. \A u \in Threads : sent'[u].kind \in {asked'[u].kind, "config"}
      BY <1>c, <2>1
    <2>4. QED
      BY <2>1, <2>2, <2>3, AnswerTypes DEF Steps, server
  <1>2. ASSUME NEW t \in Threads, kvs_create_unnamed(t) PROVE TypeOK'
    BY <1>2, AnswerTypes DEF kvs_create_unnamed, call, server, Status
  <1>3. ASSUME NEW t \in Threads, C(t) PROVE TypeOK'
    <2>1. PICK status, value :
            /\ status \in Status
            /\ step[t] = "called"
            /\ step' = [step EXCEPT ![t] = "returned"]
            /\ ret' = [ret EXCEPT ![t] = status]
            /\ e' = [e EXCEPT ![t] = value]
            /\ Outcome(t, status, value)
            /\ UNCHANGED <<client, reload, s, call, overlapped, answer>>
      BY <1>3, LibraryStep
    <2>2. asked[t] \in Asked
      BY <1>b, <2>1 DEF Inside
    <2>3. value \in Values \union {NULL}
      <3>1. asked[t].kind = "get" => bucket.map[asked[t].key] \in Values \union {NULL}
        BY <1>a, <2>2, AskedFields DEF Buckets
      <3>2. QED
        BY <2>1, <3>1 DEF Outcome
    <2>4. bucket' \in Buckets /\ bucket'.removals <= MaxRemovals
      BY <1>a, <2>1, <2>2, GrantedMakes DEF Outcome, server
    <2>5. (\A r \in late' : r.asked \in Asked /\ r.sent.kind \in Writes) /\ Cardinality(late') <= MaxLate
      <3>1. CASE late' = late
        BY <3>1
      <3>2. CASE /\ asked[t].kind \in Writes /\ Cardinality(late) < MaxLate
                 /\ late' = late \union {[asked |-> asked[t], sent |-> asked[t]]}
        <4>1. Cardinality(late') <= MaxLate
          BY <2>2, <3>2, LateTypes
        <4>2. QED
          BY <2>2, <3>2, <4>1
      <3>3. QED
        BY <2>1, <3>1, <3>2 DEF Outcome, server
    <2>6. bucket' \in [exists : BOOLEAN, map : [Keys \union SentKeys -> Values \union {NULL}],
                       removals : 0 .. MaxRemovals]
      BY <2>4, BucketTypes
    <2>7. QED
      BY <2>1, <2>3, <2>5, <2>6 DEF call, Steps
  <1>4. ASSUME NEW t \in Threads, Test(t) PROVE TypeOK'
    <2>1. step[t] = "stored" /\ asked[t] \in Asked /\ Tested(t) = ret[t]
      BY <1>4, <1>b DEF Test, Inside, Inner
    <2>2. CASE ret[t] # "ok"
      BY <1>4, <2>1, <2>2 DEF Test, call, server, Steps
    <2>3. CASE ret[t] = "ok" /\ sent[t].kind = "config"
      <3>1. /\ sent' = [sent EXCEPT ![t] = asked[t]] /\ step' = [step EXCEPT ![t] = "called"]
            /\ UNCHANGED <<asked, ret, e, overlapped, answer, client, reload, s, bucket, late>>
        BY <1>4, <2>1, <2>3 DEF Test, server
      <3>2. \A u \in Threads : sent'[u].kind \in {asked'[u].kind, "config"}
        BY <1>c, <3>1
      <3>3. QED
        BY <3>1, <3>2 DEF Steps
    <2>4. CASE ret[t] = "ok" /\ sent[t].kind # "config"
      <3>1. (IF sent[t].kind = "get" THEN Entry(e[t]) ELSE Done(asked[t])) \in Answers
        BY <2>1, <2>4, AnswerTypes DEF Inner
      <3>2. QED
        BY <1>4, <2>1, <2>4, <3>1, <1>d DEF Test
    <2>5. QED
      BY <2>2, <2>3, <2>4
  <1>8. ASSUME NEW t \in Threads, Store(t) PROVE TypeOK'
    BY <1>8 DEF Store, call, server, Steps
  <1>5. ASSUME NEW t \in Threads, Fail(t) PROVE TypeOK'
    <2>1. Error(s[client[t]]) \in Answers
      BY AnswerTypes
    <2>2. QED
      BY <1>5, <2>1, <1>d DEF Fail
  <1>6. ASSUME NEW r \in late, LateRequest(r) PROVE TypeOK'
    <2>1. r.asked \in Asked /\ r.sent = r.asked
      <3>1. r = [asked |-> r.asked, sent |-> r.asked] /\ r.asked \in Asked
        BY <1>6 DEF Lost
      <3>2. QED
        BY <3>1
    <2>2. bucket' \in Buckets /\ bucket'.removals <= MaxRemovals
      BY <1>6, <1>a, <2>1, GrantedMakes DEF LateRequest
    <2>3. Cardinality(late') <= MaxLate
      <3>1. /\ Cardinality(late) \in Nat /\ late' = late \ {r}
            /\ Cardinality(late \ {r}) = Cardinality(late) - 1
        BY <1>6, FS_RemoveElement, FS_CardinalityType DEF LateRequest, Lost
      <3>2. QED
        BY <3>1, BoundsAssumption
    <2>4. bucket' \in [exists : BOOLEAN, map : [Keys \union SentKeys -> Values \union {NULL}],
                       removals : 0 .. MaxRemovals]
      BY <2>2, BucketTypes
    <2>5. QED
      BY <1>6, <2>3, <2>4 DEF LateRequest, call
  <1>7. QED
    BY <1>1, <1>2, <1>3, <1>4, <1>5, <1>6, <1>8, NextCases

(* Whoever is inside a call together with another on its client is noted.  *)
LEMMA EntersNotes ==
  ASSUME NEW t \in Threads, NEW a, NEW r, Enters(t, a, r), NEW u \in Threads
  PROVE  overlapped'[u] <=>
           \/ overlapped[u]
           \/ Inside(u)' /\ client[u] = client[t] /\ \E v \in Threads \ {u} : Inside(v)' /\ client[v] = client[t]
  <1> DEFINE inside == {v \in Threads : step'[v] # "idle" /\ client[v] = client[t]}
  <1>1. overlapped' = [w \in Threads |-> overlapped[w] \/ (w \in inside /\ inside # {w})]
    BY DEF Enters, Call
  <1>2. overlapped'[u] <=> overlapped[u] \/ (u \in inside /\ inside # {u})
    BY <1>1, Zenon
  <1>3. u \in inside /\ inside # {u} <=>
          Inside(u)' /\ client[u] = client[t] /\ \E v \in Threads \ {u} : Inside(v)' /\ client[v] = client[t]
    BY DEF Inside
  <1>4. QED
    BY <1>2, <1>3, Zenon

LEMMA NextInner ==
  ASSUME WholeViews, TypeOK, Inner, Next
  PROVE  Inner'
  <1> USE DEF TypeOK, Inner, Inside, Tested, OwnStatus, OwnClients
  <1>1. ASSUME NEW t \in Threads, NEW a, NEW r, Enters(t, a, r) PROVE Inner'
    <2>1. /\ asked' = [asked EXCEPT ![t] = a] /\ sent' = [sent EXCEPT ![t] = r]
          /\ step[t] = "idle" /\ step' = [step EXCEPT ![t] = "called"]
          /\ UNCHANGED <<client, reload, s, ret, e>>
      BY <1>1 DEF Enters, Call
    <2>2. a \in Asked /\ a # NoCall /\ (r = a \/ (r = Config /\ a.kind = "open"))
      BY <1>1, AskedFields DEF Enters
    <2>3. \A u \in Threads : overlapped[u] => overlapped'[u]
      BY <1>1, EntersNotes
    <2>4. ASSUME NEW u \in Threads, NEW v \in Threads,
                 step'[u] # "idle", step'[v] # "idle", u # v, client'[u] = client'[v]
          PROVE  overlapped'[u]
      <3>1. CASE client[u] = client[t]
        <4>1. Inside(u)' /\ v \in Threads \ {u} /\ Inside(v)' /\ client[v] = client[t]
          BY <2>1, <2>4, <3>1
        <4>2. QED
          BY <1>1, <3>1, <4>1, EntersNotes
      <3>2. CASE client[u] # client[t]
        <4>1. step[u] # "idle" /\ step[v] # "idle" /\ client[u] = client[v]
          BY <2>1, <2>4, <3>2
        <4>2. overlapped[u]
          BY <2>4, <4>1
        <4>3. QED
          BY <2>3, <4>2
      <3>3. QED
        BY <3>1, <3>2
    <2>t. ASSUME NEW u \in Threads, step'[u] = "stored" PROVE Tested(u)' = ret'[u]
      <3>1. u # t /\ step[u] = "stored"
        BY <2>1, <2>t
      <3>2. Tested(u) = ret[u]
        BY <3>1
      <3>3. QED
        BY <2>1, <3>2
    <2>5. ASSUME NEW u \in Threads
          PROVE  /\ asked'[u] = NoCall <=> ~(step'[u] # "idle")
                 /\ sent'[u] = asked'[u] \/ (sent'[u] = Config /\ asked'[u].kind = "open")
                 /\ step'[u] = "failing" => ret'[u] # "ok"
                 /\ step'[u] \in {"stored", "failing"} /\ ~overlapped'[u] => s'[client'[u]] = ret'[u]
                 /\ step'[u] \in {"returned", "stored"} /\ ret'[u] = "ok" /\ sent'[u].kind = "get" => e'[u] \in Values
      <3>1. CASE u = t
        BY <2>1, <2>2, <3>1
      <3>2. CASE u # t
        BY <2>1, <2>3, <3>2
      <3>3. QED
        BY <3>1, <3>2
    <2>6. sent' \in [Threads -> Asked \union {NoCall, Config}]
      BY <2>1, <2>2
    <2>7. QED
      BY <2>1, <2>4, <2>5, <2>6, <2>t
  <1>2. ASSUME NEW t \in Threads, kvs_create_unnamed(t) PROVE Inner'
    BY <1>2 DEF kvs_create_unnamed, call
  <1>3. ASSUME NEW t \in Threads, C(t) PROVE Inner'
    <2>1. PICK status, value :
            /\ status \in Status
            /\ step[t] = "called"
            /\ step' = [step EXCEPT ![t] = "returned"]
            /\ ret' = [ret EXCEPT ![t] = status]
            /\ e' = [e EXCEPT ![t] = value]
            /\ Outcome(t, status, value)
            /\ UNCHANGED <<client, reload, s, call, overlapped, answer>>
      BY <1>3, LibraryStep
    <2>2. status = "ok" /\ sent[t].kind = "get" => value \in Values
      <3>1. asked[t] \in Asked /\ bucket \in Buckets
        BY <2>1, BucketTypes
      <3>2. ASSUME status = "ok", sent[t].kind = "get" PROVE value \in Values
        <4>1. sent[t] = asked[t] /\ Granted(bucket, asked[t]) /\ value = bucket.map[asked[t].key]
          BY <2>1, <3>2 DEF Outcome, Local
        <4>2. asked[t].key \in Keys
          BY <3>1, <3>2, <4>1, AskedFields
        <4>3. bucket.map[asked[t].key] # NULL
          BY <3>2, <4>1 DEF Granted
        <4>4. QED
          BY <3>1, <4>1, <4>2, <4>3 DEF Buckets
      <3>3. QED
        BY <3>2
    <2>3. QED
      BY <2>1, <2>2 DEF call
  <1>4. ASSUME NEW t \in Threads, NEW a, Leave(t, a), step[t] # "idle",
               UNCHANGED <<client, reload, s>>
        PROVE  Inner'
    <2>1. /\ step' = [step EXCEPT ![t] = "idle"] /\ asked' = [asked EXCEPT ![t] = NoCall]
          /\ sent' = [sent EXCEPT ![t] = NoCall] /\ ret' = [ret EXCEPT ![t] = "ok"]
          /\ e' = [e EXCEPT ![t] = NULL] /\ overlapped' = [overlapped EXCEPT ![t] = FALSE]
      BY <1>4 DEF Leave
    <2>2. QED
      BY <1>4, <2>1
  <1>5. ASSUME NEW t \in Threads, Store(t) PROVE Inner'
    <2>1. /\ step[t] = "returned" /\ step' = [step EXCEPT ![t] = "stored"]
          /\ s' = [s EXCEPT ![client[t]] = ret[t]]
          /\ UNCHANGED <<client, reload, asked, sent, ret, e, overlapped>>
      BY <1>5 DEF Store, call
    <2>2. ASSUME NEW u \in Threads, step'[u] \in {"stored", "failing"}, ~overlapped[u]
          PROVE  s'[client[u]] = ret[u]
      <3>1. CASE u = t
        BY <2>1, <3>1
      <3>2. CASE u # t
        <4>1. client[u] # client[t] /\ step[u] \in {"stored", "failing"}
          BY <2>1, <2>2, <3>2
        <4>2. QED
          BY <2>1, <2>2, <4>1
      <3>3. QED
        BY <3>1, <3>2
    <2>3. ASSUME NEW u \in Threads, step'[u] = "stored" PROVE Tested(u)' = ret[u]
      <3>1. CASE ~reload
        BY <2>1, <3>1
      <3>2. CASE reload /\ u = t
        BY <2>1, <3>2
      <3>3. CASE reload /\ u # t
        <4>1. client[u] # client[t] /\ step[u] = "stored"
          BY <2>1, <2>3, <3>3
        <4>2. s[client[u]] = ret[u]
          BY <3>3, <4>1
        <4>3. QED
          BY <2>1, <3>3, <4>1, <4>2
      <3>4. QED
        BY <3>1, <3>2, <3>3
    <2> HIDE DEF Tested
    <2>4. QED
      BY <2>1, <2>2, <2>3
  <1>9. ASSUME NEW t \in Threads, Test(t) PROVE Inner'
    <2>1. step[t] = "stored" /\ Tested(t) = ret[t] /\ UNCHANGED <<client, reload, s, bucket, late>>
      BY <1>9 DEF Test, server
    <2>2. CASE ret[t] # "ok"
      <3>1. step' = [step EXCEPT ![t] = "failing"] /\ UNCHANGED <<asked, sent, ret, e, overlapped, answer>>
        BY <1>9, <2>1, <2>2 DEF Test, call
      <3>2. QED
        BY <2>1, <2>2, <3>1
    <2>3. CASE ret[t] = "ok" /\ sent[t].kind = "config"
      <3>1. /\ sent' = [sent EXCEPT ![t] = asked[t]] /\ step' = [step EXCEPT ![t] = "called"]
            /\ UNCHANGED <<asked, ret, e, overlapped, answer>>
        BY <1>9, <2>1, <2>3 DEF Test
      <3>2. QED
        BY <2>1, <2>3, <3>1
    <2>4. CASE ret[t] = "ok" /\ sent[t].kind # "config"
      <3>1. \E a : Leave(t, a)
        BY <1>9, <2>1, <2>4 DEF Test
      <3>2. QED
        BY <1>4, <2>1, <3>1
    <2>5. QED
      BY <2>2, <2>3, <2>4
  <1>6. ASSUME NEW t \in Threads, Fail(t) PROVE Inner'
    BY <1>4, <1>6 DEF Fail
  <1>7. ASSUME NEW r \in late, LateRequest(r) PROVE Inner'
    BY <1>7 DEF LateRequest, call
  <1>8. QED
    BY <1>1, <1>2, <1>3, <1>5, <1>6, <1>7, <1>9, NextCases

LEMMA NextLost ==
  ASSUME WholeViews, TypeOK, Inner, Lost, Next
  PROVE  Lost'
  <1>1. CASE UNCHANGED late
    BY <1>1 DEF Lost
  <1>2. ASSUME NEW t \in Threads, C(t) PROVE Lost'
    <2>1. PICK status, value : status \in Status /\ step[t] = "called" /\ Outcome(t, status, value)
      BY <1>2, LibraryStep
    <2>2. asked[t] \in Asked
      BY <2>1 DEF TypeOK, Inner, Inside
    <2>3. CASE late' = late
      BY <1>1, <2>3
    <2>4. CASE /\ asked[t].kind \in Writes
               /\ late' = late \union {[asked |-> asked[t], sent |-> asked[t]]}
      BY <2>2, <2>4, LateTypes DEF Lost
    <2>5. QED
      BY <2>1, <2>3, <2>4 DEF Outcome, server
  <1>3. ASSUME NEW r \in late, LateRequest(r) PROVE Lost'
    BY <1>3, FS_RemoveElement DEF LateRequest, Lost
  <1>4. QED
    BY <1>1, <1>2, <1>3, NextCases
    DEF Enters, Call, kvs_create_unnamed, Store, Test, Fail, server

(* Whatever the server grants, the deletions and the keys that are there   *)
(* only grow together; a creation adds its key.                            *)
LEMMA MakesMore ==
  ASSUME NEW b \in Buckets, NEW r \in Asked, NEW a \in Buckets, Makes(b, r, a), NEW k \in Keys
  PROVE  /\ b.removals + There(b, k) <= a.removals + There(a, k)
         /\ r.kind = "create" /\ r.key = k =>
              b.removals + There(b, k) + 1 <= a.removals + There(a, k)
  <1> DEFINE more == b.removals + There(b, k) <= a.removals + There(a, k)
  <1>1. /\ b.removals \in Nat /\ a.removals \in Nat
        /\ There(b, k) \in {0, 1} /\ There(a, k) \in {0, 1}
        /\ b.map \in [Keys -> Values \union {NULL}]
    BY DEF Buckets, There
  <1>2. CASE r.kind \in {"open", "look", "get"}
    BY <1>1, <1>2 DEF Makes, There
  <1>3. CASE r.kind = "drop"
    BY <1>1, <1>3 DEF Makes
  <1>4. CASE r.kind \in {"put", "create"}
    <2>1. /\ a.map = [b.map EXCEPT ![r.key] = r.value] /\ a.removals = b.removals
          /\ r.kind = "create" => b.map[r.key] = NULL
      BY <1>4 DEF Makes
    <2>2. r.key \in Keys /\ r.value # NULL
      BY <1>4, AskedFields, NullAssumption
    <2>3. CASE k = r.key
      BY <1>1, <2>1, <2>2, <2>3 DEF There
    <2>4. CASE k # r.key
      BY <1>1, <2>1, <2>2, <2>4 DEF There
    <2>5. QED
      BY <2>3, <2>4
  <1>5. CASE r.kind = "delete"
    <2>1. /\ a.map = [b.map EXCEPT ![r.key] = NULL] /\ a.removals = b.removals + There(b, r.key)
          /\ There(b, r.key) \in {0, 1} /\ r.key \in Keys
      BY <1>5, AskedFields DEF Makes, There
    <2>2. CASE k = r.key
      BY <1>1, <1>5, <2>1, <2>2
    <2>3. CASE k # r.key
      BY <1>1, <1>5, <2>1, <2>3 DEF There
    <2>4. QED
      BY <2>2, <2>3
  <1>6. QED
    BY <1>2, <1>3, <1>4, <1>5 DEF Makes

LEMMA NextCounted ==
  ASSUME WholeViews, TypeOK, Inner, Lost, Counted, Next
  PROVE  Counted'
  <1> USE DEF TypeOK
  <1>a. bucket \in Buckets /\ \A k \in Keys : There(bucket, k) \in {0, 1}
    BY BucketTypes DEF There
  <1>b. \A k \in Keys : /\ IsFiniteSet(Created(k)) /\ Cardinality(Created(k)) \in Nat
                        /\ Cardinality(Created(k)) <= bucket.removals + There(bucket, k)
    BY FS_CardinalityType DEF Counted
  <1>c. ASSUME bucket' \in Buckets,
               NEW k \in Keys, \A t \in Created(k)' : t \in Created(k),
               bucket.removals + There(bucket, k) <= bucket'.removals + There(bucket', k)
        PROVE  /\ IsFiniteSet(Created(k)')
               /\ Cardinality(Created(k)') <= bucket'.removals + There(bucket', k)
    <2>1. IsFiniteSet(Created(k)') /\ Cardinality(Created(k)') <= Cardinality(Created(k))
      BY <1>b, <1>c, FS_Subset
    <2>2. Cardinality(Created(k)') \in Nat /\ There(bucket', k) \in {0, 1} /\ bucket'.removals \in Nat
      BY <1>c, <2>1, FS_CardinalityType DEF There, Buckets
    <2>3. QED
      BY <1>a, <1>b, <1>c, <2>1, <2>2 DEF Buckets
  <1>d. ASSUME UNCHANGED bucket, \A k \in Keys : \A t \in Threads : t \in Created(k)' => t \in Created(k)
        PROVE  Counted'
    <2>1. ASSUME NEW k \in Keys
          PROVE  /\ \A t \in Created(k)' : t \in Created(k)
                 /\ bucket.removals + There(bucket, k) <= bucket'.removals + There(bucket', k)
      <3>1. \A t \in Created(k)' : t \in Threads
        BY DEF Created, Creators, Creating
      <3>2. QED
        BY <1>a, <1>d, <3>1 DEF There, Buckets
    <2>2. bucket' \in Buckets
      BY <1>a, <1>d
    <2>3. QED
      BY <1>c, <2>1, <2>2 DEF Counted, There
  <1>1. ASSUME NEW t \in Threads, NEW a, NEW r, Enters(t, a, r) PROVE Counted'
    <2>1. ASSUME NEW k \in Keys, NEW u \in Threads, u \in Created(k)' PROVE u \in Created(k)
      BY <1>1, <2>1, DoneOf DEF Enters, Call, Created, Creators, Creating
    <2>2. QED
      BY <1>1, <1>d, <2>1 DEF Enters, Call, server
  <1>2. ASSUME NEW t \in Threads, kvs_create_unnamed(t) PROVE Counted'
    <2>1. ASSUME NEW k \in Keys, NEW u \in Threads, u \in Created(k)' PROVE u \in Created(k)
      BY <1>2, <2>1, DoneOf DEF kvs_create_unnamed, call, Created, Creators, Creating
    <2>2. QED
      BY <1>2, <1>d, <2>1 DEF kvs_create_unnamed, server
  <1>3. ASSUME NEW t \in Threads, C(t) PROVE Counted'
    <2>1. PICK status, value :
            /\ status \in Status
            /\ step[t] = "called"
            /\ step' = [step EXCEPT ![t] = "returned"]
            /\ ret' = [ret EXCEPT ![t] = status]
            /\ Outcome(t, status, value)
            /\ UNCHANGED <<call, answer>>
      BY <1>3, LibraryStep
    <2>2. asked[t] \in Asked
      BY <2>1 DEF Inner, Inside
    <2>3. CASE /\ status = "ok" /\ sent[t] = asked[t] /\ Granted(bucket, asked[t])
               /\ bucket' = After(bucket, asked[t])
      <3>1. bucket' \in Buckets /\ Makes(bucket, asked[t], bucket')
        BY <1>a, <2>2, <2>3, GrantedMakes
      <3>2. ASSUME NEW k \in Keys
            PROVE  /\ IsFiniteSet(Created(k)')
                   /\ Cardinality(Created(k)') <= bucket'.removals + There(bucket', k)
        <4>1. CASE asked[t].kind = "create" /\ asked[t].key = k
          <5>1. Created(k)' = Created(k) \union {t}
            <6>1. ASSUME NEW u PROVE u \in Created(k)' <=> u \in Created(k) \union {t}
              BY <2>1, <2>3, <4>1 DEF call, Created, Creators, Creating
            <6>2. QED
              BY <6>1
          <5>2. /\ IsFiniteSet(Created(k)') /\ Cardinality(Created(k)') \in Nat
                /\ Cardinality(Created(k)') <= Cardinality(Created(k)) + 1
            <6>1. /\ IsFiniteSet(Created(k) \union {t})
                  /\ Cardinality(Created(k) \union {t}) =
                       IF t \in Created(k) THEN Cardinality(Created(k)) ELSE Cardinality(Created(k)) + 1
              BY <1>b, FS_AddElement
            <6>2. IsFiniteSet(Created(k)') /\ Cardinality(Created(k)') = Cardinality(Created(k) \union {t})
              BY <5>1, <6>1
            <6>3. QED
              BY <1>b, <6>1, <6>2
          <5>3. bucket.removals + There(bucket, k) + 1 <= bucket'.removals + There(bucket', k)
            BY <1>a, <2>2, <3>1, <4>1, MakesMore
          <5>4. There(bucket', k) \in {0, 1} /\ bucket'.removals \in Nat /\ bucket.removals \in Nat
            BY <1>a, <3>1 DEF There, Buckets
          <5>5. QED
            BY <1>a, <1>b, <5>2, <5>3, <5>4
        <4>2. CASE ~(asked[t].kind = "create" /\ asked[t].key = k)
          <5>1. ASSUME NEW u \in Created(k)' PROVE u \in Created(k)
            BY <2>1, <4>2 DEF call, Created, Creators, Creating
          <5>2. bucket.removals + There(bucket, k) <= bucket'.removals + There(bucket', k)
            BY <1>a, <2>2, <3>1, MakesMore
          <5>3. QED
            BY <1>c, <3>1, <5>1, <5>2
        <4>3. QED
          BY <4>1, <4>2
      <3>3. QED
        BY <3>2 DEF Counted, There
    <2>4. CASE bucket' = bucket /\ (status # "ok" \/ sent[t].kind \in Local)
      <3>1. status = "ok" => asked[t].kind # "create"
        BY <2>4 DEF Inner, Local
      <3>2. ASSUME NEW k \in Keys, NEW u \in Threads, u \in Created(k)' PROVE u \in Created(k)
        BY <2>1, <3>1, <3>2 DEF call, Created, Creators, Creating
      <3>3. QED
        BY <1>d, <2>4, <3>2
    <2>5. QED
      BY <2>1, <2>3, <2>4 DEF Outcome, server
  <1>4. ASSUME NEW t \in Threads, Test(t) PROVE Counted'
    <2>1. step[t] = "stored" /\ Tested(t) = ret[t] /\ asked[t] \in Asked /\ bucket' = bucket
      BY <1>4 DEF Test, server, Inner, Inside
    <2>2. ASSUME NEW k \in Keys, NEW u \in Threads, u \in Created(k)' PROVE u \in Created(k)
      <3>1. CASE ret[t] # "ok" \/ sent[t].kind = "config"
        BY <1>4, <2>1, <2>2, <3>1 DEF Test, call, Created, Creators, Creating
      <3>2. CASE ret[t] = "ok" /\ sent[t].kind # "config" /\ u # t
        BY <1>4, <2>1, <2>2, <3>2 DEF Test, Leave, Created, Creators, Creating
      <3>3. CASE ret[t] = "ok" /\ sent[t].kind # "config" /\ u = t
        <4>1. /\ answer'[t] = IF sent[t].kind = "get" THEN Entry(e[t]) ELSE Done(asked[t])
              /\ step'[t] = "idle"
          BY <1>4, <2>1, <3>3 DEF Test, Leave
        <4>2. answer'[t] = Done(Request("create", k, None))
          BY <2>2, <3>3, <4>1 DEF Created, Creators, Creating
        <4>3. asked[t].kind = "create" /\ asked[t].key = k
          BY <2>1, <4>1, <4>2, DoneOf
        <4>4. QED
          BY <2>1, <3>3, <4>3 DEF Created, Creating
      <3>4. QED
        BY <3>1, <3>2, <3>3
    <2>3. QED
      BY <1>d, <2>1, <2>2
  <1>8. ASSUME NEW t \in Threads, Store(t) PROVE Counted'
    <2>1. ASSUME NEW k \in Keys, NEW u \in Threads, u \in Created(k)' PROVE u \in Created(k)
      BY <1>8, <2>1 DEF Store, call, Created, Creators, Creating
    <2>2. QED
      BY <1>8, <1>d, <2>1 DEF Store, server
  <1>5. ASSUME NEW t \in Threads, Fail(t) PROVE Counted'
    <2>1. ASSUME NEW k \in Keys, NEW u \in Threads, u \in Created(k)' PROVE u \in Created(k)
      BY <1>5, <2>1, DoneOf DEF Fail, Leave, Created, Creators, Creating
    <2>2. QED
      BY <1>5, <1>d, <2>1 DEF Fail, server
  <1>6. ASSUME NEW r \in late, LateRequest(r) PROVE Counted'
    <2>1. r.asked \in Asked /\ r.sent = r.asked
      <3>1. r = [asked |-> r.asked, sent |-> r.asked] /\ r.asked \in Asked
        BY <1>6 DEF Lost
      <3>2. QED
        BY <3>1
    <2>2. \A k : Created(k)' = Created(k)
      BY <1>6 DEF LateRequest, call, Created, Creators, Creating
    <2>3. CASE bucket' = bucket
      BY <1>d, <2>2, <2>3
    <2>4. CASE Granted(bucket, r.sent) /\ bucket' = After(bucket, r.sent)
      <3>1. bucket' \in Buckets /\ Makes(bucket, r.asked, bucket')
        BY <1>a, <2>1, <2>4, GrantedMakes
      <3>2. ASSUME NEW k \in Keys
            PROVE  bucket.removals + There(bucket, k) <= bucket'.removals + There(bucket', k)
        BY <1>a, <2>1, <3>1, MakesMore
      <3>3. QED
        BY <1>c, <2>2, <3>1, <3>2 DEF Counted, There
    <2>5. QED
      BY <1>6, <2>3, <2>4 DEF LateRequest
  <1>7. QED
    BY <1>1, <1>2, <1>3, <1>4, <1>5, <1>6, <1>8, NextCases

THEOREM AlwaysIInv ==
  ASSUME WholeViews
  PROVE  Spec /\ OwnStatus => []IInv
  <1>1. Init /\ OwnStatus => IInv
    BY InitIInv
  <1>2. IInv /\ Next => IInv'
    <2> SUFFICES ASSUME IInv, Next PROVE IInv'
      OBVIOUS
    <2>1. TypeOK' /\ Inner' /\ Lost' /\ Counted'
      BY NextTypeOK, NextInner, NextLost, NextCounted DEF IInv
    <2>2. QED
      BY <2>1 DEF IInv
  <1>3. IInv /\ UNCHANGED vars => IInv'
    <2> SUFFICES ASSUME IInv, UNCHANGED vars PROVE IInv'
      OBVIOUS
    <2>1. TypeOK' /\ Inner' /\ Lost'
      BY DEF IInv, TypeOK, Inner, Inside, Tested, OwnStatus, OwnClients, Lost, vars, call, server
    <2>2. Counted'
      BY DEF IInv, Counted, Created, Creators, Creating, There, vars, call, server
    <2>3. QED
      BY <2>1, <2>2 DEF IInv
  <1>4. QED
    BY <1>1, <1>2, <1>3, PTL DEF Spec

-----------------------------------------------------------------------------
(* The calls, their answers, the bucket and the late requests keep their   *)
(* types; in particular a call to kv_get never answers with a missing      *)
(* value.                                                                  *)
THEOREM TypeCorrect ==
  ASSUME WholeViews
  PROVE  Spec /\ OwnStatus => []TypeOK
  <1>1. IInv => TypeOK
    BY DEF IInv
  <1>2. QED
    BY <1>1, AlwaysIInv, PTL

(* Of the threads that were told that they created a key all but one need  *)
(* a deletion, however many requests are late, lost or repeated.           *)
THEOREM OneCreatorAlways ==
  ASSUME WholeViews
  PROVE  Spec /\ OwnStatus => []OneCreator
  <1>1. ASSUME IInv, NEW k \in Keys PROVE Cardinality(Creators(k)) <= 1 + bucket.removals
    <2>1. /\ IsFiniteSet(Created(k)) /\ Creators(k) \in SUBSET Created(k)
          /\ Cardinality(Created(k)) <= bucket.removals + There(bucket, k)
      BY <1>1 DEF IInv, Counted, Created
    <2>2. /\ Cardinality(Creators(k)) <= Cardinality(Created(k))
          /\ Cardinality(Creators(k)) \in Nat /\ Cardinality(Created(k)) \in Nat
      BY <2>1, FS_Subset, FS_CardinalityType
    <2>3. bucket.removals \in Nat /\ There(bucket, k) \in {0, 1}
      BY <1>1, BucketTypes DEF IInv, TypeOK, Buckets, There
    <2>4. QED
      BY <2>1, <2>2, <2>3
  <1>2. IInv => OneCreator
    BY <1>1 DEF OneCreator
  <1>3. QED
    BY <1>2, AlwaysIInv, PTL

-----------------------------------------------------------------------------
(* The map, the calls and the late calls as KvMap sees them.               *)
Map == [k \in Keys |-> bucket.map[k]]
Came == [t \in Threads |-> Served(t)]
Words == {r.asked : r \in late}

LEMMA MapWords ==
  /\ M!Nothing = Nothing /\ M!Status = Status
  /\ \A S : M!Cardinality(S) = Cardinality(S)
  /\ \A r : M!Done(r) = Done(r)
  /\ \A v : M!Entry(v) = Entry(v)
  /\ \A status : M!Error(status) = Error(status)
  BY DEF M!Cardinality, Cardinality, M!Nothing, Nothing, M!Status, Status, M!Done, Done, M!Entry, Entry, M!Error, Error

(* What a call came to is never mistaken for not having come to anything.  *)
LEMMA ServedKinds ==
  /\ \A r : Done(r) # Nothing
  /\ \A v : Entry(v) # Nothing
  /\ \A status : Error(status) # Nothing /\ Error(status).kind = "error"
  BY DEF Done, Nothing, Entry, Error

(* A request that the server grants takes effect on the map.               *)
LEMMA EffectStep ==
  ASSUME WholeViews, TypeOK, NEW r \in Asked,
         Granted(bucket, r), bucket' = After(bucket, r)
  PROVE  M!Possible(r) /\ M!Effect(r)
  <1>1. bucket \in Buckets /\ bucket' \in Buckets /\ Makes(bucket, r, bucket')
    BY BucketTypes, GrantedMakes DEF TypeOK
  <1>2. bucket.map = Map /\ bucket'.map = Map'
    BY <1>1 DEF Buckets, Map
  <1>3. M!Effect(r)
    BY <1>1, <1>2 DEF Makes, M!Effect, M!bucket, Map
  <1>4. M!Possible(r)
    <2>1. /\ r.kind \in {"open", "drop", "look", "init", "get", "delete", "put", "create"}
          /\ r.kind \in {"get", "create"} => Map[r.key] = bucket.map[r.key]
      BY <1>2, AskedFields
    <2>2. QED
      BY <2>1 DEF Granted, M!Possible, Map
  <1>5. QED
    BY <1>3, <1>4

LEMMA BeginStep ==
  ASSUME WholeViews, TypeOK, Inner, NEW t \in Threads, NEW a, NEW r, Enters(t, a, r)
  PROVE  M!Begin(t)
  <1>1. /\ step[t] = "idle" /\ step' = [step EXCEPT ![t] = "called"]
        /\ asked' = [asked EXCEPT ![t] = a] /\ a \in Asked /\ a # NoCall
        /\ sent' = [sent EXCEPT ![t] = r]
        /\ answer' = [answer EXCEPT ![t] = Nothing]
        /\ UNCHANGED <<client, ret, e, bucket, late>>
    BY AskedFields DEF Enters, Call, server
  <1>2. asked[t] = NoCall /\ \A u \in Threads : asked'[u] # NoCall <=> Inside(u)'
    BY <1>1 DEF TypeOK, Inner, Inside
  <1>3. Came' = Came
    <2>1. Served(t) = Nothing /\ Served(t)' = Nothing
      BY <1>1 DEF TypeOK, Served, Returned
    <2>2. \A u \in Threads : u # t => Served(u)' = Served(u)
      BY <1>1 DEF TypeOK, Inner, Served, Returned
    <2>3. QED
      BY <2>1, <2>2 DEF Came
  <1>4. overlapped' = [u \in Threads |->
          overlapped[u] \/ (u \in {v \in Threads : asked'[v] # NoCall /\ client[v] = client[t]}
                              /\ {v \in Threads : asked'[v] # NoCall /\ client[v] = client[t]} # {u})]
    <2>1. {v \in Threads : asked'[v] # NoCall /\ client[v] = client[t]}
            = {v \in Threads : step'[v] # "idle" /\ client[v] = client[t]}
      BY <1>2 DEF Inside
    <2>2. QED
      BY <2>1 DEF Enters, Call
  <1>5. Map' = Map /\ Words' = Words
    BY <1>1 DEF Map, Words
  <1>6. asked[t] = NoCall /\ asked'[t] \in Asked /\ asked' = [asked EXCEPT ![t] = asked'[t]]
    BY <1>1, <1>2 DEF TypeOK
  <1>7. answer' = [answer EXCEPT ![t] = M!Nothing] /\ M!bucket' = M!bucket
    BY <1>1, <1>5, MapWords DEF M!bucket, Map
  <1>8. QED
    BY <1>1, <1>3, <1>4, <1>5, <1>6, <1>7 DEF M!Begin, Came, Words

(* There are no more words than requests.                                  *)
LEMMA WordsOf ==
  ASSUME NEW L, IsFiniteSet(L), Cardinality(L) <= MaxLate
  PROVE  Cardinality({r.asked : r \in L}) <= MaxLate
  <1> DEFINE W == {r.asked : r \in L}
             f == [r \in L |-> r.asked]
  <1>1. f \in Surjection(L, W)
    BY DEF Surjection
  <1> HIDE DEF f, W
  <1>2. /\ IsFiniteSet(W) /\ Cardinality(W) <= Cardinality(L)
        /\ Cardinality(L) \in Nat /\ Cardinality(W) \in Nat
    BY <1>1, FS_Surjection, FS_CardinalityType
  <1>3. Cardinality(W) <= MaxLate
    BY <1>2, BoundsAssumption
  <1>4. QED
    BY <1>3 DEF W

LEMMA ServeStep ==
  ASSUME WholeViews, TypeOK, Inner, Lost, TypeOK', Lost', NEW t \in Threads, C(t)
  PROVE  M!TakeEffect(t) \/ M!Refuse(t) \/ M!TimeOut(t) \/ UNCHANGED M!vars
  <1>1. PICK status, value :
          /\ status \in Status
          /\ step[t] = "called"
          /\ step' = [step EXCEPT ![t] = "returned"]
          /\ ret' = [ret EXCEPT ![t] = status]
          /\ e' = [e EXCEPT ![t] = value]
          /\ Outcome(t, status, value)
          /\ UNCHANGED <<client, reload, s, call, overlapped, answer>>
    BY LibraryStep
  <1>2. /\ asked[t] \in Asked /\ asked[t] # NoCall /\ Came[t] = Nothing
        /\ asked' = asked /\ sent' = sent
    BY <1>1, AskedFields DEF TypeOK, Inner, Inside, Came, Served, Returned, call
  <1>3. /\ Returned(t)' /\ ret'[t] = status /\ e'[t] = value
        /\ \A u \in Threads : u # t => Served(u)' = Served(u)
    BY <1>1, <1>2 DEF TypeOK, Served, Returned
  <1>4. \A x : Served(t)' = x => Came' = [Came EXCEPT ![t] = x]
    BY <1>3 DEF Came
  <1>5. /\ status # "ok" => Served(t)' = Error(status)
        /\ status = "ok" /\ sent[t].kind = "config" => Served(t)' = Nothing
        /\ status = "ok" /\ sent[t].kind = "get" => Served(t)' = Entry(value)
        /\ status = "ok" /\ sent[t].kind \notin {"config", "get"} => Served(t)' = Done(asked[t])
    BY <1>2, <1>3 DEF Served
  <1>6. UNCHANGED bucket => Map' = Map
    BY DEF Map
  <1>7. UNCHANGED late => Words' = Words
    BY DEF Words
  <1>8. CASE status = "error" /\ UNCHANGED server
    <2>1. Came' = [Came EXCEPT ![t] = Error("error")]
      BY <1>4, <1>5, <1>8
    <2>2. QED
      BY <1>1, <1>2, <1>6, <1>7, <1>8, <2>1, MapWords
      DEF M!Refuse, M!bucket, server, Map, Came, Words
  <1>9. CASE status = "ok" /\ sent[t].kind \in Local /\ UNCHANGED server
    <2>1. CASE sent[t].kind = "config"
      <3>1. Came' = [Came EXCEPT ![t] = Nothing]
        BY <1>4, <1>5, <1>9, <2>1
      <3>2. Came' = Came
        BY <1>2, <3>1 DEF Came
      <3>3. QED
        BY <1>1, <1>2, <1>6, <1>7, <1>9, <3>2 DEF M!vars, M!bucket, server, Map, Came, Words
    <2>2. CASE sent[t].kind = "init"
      <3>1. asked[t].kind = "init"
        BY <2>2, AskedFields DEF Inner
      <3>2. Came' = [Came EXCEPT ![t] = Done(asked[t])]
        BY <1>4, <1>5, <1>9, <2>2
      <3>3. M!Possible(asked[t]) /\ M!Effect(asked[t]) /\ M!Success(asked[t]) = Done(asked[t])
        BY <1>6, <1>9, <3>1, MapWords DEF M!Possible, M!Effect, M!Success, M!bucket, server, Map
      <3>4. QED
        BY <1>1, <1>2, <1>7, <1>9, <3>2, <3>3, MapWords DEF M!TakeEffect, server, Came, Words
    <2>3. QED
      BY <1>9, <2>1, <2>2 DEF Local
  <1>10. CASE /\ status = "ok" /\ sent[t] = asked[t] /\ Granted(bucket, asked[t]) /\ late' = late
              /\ bucket' = After(bucket, asked[t])
              /\ value = IF asked[t].kind = "get" THEN bucket.map[asked[t].key] ELSE NULL
    <2>1. M!Possible(asked[t]) /\ M!Effect(asked[t])
      <3>1. PICK r \in Asked : r = asked[t]
        BY <1>2
      <3>2. M!Possible(r) /\ M!Effect(r)
        BY <1>10, <3>1, EffectStep
      <3>3. QED
        BY <3>1, <3>2 DEF M!Possible, M!Effect
    <2>2. Served(t)' = M!Success(asked[t])
      <3>1. CASE asked[t].kind = "get"
        <4>1. Map[asked[t].key] = bucket.map[asked[t].key]
          BY <1>2, <3>1, AskedFields DEF Map
        <4>2. QED
          BY <1>5, <1>10, <3>1, <4>1, MapWords DEF M!Success, Map
      <3>2. CASE asked[t].kind # "get"
        <4>1. asked[t].kind # "config"
          BY <1>2, AskedFields
        <4>2. QED
          BY <1>5, <1>10, <3>2, <4>1, MapWords DEF M!Success
      <3>3. QED
        BY <3>1, <3>2
    <2>3. Came' = [Came EXCEPT ![t] = M!Success(asked[t])]
      BY <1>4, <2>2
    <2>4. QED
      BY <1>1, <1>2, <1>7, <1>10, <2>1, <2>3, MapWords DEF M!TakeEffect, Came, Words
  <1>11. CASE /\ status = "timeout" /\ sent[t] = asked[t] /\ bucket' = bucket
              /\ \/ late' = late
                 \/ late' = late \union {[asked |-> asked[t], sent |-> asked[t]]}
    <2>1. Came' = [Came EXCEPT ![t] = Error("timeout")]
      BY <1>4, <1>5, <1>11
    <2>2. Words' = Words \/ Words' = Words \union {asked[t]}
      BY <1>11 DEF Words
    <2>3. Cardinality(Words') <= MaxLate
      <3>1. IsFiniteSet(late') /\ Cardinality(late') <= MaxLate
        BY DEF Lost, TypeOK
      <3>2. Cardinality({r.asked : r \in late'}) <= MaxLate
        BY <3>1, WordsOf
      <3>3. QED
        BY <3>2 DEF Words
    <2>4. QED
      BY <1>1, <1>2, <1>6, <1>11, <2>1, <2>2, <2>3, MapWords
      DEF M!TimeOut, M!bucket, Map, Came, Words
  <1>12. QED
    BY <1>1, <1>8, <1>9, <1>10, <1>11 DEF Outcome

(* A call that returns is told what it came to; only the status of an error*)
(* may be another one, if another call on its client met it.               *)
LEMMA TellStep ==
  ASSUME TypeOK, Inner, NEW t \in Threads, NEW a,
         Returned(t), Leave(t, a), UNCHANGED <<client, reload, server>>,
         Served(t) # Nothing,
         \/ a = Served(t)
         \/ overlapped[t] /\ Served(t).kind = "error" /\ a.kind = "error"
  PROVE  M!Tell(t)
  <1>1. /\ answer' = [answer EXCEPT ![t] = a] /\ step' = [step EXCEPT ![t] = "idle"]
        /\ asked' = [asked EXCEPT ![t] = NoCall] /\ sent' = [sent EXCEPT ![t] = NoCall]
        /\ ret' = [ret EXCEPT ![t] = "ok"] /\ e' = [e EXCEPT ![t] = NULL]
        /\ overlapped' = [overlapped EXCEPT ![t] = FALSE]
        /\ UNCHANGED <<client, bucket, late>>
    BY DEF Leave, server
  <1>2. answer'[t] = a /\ answer' = [answer EXCEPT ![t] = answer'[t]]
    <2>1. answer \in [Threads -> Answers]
      BY DEF TypeOK
    <2>2. answer'[t] = a
      BY <1>1, <2>1
    <2>3. QED
      BY <1>1, <2>2
  <1>3. Came[t] = Served(t)
    BY DEF Came
  <1>4. Came' = [Came EXCEPT ![t] = Nothing]
    <2>1. Served(t)' = Nothing
      BY <1>1 DEF TypeOK, Served, Returned
    <2>2. \A u \in Threads : u # t => Served(u)' = Served(u)
      BY <1>1 DEF TypeOK, Inner, Served, Returned
    <2>3. QED
      BY <2>1, <2>2 DEF Came
  <1>5. Map' = Map /\ Words' = Words
    BY <1>1 DEF Map, Words
  <1>6. QED
    BY <1>1, <1>2, <1>3, <1>4, <1>5, MapWords DEF M!Tell, M!bucket, Map, Came, Words

(* Storing the status changes nothing that KvMap sees.                     *)
LEMMA StoreStep ==
  ASSUME TypeOK, NEW t \in Threads, Store(t)
  PROVE  UNCHANGED M!vars
  <1>1. /\ Returned(t) /\ Returned(t)' /\ \A u \in Threads : u # t => step'[u] = step[u]
        /\ UNCHANGED <<client, asked, sent, ret, e, overlapped, answer, bucket, late>>
    BY DEF Store, Returned, TypeOK, call, server
  <1>2. \A u \in Threads : Served(u)' = Served(u)
    BY <1>1 DEF Served, Returned
  <1>3. Came' = Came /\ Map' = Map /\ Words' = Words
    BY <1>1, <1>2 DEF Came, Map, Words
  <1>4. QED
    BY <1>1, <1>3 DEF M!vars, M!bucket, Came, Map, Words

LEMMA TestStep ==
  ASSUME TypeOK, Inner, NEW t \in Threads, Test(t)
  PROVE  M!Tell(t) \/ UNCHANGED M!vars
  <1>1. /\ Returned(t) /\ step[t] = "stored" /\ Tested(t) = ret[t]
        /\ UNCHANGED <<client, reload, server>>
    BY DEF Test, Returned, Inner
  <1>2. CASE /\ ret[t] # "ok" /\ step' = [step EXCEPT ![t] = "failing"]
             /\ UNCHANGED <<call, ret, e, overlapped, answer>>
    <2>1. Served(t)' = Served(t)
      BY <1>1, <1>2 DEF TypeOK, Served, Returned, call
    <2>2. \A u \in Threads : u # t => Served(u)' = Served(u)
      BY <1>1, <1>2 DEF TypeOK, Served, Returned, call
    <2>3. Came' = Came
      BY <2>1, <2>2 DEF Came
    <2>4. QED
      BY <1>1, <1>2, <2>3 DEF M!vars, M!bucket, server, call, Came
  <1>3. CASE /\ ret[t] = "ok" /\ sent[t].kind = "config"
             /\ sent' = [sent EXCEPT ![t] = asked[t]]
             /\ step' = [step EXCEPT ![t] = "called"]
             /\ UNCHANGED <<asked, ret, e, overlapped, answer>>
    <2>1. Served(t) = Nothing /\ Served(t)' = Nothing
      BY <1>1, <1>3 DEF TypeOK, Served, Returned
    <2>2. \A u \in Threads : u # t => Served(u)' = Served(u)
      BY <1>1, <1>3 DEF TypeOK, Inner, Served, Returned
    <2>3. Came' = Came
      BY <2>1, <2>2 DEF Came
    <2>4. QED
      BY <1>1, <1>3, <2>3 DEF M!vars, M!bucket, server, Came
  <1>4. CASE /\ ret[t] = "ok" /\ sent[t].kind # "config"
             /\ Leave(t, IF sent[t].kind = "get" THEN Entry(e[t]) ELSE Done(asked[t]))
    <2>1. Served(t) = IF sent[t].kind = "get" THEN Entry(e[t]) ELSE Done(asked[t])
      BY <1>1, <1>4 DEF Served
    <2>2. Served(t) # Nothing
      BY <2>1, ServedKinds
    <2>3. QED
      BY <1>1, <1>4, <2>1, <2>2, TellStep
  <1>5. QED
    BY <1>1, <1>2, <1>3, <1>4 DEF Test

LEMMA FailStep ==
  ASSUME TypeOK, Inner, NEW t \in Threads, Fail(t)
  PROVE  M!Tell(t)
  <1>1. /\ Returned(t) /\ step[t] = "failing" /\ UNCHANGED <<client, reload, server>>
        /\ Leave(t, Error(s[client[t]]))
    BY DEF Fail, Returned
  <1>2. Served(t) = Error(ret[t]) /\ Served(t) # Nothing
    BY <1>1, ServedKinds DEF Inner, Served
  <1>3. \/ Error(s[client[t]]) = Served(t)
        \/ overlapped[t] /\ Served(t).kind = "error" /\ Error(s[client[t]]).kind = "error"
    BY <1>1, <1>2, ServedKinds DEF Inner
  <1>4. QED
    BY <1>1, <1>2, <1>3, TellStep

LEMMA RejectStep ==
  ASSUME Inner, NEW t \in Threads, kvs_create_unnamed(t)
  PROVE  M!Reject(t)
  <1>1. /\ asked[t] = NoCall /\ answer' = [answer EXCEPT ![t] = Error("error")]
        /\ UNCHANGED <<client, step, asked, sent, ret, e, overlapped, bucket, late>>
    BY DEF kvs_create_unnamed, Inner, Inside, call, server
  <1>2. Map' = Map /\ Words' = Words /\ Came' = Came
    BY <1>1 DEF Map, Words, Came, Served, Returned
  <1>3. QED
    BY <1>1, <1>2, MapWords DEF M!Reject, M!bucket, Map, Words, Came

LEMMA LateStep ==
  ASSUME WholeViews, TypeOK, Lost, NEW r \in late, LateRequest(r)
  PROVE  \E w \in Words : M!TakeLateEffect(w)
  <1> DEFINE w == r.asked
  <1>1. w \in Asked /\ r.sent = w /\ w \in Words
    BY DEF TypeOK, Lost, Words
  <1>2. /\ late' = late \ {r}
        /\ UNCHANGED <<client, step, asked, sent, ret, e, overlapped, answer>>
        /\ (Granted(bucket, w) /\ bucket' = After(bucket, w)) \/ UNCHANGED bucket
    BY <1>1 DEF LateRequest, call
  <1>3. Words' = Words \ {w}
    <2>1. \A q \in late : q.asked = w => q = r
      BY DEF Lost
    <2>2. QED
      BY <1>2, <2>1 DEF Words
  <1> HIDE DEF w
  <1>4. (M!Possible(w) /\ M!Effect(w)) \/ UNCHANGED M!bucket
    BY <1>1, <1>2, EffectStep DEF M!bucket
  <1>5. Came' = Came
    BY <1>2 DEF Came, Served, Returned
  <1>6. M!TakeLateEffect(w)
    BY <1>1, <1>2, <1>3, <1>4, <1>5 DEF M!TakeLateEffect, Came, Words
  <1>7. QED
    BY <1>1, <1>6

LEMMA InitIsMapInit ==
  ASSUME WholeViews, OwnStatus, Init
  PROVE  M!Init
  <1>1. /\ bucket.exists = TRUE /\ Map = [k \in Keys |-> NULL]
    BY WholeKeys DEF Init, Opened, Map
  <1>2. client \in [Threads -> Threads]
    BY InitIInv DEF IInv, TypeOK
  <1>3. Came = [t \in Threads |-> Nothing] /\ Words = {}
    BY DEF Init, Came, Served, Returned, Words
  <1>4. QED
    BY <1>1, <1>2, <1>3, MapWords DEF Init, M!Init, Map, Came, Words

LEMMA NextIsMapNext ==
  ASSUME WholeViews, IInv, IInv', [Next]_vars
  PROVE  [M!Next]_(M!vars)
  <1> USE DEF IInv
  <1>1. ASSUME NEW t \in Threads, NEW a, NEW r, Enters(t, a, r) PROVE M!Next
    BY <1>1, BeginStep DEF M!Next
  <1>2. ASSUME NEW t \in Threads, kvs_create_unnamed(t) PROVE M!Next
    BY <1>2, RejectStep DEF M!Next
  <1>3. ASSUME NEW t \in Threads, C(t) PROVE M!Next \/ UNCHANGED M!vars
    BY <1>3, ServeStep DEF M!Next
  <1>4. ASSUME NEW t \in Threads, Test(t) PROVE M!Next \/ UNCHANGED M!vars
    BY <1>4, TestStep DEF M!Next
  <1>9. ASSUME NEW t \in Threads, Store(t) PROVE UNCHANGED M!vars
    BY <1>9, StoreStep
  <1>5. ASSUME NEW t \in Threads, Fail(t) PROVE M!Next
    BY <1>5, FailStep DEF M!Next
  <1>6. ASSUME NEW r \in late, LateRequest(r) PROVE M!Next
    BY <1>6, LateStep DEF M!Next, Words
  <1>7. CASE UNCHANGED vars
    <2>1. UNCHANGED <<client, step, asked, sent, ret, e, overlapped, answer, bucket, late>>
      BY <1>7 DEF vars, call, server
    <2>2. Map' = Map /\ Words' = Words /\ Came' = Came
      BY <2>1 DEF Map, Words, Came, Served, Returned
    <2>3. QED
      BY <2>1, <2>2 DEF M!vars, M!bucket, Map, Words, Came
  <1>8. QED
    BY <1>1, <1>2, <1>3, <1>4, <1>5, <1>6, <1>7, <1>9, NextCases

(* The calls of the client are calls on a map: each takes effect at one    *)
(* instant while it runs, or once after it timed out, or not at all, and   *)
(* is told which.                                                          *)
THEOREM MapImplemented ==
  ASSUME WholeViews
  PROVE  Spec /\ OwnStatus => ImplementsMap
  <1>1. Init /\ OwnStatus => M!Init
    BY InitIsMapInit
  <1>2. IInv /\ IInv' /\ [Next]_vars => [M!Next]_(M!vars)
    BY NextIsMapNext
  <1>3. QED
    BY <1>1, <1>2, AlwaysIInv, PTL DEF Spec, ImplementsMap, M!Spec
=============================================================================
