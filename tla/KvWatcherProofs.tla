--------------------------- MODULE KvWatcherProofs ---------------------------
(***************************************************************************)
(* Proofs about KvWatcher, for any threads and any number of updates.      *)
(*                                                                         *)
(* They are about builds in which a call tests its own status, and about   *)
(* watchers that one thread uses alone, whatever the build (OwnStatus).    *)
(* The invariant has two parts that do not know of each other: Control     *)
(* says what a thread inside a call can rely on, Shared how the history of *)
(* the bucket is divided between the queue and the consumers.              *)
(***************************************************************************)
EXTENDS KvWatcher, SequenceTheorems, FiniteSetTheorems, TLAPS

OwnStatus == Reload = FALSE \/ \A t, u \in Threads : t = u

Things == Updates \union {NULL}

Inside(t) == step[t] # "idle"

(* The status in s is the one of t's call unless another call met it, and  *)
(* the test of t sees its own status in any case.                          *)
Control ==
  \A t \in Threads :
    /\ Inside(t) => op[t] \in {"next", "stop"}
    /\ step[t] = "stored" => Tested(t) = ret[t]
    /\ step[t] = "failing" => ret[t] # "ok"
    /\ step[t] \in {"stored", "failing"} /\ ~overlapped[t] => s = ret[t]
    /\ \A u \in Threads : Inside(t) /\ Inside(u) /\ t # u => overlapped[t]

(* The history: the updates in order, the end of the initial state after   *)
(* the first n of them.                                                    *)
History(l) ==
  Len(l) <= MaxUpdates + 1 /\ \E n \in 0 .. Len(l) - 1 :
    \A i \in 1 .. Len(l) : l[i] = IF i <= n THEN i ELSE IF i = n + 1 THEN NULL ELSE i - 1

Distinct(l) == \A i, j \in 1 .. Len(l) : l[i] = l[j] => i = j

(* The queue p is the end of l, all but the first n of it; those are with  *)
(* the threads, m[t] being what t has: none is missing, each is in one     *)
(* place, and the things of a thread are in the order of l.                *)
Queued(p, n, l) == Len(l) = n + Len(p) /\ \A k \in 1 .. Len(p) : p[k] = l[n + k]

Known(m, n, l) ==
  \A t \in Threads : \A j \in 1 .. Len(m[t]) : \E i \in 1 .. n : m[t][j] = l[i]

Complete(m, n, l) ==
  \A i \in 1 .. n : \E t \in Threads : \E j \in 1 .. Len(m[t]) : m[t][j] = l[i]

Once(m) ==
  \A t, u \in Threads : \A j \in 1 .. Len(m[t]), k \in 1 .. Len(m[u]) :
    m[t][j] = m[u][k] => t = u /\ j = k

Rising(m, n, l) ==
  \A t \in Threads : \A j, k \in 1 .. Len(m[t]) : \A a, b \in 1 .. n :
    j < k /\ m[t][j] = l[a] /\ m[t][k] = l[b] => a < b

Shared(m, p, l) ==
  \E n \in Nat :
    Queued(p, n, l) /\ Known(m, n, l) /\ Complete(m, n, l) /\ Once(m) /\ Rising(m, n, l)

(* What t was given: returned by next, and in the hands of a call to it.   *)
Given(t) == IF Holds(t) THEN Append(delivered[t], e[t]) ELSE delivered[t]
Mine == [t \in Threads |-> Given(t)]

IInv == TypeOK /\ Control /\ History(log) /\ Shared(Mine, pending, log)

-----------------------------------------------------------------------------
(* What is in the history is in it once, and not the update to come.       *)
LEMMA HistoryDistinct ==
  ASSUME NEW l \in Seq(Things), History(l)
  PROVE  /\ Distinct(l)
         /\ Len(l) \in Updates => \A i \in 1 .. Len(l) : l[i] # Len(l)
  <1>1. PICK n \in 0 .. Len(l) - 1 :
          \A i \in 1 .. Len(l) : l[i] = IF i <= n THEN i ELSE IF i = n + 1 THEN NULL ELSE i - 1
    BY DEF History
  <1>2. Len(l) \in Nat /\ Len(l) <= MaxUpdates + 1
    BY LenProperties DEF History
  <1>3. \A i \in 1 .. Len(l) : i # n + 1 => l[i] \in Int /\ l[i] # NULL /\ l[i] < Len(l)
    BY <1>1, <1>2, UpdatesAssumption
  <1>4. \A i \in 1 .. Len(l) : i = n + 1 => l[i] = NULL
    BY <1>1
  <1>5. Distinct(l)
    BY <1>1, <1>2, <1>3, <1>4 DEF Distinct
  <1>6. ASSUME Len(l) \in Updates, NEW i \in 1 .. Len(l) PROVE l[i] # Len(l)
    BY <1>2, <1>3, <1>4, <1>6, UpdatesAssumption DEF Updates
  <1>7. QED
    BY <1>5, <1>6

LEMMA HistoryGrows ==
  ASSUME NEW l \in Seq(Things), History(l), Len(l) \in Updates
  PROVE  Append(l, Len(l)) \in Seq(Things) /\ History(Append(l, Len(l)))
  <1>1. PICK n \in 0 .. Len(l) - 1 :
          \A i \in 1 .. Len(l) : l[i] = IF i <= n THEN i ELSE IF i = n + 1 THEN NULL ELSE i - 1
    BY DEF History
  <1> DEFINE q == Append(l, Len(l))
  <1>2. /\ q \in Seq(Things) /\ Len(l) \in Nat /\ Len(q) = Len(l) + 1
        /\ \A i \in 1 .. Len(l) : q[i] = l[i]
        /\ q[Len(l) + 1] = Len(l)
    BY AppendProperties, LenProperties DEF Things
  <1> HIDE DEF q
  <1>3. Len(q) <= MaxUpdates + 1 /\ n \in 0 .. Len(q) - 1
    BY <1>2, UpdatesAssumption DEF Updates
  <1>4. ASSUME NEW i \in 1 .. Len(q)
        PROVE  q[i] = IF i <= n THEN i ELSE IF i = n + 1 THEN NULL ELSE i - 1
    <2>1. CASE i = Len(l) + 1
      BY <1>2, <2>1
    <2>2. CASE i \in 1 .. Len(l)
      BY <1>1, <1>2, <2>2
    <2>3. QED
      BY <1>2, <2>1, <2>2
  <1>5. QED
    BY <1>2, <1>3, <1>4 DEF History, q

LEMMA InitHistory ==
  ASSUME NEW n \in 0 .. MaxUpdates, NEW l, l = [i \in 1 .. n |-> i] \o <<NULL>>
  PROVE  l \in Seq(Things) /\ History(l)
  <1> DEFINE up == [i \in 1 .. n |-> i]
  <1>1. n \in Nat /\ up \in Seq(Things) /\ Len(up) = n /\ \A i \in 1 .. n : up[i] = i
    BY UpdatesAssumption DEF Things, Updates
  <1>2. <<NULL>> \in Seq(Things) /\ Len(<<NULL>>) = 1 /\ <<NULL>>[1] = NULL
    BY DEF Things
  <1> HIDE DEF up
  <1>3. /\ l \in Seq(Things) /\ Len(l) = n + 1
        /\ \A i \in 1 .. n + 1 : l[i] = IF i <= n THEN up[i] ELSE <<NULL>>[i - n]
    BY <1>1, <1>2, ConcatProperties DEF up
  <1>4. \A i \in 1 .. n + 1 : l[i] = IF i <= n THEN i ELSE NULL
    <2> SUFFICES ASSUME NEW i \in 1 .. n + 1 PROVE l[i] = IF i <= n THEN i ELSE NULL
      OBVIOUS
    <2>1. CASE i <= n
      BY <1>1, <1>3, <2>1
    <2>2. CASE i = n + 1
      BY <1>1, <1>2, <1>3, <2>2
    <2>3. QED
      BY <1>1, <2>1, <2>2
  <1>5. Len(l) <= MaxUpdates + 1 /\ n \in 0 .. Len(l) - 1
    BY <1>1, <1>3, UpdatesAssumption
  <1>6. \A i \in 1 .. Len(l) : l[i] = IF i <= n THEN i ELSE IF i = n + 1 THEN NULL ELSE i - 1
    BY <1>1, <1>3, <1>4
  <1>7. QED
    BY <1>3, <1>5, <1>6 DEF History

-----------------------------------------------------------------------------
(* The bucket gets x: the queue is longer by x.                            *)
LEMMA SharedGrows ==
  ASSUME NEW m \in [Threads -> Seq(Things)], NEW p \in Seq(Things), NEW l \in Seq(Things),
         NEW x \in Things, Shared(m, p, l)
  PROVE  Shared(m, Append(p, x), Append(l, x))
  <1>1. PICK n \in Nat : /\ Queued(p, n, l) /\ Known(m, n, l) /\ Complete(m, n, l)
                         /\ Once(m) /\ Rising(m, n, l)
    BY DEF Shared
  <1> DEFINE q == Append(p, x)
             h == Append(l, x)
  <1>2. /\ Len(p) \in Nat /\ Len(l) = n + Len(p)
        /\ Len(q) = Len(p) + 1 /\ Len(h) = Len(l) + 1
        /\ \A i \in 1 .. Len(p) : q[i] = p[i]
        /\ \A i \in 1 .. Len(l) : h[i] = l[i]
        /\ q[Len(p) + 1] = x /\ h[Len(l) + 1] = x
    BY <1>1, AppendProperties, LenProperties DEF Queued
  <1> HIDE DEF q, h
  <1>3. \A i \in 1 .. n : h[i] = l[i]
    BY <1>2
  <1>4. Queued(q, n, h)
    <2>1. ASSUME NEW k \in 1 .. Len(p) PROVE q[k] = h[n + k]
      <3>1. n + k \in 1 .. Len(l) /\ p[k] = l[n + k]
        BY <1>1, <1>2 DEF Queued
      <3>2. QED
        BY <1>2, <3>1
    <2>2. q[Len(p) + 1] = h[n + (Len(p) + 1)]
      BY <1>2
    <2>3. Len(h) = n + Len(q) /\ \A k \in 1 .. Len(q) : k \in 1 .. Len(p) \/ k = Len(p) + 1
      BY <1>2
    <2>4. QED
      BY <2>1, <2>2, <2>3 DEF Queued
  <1>5. Known(m, n, h)
    BY <1>1, <1>3 DEF Known
  <1>6. Complete(m, n, h)
    BY <1>1, <1>3 DEF Complete
  <1>7. Rising(m, n, h)
    BY <1>1, <1>3 DEF Rising
  <1>8. QED
    BY <1>1, <1>4, <1>5, <1>6, <1>7 DEF Shared, q, h

(* Thread t takes the oldest thing of the queue.                           *)
LEMMA SharedTaken ==
  ASSUME NEW m \in [Threads -> Seq(Things)], NEW p \in Seq(Things), NEW l \in Seq(Things),
         p # <<>>, NEW t \in Threads, Distinct(l), Shared(m, p, l)
  PROVE  Shared([m EXCEPT ![t] = Append(m[t], Head(p))], Tail(p), l)
  <1>1. PICK n \in Nat : /\ Queued(p, n, l) /\ Known(m, n, l) /\ Complete(m, n, l)
                         /\ Once(m) /\ Rising(m, n, l)
    BY DEF Shared
  <1> DEFINE q == Tail(p)
             x == Head(p)
             w == [m EXCEPT ![t] = Append(m[t], x)]
             N == n + 1
  <1>2. /\ Len(p) \in Nat \ {0} /\ Len(l) = n + Len(p) /\ Len(q) = Len(p) - 1
        /\ \A k \in 1 .. Len(q) : q[k] = p[k + 1]
        /\ x = p[1] /\ x \in Things
    BY <1>1, HeadTailProperties, EmptySeq, LenProperties DEF Queued
  <1>3. x = l[N] /\ N \in 1 .. Len(l) /\ 1 .. n \subseteq 1 .. Len(l)
    BY <1>1, <1>2 DEF Queued
  <1>4. /\ Len(m[t]) \in Nat /\ Len(w[t]) = Len(m[t]) + 1
        /\ \A j \in 1 .. Len(m[t]) : w[t][j] = m[t][j]
        /\ w[t][Len(m[t]) + 1] = x
        /\ \A u \in Threads : u # t => w[u] = m[u]
    <2>1. w[t] = Append(m[t], x) /\ m[t] \in Seq(Things)
      OBVIOUS
    <2>2. QED
      BY <1>2, <2>1, AppendProperties, LenProperties
  <1>5. \A u \in Threads : Len(m[u]) \in Nat
    BY LenProperties
  <1>6. N \in Nat /\ N \notin 1 .. n /\ \A i : i \in 1 .. N <=> i \in 1 .. n \/ i = N
    OBVIOUS
  <1>7. Queued(q, N, l)
    <2>1. ASSUME NEW k \in 1 .. Len(q) PROVE q[k] = l[N + k]
      <3>1. k + 1 \in 1 .. Len(p) /\ n + (k + 1) = N + k
        BY <1>2
      <3>2. QED
        BY <1>1, <1>2, <3>1 DEF Queued
    <2>2. QED
      BY <1>2, <2>1 DEF Queued
  <1> HIDE DEF q, x, w, N
  <1>8. ASSUME NEW u \in Threads, NEW j \in 1 .. Len(w[u])
        PROVE  \/ j \in 1 .. Len(m[u]) /\ w[u][j] = m[u][j]
               \/ u = t /\ j = Len(m[t]) + 1 /\ w[u][j] = l[N]
    BY <1>3, <1>4, <1>5
  <1>9. ASSUME NEW u \in Threads, NEW j \in 1 .. Len(m[u])
        PROVE  /\ j \in 1 .. Len(w[u]) /\ w[u][j] = m[u][j] /\ m[u][j] # l[N]
               /\ \E i \in 1 .. n : m[u][j] = l[i]
    <2>1. PICK i \in 1 .. n : m[u][j] = l[i]
      BY <1>1 DEF Known
    <2>2. m[u][j] # l[N]
      BY <1>3, <1>6, <2>1 DEF Distinct
    <2>3. j \in 1 .. Len(w[u]) /\ w[u][j] = m[u][j]
      <3>1. CASE u = t
        BY <1>4, <3>1
      <3>2. CASE u # t
        BY <1>4, <3>2
      <3>3. QED
        BY <3>1, <3>2
    <2>4. QED
      BY <2>1, <2>2, <2>3
  <1>10. Known(w, N, l)
    <2> SUFFICES ASSUME NEW u \in Threads, NEW j \in 1 .. Len(w[u])
                 PROVE  \E i \in 1 .. N : w[u][j] = l[i]
      BY DEF Known
    <2>1. CASE w[u][j] = l[N]
      BY <1>6, <2>1
    <2>2. CASE j \in 1 .. Len(m[u]) /\ w[u][j] = m[u][j]
      <3>1. PICK i \in 1 .. n : m[u][j] = l[i]
        BY <1>9, <2>2
      <3>2. QED
        BY <1>6, <2>2, <3>1
    <2>3. QED
      BY <1>8, <2>1, <2>2
  <1>11. Complete(w, N, l)
    <2> SUFFICES ASSUME NEW i \in 1 .. N
                 PROVE  \E u \in Threads : \E j \in 1 .. Len(w[u]) : w[u][j] = l[i]
      BY DEF Complete
    <2>1. CASE i = N
      <3>1. Len(m[t]) + 1 \in 1 .. Len(w[t]) /\ w[t][Len(m[t]) + 1] = l[i]
        BY <1>3, <1>4, <2>1
      <3>2. QED
        BY <3>1
    <2>2. CASE i \in 1 .. n
      <3>1. PICK u \in Threads : \E j \in 1 .. Len(m[u]) : m[u][j] = l[i]
        BY <1>1, <2>2 DEF Complete
      <3>2. QED
        BY <1>9, <3>1
    <2>3. QED
      BY <1>6, <2>1, <2>2
  <1>12. Once(w)
    <2> SUFFICES ASSUME NEW u \in Threads, NEW v \in Threads,
                        NEW j \in 1 .. Len(w[u]), NEW k \in 1 .. Len(w[v]), w[u][j] = w[v][k]
                 PROVE  u = v /\ j = k
      BY DEF Once
    <2>1. CASE w[u][j] = l[N]
      <3>1. ~(j \in 1 .. Len(m[u])) /\ ~(k \in 1 .. Len(m[v]))
        BY <1>9, <2>1
      <3>2. QED
        BY <1>8, <3>1
    <2>2. CASE w[u][j] # l[N]
      <3>1. /\ j \in 1 .. Len(m[u]) /\ w[u][j] = m[u][j]
            /\ k \in 1 .. Len(m[v]) /\ w[v][k] = m[v][k]
        BY <1>8, <2>2
      <3>2. m[u][j] = m[v][k]
        BY <3>1
      <3>3. \A i \in 1 .. Len(m[u]), h \in 1 .. Len(m[v]) : m[u][i] = m[v][h] => u = v /\ i = h
        BY <1>1, Zenon DEF Once
      <3>4. QED
        BY <3>1, <3>2, <3>3
    <2>3. QED
      BY <2>1, <2>2
  <1>13. Rising(w, N, l)
    <2> SUFFICES ASSUME NEW u \in Threads, NEW j \in 1 .. Len(w[u]), NEW k \in 1 .. Len(w[u]),
                        j < k, NEW a \in 1 .. N, NEW b \in 1 .. N,
                        w[u][j] = l[a], w[u][k] = l[b]
                 PROVE  a < b
      BY DEF Rising
    <2>1. j \in 1 .. Len(m[u]) /\ w[u][j] = m[u][j]
      <3>1. ASSUME u = t /\ j = Len(m[t]) + 1 PROVE FALSE
        BY <1>4, <3>1
      <3>2. QED
        BY <1>8, <3>1
    <2>2. a \in 1 .. n
      BY <1>6, <1>9, <2>1
    <2>3. CASE b = N
      BY <1>6, <2>2, <2>3 DEF N
    <2>4. CASE b \in 1 .. n
      <3>1. l[b] # l[N]
        BY <1>3, <1>6, <2>4 DEF Distinct
      <3>2. k \in 1 .. Len(m[u]) /\ w[u][k] = m[u][k]
        BY <1>8, <3>1
      <3>3. QED
        BY <1>1, <2>1, <2>2, <2>4, <3>2 DEF Rising
    <2>5. QED
      BY <1>6, <2>3, <2>4
  <1>14. QED
    BY <1>6, <1>7, <1>10, <1>11, <1>12, <1>13 DEF Shared, q, x, w

LEMMA SharedInit ==
  ASSUME NEW m, m = [t \in Threads |-> <<>>], NEW l \in Seq(Things)
  PROVE  Shared(m, l, l)
  <1>1. \A t \in Threads : 1 .. Len(m[t]) = {}
    BY EmptySeq
  <1>2. Queued(l, 0, l)
    BY LenProperties DEF Queued
  <1>3. Known(m, 0, l) /\ Complete(m, 0, l) /\ Once(m) /\ Rising(m, 0, l)
    BY <1>1 DEF Known, Complete, Once, Rising
  <1>4. QED
    BY <1>2, <1>3 DEF Shared

-----------------------------------------------------------------------------
LEMMA AnswerTypes ==
  /\ Initial \in Answers /\ Stopped \in Answers /\ Nothing \in Answers
  /\ \A u \in Updates : Entry(u) \in Answers
  /\ \A status \in Status : Error(status) \in Answers
  BY DEF Answers, Initial, Stopped, Nothing, Entry, Error

LEMMA InitIInv == Init => IInv
  <1> SUFFICES ASSUME Init PROVE IInv
    OBVIOUS
  <1>1. log \in Seq(Things) /\ History(log) /\ pending = log
    BY InitHistory DEF Init
  <1>2. TypeOK
    BY <1>1, AnswerTypes, EmptySeq DEF Init, TypeOK, Status, Steps, Things
  <1>3. Control
    BY DEF Init, Control, Inside
  <1>4. Mine = [t \in Threads |-> <<>>]
    BY DEF Init, Mine, Given, Holds, Returned
  <1>5. QED
    BY <1>1, <1>2, <1>3, <1>4, SharedInit DEF IInv

LEMMA NextTypeOK ==
  ASSUME TypeOK, Next
  PROVE  TypeOK'
  <1> USE DEF TypeOK, Status, Steps
  <1>1. ASSUME NEW u \in Updates, Put(u) PROVE TypeOK'
    BY <1>1, AppendProperties DEF Put, locals
  <1>2. ASSUME NEW t \in Threads, next(t) PROVE TypeOK'
    BY <1>2 DEF next, Meet, watcher
  <1>3. ASSUME NEW t \in Threads, kvWatcher_Next(t) PROVE TypeOK'
    <2>1. CASE Woken(t)
      BY <2>1 DEF Woken, watcher
    <2>2. CASE Taken(t)
      BY <2>2, HeadTailProperties DEF Taken
    <2>3. CASE TimedOut(t)
      BY <2>3 DEF TimedOut, watcher
    <2>4. QED
      BY <1>3, <2>1, <2>2, <2>3 DEF kvWatcher_Next
  <1>4. ASSUME NEW t \in Threads, stop(t) PROVE TypeOK'
    BY <1>4 DEF stop, Meet, watcher
  <1>5. ASSUME NEW t \in Threads, kvWatcher_Stop(t) PROVE TypeOK'
    BY <1>5 DEF kvWatcher_Stop
  <1>6. ASSUME NEW t \in Threads, Store(t) PROVE TypeOK'
    BY <1>6 DEF Store, locals, watcher
  <1>7. ASSUME NEW t \in Threads, Test(t) PROVE TypeOK'
    <2>1. answer' \in [Threads -> Answers]
      BY <1>7, AnswerTypes DEF Test
    <2>2. delivered' \in [Threads -> Seq(Updates \union {NULL})]
      <3>1. Append(delivered[t], e[t]) \in Seq(Updates \union {NULL})
        BY AppendProperties
      <3>2. QED
        BY <1>7, <3>1 DEF Test
    <2>3. QED
      BY <1>7, <2>1, <2>2 DEF Test, Part, locals, watcher
  <1>8. ASSUME NEW t \in Threads, Fail(t) PROVE TypeOK'
    BY <1>8, AnswerTypes DEF Fail, Part, locals, watcher
  <1>9. QED
    BY <1>1, <1>2, <1>3, <1>4, <1>5, <1>6, <1>7, <1>8, ThreadsAssumption DEF Next

(* The watcher keeps its types, whatever the build and the threads.        *)
THEOREM TypeCorrect == Spec => []TypeOK
  <1>1. Init => TypeOK
    BY InitIInv DEF IInv
  <1>2. TypeOK /\ UNCHANGED vars => TypeOK'
    BY DEF TypeOK, vars, locals, watcher
  <1>3. QED
    BY <1>1, <1>2, NextTypeOK, PTL DEF Spec

-----------------------------------------------------------------------------
(* Whoever is inside a call together with another thread is noted.         *)
LEMMA MeetNotes ==
  ASSUME Meet, NEW u \in Threads
  PROVE  overlapped'[u] <=>
           \/ overlapped[u]
           \/ \E v \in Threads : Inside(u)' /\ Inside(v)' /\ u # v
  <1> DEFINE inside == {v \in Threads : step'[v] # "idle"}
  <1>1. overlapped' = [w \in Threads |-> overlapped[w] \/ (w \in inside /\ inside # {w})]
    BY DEF Meet
  <1>2. overlapped'[u] <=> overlapped[u] \/ (u \in inside /\ inside # {u})
    BY <1>1, Zenon
  <1>3. u \in inside /\ inside # {u} <=> \E v \in Threads : Inside(u)' /\ Inside(v)' /\ u # v
    BY DEF Inside
  <1>4. QED
    BY <1>2, <1>3, Zenon

(* A step of thread t inside its call cannot disturb what another thread   *)
(* relies on, unless the two have met.                                     *)
LEMMA NextControl ==
  ASSUME OwnStatus, TypeOK, Control, Next
  PROVE  Control'
  <1> USE DEF TypeOK, Control, Inside, Tested
  <1>1. ASSUME NEW u \in Updates, Put(u) PROVE Control'
    BY <1>1 DEF Put, locals
  <1>2. ASSUME NEW t \in Threads, next(t) \/ stop(t) PROVE Control'
    <2>1. /\ step' = [step EXCEPT ![t] = "called"]
          /\ op'[t] \in {"next", "stop"} /\ \A u \in Threads \ {t} : op'[u] = op[u]
          /\ s' = s /\ ret' = ret /\ Meet
      BY <1>2 DEF next, stop
    <2>2. ASSUME NEW u \in Threads, NEW v \in Threads,
                 step'[u] # "idle", step'[v] # "idle", u # v
          PROVE  overlapped'[u]
      BY <2>1, <2>2, MeetNotes
    <2>3. \A u \in Threads : overlapped[u] => overlapped'[u]
      BY <2>1, MeetNotes
    <2>4. ASSUME NEW u \in Threads
          PROVE  /\ step'[u] # "idle" => op'[u] \in {"next", "stop"}
                 /\ step'[u] = "stored" => (IF Reload THEN s ELSE ret[u]) = ret[u]
                 /\ step'[u] = "failing" => ret[u] # "ok"
                 /\ step'[u] \in {"stored", "failing"} /\ ~overlapped'[u] => s = ret[u]
      <3>1. CASE u = t
        BY <2>1, <3>1
      <3>2. CASE u # t
        BY <2>1, <2>3, <3>2
      <3>3. QED
        BY <3>1, <3>2
    <2>5. QED
      BY <2>1, <2>2, <2>4
  <1>3. ASSUME NEW t \in Threads, kvWatcher_Next(t) PROVE Control'
    BY <1>3 DEF kvWatcher_Next, Woken, Taken, TimedOut
  <1>4. ASSUME NEW t \in Threads, kvWatcher_Stop(t) PROVE Control'
    BY <1>4 DEF kvWatcher_Stop
  <1>5. ASSUME NEW t \in Threads, Store(t) PROVE Control'
    BY <1>5 DEF Store, locals, OwnStatus
  <1>6. ASSUME NEW t \in Threads, Test(t) PROVE Control'
    BY <1>6 DEF Test, Part, locals
  <1>7. ASSUME NEW t \in Threads, Fail(t) PROVE Control'
    BY <1>7 DEF Fail, Part, locals
  <1>8. QED
    BY <1>1, <1>2, <1>3, <1>4, <1>5, <1>6, <1>7, ThreadsAssumption DEF Next

(* The watcher's own steps give a thread something, or nothing; passing it *)
(* on to the caller leaves it with the thread.                             *)
LEMMA NextShared ==
  ASSUME OwnStatus, TypeOK, Control, History(log), Shared(Mine, pending, log), Next
  PROVE  History(log)' /\ Shared(Mine, pending, log)'
  <1> DEFINE Goal == History(log') /\ Shared(Mine', pending', log')
  <1>a. Mine \in [Threads -> Seq(Things)] /\ pending \in Seq(Things) /\ log \in Seq(Things)
    <2>1. ASSUME NEW t \in Threads PROVE Given(t) \in Seq(Things)
      BY AppendProperties DEF TypeOK, Given, Things
    <2>2. QED
      BY <2>1 DEF TypeOK, Mine, Things
  <1>b. Distinct(log)
    BY <1>a, HistoryDistinct
  <1>c. ASSUME UNCHANGED <<pending, log>>, \A u \in Threads : Given(u)' = Given(u)
        PROVE  Goal
    <2>1. Mine' = Mine
      BY <1>c DEF Mine
    <2>2. QED
      BY <1>c, <2>1
  <1>1. ASSUME NEW u \in Updates, Put(u) PROVE Goal
    <2>1. Len(log) = u /\ log' = Append(log, u) /\ pending' = Append(pending, u)
      BY <1>1 DEF Put
    <2>2. Mine' = Mine
      BY <1>1 DEF Put, locals, Mine, Given, Holds, Returned
    <2>3. u \in Things
      BY DEF Things
    <2>4. QED
      BY <1>a, <2>1, <2>2, <2>3, HistoryGrows, SharedGrows
  <1>2. ASSUME NEW t \in Threads, next(t) PROVE Goal
    <2>1. \A u \in Threads : Given(u)' = Given(u)
      BY <1>2 DEF next, TypeOK, Given, Holds, Returned
    <2>2. QED
      BY <1>2, <1>c, <2>1 DEF next, watcher
  <1>3. ASSUME NEW t \in Threads, Woken(t) \/ TimedOut(t) PROVE Goal
    <2>1. \A u \in Threads : Given(u)' = Given(u)
      BY <1>3 DEF Woken, TimedOut, TypeOK, Given, Holds, Returned
    <2>2. QED
      BY <1>3, <1>c, <2>1 DEF Woken, TimedOut, watcher
  <1>4. ASSUME NEW t \in Threads, Taken(t) PROVE Goal
    <2>1. ~Holds(t) /\ Holds(t)' /\ e'[t] = Head(pending) /\ delivered' = delivered
      BY <1>4 DEF Taken, TypeOK, Holds, Returned
    <2>2. \A u \in Threads : u # t => Given(u)' = Given(u)
      BY <1>4 DEF Taken, TypeOK, Given, Holds, Returned
    <2>3. Given(t)' = Append(Mine[t], Head(pending))
      BY <2>1 DEF Mine, Given
    <2>4. Mine' = [Mine EXCEPT ![t] = Append(Mine[t], Head(pending))]
      BY <2>2, <2>3 DEF Mine
    <2>5. pending # <<>> /\ pending' = Tail(pending) /\ log' = log
      BY <1>4 DEF Taken
    <2>6. QED
      BY <1>a, <1>b, <2>4, <2>5, SharedTaken
  <1>5. ASSUME NEW t \in Threads, stop(t) PROVE Goal
    <2>1. \A u \in Threads : Given(u)' = Given(u)
      BY <1>5 DEF stop, TypeOK, Given, Holds, Returned
    <2>2. QED
      BY <1>5, <1>c, <2>1 DEF stop, watcher
  <1>6. ASSUME NEW t \in Threads, kvWatcher_Stop(t) PROVE Goal
    <2>1. \A u \in Threads : Given(u)' = Given(u)
      BY <1>6 DEF kvWatcher_Stop, TypeOK, Given, Holds, Returned
    <2>2. QED
      BY <1>6, <1>c, <2>1 DEF kvWatcher_Stop
  <1>7. ASSUME NEW t \in Threads, Store(t) PROVE Goal
    <2>1. \A u \in Threads : Given(u)' = Given(u)
      BY <1>7 DEF Store, locals, TypeOK, Given, Holds, Returned
    <2>2. QED
      BY <1>7, <1>c, <2>1 DEF Store, watcher
  <1>8. ASSUME NEW t \in Threads, Test(t) PROVE Goal
    <2>1. Tested(t) = ret[t]
      BY <1>8 DEF Control, Test
    <2>2. \A u \in Threads : u # t => Given(u)' = Given(u)
      BY <1>8 DEF Test, locals, TypeOK, Given, Holds, Returned
    <2>3. Given(t)' = Given(t)
      BY <1>8, <2>1 DEF Test, locals, TypeOK, Given, Holds, Returned
    <2>4. QED
      BY <1>8, <1>c, <2>2, <2>3 DEF Test, watcher
  <1>9. ASSUME NEW t \in Threads, Fail(t) PROVE Goal
    <2>1. ret[t] # "ok"
      BY <1>9 DEF Control, Fail
    <2>2. \A u \in Threads : Given(u)' = Given(u)
      BY <1>9, <2>1 DEF Fail, locals, TypeOK, Given, Holds, Returned
    <2>3. QED
      BY <1>9, <1>c, <2>2 DEF Fail, watcher
  <1>10. Goal
    BY <1>1, <1>2, <1>3, <1>4, <1>5, <1>6, <1>7, <1>8, <1>9, ThreadsAssumption
    DEF Next, kvWatcher_Next
  <1>11. QED
    BY <1>10 DEF Mine, Given, Holds, Returned

THEOREM AlwaysIInv ==
  ASSUME OwnStatus
  PROVE  Spec => []IInv
  <1>1. IInv /\ Next => IInv'
    <2> SUFFICES ASSUME IInv, Next PROVE IInv'
      OBVIOUS
    <2>1. TypeOK'
      BY NextTypeOK DEF IInv
    <2>2. Control'
      BY NextControl DEF IInv
    <2>3. History(log)' /\ Shared(Mine, pending, log)'
      BY NextShared DEF IInv
    <2>4. QED
      BY <2>1, <2>2, <2>3 DEF IInv
  <1>2. IInv /\ UNCHANGED vars => IInv'
    <2> SUFFICES ASSUME IInv, UNCHANGED vars PROVE IInv'
      OBVIOUS
    <2>1. TypeOK' /\ Control'
      BY DEF IInv, TypeOK, Control, Inside, Tested, vars, locals, watcher
    <2>2. Mine' = Mine /\ pending' = pending /\ log' = log
      BY DEF Mine, Given, Holds, Returned, vars, locals, watcher
    <2>3. QED
      BY <2>1, <2>2 DEF IInv
  <1>3. QED
    BY <1>1, <1>2, InitIInv, PTL DEF Spec

-----------------------------------------------------------------------------
(* What t has, in terms of what next returned to it and what it holds.     *)
LEMMA MineOf ==
  ASSUME TypeOK, NEW t \in Threads
  PROVE  /\ Mine[t] \in Seq(Things) /\ Len(delivered[t]) \in Nat
         /\ \A j \in 1 .. Len(delivered[t]) : j \in 1 .. Len(Mine[t]) /\ Mine[t][j] = delivered[t][j]
         /\ Holds(t) => /\ Len(Mine[t]) = Len(delivered[t]) + 1
                        /\ Mine[t][Len(delivered[t]) + 1] = e[t]
         /\ ~Holds(t) => Len(Mine[t]) = Len(delivered[t])
  <1>1. delivered[t] \in Seq(Things) /\ e[t] \in Things /\ Mine[t] = Given(t)
    BY DEF TypeOK, Things, Mine
  <1>2. CASE Holds(t)
    BY <1>1, <1>2, AppendProperties, LenProperties DEF Given
  <1>3. CASE ~Holds(t)
    BY <1>1, <1>3, LenProperties DEF Given
  <1>4. QED
    BY <1>2, <1>3

LEMMA PlacesOf ==
  ASSUME TypeOK, NEW x, NEW p
  PROVE  p \in Places(x) <=>
           \/ \E k \in 1 .. Len(pending) : pending[k] = x /\ p = <<NULL, k>>
           \/ \E t \in Threads : \E j \in 1 .. Len(delivered[t]) : delivered[t][j] = x /\ p = <<t, j>>
           \/ \E t \in Threads : Holds(t) /\ e[t] = x /\ p = <<t, 0>>
  <1>1. /\ DOMAIN pending = 1 .. Len(pending)
        /\ \A t \in Threads : DOMAIN delivered[t] = 1 .. Len(delivered[t])
    BY LenProperties DEF TypeOK
  <1> DEFINE Q == {<<NULL, k>> : k \in {j \in DOMAIN pending : pending[j] = x}}
             D(t) == {<<t, k>> : k \in {j \in DOMAIN delivered[t] : delivered[t][j] = x}}
             H == {<<t, 0>> : t \in {u \in Threads : Holds(u) /\ e[u] = x}}
  <1>2. p \in Q <=> \E k \in 1 .. Len(pending) : pending[k] = x /\ p = <<NULL, k>>
    BY <1>1
  <1>3. ASSUME NEW t \in Threads
        PROVE  p \in D(t) <=> \E j \in 1 .. Len(delivered[t]) : delivered[t][j] = x /\ p = <<t, j>>
    BY <1>1
  <1>4. p \in H <=> \E t \in Threads : Holds(t) /\ e[t] = x /\ p = <<t, 0>>
    OBVIOUS
  <1> DEFINE U == UNION {D(t) : t \in Threads}
  <1>5. p \in U <=> \E t \in Threads : p \in D(t)
    <2> HIDE DEF D
    <2>1. ASSUME p \in U PROVE \E t \in Threads : p \in D(t)
      <3>1. PICK d \in {D(t) : t \in Threads} : p \in d
        BY <2>1
      <3>2. QED
        BY <3>1
    <2>2. ASSUME NEW t \in Threads, p \in D(t) PROVE p \in U
      BY <2>2
    <2>3. QED
      BY <2>1, <2>2
  <1>6. Places(x) = Q \union U \union H
    BY DEF Places
  <1> HIDE DEF Q, D, H, U
  <1>7. p \in Places(x) <=> p \in Q \/ p \in U \/ p \in H
    BY <1>6
  <1>8. QED
    BY <1>2, <1>3, <1>4, <1>5, <1>7

(* Whatever the C watcher ever had is in one place: queued, in the hands   *)
(* of one call to next, or returned to one caller.                         *)
THEOREM ExactlyOnceAlways ==
  ASSUME OwnStatus
  PROVE  Spec => []ExactlyOnce
  <1>1. ASSUME IInv, NEW i \in DOMAIN log PROVE Cardinality(Places(log[i])) = 1
    <2>1. TypeOK /\ Distinct(log) /\ i \in 1 .. Len(log)
      BY <1>1, HistoryDistinct, LenProperties DEF IInv, TypeOK, Things
    <2>2. PICK n \in Nat : /\ Queued(pending, n, log) /\ Known(Mine, n, log)
                           /\ Complete(Mine, n, log) /\ Once(Mine)
      BY <1>1 DEF IInv, Shared
    <2>3. Len(pending) \in Nat /\ Len(log) = n + Len(pending)
      BY <2>1, <2>2, LenProperties DEF TypeOK, Queued
    <2>4. \A t \in Threads : \A j \in 1 .. Len(Mine[t]) : Mine[t][j] = log[i] => i \in 1 .. n
      <3> SUFFICES ASSUME NEW t \in Threads, NEW j \in 1 .. Len(Mine[t]), Mine[t][j] = log[i]
                   PROVE  i \in 1 .. n
        OBVIOUS
      <3>1. PICK a \in 1 .. n : Mine[t][j] = log[a]
        BY <2>2 DEF Known
      <3>2. a \in 1 .. Len(log) /\ log[a] = log[i]
        BY <2>3, <3>1
      <3>3. a = i
        BY <2>1, <3>2 DEF Distinct
      <3>4. QED
        BY <3>1, <3>3
    <2>5. ASSUME NEW t \in Threads, NEW j \in 1 .. Len(delivered[t]), delivered[t][j] = log[i]
          PROVE  i \in 1 .. n
      BY <2>1, <2>4, <2>5, MineOf
    <2>6. ASSUME NEW t \in Threads, Holds(t), e[t] = log[i]
          PROVE  i \in 1 .. n
      <3>1. Len(delivered[t]) + 1 \in 1 .. Len(Mine[t]) /\ Mine[t][Len(delivered[t]) + 1] = log[i]
        BY <2>1, <2>6, MineOf
      <3>2. QED
        BY <2>4, <3>1
    <2>7. CASE i \notin 1 .. n
      <3> DEFINE k == i - n
      <3>1. k \in 1 .. Len(pending) /\ i = n + k
        BY <2>1, <2>3, <2>7
      <3> HIDE DEF k
      <3>2. pending[k] = log[i]
        BY <2>2, <3>1 DEF Queued
      <3>3. ASSUME NEW h \in 1 .. Len(pending), pending[h] = log[i] PROVE h = k
        <4>1. n + h \in 1 .. Len(log) /\ log[n + h] = log[i]
          BY <2>2, <2>3, <3>3 DEF Queued
        <4>2. n + h = i
          BY <2>1, <4>1 DEF Distinct
        <4>3. QED
          BY <2>3, <3>1, <4>2
      <3>4. \A p : p \in Places(log[i]) <=> p = <<NULL, k>>
        BY <2>1, <2>5, <2>6, <2>7, <3>1, <3>2, <3>3, PlacesOf
      <3>5. Places(log[i]) = {<<NULL, k>>}
        BY <3>4
      <3>6. QED
        BY <3>5, FS_Singleton
    <2>8. CASE i \in 1 .. n
      <3>0. PICK t \in Threads : \E j \in 1 .. Len(Mine[t]) : Mine[t][j] = log[i]
        BY <2>2, <2>8 DEF Complete
      <3>1. PICK j \in 1 .. Len(Mine[t]) : Mine[t][j] = log[i]
        BY <3>0
      <3>2. \A u \in Threads : \A k \in 1 .. Len(Mine[u]) : Mine[u][k] = log[i] => u = t /\ k = j
        <4>1. \A u \in Threads : \A k \in 1 .. Len(Mine[u]), h \in 1 .. Len(Mine[t]) :
                Mine[u][k] = Mine[t][h] => u = t /\ k = h
          BY <2>2, Zenon DEF Once
        <4>2. QED
          BY <3>1, <4>1
      <3>3. \A k \in 1 .. Len(pending) : pending[k] # log[i]
        BY <2>1, <2>2, <2>3, <2>8 DEF Queued, Distinct
      <3>4. CASE j \in 1 .. Len(delivered[t])
        <4>1. delivered[t][j] = log[i]
          BY <2>1, <3>1, <3>4, MineOf
        <4>2. ASSUME NEW u \in Threads, NEW k \in 1 .. Len(delivered[u]), delivered[u][k] = log[i]
              PROVE  u = t /\ k = j
          BY <2>1, <3>2, <4>2, MineOf
        <4>3. ASSUME NEW u \in Threads, Holds(u), e[u] = log[i] PROVE FALSE
          <5>1. u = t /\ Len(delivered[u]) + 1 = j
            BY <2>1, <3>2, <4>3, MineOf
          <5>2. QED
            BY <2>1, <3>4, <5>1, MineOf
        <4>4. \A p : p \in Places(log[i]) <=> p = <<t, j>>
          BY <2>1, <3>3, <3>4, <4>1, <4>2, <4>3, PlacesOf
        <4>5. Places(log[i]) = {<<t, j>>}
          BY <4>4
        <4>6. QED
          BY <4>5, FS_Singleton
      <3>5. CASE j \notin 1 .. Len(delivered[t])
        <4>1. Holds(t) /\ j = Len(delivered[t]) + 1 /\ e[t] = log[i]
          BY <2>1, <3>1, <3>5, MineOf
        <4>2. ASSUME NEW u \in Threads, NEW k \in 1 .. Len(delivered[u]), delivered[u][k] = log[i]
              PROVE  FALSE
          <5>1. u = t /\ k = j
            BY <2>1, <3>2, <4>2, MineOf
          <5>2. QED
            BY <3>5, <5>1, <4>2
        <4>3. ASSUME NEW u \in Threads, Holds(u), e[u] = log[i] PROVE u = t
          BY <2>1, <3>2, <4>3, MineOf
        <4>4. \A p : p \in Places(log[i]) <=> p = <<t, 0>>
          BY <2>1, <3>3, <4>1, <4>2, <4>3, PlacesOf
        <4>5. Places(log[i]) = {<<t, 0>>}
          BY <4>4
        <4>6. QED
          BY <4>5, FS_Singleton
      <3>6. QED
        BY <3>4, <3>5
    <2>9. QED
      BY <2>7, <2>8
  <1>2. IInv => ExactlyOnce
    BY <1>1 DEF ExactlyOnce
  <1>3. QED
    BY <1>2, AlwaysIInv, PTL

(* Each thread is given updates and the end of the initial state in the    *)
(* order of the bucket, and what is queued comes later.                    *)
THEOREM InOrderAlways ==
  ASSUME OwnStatus
  PROVE  Spec => []InOrder
  <1>1. ASSUME IInv, NEW t \in Threads, NEW j \in DOMAIN Seen(t), NEW k \in DOMAIN Seen(t), j < k
        PROVE  Position(Seen(t)[j]) < Position(Seen(t)[k])
    <2>1. /\ TypeOK /\ Distinct(log) /\ DOMAIN log = 1 .. Len(log)
          /\ pending \in Seq(Things) /\ Len(pending) \in Nat
      BY <1>1, HistoryDistinct, LenProperties DEF IInv, TypeOK, Things
    <2>2. PICK n \in Nat : Queued(pending, n, log) /\ Known(Mine, n, log) /\ Rising(Mine, n, log)
      BY <1>1 DEF IInv, Shared
    <2>3. Mine[t] \in Seq(Things) /\ Len(Mine[t]) \in Nat
      BY <2>1, MineOf, LenProperties
    <2>4. Seen(t) = Mine[t] \o pending
      <3>1. delivered[t] \in Seq(Things) /\ e[t] \in Things
        BY <2>1 DEF TypeOK, Things
      <3>2. CASE Holds(t)
        BY <3>1, <3>2, AppendIsConcat DEF Seen, Mine, Given
      <3>3. CASE ~Holds(t)
        BY <3>1, <3>3, ConcatEmptySeq DEF Seen, Mine, Given
      <3>4. QED
        BY <3>2, <3>3
    <2>5. /\ DOMAIN Seen(t) = 1 .. Len(Mine[t]) + Len(pending)
          /\ \A i \in DOMAIN Seen(t) :
               Seen(t)[i] = IF i <= Len(Mine[t]) THEN Mine[t][i] ELSE pending[i - Len(Mine[t])]
      BY <2>1, <2>3, <2>4, ConcatProperties, LenProperties
    <2>6. \A i \in 1 .. Len(log) : Position(log[i]) = i
      BY <2>1 DEF Position, Distinct
    <2>7. /\ Len(log) = n + Len(pending)
          /\ \A i \in 1 .. Len(pending) : n + i \in 1 .. Len(log) /\ pending[i] = log[n + i]
      BY <2>1, <2>2 DEF Queued
    <2>8. \A i \in 1 .. Len(Mine[t]) : \E a \in 1 .. n : a \in 1 .. Len(log) /\ Mine[t][i] = log[a]
      BY <2>1, <2>2, <2>7 DEF Known
    <2>9. ASSUME NEW i \in DOMAIN Seen(t), i > Len(Mine[t])
           PROVE  Position(Seen(t)[i]) = n + (i - Len(Mine[t]))
      <3> DEFINE h == i - Len(Mine[t])
      <3>1. h \in 1 .. Len(pending) /\ Seen(t)[i] = pending[h]
        BY <2>1, <2>3, <2>5, <2>9
      <3> HIDE DEF h
      <3>2. n + h \in 1 .. Len(log) /\ Seen(t)[i] = log[n + h]
        BY <2>7, <3>1
      <3>3. Position(Seen(t)[i]) = n + h
        BY <2>6, <3>2
      <3>4. QED
        BY <3>3 DEF h
    <2>10. CASE j <= Len(Mine[t]) /\ k <= Len(Mine[t])
      <3>1. j \in 1 .. Len(Mine[t]) /\ k \in 1 .. Len(Mine[t])
        BY <2>3, <2>5, <2>10
      <3>2. PICK a \in 1 .. n : a \in 1 .. Len(log) /\ Mine[t][j] = log[a]
        BY <2>8, <3>1
      <3>3. PICK b \in 1 .. n : b \in 1 .. Len(log) /\ Mine[t][k] = log[b]
        BY <2>8, <3>1
      <3>4. a < b
        BY <1>1, <2>2, <3>1, <3>2, <3>3 DEF Rising
      <3>5. QED
        BY <2>5, <2>6, <2>10, <3>2, <3>3, <3>4
    <2>11. CASE j <= Len(Mine[t]) /\ k > Len(Mine[t])
      <3>1. j \in 1 .. Len(Mine[t]) /\ k - Len(Mine[t]) \in 1 .. Len(pending)
        BY <2>1, <2>3, <2>5, <2>11
      <3>2. PICK a \in 1 .. n : a \in 1 .. Len(log) /\ Mine[t][j] = log[a]
        BY <2>8, <3>1
      <3>3. Position(Seen(t)[j]) = a
        BY <2>5, <2>6, <2>11, <3>2
      <3>4. Position(Seen(t)[k]) = n + (k - Len(Mine[t]))
        BY <2>3, <2>9, <2>11
      <3>5. QED
        BY <3>1, <3>2, <3>3, <3>4
    <2>12. CASE j > Len(Mine[t])
      <3>1. j - Len(Mine[t]) \in 1 .. Len(pending) /\ k - Len(Mine[t]) \in 1 .. Len(pending)
        BY <1>1, <2>1, <2>3, <2>5, <2>12
      <3>2. /\ Position(Seen(t)[j]) = n + (j - Len(Mine[t]))
            /\ Position(Seen(t)[k]) = n + (k - Len(Mine[t]))
        BY <1>1, <2>3, <2>5, <2>9, <2>12
      <3>3. QED
        BY <1>1, <2>3, <2>5, <3>2
    <2>13. QED
      BY <2>3, <2>5, <2>10, <2>11, <2>12
  <1>2. IInv => InOrder
    BY <1>1, ThreadsAssumption DEF InOrder
  <1>3. QED
    BY <1>2, AlwaysIInv, PTL

-----------------------------------------------------------------------------
(* What a call came to is never mistaken for not having come to anything.  *)
LEMMA ToldKinds ==
  /\ Stopped # Nothing /\ Initial # Nothing
  /\ \A u : Entry(u) # Nothing
  /\ \A status : Error(status) # Nothing /\ Error(status).kind = "error"
  BY DEF Stopped, Initial, Nothing, Entry, Error

LEMMA ContractWords ==
  /\ W!Nothing = Nothing /\ W!Stopped = Stopped /\ W!Status = Status /\ W!Updates = Updates
  /\ \A x : W!Error(x) = Error(x)
  /\ \A x : W!Answered(x) = IF x = NULL THEN Initial ELSE Entry(x)
  BY DEF W!Nothing, Nothing, W!Stopped, Stopped, W!Status, Status, W!Updates, Updates,
         W!Error, Error, W!Answered, W!Initial, Initial, W!Entry, Entry

Waits == [t \in Threads |-> IF step[t] = "idle" THEN "none" ELSE op[t]]
Came == [t \in Threads |-> Told(t)]

LEMMA BeginStep ==
  ASSUME TypeOK, Control, NEW t \in Threads, NEW f \in {"next", "stop"},
         (f = "next" /\ next(t)) \/ (f = "stop" /\ stop(t))
  PROVE  W!Begin(t, f)
  <1> USE DEF TypeOK
  <1>1. /\ step[t] = "idle" /\ step' = [step EXCEPT ![t] = "called"]
        /\ op' = [op EXCEPT ![t] = f] /\ ret' = ret /\ \A u \in Threads : u # t => e'[u] = e[u]
        /\ Meet /\ UNCHANGED <<answer, watcher>>
    BY DEF next, stop
  <1>2. Waits[t] = "none" /\ Waits' = [Waits EXCEPT ![t] = f]
    BY <1>1 DEF Waits
  <1>3. Came' = Came
    <2>1. Told(t) = Nothing /\ Told(t)' = Nothing
      BY <1>1 DEF Told, Returned
    <2>2. \A u \in Threads : u # t => Told(u)' = Told(u)
      BY <1>1 DEF Told, Returned
    <2>3. QED
      BY <2>1, <2>2 DEF Came
  <1>4. overlapped' = [u \in Threads |->
          overlapped[u] \/ \E v \in Threads \ {u} : Waits'[u] # "none" /\ Waits'[v] # "none"]
    <2>1. \A u \in Threads : Waits'[u] # "none" <=> Inside(u)'
      BY <1>1 DEF Control, Waits, Inside
    <2>2. ASSUME NEW u \in Threads
          PROVE  overlapped'[u] <=>
                   (overlapped[u] \/ \E v \in Threads \ {u} : Waits'[u] # "none" /\ Waits'[v] # "none")
      <3>1. (\E v \in Threads : Inside(u)' /\ Inside(v)' /\ u # v)
              <=> \E v \in Threads \ {u} : Waits'[u] # "none" /\ Waits'[v] # "none"
        BY <2>1
      <3>2. QED
        BY <1>1, <3>1, MeetNotes, Zenon
    <2>3. \A u \in Threads : overlapped'[u] \in BOOLEAN
      BY <1>1, Zenon DEF Meet
    <2>4. overlapped' = [u \in Threads |-> overlapped'[u]]
      BY <1>1, Zenon DEF Meet
    <2>5. QED
      BY <2>2, <2>3, <2>4
  <1>5. QED
    BY <1>1, <1>2, <1>3, <1>4 DEF W!Begin, Waits, Came, watcher

(* The C call of t ends: that is when t's call takes effect.               *)
LEMMA ServeStep ==
  ASSUME TypeOK, Control, NEW t \in Threads
  PROVE  /\ kvWatcher_Next(t) => W!ServeNext(t)
         /\ kvWatcher_Stop(t) => W!ServeStop(t)
  <1> USE DEF TypeOK
  <1>1. ASSUME kvWatcher_Next(t) \/ kvWatcher_Stop(t)
        PROVE  /\ step[t] = "called" /\ Waits[t] = op[t] /\ Waits' = Waits
               /\ Came[t] = Nothing
               /\ \A x : Told(t)' = x => Came' = [Came EXCEPT ![t] = x]
               /\ UNCHANGED <<op, overlapped, answer, log>>
               /\ step'[t] = "returned"
    <2>1. /\ step[t] = "called" /\ step' = [step EXCEPT ![t] = "returned"] /\ op' = op
          /\ \A u \in Threads : u # t => ret'[u] = ret[u] /\ e'[u] = e[u]
          /\ UNCHANGED <<overlapped, answer, log>>
      BY <1>1 DEF kvWatcher_Next, Woken, Taken, TimedOut, kvWatcher_Stop, watcher
    <2>2. Waits[t] = op[t] /\ Waits' = Waits
      BY <2>1 DEF Waits
    <2>3. Came[t] = Nothing
      BY <2>1 DEF Came, Told, Returned
    <2>4. \A u \in Threads : u # t => Told(u)' = Told(u)
      BY <2>1 DEF Told, Returned
    <2>5. \A x : Told(t)' = x => Came' = [Came EXCEPT ![t] = x]
      BY <2>4 DEF Came
    <2>6. QED
      BY <2>1, <2>2, <2>3, <2>5
  <1>2. ASSUME kvWatcher_Next(t) PROVE W!ServeNext(t)
    <2>1. op[t] = "next" /\ op'[t] = "next" /\ step'[t] = "returned"
      BY <1>1, <1>2 DEF kvWatcher_Next, Woken, Taken, TimedOut
    <2>2. CASE Woken(t)
      <3>1. Told(t)' = Error("illegal_state")
        BY <2>1, <2>2 DEF Woken, Told, Returned, Status
      <3>2. QED
        BY <1>1, <1>2, <2>1, <2>2, <3>1, ContractWords
        DEF Woken, watcher, W!ServeNext, Waits, Came
    <2>3. CASE Taken(t)
      <3>1. Told(t)' = W!Answered(Head(pending))
        BY <2>1, <2>3, ContractWords DEF Taken, Told, Returned, Status
      <3>2. QED
        BY <1>1, <1>2, <2>1, <2>3, <3>1, ContractWords
        DEF Taken, W!ServeNext, Waits, Came
    <2>4. CASE TimedOut(t)
      <3>1. Told(t)' = Error("timeout")
        BY <2>1, <2>4 DEF TimedOut, Told, Returned, Status
      <3>2. QED
        BY <1>1, <1>2, <2>1, <2>4, <3>1, ContractWords
        DEF TimedOut, watcher, W!ServeNext, Waits, Came
    <2>5. QED
      BY <1>2, <2>2, <2>3, <2>4 DEF kvWatcher_Next
  <1>3. ASSUME kvWatcher_Stop(t) PROVE W!ServeStop(t)
    <2>1. op[t] = "stop" /\ op'[t] = "stop" /\ step'[t] = "returned" /\ pending' = pending
      BY <1>1, <1>3 DEF kvWatcher_Stop
    <2>2. CASE stopped' = TRUE /\ ret' = [ret EXCEPT ![t] = "ok"]
      <3>1. Told(t)' = Stopped
        BY <2>1, <2>2 DEF Told, Returned, Status
      <3>2. QED
        BY <1>1, <1>3, <2>1, <2>2, <3>1, ContractWords DEF W!ServeStop, Waits, Came
    <2>3. CASE ret' = [ret EXCEPT ![t] = "stop_failed"] /\ UNCHANGED stopped
      <3>1. Told(t)' = Error("stop_failed")
        BY <2>1, <2>3 DEF Told, Returned, Status
      <3>2. QED
        BY <1>1, <1>3, <2>1, <2>3, <3>1, ContractWords DEF W!ServeStop, Waits, Came
    <2>4. QED
      BY <1>3, <2>2, <2>3 DEF kvWatcher_Stop
  <1>4. QED
    BY <1>2, <1>3

(* The call of t returns: its caller is told what it came to.              *)
LEMMA TellStep ==
  ASSUME OwnStatus, TypeOK, Control, NEW t \in Threads, step[t] \in {"stored", "failing"},
         step' = [step EXCEPT ![t] = "idle"],
         Part(t), UNCHANGED <<s, locals, watcher>>,
         \/ answer' = [answer EXCEPT ![t] = Told(t)]
         \/ step[t] = "failing" /\ answer' = [answer EXCEPT ![t] = Error(s)]
  PROVE  W!Tell(t)
  <1> USE DEF TypeOK
  <1>1. Returned(t) /\ Came[t] = Told(t)
    BY DEF Returned, Came
  <1>2. Told(t) # Nothing
    BY <1>1, ToldKinds DEF Told
  <1>3. Waits' = [Waits EXCEPT ![t] = "none"]
    BY DEF Waits, locals
  <1>4. Came' = [Came EXCEPT ![t] = Nothing]
    <2>1. Told(t)' = Nothing
      BY DEF Told, Returned
    <2>2. \A u \in Threads : u # t => Told(u)' = Told(u)
      BY DEF Told, Returned, locals
    <2>3. QED
      BY <2>1, <2>2 DEF Came
  <1>5. \/ answer' = [answer EXCEPT ![t] = Came[t]]
        \/ /\ overlapped[t] /\ Came[t].kind = "error"
           /\ \E status \in Status : answer' = [answer EXCEPT ![t] = Error(status)]
    <2>1. ASSUME step[t] = "failing", answer' = [answer EXCEPT ![t] = Error(s)]
          PROVE  \/ answer' = [answer EXCEPT ![t] = Told(t)]
                 \/ /\ overlapped[t] /\ Told(t).kind = "error"
                    /\ \E status \in Status : answer' = [answer EXCEPT ![t] = Error(status)]
      <3>1. ret[t] # "ok"
        BY <2>1 DEF Control
      <3>2. Told(t) = Error(ret[t])
        BY <1>1, <3>1 DEF Told
      <3>3. overlapped[t] \/ s = ret[t]
        BY <2>1 DEF Control
      <3>4. QED
        BY <2>1, <3>2, <3>3, ToldKinds
    <2>2. QED
      BY <1>1, <2>1
  <1>6. overlapped' = [overlapped EXCEPT ![t] = FALSE] /\ UNCHANGED <<pending, log, stopped>>
    BY DEF Part, watcher
  <1>7. QED
    BY <1>1, <1>2, <1>3, <1>4, <1>5, <1>6, ContractWords DEF W!Tell, Waits, Came

LEMMA NextIsContractStep ==
  ASSUME OwnStatus, TypeOK, Control, Next
  PROVE  W!Next \/ UNCHANGED W!vars
  <1> USE DEF TypeOK
  <1>1. ASSUME NEW u \in Updates, Put(u) PROVE W!Put(u)
    BY <1>1 DEF Put, W!Put, Waits, Came, Told, Returned, locals
  <1>2. ASSUME NEW t \in Consumers, next(t) PROVE W!Begin(t, "next")
    BY <1>2, BeginStep, ThreadsAssumption
  <1>3. ASSUME NEW t \in Threads, stop(t) PROVE W!Begin(t, "stop")
    BY <1>3, BeginStep
  <1>4. ASSUME NEW t \in Threads, Store(t) PROVE UNCHANGED W!vars
    <2>1. Waits' = Waits
      BY <1>4 DEF Store, Waits, locals
    <2>2. \A u \in Threads : Told(u)' = Told(u)
      BY <1>4 DEF Store, Told, Returned, locals
    <2>3. QED
      BY <1>4, <2>1, <2>2 DEF Store, W!vars, Waits, watcher
  <1>5. ASSUME NEW t \in Threads, Test(t) PROVE W!Tell(t) \/ UNCHANGED W!vars
    <2>1. step[t] = "stored" /\ Tested(t) = ret[t] /\ Returned(t) /\ UNCHANGED <<s, locals, watcher>>
      BY <1>5 DEF Test, Control, Returned
    <2>2. CASE ret[t] # "ok"
      <3>1. step' = [step EXCEPT ![t] = "failing"] /\ UNCHANGED <<overlapped, answer, delivered>>
        BY <1>5, <2>1, <2>2 DEF Test
      <3>2. Waits' = Waits
        BY <2>1, <3>1 DEF Waits, locals
      <3>3. \A u \in Threads : Told(u)' = Told(u)
        BY <2>1, <3>1 DEF Told, Returned, locals
      <3>4. QED
        BY <2>1, <3>1, <3>2, <3>3 DEF W!vars, Waits, watcher
    <2>3. CASE ret[t] = "ok" /\ op[t] = "next"
      <3>1. answer' = [answer EXCEPT ![t] = Told(t)]
        BY <1>5, <2>1, <2>3 DEF Test, Told
      <3>2. QED
        BY <1>5, <2>1, <2>3, <3>1, TellStep DEF Test
    <2>4. CASE ret[t] = "ok" /\ op[t] = "stop"
      <3>1. answer' = [answer EXCEPT ![t] = Told(t)]
        BY <1>5, <2>1, <2>4 DEF Test, Told
      <3>2. QED
        BY <1>5, <2>1, <2>4, <3>1, TellStep DEF Test
    <2>5. op[t] \in {"next", "stop"}
      BY <2>1 DEF Control, Inside
    <2>6. QED
      BY <2>2, <2>3, <2>4, <2>5
  <1>6. ASSUME NEW t \in Threads, Fail(t) PROVE W!Tell(t)
    BY <1>6, TellStep DEF Fail
  <1>7. QED
    BY <1>1, <1>2, <1>3, <1>4, <1>5, <1>6, ServeStep, ThreadsAssumption, ContractWords
    DEF Next, W!Next

(* Threads that share a watcher get from it what WatchContract promises:   *)
(* each call takes effect at one instant, its caller learns what happened  *)
(* then, and only the status of an error may be another call's.            *)
THEOREM ContractImplemented ==
  ASSUME OwnStatus
  PROVE  Spec => ImplementsContract
  <1>1. Init => W!Init
    BY ContractWords DEF Init, W!Init, Told, Returned
  <1>2. IInv /\ [Next]_vars => [W!Next]_(W!vars)
    <2>1. ASSUME IInv, Next PROVE W!Next \/ UNCHANGED W!vars
      BY <2>1, NextIsContractStep DEF IInv
    <2>2. ASSUME UNCHANGED vars PROVE UNCHANGED W!vars
      BY <2>2 DEF vars, locals, watcher, W!vars, Told, Returned
    <2>3. QED
      BY <2>1, <2>2
  <1>3. QED
    BY <1>1, <1>2, AlwaysIInv, PTL DEF Spec, ImplementsContract, W!Spec
=============================================================================
