-------------------------- MODULE NatsClientProofs --------------------------
(***************************************************************************)
(* Proofs about NatsClient, for any number of clients and handles.         *)
(*                                                                         *)
(* The argument has two layers.  HInv says who holds what and what the     *)
(* option status and the JetStream contexts belong to; it holds in every   *)
(* build, because no guard of the code looks at what was released.         *)
(* Counted adds how often each handle was released; it needs the builds in *)
(* which the destructor of opts leaves a null pointer behind.              *)
(***************************************************************************)
EXTENDS NatsClient, TLAPS

Holds(o, h) == conn[o] = h \/ opt[o] = h \/ js[o] = h

(* A handle is held by one client at most, and neither while it is not yet *)
(* made nor after it was overwritten.                                      *)
Held(h) ==
  /\ h \notin made => h \notin lost /\ \A o \in Clients : ~Holds(o, h)
  /\ \A o \in Clients : Holds(o, h) => h \notin lost
  /\ \A o, p \in Clients : Holds(o, h) /\ Holds(p, h) => o = p

(* Only a moved-from client has a JetStream context and no connection; it  *)
(* has no options either, so it never gets a connection again.             *)
JetStreamAlone ==
  \A o \in Clients : js[o] # NULL /\ conn[o] = NULL => opt[o] = NULL

UnusedUnset == \A p \in Opts : p \notin made => lastSet[p] = "unset"

HInv ==
  /\ TypeOK
  /\ \A h \in Handles : Held(h)
  /\ JetStreamAlone
  /\ JetStreamMatchesConnection
  /\ UnusedUnset
  /\ LastErrorBlocksConnect

LEMMA InitHInv == Init => HInv
  BY KindsAssumption, NullAssumption
     DEF Init, HInv, TypeOK, Held, Holds, JetStreamAlone, JetStreamMatchesConnection,
         UnusedUnset, LastErrorBlocksConnect, Handles, NoAnswer, Codes, Status

-----------------------------------------------------------------------------
LEMMA CreateHInv ==
  ASSUME HInv, NEW o \in Clients, create(o)
  PROVE  HInv'
  <1> USE KindsAssumption, NullAssumption DEF HInv, create, history
  <1>1. TypeOK'
    BY DEF TypeOK, Handles, NoAnswer, Codes
  <1>2. ASSUME NEW h \in Handles PROVE Held(h)'
    BY DEF TypeOK, Held, Holds, Handles
  <1>3. JetStreamAlone'
    BY DEF TypeOK, JetStreamAlone
  <1>4. JetStreamMatchesConnection'
    BY DEF TypeOK, JetStreamMatchesConnection
  <1>5. UnusedUnset'
    BY DEF TypeOK, UnusedUnset
  <1>6. LastErrorBlocksConnect'
    BY DEF TypeOK, LastErrorBlocksConnect, UnusedUnset, Held, Holds, Handles
  <1>7. QED
    BY <1>1, <1>2, <1>3, <1>4, <1>5, <1>6

(* A setter changes the status of one client and lastSet of its options.   *)
LEMMA SetterHInv ==
  ASSUME HInv, NEW o \in Clients, set_option(o)
  PROVE  HInv'
  <1> USE KindsAssumption, NullAssumption DEF HInv, set_option, library
  <1>1. TypeOK'
    BY DEF TypeOK, NoAnswer, Codes, Status
  <1>2. ASSUME NEW h \in Handles PROVE Held(h)'
    BY DEF Held, Holds
  <1>3. JetStreamAlone'
    BY DEF JetStreamAlone
  <1>4. JetStreamMatchesConnection'
    BY DEF JetStreamMatchesConnection
  <1>5. UnusedUnset'
    BY DEF TypeOK, UnusedUnset, Held, Holds, Handles
  <1>6. LastErrorBlocksConnect'
    <2>1. SUFFICES ASSUME NEW q \in alive, opt[q] # NULL
                   PROVE  /\ lastSet'[opt[q]] = "err" => optS'[q] = "err"
                          /\ lastSet'[opt[q]] = "ok" => optS'[q] = "ok"
      BY DEF LastErrorBlocksConnect
    <2>2. q \in Clients /\ opt[q] \in Opts
      BY <2>1 DEF TypeOK
    <2>3. CASE q = o
      BY <2>1, <2>2, <2>3 DEF TypeOK, Status
    <2>4. CASE q # o
      <3>1. opt[o] # opt[q]
        BY <2>1, <2>2, <2>4 DEF Held, Holds, Handles
      <3>2. lastSet'[opt[q]] = lastSet[opt[q]] /\ optS'[q] = optS[q]
        BY <2>2, <2>4, <3>1 DEF TypeOK
      <3>3. QED
        BY <2>1, <3>2 DEF LastErrorBlocksConnect
    <2>5. QED
      BY <2>3, <2>4
  <1>7. QED
    BY <1>1, <1>2, <1>3, <1>4, <1>5, <1>6

LEMMA ConnectHInv ==
  ASSUME HInv, NEW o \in Clients, connect(o)
  PROVE  HInv'
  <1> USE KindsAssumption, NullAssumption DEF HInv, connect, ConnectRefused, ConnectFailed,
                                              Connected
  <1>1. TypeOK'
    BY DEF TypeOK, Handles, Answer, Codes, Status
  <1>2. ASSUME NEW h \in Handles PROVE Held(h)'
    BY DEF TypeOK, Held, Holds, Handles
  <1>3. JetStreamAlone'
    BY DEF TypeOK, JetStreamAlone, Handles
  <1>4. JetStreamMatchesConnection'
    BY DEF TypeOK, JetStreamAlone, JetStreamMatchesConnection
  <1>5. UnusedUnset'
    BY DEF TypeOK, UnusedUnset
  <1>6. LastErrorBlocksConnect'
    BY DEF LastErrorBlocksConnect
  <1>7. QED
    BY <1>1, <1>2, <1>3, <1>4, <1>5, <1>6

LEMMA JetStreamHInv ==
  ASSUME HInv, NEW o \in Clients, jet_stream(o)
  PROVE  HInv'
  <1> USE KindsAssumption, NullAssumption DEF HInv, jet_stream
  <1>1. TypeOK'
    BY DEF TypeOK, Handles, Answer, Codes
  <1>2. ASSUME NEW h \in Handles PROVE Held(h)'
    BY DEF TypeOK, Held, Holds, Handles
  <1>3. JetStreamAlone'
    BY DEF TypeOK, JetStreamAlone
  <1>4. JetStreamMatchesConnection'
    BY DEF TypeOK, JetStreamMatchesConnection, Held, Holds, Handles
  <1>5. UnusedUnset'
    BY DEF TypeOK, UnusedUnset
  <1>6. LastErrorBlocksConnect'
    BY DEF LastErrorBlocksConnect
  <1>7. QED
    BY <1>1, <1>2, <1>3, <1>4, <1>5, <1>6

LEMMA MoveConstructHInv ==
  ASSUME HInv, NEW dst \in Clients, NEW src \in Clients, MoveConstruct(dst, src)
  PROVE  HInv'
  <1> USE KindsAssumption, NullAssumption DEF HInv, MoveConstruct, library, history
  <1>1. TypeOK'
    BY DEF TypeOK, NoAnswer, Codes
  <1>2. ASSUME NEW h \in Handles PROVE Held(h)'
    BY DEF TypeOK, Held, Holds, Handles
  <1>3. JetStreamAlone'
    BY DEF TypeOK, JetStreamAlone
  <1>4. JetStreamMatchesConnection'
    BY DEF TypeOK, JetStreamMatchesConnection
  <1>5. UnusedUnset'
    BY DEF UnusedUnset
  <1>6. LastErrorBlocksConnect'
    BY DEF TypeOK, LastErrorBlocksConnect
  <1>7. QED
    BY <1>1, <1>2, <1>3, <1>4, <1>5, <1>6

(* Destroyed counts upwards only.                                          *)
LEMMA DestroyedType ==
  ASSUME NEW rel \in [Handles -> Nat], NEW p
  PROVE  Destroyed(rel, p) \in [Handles -> Nat]
  BY DEF Destroyed

LEMMA MoveAssignHInv ==
  ASSUME HInv, NEW dst \in Clients, NEW src \in Clients, MoveAssign(dst, src)
  PROVE  HInv'
  <1> USE KindsAssumption, NullAssumption DEF HInv, MoveAssign, history
  <1>1. TypeOK'
    <2>1. released' \in [Handles -> Nat]
      BY DestroyedType DEF TypeOK, Cleanup
    <2>2. QED
      BY <2>1 DEF TypeOK, NoAnswer, Codes
  <1>2. ASSUME NEW h \in Handles PROVE Held(h)'
    BY DEF TypeOK, Held, Holds, Handles
  <1>3. JetStreamAlone'
    BY DEF TypeOK, JetStreamAlone
  <1>4. JetStreamMatchesConnection'
    BY DEF TypeOK, JetStreamMatchesConnection
  <1>5. UnusedUnset'
    BY DEF UnusedUnset
  <1>6. LastErrorBlocksConnect'
    BY DEF TypeOK, LastErrorBlocksConnect
  <1>7. QED
    BY <1>1, <1>2, <1>3, <1>4, <1>5, <1>6

LEMMA DestructHInv ==
  ASSUME HInv, NEW o \in Clients, Destruct(o)
  PROVE  HInv'
  <1> USE KindsAssumption, NullAssumption DEF HInv, Destruct, history
  <1>1. TypeOK'
    <2>1. released' \in [Handles -> Nat]
      BY DestroyedType DEF TypeOK, Cleanup
    <2>2. QED
      BY <2>1 DEF TypeOK, NoAnswer, Codes, Status
  <1>2. ASSUME NEW h \in Handles PROVE Held(h)'
    BY DEF TypeOK, Held, Holds, Handles
  <1>3. JetStreamAlone'
    BY DEF TypeOK, JetStreamAlone
  <1>4. JetStreamMatchesConnection'
    BY DEF TypeOK, JetStreamMatchesConnection
  <1>5. UnusedUnset'
    BY DEF UnusedUnset
  <1>6. LastErrorBlocksConnect'
    BY DEF TypeOK, LastErrorBlocksConnect
  <1>7. QED
    BY <1>1, <1>2, <1>3, <1>4, <1>5, <1>6

LEMMA StepHInv == HInv /\ [Next]_vars => HInv'
  <1>1. ASSUME HInv, Next PROVE HInv'
    BY <1>1, CreateHInv, SetterHInv, ConnectHInv, JetStreamHInv, MoveConstructHInv,
       MoveAssignHInv, DestructHInv DEF Next
  <1>2. ASSUME HInv, UNCHANGED vars PROVE HInv'
    BY <1>2 DEF HInv, TypeOK, Held, Holds, JetStreamAlone, JetStreamMatchesConnection,
                UnusedUnset, LastErrorBlocksConnect, vars, members, library, history
  <1>3. QED
    BY <1>1, <1>2

LEMMA AlwaysHInv == Spec => []HInv
  BY InitHInv, StepHInv, PTL DEF Spec

(* The type invariant, in every build.                                     *)
THEOREM TypeCorrect == Spec => []TypeOK
  BY AlwaysHInv, PTL DEF HInv

(* In every build: no client ever has the connection of one client and the *)
(* JetStream context of another.                                           *)
THEOREM JetStreamAlwaysMatches == Spec => []JetStreamMatchesConnection
  BY AlwaysHInv, PTL DEF HInv

(* In every build: the failure of the last setter travels with the options *)
(* through moves, so that connect sees it.                                 *)
THEOREM LastErrorAlwaysBlocks == Spec => []LastErrorBlocksConnect
  BY AlwaysHInv, PTL DEF HInv

-----------------------------------------------------------------------------
(* Released handles.  From here on the build keeps the store               *)
(* `ptr = nullptr` of ~NatsOptions (LifetimeDSE = FALSE).                  *)
InUse(h) == h \in lost \/ \E o \in Clients : Holds(o, h)

Counted(h) == released[h] = IF h \in made /\ ~InUse(h) THEN 1 ELSE 0

IInv == HInv /\ \A h \in Handles : Counted(h)

LEMMA InitIInv == Init => IInv
  BY InitHInv DEF Init, IInv, Counted

(* cleanup() and the second pass over opts release once what the client    *)
(* held, and nothing else.                                                 *)
LEMMA ReleasedByCleanup ==
  ASSUME LifetimeDSE = FALSE, HInv, NEW o \in Clients, NEW h \in Handles,
         NEW p \in AfterDestructor(opt[o])
  PROVE  Destroyed(Cleanup(o), p)[h] = IF Holds(o, h) THEN released[h] + 1 ELSE released[h]
  <1>1. p = NULL /\ h # NULL
    BY NullAssumption DEF AfterDestructor
  <1>2. ~(conn[o] = h /\ opt[o] = h) /\ ~(conn[o] = h /\ js[o] = h) /\ ~(opt[o] = h /\ js[o] = h)
    BY <1>1, KindsAssumption DEF HInv, TypeOK
  <1>3. released \in [Handles -> Nat]
    BY DEF HInv, TypeOK
  <1>4. QED
    BY <1>1, <1>2, <1>3 DEF Destroyed, Cleanup, Holds

(* What a step does not do to handle h: forget that it was given out,      *)
(* revive it after it fell out of use, or give it out without a holder.    *)
(* It is released exactly when it falls out of use.                        *)
Accounted(h) ==
  /\ h \in made => h \in made'
  /\ h \in made /\ ~InUse(h) => ~InUse(h)'
  /\ h \notin made /\ h \in made' => InUse(h)'
  /\ released'[h] = IF InUse(h) /\ ~InUse(h)' THEN released[h] + 1 ELSE released[h]

LEMMA NextAccounted ==
  ASSUME LifetimeDSE = FALSE, HInv, HInv', Next, NEW h \in Handles
  PROVE  Accounted(h)
  <1> USE NullAssumption DEF HInv, Accounted, InUse, Holds
  <1>1. CASE \E o \in Clients : create(o)
    BY <1>1 DEF create, history, TypeOK, Handles
  <1>2. CASE \E o \in Clients : set_option(o)
    BY <1>2 DEF set_option, library
  <1>3. CASE \E o \in Clients : connect(o)
    BY <1>3 DEF connect, ConnectRefused, ConnectFailed, Connected, TypeOK, Handles
  <1>4. CASE \E o \in Clients : jet_stream(o)
    BY <1>4 DEF jet_stream, TypeOK, Handles
  <1>5. CASE \E dst, src \in Clients : MoveConstruct(dst, src)
    BY <1>5 DEF MoveConstruct, library, history, TypeOK
  <1>6. ASSUME NEW dst \in Clients, NEW src \in Clients, MoveAssign(dst, src)
        PROVE  Accounted(h)
    <2>1. PICK p \in AfterDestructor(opt[dst]) : released' = Destroyed(Cleanup(dst), p)
      BY <1>6 DEF MoveAssign
    <2>2. released'[h] = IF Holds(dst, h) THEN released[h] + 1 ELSE released[h]
      BY <2>1, ReleasedByCleanup
    <2>3. Held(h)
      OBVIOUS
    <2>4. QED
      BY <1>6, <2>2, <2>3 DEF MoveAssign, history, TypeOK, Held
  <1>7. ASSUME NEW o \in Clients, Destruct(o)
        PROVE  Accounted(h)
    <2>1. PICK p \in AfterDestructor(opt[o]) : released' = Destroyed(Cleanup(o), p)
      BY <1>7 DEF Destruct
    <2>2. released'[h] = IF Holds(o, h) THEN released[h] + 1 ELSE released[h]
      BY <2>1, ReleasedByCleanup
    <2>3. Held(h)
      OBVIOUS
    <2>4. QED
      BY <1>7, <2>2, <2>3 DEF Destruct, history, TypeOK, Held
  <1>8. QED
    BY <1>1, <1>2, <1>3, <1>4, <1>5, <1>6, <1>7 DEF Next

LEMMA StepIInv ==
  ASSUME LifetimeDSE = FALSE
  PROVE  IInv /\ [Next]_vars => IInv'
  <1>1. ASSUME IInv, Next PROVE IInv'
    <2>1. HInv'
      BY <1>1, StepHInv DEF IInv
    <2>2. ASSUME NEW h \in Handles PROVE Counted(h)'
      <3>1. Accounted(h) /\ Counted(h) /\ Held(h) /\ Held(h)'
        BY <1>1, <2>1, NextAccounted DEF IInv, HInv
      <3>2. (h \notin made => ~InUse(h)) /\ (h \notin made' => ~InUse(h)')
        BY <3>1 DEF Held, InUse
      <3>3. QED
        BY <3>1, <3>2 DEF Accounted, Counted
    <2>3. QED
      BY <2>1, <2>2 DEF IInv
  <1>2. ASSUME IInv, UNCHANGED vars PROVE IInv'
    <2>1. HInv'
      BY <1>2, StepHInv DEF IInv
    <2>2. QED
      BY <1>2, <2>1 DEF IInv, Counted, InUse, Holds, vars, members, library, history
  <1>3. QED
    BY <1>1, <1>2

LEMMA AlwaysIInv ==
  ASSUME LifetimeDSE = FALSE
  PROVE  Spec => []IInv
  BY InitIInv, StepIInv, PTL DEF Spec

(* A handle in use has exactly one holder, any other has none.             *)
OneHolder ==
  \A h \in Handles :
    /\ InUse(h) => \E o \in Clients \union {Lost} : HoldersOf(h) = {o}
    /\ ~InUse(h) => HoldersOf(h) = {}

LEMMA HoldersOfHandle == HInv => OneHolder
  <1> SUFFICES ASSUME HInv, NEW h \in Handles
               PROVE  /\ InUse(h) => \E o \in Clients \union {Lost} : HoldersOf(h) = {o}
                      /\ ~InUse(h) => HoldersOf(h) = {}
    BY DEF OneHolder
  <1>1. Held(h) /\ alive \subseteq Clients
    BY DEF HInv, TypeOK
  <1>2. \A o \in Clients : Holds(o, h) => o \in alive
    BY NullAssumption DEF HInv, TypeOK, Holds
  <1>3. HoldersOf(h) = {o \in Clients : Holds(o, h)} \union {x \in {Lost} : h \in lost}
    BY <1>1, <1>2 DEF HoldersOf, Holds
  <1>4. CASE h \in lost
    BY <1>1, <1>3, <1>4 DEF Held, InUse
  <1>5. ASSUME NEW o \in Clients, Holds(o, h), h \notin lost
        PROVE  HoldersOf(h) = {o}
    BY <1>1, <1>3, <1>5 DEF Held
  <1>6. QED
    BY <1>3, <1>4, <1>5 DEF InUse

(* Every handle is in one client or lost and never released, or in none    *)
(* and released once: nothing leaks but what a second connect or           *)
(* jet_stream overwrites, and nothing is used after it was released.       *)
THEOREM HandlesAlwaysSound ==
  ASSUME LifetimeDSE = FALSE
  PROVE  Spec => []HandlesSound
  <1>1. ASSUME IInv PROVE HandlesSound
    <2>1. SUFFICES ASSUME NEW h \in Handles
                   PROVE IF h \in made
                         THEN \/ /\ \E o \in Clients \union {Lost} : HoldersOf(h) = {o}
                                 /\ released[h] = 0
                              \/ HoldersOf(h) = {} /\ released[h] = 1
                         ELSE HoldersOf(h) = {} /\ released[h] = 0
      BY DEF HandlesSound
    <2>2. HInv /\ Counted(h) /\ Held(h)
      BY <1>1 DEF IInv, HInv
    <2>3. h \notin made => ~InUse(h)
      BY <2>2 DEF Held, InUse
    <2>4. QED
      BY <2>2, <2>3, HoldersOfHandle DEF Counted, OneHolder
  <1>2. QED
    BY <1>1, AlwaysIInv, PTL

(* No sequence of operations passes a handle to its Destroy call twice.    *)
THEOREM ReleasedAtMostOnce ==
  ASSUME LifetimeDSE = FALSE
  PROVE  Spec => []ReleasedOnce
  <1>1. IInv => ReleasedOnce
    BY DEF IInv, Counted, ReleasedOnce
  <1>2. QED
    BY <1>1, AlwaysIInv, PTL

-----------------------------------------------------------------------------
LEMMA NextIsOwnershipStep ==
  ASSUME LifetimeDSE = FALSE, IInv, IInv', Next
  PROVE  O!Next
  <1>1. ASSUME NEW h \in Handles
        PROVE  O!Acquire(h) \/ O!Transfer(h) \/ O!Release(h) \/ O!Keep(h)
    <2>1. Accounted(h)
      BY NextAccounted DEF IInv
    <2>2. /\ InUse(h) => \E o \in Clients \union {Lost} : HoldersOf(h) = {o}
          /\ ~InUse(h) => HoldersOf(h) = {}
      BY HoldersOfHandle DEF IInv, OneHolder
    <2>3. /\ InUse(h)' => \E o \in Clients \union {Lost} : HoldersOf(h)' = {o}
          /\ ~InUse(h)' => HoldersOf(h)' = {}
      <3>1. HInv'
        BY DEF IInv
      <3>2. OneHolder'
        BY <3>1, HoldersOfHandle, PTL
      <3>3. QED
        BY <3>2 DEF OneHolder
    <2>4. Counted(h) /\ Counted(h)'
      BY DEF IInv
    <2>5. QED
      BY <2>1, <2>2, <2>3, <2>4
         DEF Accounted, Counted, O!Acquire, O!Transfer, O!Release, O!Keep
  <1>2. /\ DOMAIN [h \in Handles |-> HoldersOf(h)]' = Handles
        /\ DOMAIN released' = Handles
    BY DEF IInv, HInv, TypeOK
  <1>3. QED
    BY <1>1, <1>2 DEF O!Next

(* Clients implement exclusive ownership of connections, options and       *)
(* JetStream contexts.                                                     *)
THEOREM OwnershipImplemented ==
  ASSUME LifetimeDSE = FALSE
  PROVE  Spec => ImplementsOwnership
  <1>1. Init => O!Init
    BY DEF Init, O!Init, HoldersOf
  <1>2. IInv /\ IInv' /\ [Next]_vars => [O!Next]_(O!vars)
    <2>1. ASSUME IInv, IInv', Next PROVE O!Next
      BY <2>1, NextIsOwnershipStep
    <2>2. ASSUME UNCHANGED vars PROVE UNCHANGED O!vars
      BY <2>2 DEF vars, members, library, history, O!vars, HoldersOf
    <2>3. QED
      BY <2>1, <2>2
  <1>3. QED
    BY <1>1, <1>2, AlwaysIInv, PTL DEF Spec, ImplementsOwnership, O!Spec
=============================================================================
