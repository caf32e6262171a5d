-------------------------- MODULE RaiiHandleProofs --------------------------
(***************************************************************************)
(* Proofs about the wrapper classes, for any number of objects and         *)
(* handles.  The inductive invariant states ownership handle by handle;    *)
(* HandlesSound, which speaks of sets of holders, follows from it.         *)
(***************************************************************************)
EXTENDS RaiiHandle, TLAPS

(* Who may point to h, and when h has been destroyed.                      *)
AccountedFor(h) ==
  /\ released[h] \in {0, 1}
  /\ h \notin made => released[h] = 0
  /\ \A o \in alive : ptr[o] = h => h \in made /\ released[h] = 0
  /\ \A o, p \in alive : ptr[o] = h /\ ptr[p] = h => o = p
  /\ h \in made /\ released[h] = 0 => \E o \in alive : ptr[o] = h

CountNeedsKeys == \A o \in Objs : count[o] > 0 => ptr[o] # NULL

IInv ==
  /\ TypeOK
  /\ CountNeedsKeys
  /\ \A h \in Handles : AccountedFor(h)

(* The elementary operations; which class performs them does not matter.   *)
Operation ==
  \/ \E o \in Objs, h \in Handles : Construct(o, h)
  \/ \E o \in Objs : kvs_keys(o) \/ Destruct(o)
  \/ \E dst, src \in Objs : MoveConstruct(dst, src) \/ MoveAssign(dst, src)

LEMMA NextIsOperation == Next => Operation
  BY DEF Next, Operation, HandleStep, KvKeysListStep, NatsOptionsStep,
         NatsSubscriptionSyncStep, NatsMessageViewStep, KvStoreStep,
         KvEntryStep, KvWatcherStep

LEMMA InitIInv == Init => IInv
  BY NullAssumption, CountAssumption
     DEF Init, IInv, TypeOK, CountNeedsKeys, AccountedFor

-----------------------------------------------------------------------------
LEMMA ConstructIInv ==
  ASSUME IInv, NEW o \in Objs, NEW h \in Handles, Construct(o, h)
  PROVE  IInv'
  <1> USE NullAssumption, CountAssumption DEF IInv, Construct
  <1>1. TypeOK'
    BY DEF TypeOK
  <1>2. CountNeedsKeys'
    BY DEF TypeOK, CountNeedsKeys
  <1>3. ASSUME NEW g \in Handles PROVE AccountedFor(g)'
    BY DEF TypeOK, AccountedFor
  <1>4. QED
    BY <1>1, <1>2, <1>3

LEMMA KvsKeysIInv ==
  ASSUME IInv, NEW o \in Objs, kvs_keys(o)
  PROVE  IInv'
  <1> USE NullAssumption, CountAssumption DEF IInv, kvs_keys
  <1>1. TypeOK'
    BY DEF TypeOK
  <1>2. CountNeedsKeys'
    BY DEF TypeOK, CountNeedsKeys
  <1>3. ASSUME NEW g \in Handles PROVE AccountedFor(g)'
    BY DEF TypeOK, AccountedFor
  <1>4. QED
    BY <1>1, <1>2, <1>3

LEMMA DestructIInv ==
  ASSUME IInv, NEW o \in Objs, Destruct(o)
  PROVE  IInv'
  <1> USE NullAssumption, CountAssumption DEF IInv, Destruct, Destroyed
  <1>1. TypeOK'
    BY DEF TypeOK
  <1>2. CountNeedsKeys'
    BY DEF TypeOK, CountNeedsKeys
  <1>3. ASSUME NEW g \in Handles PROVE AccountedFor(g)'
    BY DEF TypeOK, AccountedFor
  <1>4. QED
    BY <1>1, <1>2, <1>3

LEMMA MoveConstructIInv ==
  ASSUME IInv, NEW dst \in Objs, NEW src \in Objs, MoveConstruct(dst, src)
  PROVE  IInv'
  <1> USE NullAssumption, CountAssumption DEF IInv, MoveConstruct
  <1>1. TypeOK'
    BY DEF TypeOK
  <1>2. CountNeedsKeys'
    BY DEF TypeOK, CountNeedsKeys
  <1>3. ASSUME NEW g \in Handles PROVE AccountedFor(g)'
    BY DEF TypeOK, AccountedFor
  <1>4. QED
    BY <1>1, <1>2, <1>3

LEMMA MoveAssignIInv ==
  ASSUME IInv, NEW dst \in Objs, NEW src \in Objs, MoveAssign(dst, src)
  PROVE  IInv'
  <1> USE NullAssumption, CountAssumption DEF IInv, MoveAssign, Destroyed
  <1>1. TypeOK'
    BY DEF TypeOK
  <1>2. CountNeedsKeys'
    BY DEF TypeOK, CountNeedsKeys
  <1>3. ASSUME NEW g \in Handles PROVE AccountedFor(g)'
    BY DEF TypeOK, AccountedFor
  <1>4. QED
    BY <1>1, <1>2, <1>3

LEMMA StepIInv == IInv /\ [Next]_vars => IInv'
  <1>1. ASSUME IInv, Next PROVE IInv'
    BY <1>1, NextIsOperation, ConstructIInv, KvsKeysIInv, DestructIInv,
       MoveConstructIInv, MoveAssignIInv DEF Operation
  <1>2. ASSUME IInv, UNCHANGED vars PROVE IInv'
    BY <1>2 DEF IInv, TypeOK, CountNeedsKeys, AccountedFor, vars
  <1>3. QED
    BY <1>1, <1>2

LEMMA AlwaysIInv == Spec => []IInv
  BY InitIInv, StepIInv, PTL DEF Spec

-----------------------------------------------------------------------------
LEMMA IInvImpliesSound == IInv => HandlesSound
  <1>1. SUFFICES ASSUME IInv, NEW h \in Handles
                 PROVE IF h \in made
                       THEN \/ (\E o \in alive : HoldersOf(h) = {o}) /\ released[h] = 0
                            \/ HoldersOf(h) = {} /\ released[h] = 1
                       ELSE HoldersOf(h) = {} /\ released[h] = 0
    BY DEF HandlesSound
  <1>2. AccountedFor(h)
    BY <1>1 DEF IInv
  <1>3. CASE h \in made /\ released[h] = 0
    <2>1. PICK o \in alive : ptr[o] = h
      BY <1>2, <1>3 DEF AccountedFor
    <2>2. HoldersOf(h) = {o}
      BY <1>2, <2>1 DEF AccountedFor, HoldersOf
    <2>3. QED
      BY <1>3, <2>2
  <1>4. CASE h \in made /\ released[h] = 1
    BY <1>2, <1>4 DEF AccountedFor, HoldersOf
  <1>5. CASE h \notin made
    BY <1>2, <1>5 DEF AccountedFor, HoldersOf
  <1>6. QED
    BY <1>2, <1>3, <1>4, <1>5 DEF AccountedFor

(* The type invariant, which also says that a destroyed object leaves no   *)
(* pointer and no count behind.                                            *)
THEOREM TypeCorrect == Spec => []TypeOK
  BY AlwaysIInv, PTL DEF IInv

(* No sequence of constructions, moves and destructions of wrapper objects *)
(* leaks a C handle, shares one or destroys one twice.                     *)
THEOREM HandlesAlwaysSound == Spec => []HandlesSound
  BY AlwaysIInv, IInvImpliesSound, PTL

(* KvKeysList::keys() never indexes a null or destroyed array.             *)
THEOREM KeysAlwaysReadable == Spec => []KeysReadable
  <1>1. IInv => KeysReadable
    BY NullAssumption DEF IInv, KeysReadable, CountNeedsKeys, AccountedFor, TypeOK
  <1>2. QED
    BY <1>1, AlwaysIInv, PTL

-----------------------------------------------------------------------------
(* What no operation does to a handle h: forget that it was given out,     *)
(* revive it after it lost its holder, or give it out without a holder.    *)
NoRevival(h) ==
  /\ h \in made => h \in made'
  /\ h \in made /\ HoldersOf(h) = {} => HoldersOf(h)' = {}
  /\ h \notin made /\ h \in made' => HoldersOf(h)' # {}

LEMMA NextNoRevival ==
  ASSUME IInv, Next, NEW h \in Handles
  PROVE  NoRevival(h)
  <1> USE NullAssumption DEF IInv, TypeOK, NoRevival, HoldersOf
  <1>1. CASE \E o \in Objs, g \in Handles : Construct(o, g)
    BY <1>1 DEF Construct
  <1>2. CASE \E o \in Objs : kvs_keys(o)
    BY <1>2 DEF kvs_keys
  <1>3. CASE \E o \in Objs : Destruct(o)
    BY <1>3 DEF Destruct
  <1>4. CASE \E dst, src \in Objs : MoveConstruct(dst, src)
    BY <1>4 DEF MoveConstruct
  <1>5. CASE \E dst, src \in Objs : MoveAssign(dst, src)
    BY <1>5 DEF MoveAssign
  <1>6. QED
    BY <1>1, <1>2, <1>3, <1>4, <1>5, NextIsOperation DEF Operation

(* With HandlesSound before and after it, a step does one of the four      *)
(* things Ownership allows to each handle.                                 *)
LEMMA NextIsOwnershipStep ==
  ASSUME IInv, IInv', Next
  PROVE  O!Next
  <1>1. HandlesSound /\ HandlesSound'
    <2>1. HandlesSound
      BY IInvImpliesSound
    <2>2. HandlesSound'
      BY IInvImpliesSound, PTL
    <2>3. QED
      BY <2>1, <2>2
  <1>2. ASSUME NEW h \in Handles
        PROVE  O!Acquire(h) \/ O!Transfer(h) \/ O!Release(h) \/ O!Keep(h)
    <2>1. NoRevival(h)
      BY <1>2, NextNoRevival
    <2>2. HoldersOf(h) = {} \/ \E o \in Objs : HoldersOf(h) = {o}
      BY <1>1 DEF HandlesSound, IInv, TypeOK
    <2>3. HoldersOf(h)' = {} \/ \E o \in Objs : HoldersOf(h)' = {o}
      BY <1>1 DEF HandlesSound, IInv, TypeOK
    <2>4. /\ HoldersOf(h) # {} => released[h] = 0
          /\ HoldersOf(h) = {} => released[h] = (IF h \in made THEN 1 ELSE 0)
      BY <1>1 DEF HandlesSound
    <2>5. /\ HoldersOf(h)' # {} => released'[h] = 0
          /\ HoldersOf(h)' = {} => released'[h] = (IF h \in made' THEN 1 ELSE 0)
      BY <1>1 DEF HandlesSound
    <2>6. HoldersOf(h) # {} => h \in made
      BY <1>1 DEF HandlesSound
    <2>7. QED
      BY <2>1, <2>2, <2>3, <2>4, <2>5, <2>6
         DEF NoRevival, O!Acquire, O!Transfer, O!Release, O!Keep
  <1>3. /\ DOMAIN [h \in Handles |-> HoldersOf(h)]' = Handles
        /\ DOMAIN released' = Handles
    BY DEF IInv, TypeOK
  <1>4. QED
    BY <1>2, <1>3 DEF O!Next

(* The wrapper classes implement exclusive ownership: each step of any     *)
(* number of objects is, for every C handle, an acquisition by one object, *)
(* a transfer to another, a single release, or nothing.                    *)
THEOREM OwnershipImplemented == Spec => ImplementsOwnership
  <1>1. Init => O!Init
    BY DEF Init, O!Init, HoldersOf
  <1>2. IInv /\ IInv' /\ [Next]_vars => [O!Next]_(O!vars)
    <2>1. ASSUME IInv, IInv', Next PROVE O!Next
      BY <2>1, NextIsOwnershipStep
    <2>2. ASSUME UNCHANGED vars PROVE UNCHANGED O!vars
      BY <2>2 DEF vars, O!vars, HoldersOf
    <2>3. QED
      BY <2>1, <2>2
  <1>3. QED
    BY <1>1, <1>2, AlwaysIInv, PTL DEF Spec, ImplementsOwnership, O!Spec
=============================================================================
