-------------------------- MODULE OwnershipProofs --------------------------
(***************************************************************************)
(* The abstract specification keeps its promise: Sound is an invariant.    *)
(***************************************************************************)
EXTENDS Ownership, TLAPS

(* A step keeps the promise because each handle takes one of four steps,   *)
(* and none of them leads out of Sound.                                    *)
LEMMA OwnershipStep == Sound /\ [Next]_vars => Sound'
  <1>1. ASSUME Sound, Next PROVE Sound'
    <2>1. SUFFICES ASSUME NEW h \in Handles
                   PROVE \/ holders'[h] = {} /\ released'[h] \in {0, 1}
                         \/ (\E o \in Holders : holders'[h] = {o}) /\ released'[h] = 0
      BY DEF Sound
    <2>2. \/ holders[h] = {} /\ released[h] \in {0, 1}
          \/ (\E o \in Holders : holders[h] = {o}) /\ released[h] = 0
      BY <1>1 DEF Sound
    <2>3. Acquire(h) \/ Transfer(h) \/ Release(h) \/ Keep(h)
      BY <1>1 DEF Next
    <2>4. QED
      BY <2>2, <2>3 DEF Acquire, Transfer, Release, Keep
  <1>2. ASSUME Sound, UNCHANGED vars PROVE Sound'
    BY <1>2 DEF Sound, vars
  <1>3. QED
    BY <1>1, <1>2

(* In every behaviour of the abstract specification a handle has at most   *)
(* one holder, is released at most once, and has no holder afterwards.     *)
THEOREM OwnershipSound == Spec => []Sound
  <1>1. Init => Sound
    BY DEF Init, Sound
  <1>2. QED
    BY <1>1, OwnershipStep, PTL DEF Spec
=============================================================================
