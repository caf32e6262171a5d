----------------------------- MODULE Ownership -----------------------------
(***************************************************************************)
(* What owning a C handle promises, whichever C++ object does the owning:  *)
(* a handle the NATS C library has given out has exactly one holder until  *)
(* it is given back to the library, it is given back once, and from then   *)
(* on nobody holds it.  RaiiHandle and NatsClient are shown to implement   *)
(* this specification.  A step may move several handles (a move assignment *)
(* releases one and takes over another), so a step is described handle by  *)
(* handle.                                                                 *)
(***************************************************************************)
EXTENDS Naturals

CONSTANTS
  Handles,   (* every handle the C library may ever give out               *)
  Holders    (* everything that can hold one                               *)

VARIABLES
  holders,   (* holders[h]: who holds h                                    *)
  released   (* released[h]: how often h was passed to its Destroy call    *)

vars == <<holders, released>>

Init ==
  /\ holders = [h \in Handles |-> {}]
  /\ released = [h \in Handles |-> 0]

Acquire(h) ==
  /\ holders[h] = {} /\ released[h] = 0
  /\ \E o \in Holders : holders'[h] = {o}
  /\ released'[h] = 0

Transfer(h) ==
  /\ \E o, p \in Holders : holders[h] = {o} /\ holders'[h] = {p}
  /\ released'[h] = released[h]

Release(h) ==
  /\ \E o \in Holders : holders[h] = {o}
  /\ holders'[h] = {}
  /\ released'[h] = released[h] + 1

Keep(h) == holders'[h] = holders[h] /\ released'[h] = released[h]

Next ==
  /\ DOMAIN holders' = Handles /\ DOMAIN released' = Handles
  /\ \A h \in Handles : Acquire(h) \/ Transfer(h) \/ Release(h) \/ Keep(h)

Spec == Init /\ [][Next]_vars

(***************************************************************************)
(* The promise as a state predicate: at most one holder, at most one       *)
(* release, and nobody holds what was released.                            *)
(***************************************************************************)
Sound ==
  \A h \in Handles :
    \/ holders[h] = {} /\ released[h] \in {0, 1}
    \/ (\E o \in Holders : holders[h] = {o}) /\ released[h] = 0
=============================================================================
