----------------------------- MODULE RaiiHandle -----------------------------
(***************************************************************************)
(* The move-only wrapper classes of natsclient-cpp: one C++ object owns at *)
(* most one C handle, hands it over when it is moved from and destroys it  *)
(* in its destructor or when another object is move-assigned over it.      *)
(*                                                                         *)
(* All objects of a behaviour belong to one class, chosen in Init; classes *)
(* never exchange handles.  An operation is one step: a wrapper object is  *)
(* used by one thread at a time while it is moved or destroyed.            *)
(***************************************************************************)
EXTENDS Naturals

CONSTANTS
  Objs,     (* storage locations that can hold an object of the class      *)
  Handles,  (* the C handles of the class the library can give out         *)
  MaxCount, (* bound on KvKeysList's kl.Count                              *)
  NULL      (* the null pointer                                            *)

ASSUME NullAssumption == NULL \notin Handles
ASSUME CountAssumption == MaxCount \in Nat

Classes == {"NatsOptions", "NatsSubscriptionSync", "NatsMessageView",
            "KvStore", "KvEntry", "KvWatcher", "KvKeysList"}

VARIABLES
  class,    (* the class of every object of this behaviour                 *)
  alive,    (* the locations that hold a constructed object                *)
  ptr,      (* ptr[o]: the member ptr; kl.Keys of a KvKeysList             *)
  count,    (* count[o]: kl.Count of a KvKeysList, 0 in the other classes  *)
  made,     (* the handles the C library has given out                     *)
  released  (* released[h]: how often h was passed to its Destroy call     *)

vars == <<class, alive, ptr, count, made, released>>

Init ==
  /\ class \in Classes
  /\ alive = {}
  /\ ptr = [o \in Objs |-> NULL]
  /\ count = [o \in Objs |-> 0]
  /\ made = {}
  /\ released = [h \in Handles |-> 0]

-----------------------------------------------------------------------------
(* `if (ptr) X_Destroy(ptr)` on the C side: the handle p counts once more. *)
Destroyed(p) == [h \in Handles |-> IF h = p THEN released[h] + 1 ELSE released[h]]

(* A library call gives out a handle and the wrapper is built around it.   *)
Construct(o, h) ==
  /\ o \notin alive /\ h \notin made
  /\ alive' = alive \union {o}
  /\ made' = made \union {h}
  /\ ptr' = [ptr EXCEPT ![o] = h]
  /\ UNCHANGED <<class, count, released>>

(* Mutant: the destructor leaves its pointer in place.                     *)
DestructKeepsPtr(o) ==
  /\ o \in alive
  /\ alive' = alive \ {o}
  /\ released' = Destroyed(ptr[o])
  /\ UNCHANGED <<class, ptr, count, made>>

Destruct(o) ==
  /\ o \in alive
  /\ alive' = alive \ {o}
  /\ released' = Destroyed(ptr[o])
  /\ ptr' = [ptr EXCEPT ![o] = NULL]
  /\ count' = [count EXCEPT ![o] = 0]
  /\ UNCHANGED <<class, made>>

(* Mutants: the source keeps the pointer it gave away, or its key count.   *)
MoveConstructShares(dst, src) ==
  /\ dst \notin alive /\ src \in alive
  /\ alive' = alive \union {dst}
  /\ ptr' = [ptr EXCEPT ![dst] = ptr[src]]
  /\ count' = [count EXCEPT ![dst] = count[src], ![src] = 0]
  /\ UNCHANGED <<class, made, released>>

MoveConstructKeepsCount(dst, src) ==
  /\ dst \notin alive /\ src \in alive
  /\ alive' = alive \union {dst}
  /\ ptr' = [ptr EXCEPT ![dst] = ptr[src], ![src] = NULL]
  /\ count' = [count EXCEPT ![dst] = count[src]]
  /\ UNCHANGED <<class, made, released>>

MoveConstruct(dst, src) ==
  /\ dst \notin alive /\ src \in alive
  /\ alive' = alive \union {dst}
  /\ ptr' = [ptr EXCEPT ![dst] = ptr[src], ![src] = NULL]
  /\ count' = [count EXCEPT ![dst] = count[src], ![src] = 0]
  /\ UNCHANGED <<class, made, released>>

(* Mutant: the handle of the assigned object is overwritten.               *)
MoveAssignLeaks(dst, src) ==
  /\ dst \in alive /\ src \in alive /\ dst # src
  /\ ptr' = [ptr EXCEPT ![dst] = ptr[src], ![src] = NULL]
  /\ count' = [count EXCEPT ![dst] = count[src], ![src] = 0]
  /\ UNCHANGED <<class, alive, made, released>>

MoveAssign(dst, src) ==
  /\ dst \in alive /\ src \in alive
  /\ dst # src                                  \* self-assignment does nothing
  /\ released' = Destroyed(ptr[dst])
  /\ ptr' = [ptr EXCEPT ![dst] = ptr[src], ![src] = NULL]
  /\ count' = [count EXCEPT ![dst] = count[src], ![src] = 0]
  /\ UNCHANGED <<class, alive, made>>

-----------------------------------------------------------------------------
(* The life of an object of a class that wraps a single pointer.           *)
HandleStep(c) ==
  /\ class = c
  /\ \/ \E o \in Objs, h \in Handles : Construct(o, h)
     \/ \E o \in Objs : Destruct(o)
     \/ \E dst, src \in Objs : MoveConstruct(dst, src) \/ MoveAssign(dst, src)

NatsOptionsStep == HandleStep("NatsOptions")
NatsSubscriptionSyncStep == HandleStep("NatsSubscriptionSync")
NatsMessageViewStep == HandleStep("NatsMessageView")
KvStoreStep == HandleStep("KvStore")
KvEntryStep == HandleStep("KvEntry")
KvWatcherStep == HandleStep("KvWatcher")

(* kvs_keys default-constructs a list and has the library fill in kl: n     *)
(* keys in an array h, or a null array and Count 0 for an empty bucket.     *)
kvs_keys(o) ==
  /\ o \notin alive
  /\ alive' = alive \union {o}
  /\ \/ \E h \in Handles \ made, n \in 1 .. MaxCount :
          /\ made' = made \union {h}
          /\ ptr' = [ptr EXCEPT ![o] = h]
          /\ count' = [count EXCEPT ![o] = n]
     \/ UNCHANGED <<made, ptr, count>>
  /\ UNCHANGED <<class, released>>

KvKeysListStep ==
  /\ class = "KvKeysList"
  /\ \/ \E o \in Objs : kvs_keys(o) \/ Destruct(o)
     \/ \E dst, src \in Objs : MoveConstruct(dst, src) \/ MoveAssign(dst, src)

Next ==
  \/ NatsOptionsStep
  \/ NatsSubscriptionSyncStep
  \/ NatsMessageViewStep
  \/ KvStoreStep
  \/ KvEntryStep
  \/ KvWatcherStep
  \/ KvKeysListStep

Spec == Init /\ [][Next]_vars

-----------------------------------------------------------------------------
(* Type invariant; a location without an object is clean memory.           *)
TypeOK ==
  /\ class \in Classes
  /\ alive \in SUBSET Objs
  /\ ptr \in [Objs -> Handles \union {NULL}]
  /\ count \in [Objs -> 0 .. MaxCount]
  /\ made \in SUBSET Handles
  /\ released \in [Handles -> Nat]
  /\ \A o \in Objs \ alive : ptr[o] = NULL /\ count[o] = 0

(* The objects that hold handle h.                                         *)
HoldersOf(h) == {o \in alive : ptr[o] = h}

(* Every handle the library gave out is either held by exactly one object  *)
(* and not yet destroyed, or was destroyed once and is held by none; an    *)
(* object never holds a handle the library did not give out.  Whatever the *)
(* sequence of moves, nothing leaks and nothing is destroyed twice.        *)
HandlesSound ==
  \A h \in Handles :
    IF h \in made
    THEN \/ (\E o \in alive : HoldersOf(h) = {o}) /\ released[h] = 0
         \/ HoldersOf(h) = {} /\ released[h] = 1
    ELSE HoldersOf(h) = {} /\ released[h] = 0

(* KvKeysList::keys() indexes kl.Keys for every i < kl.Count and tests no  *)
(* pointer: whenever Count is positive, in a moved-from list too, Keys is  *)
(* an array that has not been destroyed.                                   *)
KeysReadable ==
  \A o \in alive :
    count[o] > 0 => ptr[o] \in made /\ released[ptr[o]] = 0

(* The wrapper classes implement exclusive ownership of their handles.     *)
O == INSTANCE Ownership
       WITH Holders <- Objs, holders <- [h \in Handles |-> HoldersOf(h)]

ImplementsOwnership == O!Spec
=============================================================================
