----------------------------- MODULE NatsClient -----------------------------
(***************************************************************************)
(* The life of NatsClient objects: create, the option setters, connect,    *)
(* jet_stream, move construction, move assignment, destruction; and the    *)
(* three kinds of C handle a client owns: its connection, its options and  *)
(* its JetStream context.                                                  *)
(*                                                                         *)
(* A client is used by one thread at a time, as in bench/ and scratch/;    *)
(* an operation is therefore one step.  NatsOptions::s is read by connect  *)
(* before anything wrote it, so its first value is arbitrary.  cleanup()   *)
(* ends the lifetime of the member opts by an explicit destructor call and *)
(* the member is destroyed, or assigned, once more afterwards: whether the *)
(* second pass still sees the old pointer depends on whether the compiler  *)
(* kept the destructor's store `ptr = nullptr` (it may drop it, nothing    *)
(* may read a destroyed object).  LifetimeDSE says which builds are meant. *)
(***************************************************************************)
EXTENDS Naturals

CONSTANTS
  Clients,     (* storage locations that can hold a NatsClient             *)
  Conns,       (* the natsConnection handles the C library can give out    *)
  Opts,        (* its natsOptions handles                                  *)
  JsCtxs,      (* its jsCtx handles                                        *)
  NULL,        (* the null pointer                                         *)
  Lost,        (* stands for "nobody": holder of an overwritten handle     *)
  LifetimeDSE  (* TRUE: builds that drop stores made by a destructor       *)

Handles == Conns \union Opts \union JsCtxs

ASSUME KindsAssumption ==
  /\ Conns \intersect Opts = {}
  /\ Conns \intersect JsCtxs = {}
  /\ Opts \intersect JsCtxs = {}
ASSUME NullAssumption == NULL \notin Handles /\ NULL \notin Clients
ASSUME LostAssumption == Lost \notin Clients
ASSUME BuildAssumption == LifetimeDSE \in BOOLEAN

Status == {"ok", "err"}
Codes == {"none", "options_error", "callback_error", "connect_error",
          "connected", "js_error", "js_enabled"}

VARIABLES
  alive,     (* the locations that hold a client                           *)
  conn,      (* conn[o], opt[o], js[o]: the members conn, opts.ptr and js  *)
  opt,
  js,
  optS,      (* optS[o]: the member opts.s                                 *)
  made,      (* the handles the C library has given out                    *)
  released,  (* released[h]: how often h was passed to its Destroy call    *)
  jsConn,    (* jsConn[j]: the connection j was created for                *)
  lost,      (* handles overwritten by a second connect or jet_stream      *)
  lastSet,   (* lastSet[p]: how the last setter on options p ended         *)
  answer     (* what the call that just ended told its caller              *)

members == <<conn, opt, js, optS>>
library == <<made, released, jsConn>>
history == <<lost, lastSet>>
vars == <<alive, members, library, history, answer>>

NoAnswer == [client |-> NULL, code |-> "none"]
Answer(o, c) == [client |-> o, code |-> c]

Init ==
  /\ alive = {}
  /\ conn = [o \in Clients |-> NULL]
  /\ opt = [o \in Clients |-> NULL]
  /\ js = [o \in Clients |-> NULL]
  /\ optS = [o \in Clients |-> "ok"]
  /\ made = {}
  /\ released = [h \in Handles |-> 0]
  /\ jsConn = [j \in JsCtxs |-> NULL]
  /\ lost = {}
  /\ lastSet = [p \in Opts |-> "unset"]
  /\ answer = NoAnswer

-----------------------------------------------------------------------------
(* One more Destroy call for handle p; none for the null pointer.          *)
Destroyed(rel, p) == [h \in Handles |-> IF h = p THEN rel[h] + 1 ELSE rel[h]]

(* Mutant: cleanup() does not destroy the JetStream context.               *)
CleanupForgetsJs(o) == Destroyed(Destroyed(released, conn[o]), opt[o])

(* cleanup(): the connection, the explicit opts.~NatsOptions(), js.        *)
Cleanup(o) ==
  Destroyed(Destroyed(Destroyed(released, conn[o]), opt[o]), js[o])

(* What opts.ptr may read as once opts has been destroyed by cleanup().    *)
AfterDestructor(p) == IF LifetimeDSE THEN {NULL, p} ELSE {NULL}

-----------------------------------------------------------------------------
(* create(): natsOptions_Create, then the new client is moved into the     *)
(* result; nothing ever writes opts.s on the way.                          *)
create(o) ==
  /\ o \notin alive
  /\ \E p \in Opts \ made : made' = made \union {p} /\ opt' = [opt EXCEPT ![o] = p]
  /\ \E s \in Status : optS' = [optS EXCEPT ![o] = s]
  /\ alive' = alive \union {o}
  /\ answer' = NoAnswer
  /\ UNCHANGED <<conn, js, released, jsConn, history>>

(* Any setter: the C call may reject its argument, and rejects every       *)
(* argument on null options; whatever it returns replaces opts.s.          *)
set_option(o) ==
  /\ o \in alive
  /\ \E s \in Status :
       /\ s = "ok" => opt[o] # NULL
       /\ optS' = [optS EXCEPT ![o] = s]
       /\ lastSet' = [p \in Opts |-> IF p = opt[o] THEN s ELSE lastSet[p]]
  /\ answer' = NoAnswer
  /\ UNCHANGED <<alive, conn, opt, js, library, lost>>

(* connect(), one disjunct per return: the guard on opts.s, one of the     *)
(* four callback setters, natsConnection_Connect, success.                 *)
ConnectRefused(o) ==
  /\ optS[o] # "ok"
  /\ answer' = Answer(o, "options_error")
  /\ UNCHANGED <<conn, made, lost>>

ConnectFailed(o) ==
  /\ optS[o] = "ok"
  /\ \/ answer' = Answer(o, "callback_error")
     \/ opt[o] # NULL /\ answer' = Answer(o, "connect_error")
  /\ UNCHANGED <<conn, made, lost>>

Connected(o) ==
  /\ optS[o] = "ok" /\ opt[o] # NULL
  /\ \E c \in Conns \ made : made' = made \union {c} /\ conn' = [conn EXCEPT ![o] = c]
  /\ lost' = lost \union ({conn[o]} \ {NULL})
  /\ answer' = Answer(o, "connected")

connect(o) ==
  /\ o \in alive
  /\ ConnectRefused(o) \/ ConnectFailed(o) \/ Connected(o)
  /\ UNCHANGED <<alive, opt, js, optS, released, jsConn, lastSet>>

(* jet_stream(): jsOptions_Init and natsConnection_JetStream may fail, the *)
(* latter does on a client without connection.                             *)
jet_stream(o) ==
  /\ o \in alive
  /\ \/ /\ answer' = Answer(o, "js_error")
        /\ UNCHANGED <<made, js, jsConn, lost>>
     \/ /\ conn[o] # NULL
        /\ \E j \in JsCtxs \ made :
             /\ made' = made \union {j}
             /\ js' = [js EXCEPT ![o] = j]
             /\ jsConn' = [jsConn EXCEPT ![j] = conn[o]]
        /\ lost' = lost \union ({js[o]} \ {NULL})
        /\ answer' = Answer(o, "js_enabled")
  /\ UNCHANGED <<alive, conn, opt, optS, released, lastSet>>

-----------------------------------------------------------------------------
(* Mutants: the source keeps its connection; the status stays behind.      *)
MoveConstructSharesConn(dst, src) ==
  /\ dst \notin alive /\ src \in alive
  /\ alive' = alive \union {dst}
  /\ conn' = [conn EXCEPT ![dst] = conn[src]]
  /\ opt' = [opt EXCEPT ![dst] = opt[src], ![src] = NULL]
  /\ optS' = [optS EXCEPT ![dst] = optS[src]]
  /\ answer' = NoAnswer
  /\ UNCHANGED <<js, library, history>>

MoveConstructForgetsStatus(dst, src) ==
  /\ dst \notin alive /\ src \in alive
  /\ alive' = alive \union {dst}
  /\ conn' = [conn EXCEPT ![dst] = conn[src], ![src] = NULL]
  /\ opt' = [opt EXCEPT ![dst] = opt[src], ![src] = NULL]
  /\ \E s \in Status : optS' = [optS EXCEPT ![dst] = s]
  /\ answer' = NoAnswer
  /\ UNCHANGED <<js, library, history>>

(* NatsClient(NatsClient&&): conn and opts change hands, js does not.      *)
MoveConstruct(dst, src) ==
  /\ dst \notin alive /\ src \in alive
  /\ alive' = alive \union {dst}
  /\ conn' = [conn EXCEPT ![dst] = conn[src], ![src] = NULL]
  /\ opt' = [opt EXCEPT ![dst] = opt[src], ![src] = NULL]
  /\ optS' = [optS EXCEPT ![dst] = optS[src]]
  /\ answer' = NoAnswer
  /\ UNCHANGED <<js, library, history>>

(* Mutant: the assigned client keeps its JetStream context.                *)
MoveAssignKeepsJs(dst, src) ==
  /\ dst \in alive /\ src \in alive /\ dst # src
  /\ released' = Destroyed(Destroyed(released, conn[dst]), opt[dst])
  /\ conn' = [conn EXCEPT ![dst] = conn[src], ![src] = NULL]
  /\ opt' = [opt EXCEPT ![dst] = opt[src], ![src] = NULL]
  /\ \E s \in Status : optS' = [optS EXCEPT ![dst] = optS[src], ![src] = s]
  /\ answer' = NoAnswer
  /\ UNCHANGED <<alive, js, made, jsConn, history>>

(* operator=(NatsClient&&): cleanup(), then NatsOptions::operator= first   *)
(* destroys whatever opts.ptr still reads as.  `other.opts = nullptr`      *)
(* assigns from a NatsOptions whose s nothing initialised.                 *)
MoveAssign(dst, src) ==
  /\ dst \in alive /\ src \in alive /\ dst # src
  /\ \E p \in AfterDestructor(opt[dst]) : released' = Destroyed(Cleanup(dst), p)
  /\ conn' = [conn EXCEPT ![dst] = conn[src], ![src] = NULL]
  /\ opt' = [opt EXCEPT ![dst] = opt[src], ![src] = NULL]
  /\ \E s \in Status : optS' = [optS EXCEPT ![dst] = optS[src], ![src] = s]
  /\ js' = [js EXCEPT ![dst] = NULL]
  /\ answer' = NoAnswer
  /\ UNCHANGED <<alive, made, jsConn, history>>

(* Mutant: the destructor leaves js in place.                              *)
DestructKeepsJs(o) ==
  /\ o \in alive
  /\ released' = Cleanup(o)
  /\ alive' = alive \ {o}
  /\ conn' = [conn EXCEPT ![o] = NULL]
  /\ opt' = [opt EXCEPT ![o] = NULL]
  /\ optS' = [optS EXCEPT ![o] = "ok"]
  /\ answer' = NoAnswer
  /\ UNCHANGED <<js, made, jsConn, history>>

(* ~NatsClient(): cleanup(), then the implicit destruction of opts.        *)
Destruct(o) ==
  /\ o \in alive
  /\ \E p \in AfterDestructor(opt[o]) : released' = Destroyed(Cleanup(o), p)
  /\ alive' = alive \ {o}
  /\ conn' = [conn EXCEPT ![o] = NULL]
  /\ opt' = [opt EXCEPT ![o] = NULL]
  /\ js' = [js EXCEPT ![o] = NULL]
  /\ optS' = [optS EXCEPT ![o] = "ok"]
  /\ answer' = NoAnswer
  /\ UNCHANGED <<made, jsConn, history>>

Next ==
  \/ \E o \in Clients :
       create(o) \/ set_option(o) \/ connect(o) \/ jet_stream(o) \/ Destruct(o)
  \/ \E dst, src \in Clients : MoveConstruct(dst, src) \/ MoveAssign(dst, src)

Spec == Init /\ [][Next]_vars

-----------------------------------------------------------------------------
(* Type invariant; a location without a client is clean memory.            *)
TypeOK ==
  /\ alive \in SUBSET Clients
  /\ conn \in [Clients -> Conns \union {NULL}]
  /\ opt \in [Clients -> Opts \union {NULL}]
  /\ js \in [Clients -> JsCtxs \union {NULL}]
  /\ optS \in [Clients -> Status]
  /\ made \in SUBSET Handles
  /\ released \in [Handles -> Nat]
  /\ jsConn \in [JsCtxs -> Conns \union {NULL}]
  /\ lost \in SUBSET (Conns \union JsCtxs)
  /\ lastSet \in [Opts -> Status \union {"unset"}]
  /\ answer \in [client : Clients \union {NULL}, code : Codes]
  /\ \A o \in Clients \ alive : conn[o] = NULL /\ opt[o] = NULL /\ js[o] = NULL

(* Who holds handle h: clients through one of their members, or nobody     *)
(* any more because a repeated connect or jet_stream overwrote it.         *)
HoldersOf(h) ==
  {o \in alive : h \in {conn[o], opt[o], js[o]}} \union {x \in {Lost} : h \in lost}

(* No handle is passed to its Destroy call twice, whatever the order of    *)
(* moves and destructions: the guard `if (ptr) {...; ptr = nullptr;}` of   *)
(* every destructor and the nulling of the moved-from members say so.      *)
ReleasedOnce == \A h \in Handles : released[h] <= 1

(* A handle the library gave out has one holder and was not released, or   *)
(* was released once and is in no client; none is held that was not given  *)
(* out.  A client therefore never calls the library on a destroyed handle. *)
HandlesSound ==
  \A h \in Handles :
    IF h \in made
    THEN \/ (\E o \in Clients \union {Lost} : HoldersOf(h) = {o}) /\ released[h] = 0
         \/ HoldersOf(h) = {} /\ released[h] = 1
    ELSE HoldersOf(h) = {} /\ released[h] = 0

(* A client's JetStream context belongs to its connection, or to one the   *)
(* same program lost by calling connect again; moves never leave a client  *)
(* with the connection of one client and the JetStream context of another. *)
JetStreamMatchesConnection ==
  \A o \in alive :
    js[o] # NULL /\ conn[o] # NULL =>
      jsConn[js[o]] = conn[o] \/ jsConn[js[o]] \in lost

(* If the last setter failed, opts.s still says so in whichever client the *)
(* options have been moved to, and connect refuses to use them.            *)
LastErrorBlocksConnect ==
  \A o \in alive :
    opt[o] # NULL =>
      /\ lastSet[opt[o]] = "err" => optS[o] = "err"
      /\ lastSet[opt[o]] = "ok" => optS[o] = "ok"

(* "To enable JetStream, call jet_stream() after connecting", Client.hpp   *)
(* 127; "Enable JetStream for the connection", 158: once a JetStream       *)
(* context exists for the connection of a client, that client can use it.  *)
JetStreamFollowsConnection ==
  \A o \in alive :
    conn[o] # NULL /\ (\E j \in JsCtxs \intersect made : jsConn[j] = conn[o])
      => js[o] # NULL

(* "NATS options has an error", Client.hpp 132, is said only of options on *)
(* which the last setter failed; calling no setter is no error.            *)
RefusalHasCause ==
  answer.code = "options_error" /\ opt[answer.client] # NULL =>
    lastSet[opt[answer.client]] = "err"

(* Clients implement exclusive ownership of all three kinds of handle,     *)
(* with Lost holding what connect and jet_stream overwrite.                *)
O == INSTANCE Ownership
       WITH Holders <- Clients \union {Lost},
            holders <- [h \in Handles |-> HoldersOf(h)]

ImplementsOwnership == O!Spec
=============================================================================
