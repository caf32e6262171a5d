---------------------------- MODULE MCNatsClient ----------------------------
(***************************************************************************)
(* Two clients, moved back and forth, with two options, two connections    *)
(* and two JetStream contexts: enough for a second connect to overwrite a  *)
(* connection and for a client with JetStream to be assigned over another. *)
(***************************************************************************)
EXTENDS NatsClient, TLC

(* Locations and handles of one kind are interchangeable.                  *)
Symmetry ==
  Permutations(Clients) \union Permutations(Conns)
    \union Permutations(Opts) \union Permutations(JsCtxs)
=============================================================================
