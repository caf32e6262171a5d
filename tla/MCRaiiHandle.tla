---------------------------- MODULE MCRaiiHandle ----------------------------
(***************************************************************************)
(* Three objects, so that a handle can be moved on while its first holder  *)
(* is reused, and three handles, so that a move assignment over a full     *)
(* object happens while a third handle is held elsewhere.                  *)
(***************************************************************************)
EXTENDS RaiiHandle
=============================================================================
