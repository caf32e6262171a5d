---------------------------- MODULE MCKvWatcher ----------------------------
(***************************************************************************)
(* Instances of KvWatcher.  Two updates let the initial state end before,  *)
(* between and after updates; two threads are enough for every race on s,  *)
(* which has two accesses per call.                                        *)
(***************************************************************************)
EXTENDS KvWatcher
=============================================================================
