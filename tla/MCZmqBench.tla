---------------------------- MODULE MCZmqBench -----------------------------
(***************************************************************************)
(* Two rounds; the program does not get past the first.                    *)
(***************************************************************************)
EXTENDS ZmqBench
=============================================================================
