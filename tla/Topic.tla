------------------------------- MODULE Topic -------------------------------
(***************************************************************************)
(* What a subscriber of a subject may rely on: messages come at most once, *)
(* in the order in which they were published, and not before; any of them  *)
(* may be missing.                                                         *)
(***************************************************************************)
EXTENDS Naturals, Sequences

CONSTANT Rounds  (* how many messages are published                        *)

VARIABLES
  published,  (* how many messages were published                          *)
  received    (* the numbers of the messages the subscriber got            *)

Last == IF received = <<>> THEN 0 ELSE received[Len(received)]

Init == published = 0 /\ received = <<>>

Publish ==
  /\ published < Rounds
  /\ published' = published + 1
  /\ UNCHANGED received

Receive ==
  /\ \E n \in Last + 1 .. published : received' = Append(received, n)
  /\ UNCHANGED published

Spec == Init /\ [][Publish \/ Receive]_<<published, received>>
=============================================================================
