----------------------------- MODULE MCLatBench -----------------------------
(***************************************************************************)
(* An instance of LatBench: three messages with room for one, so that the  *)
(* slow consumer's drops leave gaps at the start, in the middle and at the *)
(* end.  Between two readings the clock goes on, or is set back, by one    *)
(* unit; a second of two units is shorter than the run, and longer than a  *)
(* round that begins and ends at the same time, so that windows have one   *)
(* or several messages.                                                    *)
(***************************************************************************)
EXTENDS LatBench

MCTicks == {-1, 1}
=============================================================================
