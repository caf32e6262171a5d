--------------------------- MODULE MCSubscription ---------------------------
(***************************************************************************)
(* An instance of Subscription.  A function accesses s at most three times *)
(* and races pairwise, so two threads show every race; with two messages   *)
(* the queue is shorter than, as long as and longer than a limit or a      *)
(* maximum.                                                                *)
(***************************************************************************)
EXTENDS Subscription
=============================================================================
