------------------------------ MODULE MCPoller ------------------------------
(***************************************************************************)
(* The poller (Poller) on a small instance: two agents with two checks     *)
(* each, and the fairness of its goroutines.                               *)
(***************************************************************************)
EXTENDS Poller

CONSTANTS a, b, k1, k2

LiveSpec == Spec /\ Fairness
=============================================================================
