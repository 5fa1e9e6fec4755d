--------------------------- MODULE MCNodeMonitor ---------------------------
(* NodeMonitor on a small instance. *)
EXTENDS NodeMonitor, TLC

CONSTANTS p, q, h1, h2

=============================================================================
