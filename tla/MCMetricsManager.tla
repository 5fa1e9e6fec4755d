-------------------------- MODULE MCMetricsManager --------------------------
(* MetricsManager on a small instance. *)
EXTENDS MetricsManager

CONSTANTS n1, n2, n3, r1, r2, free

\* Nodes and goroutines are interchangeable.
Symmetry == Permutations({n1, n2, n3}) \cup Permutations({r1, r2})
=============================================================================
