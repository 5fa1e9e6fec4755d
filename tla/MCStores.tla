------------------------------ MODULE MCStores ------------------------------
(* SharedState on small instances.                                           *)
EXTENDS SharedState, TLC

CONSTANTS h1, h2, m1, m2, m3, r1, r2

\* The nodes and the goroutines of MetricsManager are interchangeable; no other
\* component has them.
Symmetry == Permutations({m1, m2, m3}) \cup Permutations({r1, r2})

Target(h, m, p) == [host |-> h, mode |-> m, port |-> p]
MCTargets == {Target(h1, "icmp", 0), Target(h1, "tcp", 80), Target(h2, "tcp", 80)}

\* Filters by port, by host, availability and end, and by start.
MCFilters ==
  {[hosts |-> {h1, h2}, port |-> 80, available |-> BOOLEAN, from |-> 0, to |-> 0],
   [hosts |-> {h1}, port |-> 0, available |-> {TRUE}, from |-> 0, to |-> 1],
   [hosts |-> {h1, h2}, port |-> 0, available |-> BOOLEAN, from |-> 2, to |-> 0]}
=============================================================================
