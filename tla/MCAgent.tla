------------------------------ MODULE MCAgent ------------------------------
(* EdgeProcesses on small instances.                                         *)
EXTENDS EdgeProcesses

\* Addresses of three bits, and one port: every network, followed by the last
\* half of the addresses, a single address, or a quarter.
Nets == {[ip |-> a, ones |-> n] : a \in 0..7, n \in 1..3}
Others == {[ip |-> 7, ones |-> 1], [ip |-> 5, ones |-> 3], [ip |-> 2, ones |-> 2]}
MCConfigs == {<<n, m>> : n \in Nets, m \in Others}
MCPorts == <<80>>
=============================================================================
