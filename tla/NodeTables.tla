----------------------------- MODULE NodeTables -----------------------------
(***************************************************************************)
(* What the node database promises (Service in pkg/db/interfaces.go): a    *)
(* node's row and its history change together or not at all, and a cleanup *)
(* takes all rows of a table that are older than a time and no others.     *)
(* NodeStore implements it.  (NodeMonitor writes a status in one step on   *)
(* the same promise.)                                                      *)
(***************************************************************************)
EXTENDS Naturals

CONSTANTS
  Nodes,   \* node ids
  Times    \* timestamps

VARIABLES
  nodes,      \* nodes: the row [seen, healthy] of each node that has one
  history,    \* node_history: [node, seen, healthy]
  services    \* service_status: [node, seen]

tables == <<nodes, history, services>>

TablesInit == nodes = [n \in {} |-> 0] /\ history = {} /\ services = {}

WriteStatus(n, r) ==
  /\ nodes' = [m \in DOMAIN nodes \cup {n} |-> IF m = n THEN r ELSE nodes[m]]
  /\ history' = history \cup {[node |-> n, seen |-> r.seen, healthy |-> r.healthy]}
  /\ UNCHANGED services

WriteService(n, t) == services' = services \cup {[node |-> n, seen |-> t]} /\ UNCHANGED <<nodes, history>>

Younger(table, t) == {row \in table : row.seen >= t}

\* The history goes first; the services may stay.
Clean(t) ==
  /\ history' = Younger(history, t)
  /\ services' \in {services, Younger(services, t)}
  /\ UNCHANGED nodes

TablesNext ==
  \/ \E n \in Nodes, t \in Times, b \in BOOLEAN : WriteStatus(n, [seen |-> t, healthy |-> b])
  \/ \E n \in Nodes, t \in Times : WriteService(n, t)
  \/ \E t \in Times : Clean(t)

TablesSpec == TablesInit /\ [][TablesNext]_tables
=============================================================================
