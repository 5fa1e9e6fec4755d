--------------------------- MODULE MetricsManager ---------------------------
(***************************************************************************)
(* The metrics of ICMP services (pkg/metrics/manager.go): one buffer of    *)
(* points per node, at most MaxNodes of them, the least recently reported  *)
(* node being evicted for a new one, and an hourly clean-up of nodes whose *)
(* last point is stale.  The handlers of the cloud's ReportStatus call     *)
(* AddMetric concurrently; `mu` protects the eviction list, while the map  *)
(* of buffers and its count are atomics that are used without it.          *)
(*                                                                         *)
(* Of a buffer (pkg/metrics/buffer.go) only what GetLastPoint finds is     *)
(* kept: nothing yet, a fresh point or a stale one.                        *)
(***************************************************************************)
EXTENDS Integers, FiniteSets, SequencesExt

CONSTANTS
  Nodes,      \* ids of pollers that report metrics
  Reporters,  \* goroutines that may be in AddMetric at once
  MaxNodes,   \* config.MaxNodes
  Free        \* nobody holds mu

\* What the theorems assume of the constants.
ConstantsOK ==
  /\ IsFiniteSet(Nodes) /\ IsFiniteSet(Reporters)
  /\ MaxNodes \in Nat \ {0}
  /\ Free \notin Reporters \cup {"cleaner"} /\ "cleaner" \notin Reporters

VARIABLES
  nodes,    \* the map of buffers: id -> what GetLastPoint finds in it
  count,    \* nodeCount (and activeNodes, which changes with it)
  lru,      \* evictList with evictMap: the front is the node used last
  mu,       \* who holds the lock
  add,      \* the running calls of AddMetric
  cleaner   \* the running call of CleanupStaleNodes

vars == <<nodes, count, lru, mu, add, cleaner>>

Points == {"none", "fresh", "stale"}

\* A call that has its buffer holds a reference: `held` says that the buffer is
\* still the one in the map, `newest` that nobody has claimed a slot of it since.
Idle == [pc |-> "idle"]
Call == [pc : {"limit", "evict", "evicted", "load", "count", "claim", "store"},
         node : Nodes, held : BOOLEAN, newest : BOOLEAN]

Off == [pc |-> "off"]
Cleaning == [pc : {"range", "drop", "dropped"}, todo : SUBSET Nodes,
             must : SUBSET Nodes, node : Nodes]

At(pc) == {r \in Reporters : add[r].pc = pc}
Stored == DOMAIN nodes

\* The map without the buffer of n, and the calls that hold a reference to it.
RemoveNode(n) == nodes' = [m \in Stored \ {n} |-> nodes[m]]
Detached(n) ==
  [r \in Reporters |-> IF add[r] # Idle /\ add[r].node = n
                       THEN [add[r] EXCEPT !.held = FALSE] ELSE add[r]]

Position(s, n) == CHOOSE i \in 1..Len(s) : s[i] = n
Without(s, n) == IF n \in ToSet(s) THEN RemoveAt(s, Position(s, n)) ELSE s

-----------------------------------------------------------------------------
Init ==
  /\ nodes = [n \in {} |-> "none"] /\ count = 0 /\ lru = <<>> /\ mu = Free
  /\ add = [r \in Reporters |-> Idle] /\ cleaner = Off

-----------------------------------------------------------------------------
(* AddMetric.                                                                *)

\* updateNodeLRU, under the lock.
UpdateNodeLRU(r, n) ==
  /\ add[r] = Idle /\ mu = Free
  /\ lru' = <<n>> \o Without(lru, n)
  /\ add' = [add EXCEPT ![r] = [pc |-> "limit", node |-> n, held |-> FALSE, newest |-> FALSE]]
  /\ UNCHANGED <<nodes, count, mu, cleaner>>

\* The limit is compared without the lock, and whether or not n has a buffer.
CheckLimit(r) ==
  /\ add[r].pc = "limit"
  /\ add' = [add EXCEPT ![r].pc = IF count >= MaxNodes THEN "evict" ELSE "load"]
  /\ UNCHANGED <<nodes, count, lru, mu, cleaner>>

\* evictOldest takes the lock and removes the node at the back of the list,
\* which may have no buffer ...
EvictOldest(r) ==
  /\ add[r].pc = "evict" /\ mu = Free /\ lru # <<>>
  /\ lru' = Front(lru)
  /\ IF Last(lru) \in Stored
     THEN /\ RemoveNode(Last(lru))
          /\ mu' = r
          /\ add' = [Detached(Last(lru)) EXCEPT ![r].pc = "evicted"]
     ELSE /\ add' = [add EXCEPT ![r].pc = "load"]
          /\ UNCHANGED <<nodes, mu>>
  /\ UNCHANGED <<count, cleaner>>

NothingToEvict(r) ==
  /\ add[r].pc = "evict" /\ mu = Free /\ lru = <<>>
  /\ add' = [add EXCEPT ![r].pc = "load"]
  /\ UNCHANGED <<nodes, count, lru, mu, cleaner>>

\* ... and then corrects the count.
CountEvicted(r) ==
  /\ add[r].pc = "evicted"
  /\ count' = count - 1 /\ mu' = Free
  /\ add' = [add EXCEPT ![r].pc = "load"]
  /\ UNCHANGED <<nodes, lru, cleaner>>

\* LoadOrStore.
LoadOrStore(r) ==
  /\ add[r].pc = "load"
  /\ IF add[r].node \in Stored
     THEN /\ add' = [add EXCEPT ![r].pc = "claim", ![r].held = TRUE]
          /\ UNCHANGED nodes
     ELSE /\ nodes' = [m \in Stored \cup {add[r].node} |-> IF m \in Stored THEN nodes[m] ELSE "none"]
          /\ add' = [add EXCEPT ![r].pc = "count", ![r].held = TRUE]
  /\ UNCHANGED <<count, lru, mu, cleaner>>

CountStored(r) ==
  /\ add[r].pc = "count"
  /\ count' = count + 1
  /\ add' = [add EXCEPT ![r].pc = "claim"]
  /\ UNCHANGED <<nodes, lru, mu, cleaner>>

\* The buffer's Add claims a slot: until the point is stored, GetLastPoint
\* finds there the point of the year 1970 it was made with, or in a full buffer
\* the oldest point.
ClaimSlot(r) ==
  LET n == add[r].node IN
  /\ add[r].pc = "claim"
  /\ IF add[r].held
     THEN /\ \E old \in IF nodes[n] = "none" THEN {"stale"} ELSE {"fresh", "stale"} :
               nodes' = [nodes EXCEPT ![n] = old]
          /\ add' = [q \in Reporters |->
                       IF q = r THEN [add[r] EXCEPT !.pc = "store", !.newest = TRUE]
                       ELSE IF add[q] # Idle /\ add[q].node = n
                            THEN [add[q] EXCEPT !.newest = FALSE] ELSE add[q]]
     ELSE /\ add' = [add EXCEPT ![r].pc = "store"]
          /\ UNCHANGED nodes
  /\ UNCHANGED <<count, lru, mu, cleaner>>

StorePoint(r) ==
  /\ add[r].pc = "store"
  /\ nodes' = IF add[r].held /\ add[r].newest
              THEN [nodes EXCEPT ![add[r].node] = "fresh"] ELSE nodes
  /\ add' = [add EXCEPT ![r] = Idle]
  /\ UNCHANGED <<count, lru, mu, cleaner>>

AddMetric(r) ==
  \/ CheckLimit(r) \/ EvictOldest(r) \/ NothingToEvict(r) \/ CountEvicted(r)
  \/ LoadOrStore(r) \/ CountStored(r) \/ ClaimSlot(r) \/ StorePoint(r)

-----------------------------------------------------------------------------
(* CleanupStaleNodes, under the lock.  Range visits every node that is in    *)
(* the map all the time, and perhaps some that are stored meanwhile.         *)

BeginCleanup ==
  /\ cleaner = Off /\ mu = Free
  /\ mu' = "cleaner"
  /\ \E n \in Nodes : cleaner' = [pc |-> "range", todo |-> Nodes, must |-> Stored, node |-> n]
  /\ UNCHANGED <<nodes, count, lru, add>>

VisitNode(n) ==
  /\ cleaner.pc = "range" /\ n \in cleaner.todo \cap Stored
  /\ cleaner' = [cleaner EXCEPT !.todo = @ \ {n}, !.must = @ \ {n}, !.node = n,
                   !.pc = IF nodes[n] = "stale" THEN "drop" ELSE "range"]
  /\ UNCHANGED <<nodes, count, lru, mu, add>>

\* Mutant: the eviction list is forgotten.
DropFromMapOnly ==
  /\ cleaner.pc = "drop"
  /\ RemoveNode(cleaner.node) /\ add' = Detached(cleaner.node)
  /\ cleaner' = [cleaner EXCEPT !.pc = "dropped"]
  /\ UNCHANGED <<count, lru, mu>>

\* The list is only read under the lock, so that it may change with the map.
DropNode ==
  /\ cleaner.pc = "drop"
  /\ RemoveNode(cleaner.node) /\ add' = Detached(cleaner.node)
  /\ lru' = Without(lru, cleaner.node)
  /\ cleaner' = [cleaner EXCEPT !.pc = "dropped"]
  /\ UNCHANGED <<count, mu>>

\* Mutant: only the map is corrected.
DropUncounted ==
  /\ cleaner.pc = "dropped"
  /\ cleaner' = [cleaner EXCEPT !.pc = "range"]
  /\ UNCHANGED <<nodes, count, lru, mu, add>>

CountDropped ==
  /\ cleaner.pc = "dropped"
  /\ count' = count - 1
  /\ cleaner' = [cleaner EXCEPT !.pc = "range"]
  /\ UNCHANGED <<nodes, lru, mu, add>>

EndCleanup ==
  /\ cleaner.pc = "range" /\ cleaner.must = {}
  /\ mu' = Free /\ cleaner' = Off
  /\ UNCHANGED <<nodes, count, lru, add>>

CleanupStaleNodes ==
  \/ BeginCleanup \/ DropNode \/ CountDropped \/ EndCleanup
  \/ \E n \in Nodes : VisitNode(n)

-----------------------------------------------------------------------------
(* A week passes without a metric of n.                                      *)

GrowStale(n) ==
  /\ n \in Stored /\ nodes[n] = "fresh"
  /\ \A r \in Reporters : add[r] # Idle => add[r].node # n
  /\ nodes' = [nodes EXCEPT ![n] = "stale"]
  /\ UNCHANGED <<count, lru, mu, add, cleaner>>

Next ==
  \/ CleanupStaleNodes
  \/ \E r \in Reporters : AddMetric(r)
  \/ \E r \in Reporters, n \in Nodes : UpdateNodeLRU(r, n)
  \/ \E n \in Nodes : GrowStale(n)

Spec == Init /\ [][Next]_vars

-----------------------------------------------------------------------------
(* Safety.                                                                   *)

TypeOK ==
  /\ Stored \subseteq Nodes /\ nodes \in [Stored -> Points]
  /\ count \in Int
  /\ lru \in Seq(Nodes)
  /\ mu \in Reporters \cup {"cleaner", Free}
  /\ add \in [Reporters -> Call \cup {Idle}]
  /\ cleaner \in Cleaning \cup {Off}

\* nodeCount is the number of buffers, give or take what the running calls have
\* stored or removed and not yet counted: no interleaving of insertions,
\* evictions and clean-up makes it drift.
CountAccurate ==
  count = Cardinality(Stored) - Cardinality(At("count"))
          + (IF At("evicted") # {} \/ cleaner.pc = "dropped" THEN 1 ELSE 0)

\* A node in the eviction list without a buffer is one that a running call is
\* about to store: once it returns, evicting an entry frees a buffer.
NoGhostEntries ==
  \A n \in ToSet(lru) \ Stored :
    \E r \in Reporters :
      add[r].pc \in {"limit", "evict", "evicted", "load"} /\ add[r].node = n

\* nodeCount is there "for enforcing limits" (manager.go:16): when no call is
\* running, there are no more than MaxNodes buffers.
LimitEnforced ==
  (\A r \in Reporters : add[r] = Idle) => Cardinality(Stored) <= MaxNodes
=============================================================================
