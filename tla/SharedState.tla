---------------------------- MODULE SharedState -----------------------------
(***************************************************************************)
(* What goroutines share: the pool of ICMP sockets (SocketPool), the       *)
(* results of a sweep on their way into the processor and the store        *)
(* (SweepProcessor, MemoryStore, SqliteStore), the node database           *)
(* (NodeStore), the webhooks (WebhookAlerter), the buffers of the nodes'   *)
(* metrics (MetricsManager) and the points of one of them (MetricRing).    *)
(* They share no variable with each other: as in Scanning, a behaviour is  *)
(* one of a component that runs while the others rest.                     *)
(***************************************************************************)
EXTENDS Naturals, FiniteSets

CONSTANTS
  Users, Entries, Files, MaxSockets,                         \* SocketPool
  Targets, Filters, MaxResults,                              \* the processor and the stores
  Writers, Nodes, Health, Limit,                             \* NodeStore
  MaxTime,                                                   \* the stores' bound on the clock
  Calls, Titles, Webhooks, Enabled, Cooldown, MaxAlertTime,  \* WebhookAlerter
  Adders, Readers, Size, MaxAdds,                            \* MetricRing
  MetricNodes, Reporters, MaxNodes, Free                     \* MetricsManager

VARIABLES
  part,                                                         \* the component that runs
  sockets, entry, openFiles, user, poolShut,                    \* SocketPool
  hostMap, portCounts, inHand, known, lastP, report,            \* SweepProcessor
  results, open, clockM, lastM,                                 \* MemoryStore
  rows, pruning, deleted, cutoff, clockQ, lastQ,                \* SqliteStore
  nodes, history, services, tx, lock, staged, row, points, cleaned, clockN,   \* NodeStore
  call, lastAlertTimes, delivered, clockW,                      \* WebhookAlerter
  ring, pos, adding, reading, overtaken,                        \* MetricRing
  buffers, count, lru, mu, add, cleaner                         \* MetricsManager

Pool == INSTANCE SocketPool

Processor == INSTANCE SweepProcessor WITH last <- lastP

Memory == INSTANCE MemoryStore WITH clock <- clockM, last <- lastM

Sqlite == INSTANCE SqliteStore WITH clock <- clockQ, last <- lastQ

Database == INSTANCE NodeStore WITH clock <- clockN

Alerter == INSTANCE WebhookAlerter WITH MaxTime <- MaxAlertTime, clock <- clockW

Ring == INSTANCE MetricRing WITH points <- ring

Metrics == INSTANCE MetricsManager WITH Nodes <- MetricNodes, nodes <- buffers

-----------------------------------------------------------------------------
(* What the theorems assume of the constants.                                *)

\* Zero stands for no entry and no connection.
PoolConstants == 0 \notin Entries /\ 0 \notin Files /\ MaxSockets \in Nat
ASSUME PoolAssumption == PoolConstants

\* A target is of one of the two modes a result is processed by.
ProcessorConstants == \A t \in Targets : t.mode \in {"icmp", "tcp"}
ASSUME ProcessorAssumption == ProcessorConstants

\* A target is its host, mode and port.
MemoryConstants ==
  /\ \A t, u \in Targets : t.host = u.host /\ t.mode = u.mode /\ t.port = u.port => t = u
  /\ \A f \in Filters : f.from \in Nat /\ f.to \in Nat
  /\ MaxTime \in Nat \ {0} /\ MaxResults \in Nat
ASSUME MemoryAssumption == MemoryConstants

\* No two targets have a row in common (the ICMP target of a host has port 0).
SqliteConstants ==
  /\ \A t, u \in Targets : Sqlite!Key(t) = Sqlite!Key(u) => t = u
  /\ \A f \in Filters : f.from \in Nat /\ f.to \in Nat
  /\ MaxTime \in Nat \ {0}
ASSUME SqliteAssumption == SqliteConstants

\* A goroutine is none of the two values of lock that name none.
DatabaseConstants == Database!ConstantsOK /\ Database!LimitOK
ASSUME DatabaseAssumption == DatabaseConstants

\* A webhook's cooldown is positive, and Server.webhooks is a list.
AlerterConstants ==
  /\ IsFiniteSet(Calls) /\ Cooldown \in Nat \ {0} /\ Enabled \subseteq Webhooks
  /\ IsFiniteSet(Webhooks) /\ Webhooks = 1..Cardinality(Webhooks)
ASSUME AlerterAssumption == AlerterConstants

\* NewServer replaces a retention of 0.
RingConstants == Size \in Nat \ {0}
ASSUME RingAssumption == RingConstants

\* Nobody and the cleaner are no reporters, and config.MaxNodes is positive.
MetricsConstants == Metrics!ConstantsOK
ASSUME MetricsAssumption == MetricsConstants

-----------------------------------------------------------------------------
poolVars == <<sockets, entry, openFiles, user, poolShut>>
processorVars == <<hostMap, portCounts, inHand, known, lastP, report>>
memoryVars == <<results, open, clockM, lastM>>
sqliteVars == <<rows, pruning, deleted, cutoff, clockQ, lastQ>>
databaseVars == <<nodes, history, services, tx, lock, staged, row, points, cleaned, clockN>>
alerterVars == <<call, lastAlertTimes, delivered, clockW>>
ringVars == <<ring, pos, adding, reading, overtaken>>
metricsVars == <<buffers, count, lru, mu, add, cleaner>>
vars == <<part, poolVars, processorVars, memoryVars, sqliteVars, databaseVars, alerterVars, ringVars,
          metricsVars>>

Init ==
  /\ part \in {"pool", "processor", "memory", "sqlite", "database", "alerter", "ring",
               "metrics"}
  /\ Pool!Init /\ Processor!Init /\ Memory!Init /\ Sqlite!Init /\ Database!Init /\ Alerter!Init
  /\ Ring!Init /\ Metrics!Init

Next ==
  /\ UNCHANGED part
  /\ \/ /\ part = "pool" /\ Pool!Next
        /\ UNCHANGED <<processorVars, memoryVars, sqliteVars, databaseVars, alerterVars, ringVars,
                       metricsVars>>
     \/ /\ part = "processor" /\ Processor!Next
        /\ UNCHANGED <<poolVars, memoryVars, sqliteVars, databaseVars, alerterVars, ringVars,
                       metricsVars>>
     \/ /\ part = "memory" /\ Memory!Next
        /\ UNCHANGED <<poolVars, processorVars, sqliteVars, databaseVars, alerterVars, ringVars,
                       metricsVars>>
     \/ /\ part = "sqlite" /\ Sqlite!Next
        /\ UNCHANGED <<poolVars, processorVars, memoryVars, databaseVars, alerterVars, ringVars,
                       metricsVars>>
     \/ /\ part = "database" /\ Database!Next
        /\ UNCHANGED <<poolVars, processorVars, memoryVars, sqliteVars, alerterVars, ringVars,
                       metricsVars>>
     \/ /\ part = "alerter" /\ Alerter!Next
        /\ UNCHANGED <<poolVars, processorVars, memoryVars, sqliteVars, databaseVars, ringVars,
                       metricsVars>>
     \/ /\ part = "ring" /\ Ring!Next
        /\ UNCHANGED <<poolVars, processorVars, memoryVars, sqliteVars, databaseVars, alerterVars,
                       metricsVars>>
     \/ /\ part = "metrics" /\ Metrics!Next
        /\ UNCHANGED <<poolVars, processorVars, memoryVars, sqliteVars, databaseVars, alerterVars,
                       ringVars>>

Spec == Init /\ [][Next]_vars

-----------------------------------------------------------------------------
(* The properties of the components, under names a .cfg can use.             *)

\* No two goroutines share an ICMP socket (SocketPool).
PoolSocketExclusive == Pool!SocketExclusive

\* Each open socket is in the pool (SocketPool).
PoolSocketsAccounted == Pool!SocketsAccounted

\* A sweep's status is consistent in itself (SweepProcessor).
SweepAnswerConsistent == Processor!AnswerConsistent

\* What the store has, the processor reports (SweepProcessor).
SweepStoreWithinProcessor == Processor!StoreWithinProcessor

\* The in-memory store keeps the promise of ResultStore (MemoryStore).
MemoryImplementsStore == Memory!ImplementsStore

\* Its summary counts each open port once for each host (MemoryStore).
MemorySummaryAgrees == Memory!SummaryAgrees

\* The SQLite store keeps the promise of ResultStore (SqliteStore).
SqliteImplementsStore == Sqlite!ImplementsStore

\* The node database keeps the promise of NodeTables (NodeStore).
DatabaseImplementsTables == Database!ImplementsTables

\* The history has what the row of a node shows (NodeStore).
DatabaseHistoryShowsStatus == Database!HistoryShowsStatus

\* One request for each title and cooldown (WebhookAlerter).
OneRequestForEachCooldown == Alerter!OneForEachCooldown

\* An alert tries each webhook (WebhookAlerter).
AlertTriesAllWebhooks == Alerter!AllWebhooksTried

\* GetPoints and GetLastPoint answer with the last points (MetricRing).
MetricsReadLatest == Ring!ReadsLatest

\* The count of the metric buffers (MetricsManager).
MetricsCountAccurate == Metrics!CountAccurate

\* The eviction list has the nodes with a buffer (MetricsManager).
MetricsNoGhostEntries == Metrics!NoGhostEntries
=============================================================================
