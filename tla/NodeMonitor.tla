---------------------------- MODULE NodeMonitor ----------------------------
(***************************************************************************)
(* The node-health core of the cloud service (pkg/cloud/server.go): the    *)
(* gRPC handlers of ReportStatus, the monitorNodes goroutine and the       *)
(* process around them share the `nodes` table (pkg/db/db.go) and the      *)
(* in-memory map the web API serves (pkg/cloud/api/server.go).  Nothing    *)
(* but SQLite's transactions serialises them: every database transaction,  *)
(* webhook call and API update is a step of its own here.                  *)
(*                                                                         *)
(* Time.  A time stamp is kept as its age, in ticks before now, so that    *)
(* an execution may last for ever: Tick ages everything, and an age stops  *)
(* at MaxAge, which is beyond every duration the code compares with.  A    *)
(* negative age is a stamp in the future (the poller's clock is ahead).    *)
(***************************************************************************)
EXTENDS Integers, Functions

CONSTANTS
  Pollers,          \* every poller id that may send reports or have a row
  Known,            \* config.KnownPollers
  Watched,          \* ids selected by config.PollerPatterns (all if there are none)
  Steady,           \* known pollers that never miss a poll and whose reports never fail
  Faulty,           \* ids for which the monitor's statements may fail (SQLITE_BUSY, I/O error)
  Handlers,         \* gRPC handler goroutines that may run at once
  AlertThreshold,   \* config.AlertThreshold
  MonitorInterval,  \* monitorInterval, also the longest a round of checks lasts
  DiscoveryDelay,   \* nodeDiscoveryTimeout
  SettleDelay,      \* nodeNeverReportedTimeout
  PollInterval,     \* longest time between two polls of a running poller
  Latency,          \* largest age of a report when its handler returns
  Ahead,            \* how far a poller's clock may be ahead of the cloud's
  MaxAge            \* ages stop here (bound of the model)

\* A report stored by a steady poller is replaced before it gets this old.
StoredAge == PollInterval + 2 * Latency + Ahead

\* After this long without a report, or since a restart, a silent node is down.
DetectionTime ==
  DiscoveryDelay + SettleDelay + AlertThreshold + 3 * MonitorInterval + Ahead

ASSUME SetsAssumption ==
  /\ Known \subseteq Pollers
  /\ Watched \subseteq Pollers
  /\ Faulty \subseteq Pollers
  /\ Steady \subseteq Known

ASSUME DurationsAssumption ==
  /\ AlertThreshold \in Nat
  /\ MonitorInterval \in Nat \ {0}
  /\ DiscoveryDelay \in Nat \ {0}
  /\ SettleDelay \in Nat \ {0}
  /\ PollInterval \in Nat \ {0}
  /\ Latency \in Nat
  /\ Ahead \in Nat
  /\ MaxAge \in Nat
  /\ MaxAge > DetectionTime /\ MaxAge >= Latency /\ MaxAge >= PollInterval

\* What an operator has to configure for steady pollers to be left alone: one
\* poll is stored before the first look at the table, and the threshold covers
\* the oldest stamp a monitor round that started one interval ago can write.
ASSUME SteadyAssumption ==
  Steady # {} =>
    /\ PollInterval + Latency + Ahead < DiscoveryDelay
    /\ AlertThreshold >= StoredAge + MonitorInterval + PollInterval + Latency + Ahead

\* A report waits for the database for less time than the detection takes before
\* its last two rounds: one stored later would make a silent node look healthy.
ASSUME LatencyAssumption ==
  Latency <= DiscoveryDelay + SettleDelay + AlertThreshold + MonitorInterval

VARIABLES
  up,         \* the cloud process runs
  uptime,     \* ticks since Start (bounded by MaxAge)
  lock,       \* SQLite's write lock: "lost" if a transaction that is never rolled back keeps it
  nodes,      \* table nodes: id -> [age of last_seen, is_healthy]
  apiNodes,   \* APIServer.nodes: id -> IsHealthy
  lastAlert,  \* the last alert about a node handed to the webhooks
  rpc,        \* the running ReportStatus handlers
  alive,      \* the poller process runs
  since,      \* ticks since a report of the poller last arrived or was lost
  phase,      \* where monitorNodes is
  timer,      \* ticks since it got there (in idle and scan: since the scan began)
  rows,       \* rows of its query not yet looked at
  job         \* the verdict it is carrying out

cloudVars == <<up, uptime, lock>>
pollerVars == <<alive, since>>
monitorVars == <<phase, timer, rows, job>>
vars == <<up, uptime, lock, nodes, apiNodes, lastAlert, rpc, alive, since,
          phase, timer, rows, job>>

Ages == (-Ahead)..MaxAge
Row == [age : Ages, healthy : BOOLEAN]
SnapshotRow == [age : Ages, healthy : BOOLEAN, stale : BOOLEAN]
Alerts == {"none", "offline", "recovered"}
Phases == {"off", "discover", "initial", "settle", "idle", "scan"}

Idle == [pc |-> "idle"]
Request == [pc : {"read", "store", "alert", "api"}, node : Known,
            age : (-Ahead)..Latency, healthy : BOOLEAN, was : BOOLEAN]

NoJob == [step |-> "none"]
Job == [step : {"markDown", "down", "offline", "api", "recheck", "recover", "recovered"},
        node : Watched, age : Ages]

Busy(h) == rpc[h] # Idle
Older(a) == IF a < MaxAge THEN a + 1 ELSE a

\* A table is a function from the ids that have a row: the empty one, and f
\* with the row of n updated or inserted.
NoRows == [m \in {} |-> m]
Put(f, n, v) == [m \in DOMAIN f \cup {n} |-> IF m = n THEN v ELSE f[m]]

-----------------------------------------------------------------------------
(* What the database may do: a transaction commits, or it fails and leaves   *)
(* no trace in the tables.  UpdateNodeStatus never rolls back, though: where  *)
(* it fails after its first statement, it keeps the write lock, and all       *)
(* writes fail until the process ends.                                        *)

ReportMayFail(n) == n \notin Steady
VerdictMayFail(n) == n \in Faulty

Healthy(n) == n \in DOMAIN nodes /\ nodes[n].healthy

\* The transaction of db.UpdateNodeStatus, of Server.updateNodeStatus and of
\* Server.updateNodeDownStatus.  (The first two also add a row to node_history,
\* which no step reads back.)
WriteStatus(n, age, healthy) ==
  lock = "sound" /\ nodes' = Put(nodes, n, [age |-> age, healthy |-> healthy])

-----------------------------------------------------------------------------
(* Initially the cloud is not running; the database is what earlier runs     *)
(* left, which may hold ids that are no longer known.                        *)

Init ==
  /\ up = FALSE /\ uptime = 0 /\ lock = "sound"
  /\ \E D \in SUBSET Pollers : nodes \in [D -> [age : 0..MaxAge, healthy : BOOLEAN]]
  /\ apiNodes = NoRows
  /\ lastAlert = [n \in Pollers |-> "none"]
  /\ rpc = [h \in Handlers |-> Idle]
  /\ alive = [n \in Known |-> TRUE]
  /\ since = [n \in Known |-> 0]
  /\ phase = "off" /\ timer = 0 /\ rows = NoRows /\ job = NoJob

-----------------------------------------------------------------------------
(* The process.                                                              *)

\* cleanupUnknownPollers deletes every row whose id is not known, unless no
\* poller is known or the statement fails, which is only logged.
Kept == IF Known = {} THEN {DOMAIN nodes}
        ELSE {DOMAIN nodes \cap Known} \cup
             (IF \E n \in DOMAIN nodes : VerdictMayFail(n) THEN {DOMAIN nodes} ELSE {})

Start ==
  /\ ~up
  /\ up' = TRUE /\ uptime' = 0
  /\ \E K \in Kept : nodes' = Restrict(nodes, K)
  /\ phase' = "discover" /\ timer' = 0
  /\ UNCHANGED <<lock, apiNodes, lastAlert, rpc, pollerVars, rows, job>>

\* Stop, or a crash, at any point: the goroutines and the API's map are gone,
\* and so are the locks of the process.
Halt ==
  /\ up
  /\ up' = FALSE /\ uptime' = 0 /\ lock' = "sound"
  /\ apiNodes' = NoRows
  /\ rpc' = [h \in Handlers |-> Idle]
  /\ phase' = "off" /\ timer' = 0 /\ rows' = NoRows /\ job' = NoJob
  /\ UNCHANGED <<nodes, lastAlert, pollerVars>>

-----------------------------------------------------------------------------
(* Pollers.                                                                  *)

\* A report reaches the cloud with a stamp of some age and the conjunction of
\* its services' Available flags.  A retry of an earlier report (pkg/grpc's
\* RetryInterceptor) is a report with the same stamp and health.  From an id
\* that is not known ReportStatus drops the report and answers Received.
Poll(n, h) ==
  /\ up /\ alive[n] /\ ~Busy(h)
  /\ \E age \in (-Ahead)..Latency, healthy \in BOOLEAN :
       rpc' = [rpc EXCEPT ![h] = [pc |-> "read", node |-> n, age |-> age,
                                  healthy |-> healthy, was |-> FALSE]]
  /\ since' = [since EXCEPT ![n] = 0]
  /\ UNCHANGED <<cloudVars, nodes, apiNodes, lastAlert, alive, monitorVars>>

\* A report is lost when the cloud is down or cannot be reached.
PollDropped(n) ==
  /\ alive[n] /\ since[n] > 0
  /\ ~up \/ n \notin Steady
  /\ since' = [since EXCEPT ![n] = 0]
  /\ UNCHANGED <<cloudVars, nodes, apiNodes, lastAlert, rpc, alive, monitorVars>>

\* A poller goes silent, and comes back (with a poll: see Tick).
PollerStops(n) ==
  /\ alive[n] /\ n \notin Steady
  /\ alive' = [alive EXCEPT ![n] = FALSE]
  /\ UNCHANGED <<cloudVars, nodes, apiNodes, lastAlert, rpc, since, monitorVars>>

PollerResumes(n) ==
  /\ ~alive[n]
  /\ alive' = [alive EXCEPT ![n] = TRUE]
  /\ UNCHANGED <<cloudVars, nodes, apiNodes, lastAlert, rpc, since, monitorVars>>

-----------------------------------------------------------------------------
(* ReportStatus, one goroutine per call.  Between two steps of one handler   *)
(* the monitor and the other handlers run.                                   *)

\* getNodeHealthState: a missing row and an error both count as unhealthy.
ReadHealth(h) ==
  LET n == rpc[h].node IN
  /\ rpc[h].pc = "read"
  /\ \E was \in BOOLEAN :
       /\ was => Healthy(n)
       /\ ~was => ~Healthy(n) \/ ReportMayFail(n)
       /\ rpc' = [rpc EXCEPT ![h].pc = "store", ![h].was = was]
  /\ UNCHANGED <<cloudVars, nodes, apiNodes, lastAlert, pollerVars, monitorVars>>

\* storeNodeStatus; a report that is healthy where the row was not goes on to
\* announce the recovery.
StoreStatus(h) ==
  LET r == rpc[h] IN
  /\ r.pc = "store"
  /\ WriteStatus(r.node, r.age, r.healthy)
  /\ rpc' = [rpc EXCEPT ![h].pc = IF ~r.was /\ r.healthy THEN "alert" ELSE "api"]
  /\ UNCHANGED <<cloudVars, apiNodes, lastAlert, pollerVars, monitorVars>>

\* Mutant: the error is only logged, as most errors here are.
StoreFailsOn(h) ==
  /\ rpc[h].pc = "store" /\ (lock = "lost" \/ ReportMayFail(rpc[h].node))
  /\ rpc' = [rpc EXCEPT ![h].pc = "api"]
  /\ UNCHANGED <<cloudVars, nodes, apiNodes, lastAlert, pollerVars, monitorVars>>

\* The transaction fails and the caller gets the error.  After Begin or the first
\* statement that is all; after a later one the lock is lost.
StoreFails(h) ==
  /\ rpc[h].pc = "store" /\ (lock = "lost" \/ ReportMayFail(rpc[h].node))
  /\ lock' \in {lock, "lost"}
  /\ rpc' = [rpc EXCEPT ![h] = Idle]
  /\ UNCHANGED <<up, uptime, nodes, apiNodes, lastAlert, pollerVars, monitorVars>>

\* handleNodeRecovery.
AnnounceRecovery(h) ==
  /\ rpc[h].pc = "alert"
  /\ lastAlert' = [lastAlert EXCEPT ![rpc[h].node] = "recovered"]
  /\ rpc' = [rpc EXCEPT ![h].pc = "api"]
  /\ UNCHANGED <<cloudVars, nodes, apiNodes, pollerVars, monitorVars>>

\* updateAPIState, then the answer.
UpdateAPI(h) ==
  /\ rpc[h].pc = "api"
  /\ apiNodes' = Put(apiNodes, rpc[h].node, rpc[h].healthy)
  /\ rpc' = [rpc EXCEPT ![h] = Idle]
  /\ UNCHANGED <<cloudVars, nodes, lastAlert, pollerVars, monitorVars>>

HandlerStep(h) ==
  \/ ReadHealth(h) \/ StoreStatus(h) \/ StoreFails(h)
  \/ AnnounceRecovery(h) \/ UpdateAPI(h)

-----------------------------------------------------------------------------
(* monitorNodes.  A query sees one snapshot of the table; its rows are then  *)
(* looked at one by one, and a verdict is carried out before the next row.   *)

\* Mutant: the threshold itself already counts as offline.
StaleAtThreshold(age) == age >= AlertThreshold

Stale(age) == age > AlertThreshold

Snapshot == [n \in DOMAIN nodes \cap Watched |->
               [age |-> nodes[n].age, healthy |-> nodes[n].healthy,
                stale |-> Stale(nodes[n].age)]]

\* checkInitialStates, DiscoveryDelay after Start.
BeginInitialCheck ==
  /\ phase = "discover" /\ timer = DiscoveryDelay
  /\ phase' = "initial" /\ timer' = 0 /\ rows' = Snapshot
  /\ UNCHANGED <<cloudVars, nodes, apiNodes, lastAlert, rpc, pollerVars, job>>

\* The most recent first; old ones are marked down, healthy or not, with the
\* current time (age 0) as their new last_seen.
CheckInitialRow(n) ==
  /\ phase = "initial" /\ job = NoJob /\ n \in DOMAIN rows
  /\ \A m \in DOMAIN rows : rows[n].age <= rows[m].age
  /\ rows' = Restrict(rows, DOMAIN rows \ {n})
  /\ job' = IF Stale(rows[n].age) THEN [step |-> "markDown", node |-> n, age |-> 0] ELSE NoJob
  /\ UNCHANGED <<cloudVars, nodes, apiNodes, lastAlert, rpc, pollerVars, phase, timer>>

EndInitialCheck ==
  /\ phase = "initial" /\ rows = NoRows /\ job = NoJob
  /\ phase' = "settle" /\ timer' = 0
  /\ UNCHANGED <<cloudVars, nodes, apiNodes, lastAlert, rpc, pollerVars, rows, job>>

\* checkNodeStates: first SettleDelay after the initial check, then on every
\* tick of the monitor's ticker.  The threshold is computed here, once.
BeginScan ==
  /\ \/ phase = "settle" /\ timer = SettleDelay
     \/ phase = "idle" /\ timer = MonitorInterval
  /\ phase' = "scan" /\ timer' = 0 /\ rows' = Snapshot
  /\ UNCHANGED <<cloudVars, nodes, apiNodes, lastAlert, rpc, pollerVars, job>>

\* evaluateNodeHealth: case 1 is a node gone offline, case 3 a potential recovery.
Verdict(n) ==
  LET r == rows[n] IN
  IF r.healthy = r.stale
  THEN [step |-> IF r.healthy THEN "down" ELSE "recheck", node |-> n, age |-> r.age]
  ELSE NoJob

EvaluateRow(n) ==
  /\ phase = "scan" /\ job = NoJob /\ n \in DOMAIN rows
  /\ rows' = Restrict(rows, DOMAIN rows \ {n})
  /\ job' = Verdict(n)
  /\ UNCHANGED <<cloudVars, nodes, apiNodes, lastAlert, rpc, pollerVars, phase, timer>>

EndScan ==
  /\ phase = "scan" /\ rows = NoRows /\ job = NoJob
  /\ phase' = "idle"
  /\ UNCHANGED <<cloudVars, nodes, apiNodes, lastAlert, rpc, pollerVars, timer, rows, job>>

\* markNodeDown's transaction.
MarkDown ==
  /\ job.step = "markDown"
  /\ WriteStatus(job.node, job.age, FALSE)
  /\ job' = [job EXCEPT !.step = "offline"]
  /\ UNCHANGED <<cloudVars, apiNodes, lastAlert, rpc, pollerVars, phase, timer, rows>>

\* Mutant: the current time is written, as markNodeDown does.
DeclareDownNow ==
  /\ job.step = "down"
  /\ WriteStatus(job.node, 0, FALSE)
  /\ job' = [job EXCEPT !.step = "offline"]
  /\ UNCHANGED <<cloudVars, apiNodes, lastAlert, rpc, pollerVars, phase, timer, rows>>

\* handleNodeDown's transaction writes the last_seen of the snapshot.
DeclareDown ==
  /\ job.step = "down"
  /\ WriteStatus(job.node, job.age, FALSE)
  /\ job' = [job EXCEPT !.step = "offline"]
  /\ UNCHANGED <<cloudVars, apiNodes, lastAlert, rpc, pollerVars, phase, timer, rows>>

AnnounceOffline ==
  /\ job.step = "offline"
  /\ lastAlert' = [lastAlert EXCEPT ![job.node] = "offline"]
  /\ job' = [job EXCEPT !.step = "api"]
  /\ UNCHANGED <<cloudVars, nodes, apiNodes, rpc, pollerVars, phase, timer, rows>>

ShowDown ==
  /\ job.step = "api"
  /\ apiNodes' = Put(apiNodes, job.node, FALSE)
  /\ job' = NoJob
  /\ UNCHANGED <<cloudVars, nodes, lastAlert, rpc, pollerVars, phase, timer, rows>>

\* handlePotentialRecovery reads the row again and gives up if it is healthy.
Recheck ==
  /\ job.step = "recheck"
  /\ job' = IF Healthy(job.node) THEN NoJob ELSE [job EXCEPT !.step = "recover"]
  /\ UNCHANGED <<cloudVars, nodes, apiNodes, lastAlert, rpc, pollerVars, phase, timer, rows>>

\* It writes the last_seen of the snapshot and leaves the API's map alone.
DeclareRecovered ==
  /\ job.step = "recover"
  /\ WriteStatus(job.node, job.age, TRUE)
  /\ job' = [job EXCEPT !.step = "recovered"]
  /\ UNCHANGED <<cloudVars, apiNodes, lastAlert, rpc, pollerVars, phase, timer, rows>>

AnnounceRecovered ==
  /\ job.step = "recovered"
  /\ lastAlert' = [lastAlert EXCEPT ![job.node] = "recovered"]
  /\ job' = NoJob
  /\ UNCHANGED <<cloudVars, nodes, apiNodes, rpc, pollerVars, phase, timer, rows>>

\* A statement of the verdict fails: logged, and the next row is looked at.  The
\* monitor's own transactions are rolled back.
JobFails ==
  /\ \/ job.step \in {"markDown", "down", "recheck", "recover"} /\ VerdictMayFail(job.node)
     \/ job.step \in {"markDown", "down", "recover"} /\ lock = "lost"
  /\ job' = NoJob
  /\ UNCHANGED <<cloudVars, nodes, apiNodes, lastAlert, rpc, pollerVars, phase, timer, rows>>

JobStep ==
  \/ MarkDown \/ DeclareDown \/ AnnounceOffline \/ ShowDown
  \/ Recheck \/ DeclareRecovered \/ AnnounceRecovered \/ JobFails

MonitorStep ==
  \/ BeginInitialCheck \/ EndInitialCheck \/ BeginScan \/ EndScan \/ JobStep
  \/ \E n \in Watched : CheckInitialRow(n) \/ EvaluateRow(n)

-----------------------------------------------------------------------------
(* Time passes, except beyond a deadline: a running poller polls in time, a  *)
(* handler returns before its report is older than Latency (its webhook      *)
(* calls and its wait for SQLite's lock are bounded), and the monitor starts *)
(* a round when it is due and ends it within MonitorInterval.                *)

PhaseEnds ==
  CASE phase = "discover" -> DiscoveryDelay
    [] phase = "settle" -> SettleDelay
    [] OTHER -> MonitorInterval

AgeRows(f) == [n \in DOMAIN f |-> [f[n] EXCEPT !.age = Older(@)]]

Tick ==
  /\ \A n \in Known : alive[n] => since[n] < PollInterval
  /\ \A h \in Handlers : Busy(h) => rpc[h].age < Latency
  /\ phase # "off" => timer < PhaseEnds
  /\ uptime' = IF up THEN Older(uptime) ELSE uptime
  /\ nodes' = AgeRows(nodes)
  /\ rpc' = [h \in Handlers |-> IF Busy(h) THEN [rpc[h] EXCEPT !.age = @ + 1] ELSE Idle]
  /\ since' = [n \in Known |-> Older(since[n])]
  /\ timer' = IF phase = "off" THEN timer ELSE timer + 1
  /\ rows' = AgeRows(rows)
  /\ job' = IF job = NoJob THEN NoJob ELSE [job EXCEPT !.age = Older(@)]
  /\ UNCHANGED <<up, lock, apiNodes, lastAlert, alive, phase>>

Next ==
  \/ Start \/ Halt \/ MonitorStep \/ Tick
  \/ \E h \in Handlers : HandlerStep(h)
  \/ \E n \in Known : PollDropped(n) \/ PollerStops(n) \/ PollerResumes(n)
  \/ \E n \in Known, h \in Handlers : Poll(n, h)

Spec == Init /\ [][Next]_vars

\* Time goes on, goroutines that can run do run, and a verdict that the database
\* could carry out again and again (its lock is not lost) does not fail every time:
\* SQLITE_BUSY passes, as every other transaction ends.
Fairness ==
  /\ WF_vars(Tick) /\ WF_vars(MonitorStep)
  /\ \A h \in Handlers : WF_vars(HandlerStep(h))
  /\ SF_vars(MarkDown) /\ SF_vars(DeclareDown)

FairSpec == Spec /\ Fairness

-----------------------------------------------------------------------------
(* Safety.                                                                   *)

ProcessType == up \in BOOLEAN /\ uptime \in 0..MaxAge /\ lock \in {"sound", "lost"}

DatabaseType ==
  /\ DOMAIN nodes \subseteq Pollers
  /\ nodes \in [DOMAIN nodes -> Row]

ViewType ==
  /\ DOMAIN apiNodes \subseteq DOMAIN nodes
  /\ apiNodes \in [DOMAIN apiNodes -> BOOLEAN]
  /\ lastAlert \in [Pollers -> Alerts]

HandlerType == rpc \in [Handlers -> Request \cup {Idle}]

PollerType == alive \in [Known -> BOOLEAN] /\ since \in [Known -> 0..MaxAge]

MonitorType ==
  /\ phase \in Phases /\ timer \in Nat
  /\ DOMAIN rows \subseteq Watched
  /\ rows \in [DOMAIN rows -> SnapshotRow]
  /\ job \in Job \cup {NoJob}

\* The types of all variables; and the API serves no node the table has not,
\* as a handler whose transaction fails does not go on to updateAPIState.
TypeOK ==
  /\ ProcessType /\ DatabaseType /\ ViewType
  /\ HandlerType /\ PollerType /\ MonitorType

\* A poller that polls in time and whose reports do not fail of themselves is never
\* declared offline, whatever the interleaving of its handlers with the monitor,
\* whatever its reports say of its services, across restarts of the cloud, and even
\* when the report of another poller loses the write lock: neither
\* checkInitialStates nor checkNodeStates sends its alert.
NoFalseOffline == \A n \in Steady : lastAlert[n] # "offline"

\* A poller that has been silent for DetectionTime, while the cloud ran and could
\* write, is unhealthy in the table, and stays so: no late handler, no stale snapshot and
\* no recovery on the last_seen bumped by checkInitialStates keeps it healthy.
SilenceDetected ==
  \A n \in (Known \cap Watched) \ Faulty :
    since[n] > DetectionTime /\ uptime > DetectionTime /\ lock = "sound" => ~Healthy(n)

-----------------------------------------------------------------------------
(* Liveness.                                                                 *)

\* A watched node that has gone silent for good while the cloud stays up ends
\* up unhealthy in the table, although verdicts may fail and although
\* checkInitialStates first makes it look as if it had just reported.  It is
\* promised only while no failed report has lost the write lock (db.go:172): then
\* the node stays as it is until the process ends.
SilentNodeGoesDown ==
  \A n \in Watched :
    <>[](up /\ lock = "sound" /\ (n \in Known => ~alive[n])) => <>[]~Healthy(n)

-----------------------------------------------------------------------------
(* What the comments of the code say and its steps do not keep.              *)

\* updateAPIState "updates the API server with the latest node status"
\* (server.go:460).  Then a poller that has been silent for DetectionTime is
\* not served as healthy while the table has it down.
ApiShowsSilence ==
  \A n \in Known \cap Watched :
    since[n] > DetectionTime /\ uptime > DetectionTime /\ n \in DOMAIN apiNodes =>
      (apiNodes[n] => Healthy(n))

\* handlePotentialRecovery: "First check if the node is actually healthy via
\* status" (server.go:1104).  Then the monitor declares no node recovered that
\* the last status it published shows as unhealthy.
RecoveryMatchesStatus ==
  [][DeclareRecovered =>
       (job.node \in DOMAIN apiNodes => apiNodes[job.node])]_vars

\* evaluateNodeHealth, case 3: "Node is marked unhealthy but has reported
\* recently" (server.go:1082).  Then a node it declares recovered has sent a
\* report no longer ago than the threshold, the clock difference and the
\* time the monitor takes to act on a row.
RecoveredHasReported ==
  [][DeclareRecovered /\ job.node \in Known =>
       since[job.node] <= AlertThreshold + Ahead + MonitorInterval]_vars
=============================================================================
