------------------------- MODULE NodeMonitorProofs -------------------------
(* Theorems about NodeMonitor, for every set of pollers and handlers and    *)
(* every choice of the durations that the assumptions of NodeMonitor allow. *)
EXTENDS NodeMonitor, TLAPS

-----------------------------------------------------------------------------
(* Facts about the helpers.                                                  *)

USE DurationsAssumption, SetsAssumption

\* An age grows by at most one, and stays within its bounds.
LEMMA OlderFacts ==
  /\ \A a \in Ages : Older(a) \in Ages /\ Older(a) <= a + 1 /\ Older(a) >= a
  /\ \A a \in 0..MaxAge : Older(a) \in 0..MaxAge /\ Older(a) <= a + 1 /\ Older(a) >= a
BY DEF Older, Ages

\* Ageing a table changes nothing but the ages of its rows.
LEMMA AgeRowsFacts ==
  ASSUME NEW f, NEW R, f \in [DOMAIN f -> R], R \in {Row, SnapshotRow}
  PROVE  /\ AgeRows(f) \in [DOMAIN f -> R]
         /\ DOMAIN AgeRows(f) = DOMAIN f
         /\ \A n \in DOMAIN f : AgeRows(f)[n] = [f[n] EXCEPT !.age = Older(f[n].age)]
BY OlderFacts DEF AgeRows, Row, SnapshotRow

-----------------------------------------------------------------------------
(* Types.  They are inductive together with where the monitor is, that its   *)
(* work stays inside a round, and that the monitor, the handlers that have   *)
(* stored their report and the API know only rows that exist.                *)

Rounds ==
  /\ up <=> phase # "off"
  /\ phase # "off" => timer <= PhaseEnds
  /\ phase \notin {"initial", "scan"} => rows = NoRows /\ job = NoJob

MonitorRows ==
  /\ DOMAIN rows \subseteq DOMAIN nodes
  /\ job # NoJob => job.node \in DOMAIN nodes

HandlerRows ==
  \A h \in Handlers : rpc[h].pc \in {"alert", "api"} => rpc[h].node \in DOMAIN nodes

RowsExist == MonitorRows /\ HandlerRows

Down == ~up => apiNodes = NoRows /\ rpc = [h \in Handlers |-> Idle]

TypeInv == TypeOK /\ Rounds /\ RowsExist /\ Down

LEMMA InitTypeOK == Init => TypeOK
<1> SUFFICES ASSUME Init PROVE TypeOK
  OBVIOUS
<1>1. ProcessType /\ PollerType
  <2>1. /\ up = FALSE /\ uptime = 0 /\ lock = "sound"
        /\ alive = [n \in Known |-> TRUE] /\ since = [n \in Known |-> 0]
    BY DEF Init
  <2>2. ProcessType
    <3>1. up \in BOOLEAN
      BY <2>1, Zenon
    <3>2. uptime \in 0..MaxAge
      BY <2>1
    <3> QED
      BY <2>1, <3>1, <3>2 DEF ProcessType
  <2>3. PollerType
    BY <2>1 DEF PollerType
  <2> QED
    BY <2>2, <2>3
<1> USE DEF Init
<1>2. DatabaseType
  <2>1. PICK D \in SUBSET Pollers : nodes \in [D -> [age : 0..MaxAge, healthy : BOOLEAN]]
    OBVIOUS
  <2>2. [age : 0..MaxAge, healthy : BOOLEAN] \subseteq Row
    BY DEF Row, Ages
  <2>3. DOMAIN nodes = D /\ nodes \in [D -> Row]
    BY <2>1, <2>2
  <2> QED
    BY <2>3 DEF DatabaseType
<1>3. ViewType
  BY DEF ViewType, NoRows, Alerts
<1>4. HandlerType
  BY DEF HandlerType
<1>5. MonitorType
  BY DEF MonitorType, NoRows, Phases
<1> QED
  BY <1>1, <1>2, <1>3, <1>4, <1>5 DEF TypeOK

\* A write to the database keeps its type, and every row.
LEMMA WriteType ==
  ASSUME DatabaseType, NEW n \in Pollers, NEW age \in Ages, NEW healthy \in BOOLEAN,
         WriteStatus(n, age, healthy)
  PROVE  DatabaseType' /\ DOMAIN nodes' = DOMAIN nodes \cup {n}
<1> DEFINE v == [age |-> age, healthy |-> healthy]
<1>1. v \in Row
  BY DEF Row
<1>2. nodes' = Put(nodes, n, v)
  BY DEF WriteStatus
<1> HIDE DEF v
<1>3. DOMAIN nodes' = DOMAIN nodes \cup {n} /\ nodes' \in [DOMAIN nodes \cup {n} -> Row]
  BY <1>1, <1>2 DEF Put, DatabaseType
<1> QED
  BY <1>3 DEF DatabaseType

LEMMA ProcessTypeOK ==
  ASSUME TypeOK, Down, Start \/ Halt
  PROVE  TypeOK'
<1> USE DEF TypeOK, cloudVars, pollerVars, monitorVars
<1>1. CASE Start
  <2>1. PICK K \in Kept : nodes' = Restrict(nodes, K)
    BY <1>1 DEF Start
  <2>2. K \subseteq DOMAIN nodes
    BY DEF Kept
  <2>3. DatabaseType'
    <3>1. nodes' = [m \in K |-> nodes[m]]
      BY <2>1 DEF Restrict
    <3>2. \A m \in K : nodes[m] \in Row /\ m \in Pollers
      BY <2>2 DEF DatabaseType
    <3>3. DOMAIN nodes' = K /\ nodes' \in [K -> Row]
      BY <3>1, <3>2
    <3> QED
      BY <3>2, <3>3 DEF DatabaseType
  <2>4. ProcessType'
    <3>1. up' = TRUE /\ uptime' = 0 /\ lock' = lock
      BY <1>1 DEF Start
    <3>2. up' \in BOOLEAN
      BY <3>1, Zenon DEF ProcessType
    <3> QED
      BY <3>1, <3>2 DEF ProcessType
  <2>6. HandlerType' /\ PollerType' /\ MonitorType'
    BY <1>1 DEF Start, HandlerType, PollerType, MonitorType, Phases
  <2>5. ViewType'
    <3>1. apiNodes' = NoRows /\ lastAlert' = lastAlert
      BY <1>1 DEF Start, Down
    <3> QED
      BY <3>1 DEF ViewType, NoRows
  <2> QED
    BY <2>3, <2>4, <2>5, <2>6
<1>2. CASE Halt
  <2>1. DatabaseType' /\ PollerType'
    BY <1>2 DEF Halt, DatabaseType, PollerType
  <2>2. ProcessType'
    <3>1. up' = FALSE /\ uptime' = 0 /\ lock' = "sound"
      BY <1>2 DEF Halt
    <3>2. up' \in BOOLEAN
      BY <3>1, Zenon
    <3>3. uptime' \in 0..MaxAge
      BY <3>1
    <3> QED
      BY <3>1, <3>2, <3>3 DEF ProcessType
  <2>3. ViewType' /\ HandlerType' /\ MonitorType'
    BY <1>2 DEF Halt, ViewType, HandlerType, MonitorType, NoRows, Phases
  <2> QED
    BY <2>1, <2>2, <2>3
<1> QED
  BY <1>1, <1>2

LEMMA PollerTypeOK ==
  ASSUME TypeOK,
         NEW n \in Known,
         \/ PollDropped(n) \/ PollerStops(n) \/ PollerResumes(n)
         \/ \E h \in Handlers : Poll(n, h)
  PROVE  TypeOK'
<1> USE DEF TypeOK, cloudVars, pollerVars, monitorVars
<1>1. ProcessType' /\ DatabaseType' /\ ViewType' /\ MonitorType'
  BY DEF PollDropped, PollerStops, PollerResumes, Poll,
         ProcessType, DatabaseType, ViewType, MonitorType
<1>2. PollerType'
  <2>1. CASE PollDropped(n) \/ \E h \in Handlers : Poll(n, h)
    <3>1. alive' = alive /\ since' = [since EXCEPT ![n] = 0]
      BY <2>1 DEF PollDropped, Poll
    <3> QED
      BY <3>1 DEF PollerType
  <2>2. CASE PollerStops(n) \/ PollerResumes(n)
    <3>1. since' = since /\ \E b \in BOOLEAN : alive' = [alive EXCEPT ![n] = b]
      BY <2>2, Zenon DEF PollerStops, PollerResumes
    <3> QED
      BY <3>1 DEF PollerType
  <2> QED
    BY <2>1, <2>2
<1>3. HandlerType'
  <2>1. CASE \E h \in Handlers : Poll(n, h)
    <3>1. PICK h \in Handlers : Poll(n, h)
      BY <2>1
    <3>2. PICK age \in (-Ahead)..Latency, healthy \in BOOLEAN :
            rpc' = [rpc EXCEPT ![h] = [pc |-> "read", node |-> n, age |-> age,
                                       healthy |-> healthy, was |-> FALSE]]
      BY <3>1 DEF Poll
    <3> DEFINE r == [pc |-> "read", node |-> n, age |-> age, healthy |-> healthy, was |-> FALSE]
    <3>3. r \in Request
      BY DEF Request
    <3> HIDE DEF r
    <3>4. rpc' = [rpc EXCEPT ![h] = r]
      BY <3>2 DEF r
    <3> QED
      BY <3>3, <3>4 DEF HandlerType
  <2>2. CASE PollDropped(n) \/ PollerStops(n) \/ PollerResumes(n)
    BY <2>2 DEF PollDropped, PollerStops, PollerResumes, HandlerType
  <2> QED
    BY <2>1, <2>2
<1> QED
  BY <1>1, <1>2, <1>3

LEMMA HandlerTypeOK ==
  ASSUME TypeOK, RowsExist, NEW h \in Handlers, HandlerStep(h)
  PROVE  TypeOK'
<1> USE DEF TypeOK, cloudVars, pollerVars, monitorVars
<1>1. rpc[h] \in Request
  BY DEF HandlerStep, ReadHealth, StoreStatus, StoreFails, AnnounceRecovery, UpdateAPI,
         HandlerType, Idle
<1>2. rpc[h].node \in Pollers /\ rpc[h].age \in Ages /\ rpc[h].healthy \in BOOLEAN
  BY <1>1 DEF Request, Ages
<1>3. ProcessType' /\ PollerType' /\ MonitorType'
  <2>1. PollerType' /\ MonitorType' /\ up' = up /\ uptime' = uptime /\ lock' \in {lock, "lost"}
    BY DEF HandlerStep, ReadHealth, StoreStatus, StoreFails, AnnounceRecovery, UpdateAPI,
           PollerType, MonitorType
  <2>2. up' \in BOOLEAN /\ uptime' \in 0..MaxAge
    BY <2>1, Zenon DEF ProcessType
  <2> QED
    BY <2>1, <2>2 DEF ProcessType
<1>4. HandlerType'
  BY <1>1 DEF HandlerStep, ReadHealth, StoreStatus, StoreFails, AnnounceRecovery, UpdateAPI,
              HandlerType, Request
<1>5. DatabaseType' /\ DOMAIN nodes \subseteq DOMAIN nodes'
  <2>1. CASE StoreStatus(h)
    BY <1>2, <2>1, WriteType DEF StoreStatus
  <2>2. CASE ReadHealth(h) \/ StoreFails(h) \/ AnnounceRecovery(h) \/ UpdateAPI(h)
    BY <2>2 DEF ReadHealth, StoreFails, AnnounceRecovery, UpdateAPI, DatabaseType
  <2> QED
    BY <2>1, <2>2 DEF HandlerStep
<1>6. ViewType'
  <2>1. CASE UpdateAPI(h)
    <3>1. apiNodes' = Put(apiNodes, rpc[h].node, rpc[h].healthy) /\ lastAlert' = lastAlert
      BY <2>1 DEF UpdateAPI
    <3>2. rpc[h].node \in DOMAIN nodes
      BY <2>1 DEF UpdateAPI, RowsExist, HandlerRows
    <3> QED
      BY <1>2, <1>5, <3>1, <3>2 DEF ViewType, Put
  <2>2. CASE AnnounceRecovery(h)
    BY <1>2, <1>5, <2>2 DEF AnnounceRecovery, ViewType, Alerts
  <2>3. CASE ReadHealth(h) \/ StoreFails(h) \/ StoreStatus(h)
    BY <1>5, <2>3 DEF ReadHealth, StoreFails, StoreStatus, ViewType
  <2> QED
    BY <2>1, <2>2, <2>3 DEF HandlerStep
<1> QED
  BY <1>3, <1>4, <1>5, <1>6

LEMMA TickTypeOK ==
  ASSUME TypeOK, Tick
  PROVE  TypeOK'
<1> USE DEF TypeOK
<1>1. ProcessType'
  <2>1. up' = up /\ lock' = lock /\ uptime' \in {uptime, Older(uptime)}
    BY DEF Tick
  <2>2. uptime' \in 0..MaxAge
    BY <2>1, OlderFacts DEF ProcessType
  <2>3. up' \in BOOLEAN
    BY <2>1, Zenon DEF ProcessType
  <2> QED
    BY <2>1, <2>2, <2>3 DEF ProcessType
<1>2. DatabaseType'
  <2>1. nodes' = AgeRows(nodes)
    BY DEF Tick
  <2>2. nodes' \in [DOMAIN nodes -> Row]
    BY <2>1, AgeRowsFacts DEF DatabaseType
  <2> QED
    BY <2>1, <2>2 DEF DatabaseType
<1>3. ViewType'
  BY DEF Tick, ViewType, AgeRows
<1>4. HandlerType'
  <2>1. ASSUME NEW h \in Handlers PROVE rpc'[h] \in Request \cup {Idle}
    <3>1. rpc[h] \in Request \cup {Idle}
      BY DEF HandlerType
    <3>2. CASE Busy(h)
      <4>1. rpc[h] \in Request /\ rpc[h].age < Latency
        BY <3>1, <3>2 DEF Busy, Tick
      <4>2. rpc'[h] = [rpc[h] EXCEPT !.age = rpc[h].age + 1]
        BY <3>2 DEF Tick
      <4> QED
        BY <4>1, <4>2 DEF Request
    <3>3. CASE ~Busy(h)
      BY <3>3 DEF Tick
    <3> QED
      BY <3>2, <3>3
  <2>2. rpc' = [h \in Handlers |-> rpc'[h]]
    BY DEF Tick
  <2> QED
    BY <2>1, <2>2 DEF HandlerType
<1>5. PollerType'
  <2>1. since' = [n \in Known |-> Older(since[n])] /\ alive' = alive
    BY DEF Tick
  <2>2. \A n \in Known : Older(since[n]) \in 0..MaxAge
    BY OlderFacts DEF PollerType
  <2>3. since' \in [Known -> 0..MaxAge]
    BY <2>1, <2>2
  <2> QED
    BY <2>1, <2>3, Zenon DEF PollerType
<1>6. MonitorType'
  <2>1. phase' = phase /\ timer' \in {timer, timer + 1} /\ rows' = AgeRows(rows)
    BY DEF Tick
  <2>2. DOMAIN rows' = DOMAIN rows /\ rows' \in [DOMAIN rows -> SnapshotRow]
    BY <2>1, AgeRowsFacts DEF MonitorType
  <2>3. job' \in Job \cup {NoJob}
    <3>1. CASE job = NoJob
      BY <3>1 DEF Tick
    <3>2. CASE job # NoJob
      <4>1. job \in Job /\ job' = [job EXCEPT !.age = Older(job.age)]
        BY <3>2 DEF Tick, MonitorType
      <4>2. Older(job.age) \in Ages
        BY <4>1, OlderFacts DEF Job
      <4> QED
        BY <4>1, <4>2 DEF Job
    <3> QED
      BY <3>1, <3>2
  <2>4. phase' \in Phases /\ timer' \in Nat
    BY <2>1 DEF MonitorType
  <2> QED
    BY <2>2, <2>3, <2>4 DEF MonitorType
<1> QED
  BY <1>1, <1>2, <1>3, <1>4, <1>5, <1>6

LEMMA MonitorTypeOK ==
  ASSUME TypeOK, RowsExist, MonitorStep
  PROVE  TypeOK'
<1> USE DEF TypeOK, cloudVars, pollerVars, monitorVars
<1> DEFINE Round == BeginInitialCheck \/ BeginScan
           Row1 == \E n \in Watched : CheckInitialRow(n) \/ EvaluateRow(n)
           Ending == EndInitialCheck \/ EndScan
<1>0. Round \/ Row1 \/ Ending \/ JobStep
  BY DEF MonitorStep
<1>1. ProcessType' /\ HandlerType' /\ PollerType'
  BY DEF MonitorStep, JobStep, BeginInitialCheck, CheckInitialRow, EndInitialCheck, BeginScan,
         EvaluateRow, EndScan, MarkDown, DeclareDown, AnnounceOffline, ShowDown, Recheck,
         DeclareRecovered, AnnounceRecovered, JobFails, ProcessType, HandlerType, PollerType
<1>2. CASE Round
  <2>1. DOMAIN Snapshot \subseteq Watched /\ Snapshot \in [DOMAIN Snapshot -> SnapshotRow]
    BY DEF Snapshot, DatabaseType, Row, SnapshotRow, Stale
  <2>2. DatabaseType' /\ ViewType'
    BY <1>2 DEF BeginInitialCheck, BeginScan, DatabaseType, ViewType
  <2>3. rows' = Snapshot /\ job' = job /\ timer' = 0 /\ phase' \in Phases
    BY <1>2 DEF BeginInitialCheck, BeginScan, Phases
  <2>4. MonitorType'
    BY <2>1, <2>3 DEF MonitorType
  <2> QED
    BY <1>1, <2>2, <2>4
<1>3. CASE Row1
  <2>1. PICK n \in Watched : CheckInitialRow(n) \/ EvaluateRow(n)
    BY <1>3
  <2>2. n \in DOMAIN rows /\ rows[n] \in SnapshotRow
    BY <2>1 DEF CheckInitialRow, EvaluateRow, MonitorType
  <2>3. DatabaseType' /\ ViewType'
    BY <2>1 DEF CheckInitialRow, EvaluateRow, DatabaseType, ViewType
  <2>4. rows' = Restrict(rows, DOMAIN rows \ {n}) /\ timer' = timer /\ phase' = phase
    BY <2>1 DEF CheckInitialRow, EvaluateRow
  <2>5. job' \in Job \cup {NoJob}
    BY <2>1, <2>2 DEF CheckInitialRow, EvaluateRow, Verdict, Job, SnapshotRow, Ages
  <2>6. DOMAIN rows' \subseteq Watched /\ rows' \in [DOMAIN rows' -> SnapshotRow]
    BY <2>4 DEF Restrict, MonitorType
  <2>7. MonitorType'
    BY <2>4, <2>5, <2>6 DEF MonitorType
  <2> QED
    BY <1>1, <2>3, <2>7
<1>4. CASE Ending
  <2>1. DatabaseType' /\ ViewType'
    BY <1>4 DEF EndInitialCheck, EndScan, DatabaseType, ViewType
  <2>2. rows' = rows /\ job' = job /\ timer' \in {0, timer} /\ phase' \in Phases
    BY <1>4 DEF EndInitialCheck, EndScan, Phases
  <2>3. MonitorType'
    BY <2>2 DEF MonitorType
  <2> QED
    BY <1>1, <2>1, <2>3
<1>5. CASE JobStep
  <2>1. job \in Job /\ job # NoJob
    <3>1. job.step # "none"
      BY <1>5 DEF JobStep, MarkDown, DeclareDown, AnnounceOffline, ShowDown, Recheck,
                  DeclareRecovered, AnnounceRecovered, JobFails
    <3>2. NoJob.step = "none"
      BY DEF NoJob
    <3> QED
      BY <3>1, <3>2 DEF MonitorType
  <2>2. job.node \in Watched /\ job.node \in Pollers /\ job.age \in Ages /\ job.node \in DOMAIN nodes
    BY <2>1 DEF Job, RowsExist, MonitorRows
  <2>3. DatabaseType' /\ DOMAIN nodes \subseteq DOMAIN nodes'
    <3>1. CASE MarkDown
      BY <2>2, <3>1, WriteType DEF MarkDown
    <3>2. CASE DeclareDown
      BY <2>2, <3>2, WriteType DEF DeclareDown
    <3>3. CASE DeclareRecovered
      BY <2>2, <3>3, WriteType DEF DeclareRecovered
    <3>4. CASE AnnounceOffline \/ ShowDown \/ Recheck \/ AnnounceRecovered \/ JobFails
      BY <3>4 DEF AnnounceOffline, ShowDown, Recheck, AnnounceRecovered, JobFails, DatabaseType
    <3> QED
      BY <1>5, <3>1, <3>2, <3>3, <3>4 DEF JobStep
  <2>4. ViewType'
    <3>1. CASE ShowDown
      <4>1. apiNodes' = Put(apiNodes, job.node, FALSE) /\ lastAlert' = lastAlert
        BY <3>1 DEF ShowDown
      <4> QED
        BY <2>2, <2>3, <4>1 DEF ViewType, Put
    <3>2. CASE AnnounceOffline \/ AnnounceRecovered
      BY <2>2, <2>3, <3>2 DEF AnnounceOffline, AnnounceRecovered, ViewType, Alerts
    <3>3. CASE MarkDown \/ DeclareDown \/ Recheck \/ DeclareRecovered \/ JobFails
      BY <2>3, <3>3 DEF MarkDown, DeclareDown, Recheck, DeclareRecovered, JobFails, ViewType
    <3> QED
      BY <1>5, <3>1, <3>2, <3>3 DEF JobStep
  <2>5. rows' = rows /\ timer' = timer /\ phase' = phase
    BY <1>5 DEF JobStep, MarkDown, DeclareDown, AnnounceOffline, ShowDown, Recheck,
                DeclareRecovered, AnnounceRecovered, JobFails
  <2>6. job' \in Job \cup {NoJob}
    BY <1>5, <2>1 DEF JobStep, MarkDown, DeclareDown, AnnounceOffline, ShowDown, Recheck,
                DeclareRecovered, AnnounceRecovered, JobFails, Job
  <2>7. MonitorType'
    BY <2>5, <2>6 DEF MonitorType
  <2> QED
    BY <1>1, <2>3, <2>4, <2>7
<1> QED
  BY <1>0, <1>2, <1>3, <1>4, <1>5

\* Every step keeps the monitor's work inside a round, on rows that exist.
LEMMA RoundsOK ==
  ASSUME TypeInv, Next
  PROVE  Rounds' /\ MonitorRows'
<1> USE DEF TypeInv, RowsExist, cloudVars, pollerVars, monitorVars
<1>1. CASE Start
  <2>1. phase = "off" /\ rows = NoRows /\ job = NoJob
    BY <1>1 DEF Start, Rounds
  <2>2. up' = TRUE /\ phase' = "discover" /\ timer' = 0 /\ rows' = NoRows /\ job' = NoJob
    BY <1>1, <2>1 DEF Start
  <2> QED
    BY <2>2 DEF Rounds, MonitorRows, PhaseEnds, NoRows
<1>2. CASE Halt
  <2>1. up' = FALSE /\ phase' = "off" /\ rows' = NoRows /\ job' = NoJob
    BY <1>2 DEF Halt
  <2> QED
    BY <2>1 DEF Rounds, MonitorRows, NoRows
<1>3. CASE Tick
  <2>1. DOMAIN rows' = DOMAIN rows /\ DOMAIN nodes' = DOMAIN nodes
    BY <1>3 DEF Tick, AgeRows
  <2>2. job = NoJob => job' = NoJob
    BY <1>3 DEF Tick
  <2>3. job # NoJob => job' # NoJob /\ job'.node = job.node
    BY <1>3 DEF Tick, TypeOK, MonitorType, Job, NoJob
  <2>4. MonitorRows'
    BY <2>1, <2>2, <2>3 DEF MonitorRows
  <2>5. rows = NoRows => rows' = NoRows
    BY <1>3 DEF Tick, AgeRows, NoRows
  <2>6. up' = up /\ phase' = phase
    BY <1>3 DEF Tick
  <2>7. phase # "off" => timer' = timer + 1 /\ timer < PhaseEnds /\ PhaseEnds' = PhaseEnds
    BY <1>3, <2>6 DEF Tick, PhaseEnds
  <2>8. timer \in Nat /\ PhaseEnds \in Nat
    BY DEF TypeOK, MonitorType, PhaseEnds
  <2> QED
    BY <2>2, <2>4, <2>5, <2>6, <2>7, <2>8 DEF Rounds
<1>4. CASE BeginInitialCheck \/ BeginScan
  <2>1. up' = up /\ up /\ phase' \in {"initial", "scan"} /\ timer' = 0 /\ job' = NoJob
    BY <1>4 DEF BeginInitialCheck, BeginScan, Rounds
  <2>2. DOMAIN rows' \subseteq DOMAIN nodes'
    BY <1>4 DEF BeginInitialCheck, BeginScan, Snapshot
  <2> QED
    BY <2>1, <2>2 DEF Rounds, MonitorRows, PhaseEnds
<1>5. CASE \E n \in Watched : CheckInitialRow(n) \/ EvaluateRow(n)
  <2>1. PICK n \in Watched : CheckInitialRow(n) \/ EvaluateRow(n)
    BY <1>5
  <2>2. n \in DOMAIN nodes /\ DOMAIN rows' \subseteq DOMAIN nodes'
    BY <2>1 DEF CheckInitialRow, EvaluateRow, Restrict, MonitorRows
  <2>3. job' # NoJob => job'.node = n
    BY <2>1 DEF CheckInitialRow, EvaluateRow, Verdict
  <2>4. nodes' = nodes /\ up' = up /\ phase' = phase /\ timer' = timer /\ phase \in {"initial", "scan"}
    BY <2>1 DEF CheckInitialRow, EvaluateRow
  <2> QED
    BY <2>2, <2>3, <2>4 DEF Rounds, MonitorRows, PhaseEnds
<1>6. CASE EndInitialCheck \/ EndScan
  <2>1. rows' = NoRows /\ job' = NoJob /\ up' = up /\ up
    BY <1>6 DEF EndInitialCheck, EndScan, Rounds
  <2>2. \/ phase' = "settle" /\ timer' = 0
        \/ phase = "scan" /\ phase' = "idle" /\ timer' = timer
    BY <1>6 DEF EndInitialCheck, EndScan
  <2> QED
    BY <2>1, <2>2 DEF Rounds, MonitorRows, PhaseEnds, NoRows
<1>7. CASE JobStep
  <2>1. job.step # "none" /\ NoJob.step = "none"
    BY <1>7 DEF JobStep, MarkDown, DeclareDown, AnnounceOffline, ShowDown, Recheck,
                DeclareRecovered, AnnounceRecovered, JobFails, NoJob
  <2>2. job # NoJob /\ job \in Job /\ phase \in {"initial", "scan"}
    BY <2>1 DEF TypeOK, MonitorType, Rounds
  <2>3. up' = up /\ phase' = phase /\ timer' = timer /\ rows' = rows
    BY <1>7 DEF JobStep, MarkDown, DeclareDown, AnnounceOffline, ShowDown, Recheck,
                DeclareRecovered, AnnounceRecovered, JobFails
  <2>4. DOMAIN nodes \subseteq DOMAIN nodes'
    BY <1>7 DEF JobStep, MarkDown, DeclareDown, AnnounceOffline, ShowDown, Recheck,
                DeclareRecovered, AnnounceRecovered, JobFails, WriteStatus, Put
  <2>5. job' = NoJob \/ job'.node = job.node
    <3>1. \/ job' = NoJob
          \/ job' = [job EXCEPT !.step = "offline"]
          \/ job' = [job EXCEPT !.step = "api"]
          \/ job' = [job EXCEPT !.step = "recover"]
          \/ job' = [job EXCEPT !.step = "recovered"]
      BY <1>7, Zenon DEF JobStep, MarkDown, DeclareDown, AnnounceOffline, ShowDown, Recheck,
                  DeclareRecovered, AnnounceRecovered, JobFails
    <3> QED
      BY <2>2, <3>1 DEF Job
  <2> QED
    BY <2>2, <2>3, <2>4, <2>5 DEF Rounds, MonitorRows, PhaseEnds
<1>8. CASE \/ \E h \in Handlers : HandlerStep(h)
           \/ \E n \in Known : PollDropped(n) \/ PollerStops(n) \/ PollerResumes(n)
           \/ \E n \in Known, h \in Handlers : Poll(n, h)
  <2>1. up' = up /\ phase' = phase /\ timer' = timer /\ rows' = rows /\ job' = job
    BY <1>8 DEF HandlerStep, ReadHealth, StoreStatus, StoreFails, AnnounceRecovery, UpdateAPI,
                PollDropped, PollerStops, PollerResumes, Poll
  <2>2. DOMAIN nodes \subseteq DOMAIN nodes'
    <3>1. nodes' = nodes \/ \E h \in Handlers : StoreStatus(h)
      BY <1>8 DEF HandlerStep, ReadHealth, StoreFails, AnnounceRecovery, UpdateAPI,
                  PollDropped, PollerStops, PollerResumes, Poll
    <3>2. ASSUME NEW h \in Handlers, StoreStatus(h) PROVE DOMAIN nodes \subseteq DOMAIN nodes'
      BY <3>2 DEF StoreStatus, WriteStatus, Put
    <3> QED
      BY <3>1, <3>2
  <2> QED
    BY <2>1, <2>2 DEF Rounds, MonitorRows, PhaseEnds
<1> QED
  BY <1>1, <1>2, <1>3, <1>4, <1>5, <1>6, <1>7, <1>8 DEF Next, MonitorStep

\* A handler goes on to the alert and the API only once its report is stored.
LEMMA HandlerRowsOK ==
  ASSUME TypeInv, Next
  PROVE  HandlerRows' /\ Down'
<1> USE DEF TypeInv, RowsExist, cloudVars, pollerVars, monitorVars
<1>1. CASE Start
  <2>1. rpc' = [h \in Handlers |-> Idle] /\ up' = TRUE
    BY <1>1 DEF Start, Down
  <2> QED
    BY <2>1 DEF HandlerRows, Down, Idle
<1>2. CASE Halt
  <2>1. rpc' = [h \in Handlers |-> Idle] /\ apiNodes' = NoRows
    BY <1>2 DEF Halt
  <2> QED
    BY <2>1 DEF HandlerRows, Down, Idle
<1>3. CASE Tick
  <2>1. DOMAIN nodes' = DOMAIN nodes /\ up' = up /\ apiNodes' = apiNodes
    BY <1>3 DEF Tick, AgeRows
  <2>2. ASSUME NEW h \in Handlers
        PROVE  /\ ~Busy(h) => rpc'[h] = Idle
               /\ Busy(h) => rpc'[h].pc = rpc[h].pc /\ rpc'[h].node = rpc[h].node
    BY <1>3 DEF Tick, TypeOK, HandlerType, Busy, Request
  <2>3. HandlerRows'
    BY <2>1, <2>2 DEF HandlerRows, Idle
  <2>4. (\A h \in Handlers : ~Busy(h)) => rpc' = [h \in Handlers |-> Idle]
    BY <1>3 DEF Tick
  <2> QED
    BY <2>1, <2>3, <2>4 DEF Down, Busy
<1>4. CASE MonitorStep
  <2>1. rpc' = rpc /\ up' = up
    BY <1>4 DEF MonitorStep, JobStep, BeginInitialCheck, CheckInitialRow, EndInitialCheck,
         BeginScan, EvaluateRow, EndScan, MarkDown, DeclareDown, AnnounceOffline, ShowDown,
         Recheck, DeclareRecovered, AnnounceRecovered, JobFails
  <2>3. up
    <3>1. job.step # "none" \/ phase # "off"
      BY <1>4 DEF MonitorStep, JobStep, BeginInitialCheck, CheckInitialRow, EndInitialCheck,
           BeginScan, EvaluateRow, EndScan, MarkDown, DeclareDown, AnnounceOffline, ShowDown,
           Recheck, DeclareRecovered, AnnounceRecovered, JobFails
    <3>2. NoJob.step = "none"
      BY DEF NoJob
    <3> QED
      BY <3>1, <3>2 DEF Rounds
  <2>2. DOMAIN nodes \subseteq DOMAIN nodes'
    BY <1>4 DEF MonitorStep, JobStep, BeginInitialCheck, CheckInitialRow, EndInitialCheck,
         BeginScan, EvaluateRow, EndScan, MarkDown, DeclareDown, AnnounceOffline, ShowDown,
         Recheck, DeclareRecovered, AnnounceRecovered, JobFails, WriteStatus, Put
  <2> QED
    BY <2>1, <2>2, <2>3 DEF HandlerRows, Down
<1>5. CASE \E h \in Handlers : HandlerStep(h)
  <2>1. PICK h \in Handlers : HandlerStep(h)
    BY <1>5
  <2>2. rpc[h] \in Request /\ rpc[h] # Idle
    BY <2>1 DEF HandlerStep, ReadHealth, StoreStatus, StoreFails, AnnounceRecovery, UpdateAPI,
                TypeOK, HandlerType, Idle
  <2>3. up' = up /\ up
    BY <2>1, <2>2 DEF HandlerStep, ReadHealth, StoreStatus, StoreFails, AnnounceRecovery, UpdateAPI, Down
  <2>4. \A g \in Handlers \ {h} : rpc'[g] = rpc[g]
    BY <2>1 DEF HandlerStep, ReadHealth, StoreStatus, StoreFails, AnnounceRecovery, UpdateAPI,
                TypeOK, HandlerType
  <2>5. DOMAIN nodes \subseteq DOMAIN nodes'
    BY <2>1 DEF HandlerStep, ReadHealth, StoreStatus, StoreFails, AnnounceRecovery, UpdateAPI,
                WriteStatus, Put
  <2>6. rpc'[h].pc \in {"alert", "api"} => rpc'[h].node \in DOMAIN nodes'
    <3>1. CASE StoreStatus(h)
      <4>1. rpc'[h].node = rpc[h].node
        BY <2>2, <3>1 DEF StoreStatus, TypeOK, HandlerType, Request
      <4> QED
        BY <3>1, <4>1 DEF StoreStatus, WriteStatus, Put
    <3>2. CASE AnnounceRecovery(h)
      <4>1. rpc'[h].node = rpc[h].node
        BY <2>2, <3>2 DEF AnnounceRecovery, TypeOK, HandlerType, Request
      <4> QED
        BY <2>5, <3>2, <4>1 DEF AnnounceRecovery, HandlerRows
    <3>3. CASE ReadHealth(h)
      <4>1. PICK b \in BOOLEAN : rpc' = [rpc EXCEPT ![h].pc = "store", ![h].was = b]
        BY <3>3 DEF ReadHealth
      <4>2. rpc'[h] = [rpc[h] EXCEPT !.pc = "store", !.was = b]
        BY <4>1 DEF TypeOK, HandlerType
      <4> QED
        BY <2>2, <4>2 DEF Request
    <3>4. CASE StoreFails(h) \/ UpdateAPI(h)
      BY <3>4 DEF StoreFails, UpdateAPI, TypeOK, HandlerType, Idle
    <3> QED
      BY <2>1, <3>1, <3>2, <3>3, <3>4 DEF HandlerStep
  <2> QED
    BY <2>3, <2>4, <2>5, <2>6 DEF HandlerRows, Down
<1>6. CASE \E n \in Known, h \in Handlers : Poll(n, h)
  <2>1. PICK n \in Known, h \in Handlers : Poll(n, h)
    BY <1>6
  <2>2. \A g \in Handlers \ {h} : rpc'[g] = rpc[g]
    BY <2>1 DEF Poll, TypeOK, HandlerType
  <2>3. rpc'[h].pc = "read"
    BY <2>1 DEF Poll, TypeOK, HandlerType
  <2>4. up /\ up' = up /\ nodes' = nodes
    BY <2>1 DEF Poll
  <2> QED
    BY <2>2, <2>3, <2>4 DEF HandlerRows, Down
<1>7. CASE \E n \in Known : PollDropped(n) \/ PollerStops(n) \/ PollerResumes(n)
  <2>1. rpc' = rpc /\ up' = up /\ nodes' = nodes /\ apiNodes' = apiNodes
    BY <1>7 DEF PollDropped, PollerStops, PollerResumes
  <2> QED
    BY <2>1 DEF HandlerRows, Down
<1> QED
  BY <1>1, <1>2, <1>3, <1>4, <1>5, <1>6, <1>7 DEF Next

LEMMA TypeInvStep == TypeInv /\ [Next]_vars => TypeInv'
<1> SUFFICES ASSUME TypeInv, [Next]_vars PROVE TypeInv'
  OBVIOUS
<1>1. CASE Next
  <2>1. TypeOK'
    <3>1. CASE Start \/ Halt
      BY <3>1, ProcessTypeOK DEF TypeInv
    <3>2. CASE MonitorStep
      BY <3>2, MonitorTypeOK DEF TypeInv
    <3>3. CASE Tick
      BY <3>3, TickTypeOK DEF TypeInv
    <3>4. CASE \E h \in Handlers : HandlerStep(h)
      BY <3>4, HandlerTypeOK DEF TypeInv
    <3>5. CASE \E n \in Known : PollDropped(n) \/ PollerStops(n) \/ PollerResumes(n)
      BY <3>5, PollerTypeOK DEF TypeInv
    <3>6. CASE \E n \in Known, h \in Handlers : Poll(n, h)
      BY <3>6, PollerTypeOK DEF TypeInv
    <3> QED
      BY <1>1, <3>1, <3>2, <3>3, <3>4, <3>5, <3>6 DEF Next
  <2> QED
    BY <1>1, <2>1, RoundsOK, HandlerRowsOK DEF TypeInv, RowsExist
<1>2. CASE UNCHANGED vars
  BY <1>2 DEF vars, TypeInv, TypeOK, ProcessType, DatabaseType, ViewType, HandlerType,
              PollerType, MonitorType, Rounds, RowsExist, MonitorRows, HandlerRows, Down, PhaseEnds
<1> QED
  BY <1>1, <1>2

LEMMA TypeInvariant == Spec => []TypeInv
<1>1. Init => TypeInv
  BY InitTypeOK DEF Init, TypeInv, Rounds, RowsExist, MonitorRows, HandlerRows, Down, NoRows, Idle
<1> QED
  BY <1>1, TypeInvStep, PTL DEF Spec

\* Every reachable state is well typed; in particular the API never serves a
\* node that has no row: no handler goes on after a failed transaction, and a
\* restart that deletes rows also empties the API's map.
THEOREM TypeCorrect == Spec => []TypeOK
BY TypeInvariant, PTL DEF TypeInv

-----------------------------------------------------------------------------
(* The inductive invariant of NoFalseOffline.                                *)

\* A handler that will still write the row of n.
Pending(h, n) == Busy(h) /\ rpc[h].node = n /\ rpc[h].pc \in {"read", "store"}

\* Until its next report is stored, the row of n stays at most StoredAge old:
\* it is no older than the last poll, or the report of that poll is on its way.
Strong(n) ==
  \/ nodes[n].age <= since[n] + Latency
  \/ \E h \in Handlers : Pending(h, n) /\ nodes[n].age <= PollInterval + Latency + Ahead + rpc[h].age

\* The same for a row that DeclareRecovered has overwritten with the last_seen
\* of a snapshot up to MonitorInterval old.
Weak(n) ==
  \/ nodes[n].age <= since[n] + StoredAge + MonitorInterval
  \/ \E h \in Handlers :
       /\ Pending(h, n)
       /\ nodes[n].age <= StoredAge + MonitorInterval + PollInterval + Ahead + rpc[h].age

\* Weak rows are healthy ones, and only the rounds of checkNodeStates make them.
Fresh(n) ==
  /\ n \in DOMAIN nodes
  /\ Strong(n) \/ (nodes[n].healthy /\ phase \in {"idle", "scan"} /\ Weak(n))

\* No report of n has been stored since Start, but one is due before the
\* initial check.
Starting(n) ==
  /\ phase = "discover"
  /\ \/ timer <= since[n]
     \/ \E h \in Handlers : Pending(h, n) /\ timer <= PollInterval + Ahead + rpc[h].age

SteadyPoll == \A n \in Steady : alive[n] /\ since[n] <= PollInterval

\* Once the write lock is lost, reports are no longer stored: rows get as old as
\* they may, and the monitor condemns steady pollers too.  But a verdict has to be
\* written before it is announced.
SteadyRow == \A n \in Steady : up /\ lock = "sound" => Fresh(n) \/ Starting(n)

\* What the monitor has read of a steady poller never condemns it.
SteadySnapshot ==
  lock = "sound" => \A n \in Steady \cap DOMAIN rows :
    /\ ~rows[n].stale
    /\ phase = "initial" => rows[n].age <= StoredAge + timer
    /\ phase = "scan" /\ ~rows[n].healthy => rows[n].age <= StoredAge + timer

SteadyJob ==
  job # NoJob /\ job.node \in Steady =>
    IF lock = "lost" THEN job.step \notin {"offline", "api"}
    ELSE /\ phase = "scan"
         /\ job.step \in {"recheck", "recover", "recovered"}
         /\ job.step \in {"recheck", "recover"} => job.age <= StoredAge + timer

IInv ==
  /\ TypeInv
  /\ SteadyPoll /\ SteadyRow /\ SteadySnapshot /\ SteadyJob
  /\ NoFalseOffline

-----------------------------------------------------------------------------
(* Bounds on the age of a steady poller's row.                               *)

LEMMA Margins ==
  ASSUME Steady # {}
  PROVE  /\ StoredAge = PollInterval + 2 * Latency + Ahead
         /\ PollInterval + Latency + Ahead < DiscoveryDelay
         /\ AlertThreshold >= StoredAge + MonitorInterval + PollInterval + Latency + Ahead
BY SteadyAssumption DEF StoredAge

LEMMA PendingType ==
  ASSUME TypeInv, NEW n, NEW h \in Handlers, Pending(h, n)
  PROVE  rpc[h] \in Request /\ rpc[h].age \in (-Ahead)..Latency
BY DEF TypeInv, TypeOK, HandlerType, Pending, Busy, Request

\* A row that is not weak is younger than what the monitor forgives in a
\* snapshot; any other is still within the threshold.
LEMMA RowBounds ==
  ASSUME TypeInv, SteadyPoll, NEW n \in Steady, n \in DOMAIN nodes
  PROVE  /\ nodes[n].age \in Ages
         /\ Strong(n) => nodes[n].age <= StoredAge
         /\ Fresh(n) => nodes[n].age <= AlertThreshold
<1>1. nodes[n].age \in Ages /\ since[n] \in 0..MaxAge /\ since[n] <= PollInterval
  BY DEF TypeInv, TypeOK, DatabaseType, PollerType, Row, SteadyPoll
<1>2. ASSUME Strong(n) PROVE nodes[n].age <= StoredAge
  <2>1. CASE nodes[n].age <= since[n] + Latency
    BY <1>1, <2>1, Margins DEF Ages
  <2>2. CASE \E h \in Handlers : Pending(h, n) /\ nodes[n].age <= PollInterval + Latency + Ahead + rpc[h].age
    BY <1>1, <2>2, PendingType, Margins DEF Ages
  <2> QED
    BY <1>2, <2>1, <2>2 DEF Strong
<1>3. ASSUME Weak(n) PROVE nodes[n].age <= AlertThreshold
  <2>1. CASE nodes[n].age <= since[n] + StoredAge + MonitorInterval
    BY <1>1, <2>1, Margins DEF Ages
  <2>2. CASE \E h \in Handlers :
               /\ Pending(h, n)
               /\ nodes[n].age <= StoredAge + MonitorInterval + PollInterval + Ahead + rpc[h].age
    BY <1>1, <2>2, PendingType, Margins DEF Ages
  <2> QED
    BY <1>3, <2>1, <2>2 DEF Weak
<1> QED
  BY <1>1, <1>2, <1>3, Margins DEF Fresh, Ages

\* When the initial check begins, the report that was due has been stored.
LEMMA NotStarting ==
  ASSUME TypeInv, SteadyPoll, NEW n \in Steady, timer = DiscoveryDelay
  PROVE  ~Starting(n)
<1>1. since[n] \in 0..MaxAge /\ since[n] <= PollInterval
  BY DEF TypeInv, TypeOK, PollerType, SteadyPoll
<1> QED
  BY <1>1, Margins, PendingType DEF Starting

-----------------------------------------------------------------------------
(* The steps that leave the row of n, its last poll and its reports alone.   *)

LEMMA RowFrame ==
  ASSUME NEW n \in Steady,
         since'[n] = since[n],
         \A h \in Handlers : Pending(h, n) => Pending(h, n)' /\ rpc'[h].age = rpc[h].age,
         n \in DOMAIN nodes => n \in DOMAIN nodes' /\ nodes'[n] = nodes[n]
  PROVE  /\ Strong(n) /\ n \in DOMAIN nodes => Strong(n)'
         /\ Weak(n) /\ n \in DOMAIN nodes => Weak(n)'
         /\ Starting(n) /\ phase' = phase /\ timer' = timer => Starting(n)'
<1>1. ASSUME Strong(n), n \in DOMAIN nodes PROVE Strong(n)'
  BY <1>1 DEF Strong
<1>2. ASSUME Weak(n), n \in DOMAIN nodes PROVE Weak(n)'
  BY <1>2 DEF Weak
<1>3. ASSUME Starting(n), phase' = phase, timer' = timer PROVE Starting(n)'
  BY <1>3 DEF Starting
<1> QED
  BY <1>1, <1>2, <1>3

LEMMA FreshFrame ==
  ASSUME NEW n \in Steady,
         Fresh(n) \/ Starting(n),
         since'[n] = since[n],
         \A h \in Handlers : Pending(h, n) => Pending(h, n)' /\ rpc'[h].age = rpc[h].age,
         n \in DOMAIN nodes => n \in DOMAIN nodes' /\ nodes'[n] = nodes[n],
         phase' = phase, timer' = timer
  PROVE  Fresh(n)' \/ Starting(n)'
BY RowFrame DEF Fresh

-----------------------------------------------------------------------------
(* Every step keeps the row of a steady poller fresh.                        *)

LEMMA TickRow ==
  ASSUME TypeInv, SteadyPoll, Tick, NEW n \in Steady, Fresh(n) \/ Starting(n)
  PROVE  Fresh(n)' \/ Starting(n)'
<1>1. since[n] \in Nat /\ since'[n] = since[n] + 1
  <2>1. since[n] \in 0..MaxAge /\ since[n] < PollInterval
    BY DEF TypeInv, TypeOK, PollerType, SteadyPoll, Tick
  <2> QED
    BY <2>1 DEF Tick, Older
<1>2. n \in DOMAIN nodes =>
        /\ n \in DOMAIN nodes' /\ nodes'[n].healthy = nodes[n].healthy
        /\ nodes[n].age \in Int /\ nodes'[n].age \in Int
        /\ nodes'[n].age <= nodes[n].age + 1
  <2> SUFFICES ASSUME n \in DOMAIN nodes
               PROVE  /\ n \in DOMAIN nodes' /\ nodes'[n].healthy = nodes[n].healthy
                      /\ nodes[n].age \in Int /\ nodes'[n].age \in Int
                      /\ nodes'[n].age <= nodes[n].age + 1
    OBVIOUS
  <2>1. nodes[n] \in Row
    BY DEF TypeInv, TypeOK, DatabaseType
  <2>2. nodes' = AgeRows(nodes)
    BY DEF Tick
  <2>3. DOMAIN nodes' = DOMAIN nodes /\ nodes'[n] = [nodes[n] EXCEPT !.age = Older(nodes[n].age)]
    BY <2>2 DEF AgeRows
  <2> QED
    BY <2>1, <2>3, OlderFacts DEF Row, Ages
<1>3. ASSUME NEW h \in Handlers, Pending(h, n)
      PROVE  Pending(h, n)' /\ rpc'[h].age = rpc[h].age + 1 /\ rpc[h].age \in Int
  <2>1. rpc[h] \in Request
    BY <1>3, PendingType
  <2>2. rpc'[h] = [rpc[h] EXCEPT !.age = rpc[h].age + 1]
    BY <1>3 DEF Tick, Pending
  <2>3. rpc'[h].pc = rpc[h].pc /\ rpc'[h].node = rpc[h].node /\ rpc'[h].age = rpc[h].age + 1
    BY <2>1, <2>2 DEF Request
  <2> QED
    BY <1>3, <2>1, <2>3 DEF Pending, Busy, Idle, Request
<1>4. ASSUME n \in DOMAIN nodes, Strong(n) PROVE Strong(n)'
  BY <1>1, <1>2, <1>3, <1>4 DEF Strong
<1>5. ASSUME n \in DOMAIN nodes, Weak(n) PROVE Weak(n)'
  BY <1>1, <1>2, <1>3, <1>5, Margins DEF Weak
<1>6. ASSUME Starting(n) PROVE Starting(n)'
  <2>1. phase' = phase /\ timer \in Nat /\ timer' = timer + 1
    BY <1>6 DEF Starting, Tick, TypeInv, TypeOK, MonitorType
  <2> QED
    BY <1>1, <1>3, <1>6, <2>1 DEF Starting
<1> QED
  BY <1>2, <1>4, <1>5, <1>6 DEF Fresh, Tick

LEMMA HandlerRow ==
  ASSUME TypeInv, SteadyPoll, NEW h \in Handlers, HandlerStep(h), lock = "sound",
         NEW n \in Steady, Fresh(n) \/ Starting(n)
  PROVE  Fresh(n)' \/ Starting(n)'
<1>1. since' = since /\ phase' = phase /\ timer' = timer
  BY DEF HandlerStep, ReadHealth, StoreStatus, StoreFails, AnnounceRecovery, UpdateAPI,
         pollerVars, monitorVars
<1>2. rpc[h] \in Request
  BY DEF HandlerStep, ReadHealth, StoreStatus, StoreFails, AnnounceRecovery, UpdateAPI,
         TypeInv, TypeOK, HandlerType, Idle
<1>3. \A g \in Handlers \ {h} : rpc'[g] = rpc[g]
  BY DEF HandlerStep, ReadHealth, StoreStatus, StoreFails, AnnounceRecovery, UpdateAPI,
         TypeInv, TypeOK, HandlerType
<1>4. \A g \in Handlers \ {h} : Pending(g, n) => Pending(g, n)' /\ rpc'[g].age = rpc[g].age
  BY <1>3 DEF Pending, Busy
<1>5. CASE StoreStatus(h) /\ rpc[h].node = n
  <2> DEFINE r == rpc[h]
             v == [age |-> r.age, healthy |-> r.healthy]
  <2>1. nodes' = Put(nodes, n, v)
    BY <1>5 DEF StoreStatus, WriteStatus
  <2>2. n \in DOMAIN nodes' /\ nodes'[n] = v
    BY <2>1 DEF Put
  <2>3. r.age \in Int /\ r.age <= Latency /\ since[n] \in 0..MaxAge
    BY <1>2 DEF Request, TypeInv, TypeOK, PollerType
  <2>4. nodes'[n].age <= since'[n] + Latency
    BY <1>1, <2>2, <2>3
  <2> QED
    BY <2>2, <2>4 DEF Fresh, Strong
<1>6. CASE StoreStatus(h) /\ rpc[h].node # n
  <2>1. n \in DOMAIN nodes => n \in DOMAIN nodes' /\ nodes'[n] = nodes[n]
    BY <1>6 DEF StoreStatus, WriteStatus, Put
  <2>2. ~Pending(h, n)
    BY <1>6 DEF Pending
  <2> QED
    BY <1>1, <1>4, <2>1, <2>2, FreshFrame
<1>7. CASE ReadHealth(h)
  <2>1. nodes' = nodes
    BY <1>7 DEF ReadHealth
  <2>2. PICK b \in BOOLEAN : rpc' = [rpc EXCEPT ![h].pc = "store", ![h].was = b]
    BY <1>7 DEF ReadHealth
  <2>5. rpc'[h] = [rpc[h] EXCEPT !.pc = "store", !.was = b]
    BY <2>2 DEF TypeInv, TypeOK, HandlerType
  <2>3. rpc'[h].pc = "store" /\ rpc'[h].node = rpc[h].node /\ rpc'[h].age = rpc[h].age
    BY <1>2, <2>5 DEF Request
  <2>4. Pending(h, n) => Pending(h, n)'
    BY <2>3 DEF Pending, Busy, Idle
  <2> QED
    BY <1>1, <1>4, <2>1, <2>3, <2>4, FreshFrame
<1>8. CASE StoreFails(h) \/ AnnounceRecovery(h) \/ UpdateAPI(h)
  <2>1. nodes' = nodes
    BY <1>8 DEF StoreFails, AnnounceRecovery, UpdateAPI
  <2>2. ~Pending(h, n)
    BY <1>8 DEF StoreFails, AnnounceRecovery, UpdateAPI, Pending, ReportMayFail
  <2> QED
    BY <1>1, <1>4, <2>1, <2>2, FreshFrame
<1> QED
  BY <1>5, <1>6, <1>7, <1>8 DEF HandlerStep

LEMMA PollRow ==
  ASSUME TypeInv, SteadyPoll, NEW m \in Known, NEW h \in Handlers, Poll(m, h),
         NEW n \in Steady, Fresh(n) \/ Starting(n)
  PROVE  Fresh(n)' \/ Starting(n)'
<1>1. nodes' = nodes /\ phase' = phase /\ timer' = timer /\ ~Busy(h)
  BY DEF Poll, monitorVars
<1>2. \A g \in Handlers : Pending(g, n) => Pending(g, n)' /\ rpc'[g].age = rpc[g].age
  BY <1>1 DEF Poll, Pending, Busy, TypeInv, TypeOK, HandlerType
<1>3. CASE m # n
  <2>1. since'[n] = since[n]
    BY <1>3 DEF Poll, TypeInv, TypeOK, PollerType
  <2> QED
    BY <1>1, <1>2, <2>1, FreshFrame
<1>4. CASE m = n
  <2>1. PICK age \in (-Ahead)..Latency, healthy \in BOOLEAN :
          rpc' = [rpc EXCEPT ![h] = [pc |-> "read", node |-> n, age |-> age,
                                     healthy |-> healthy, was |-> FALSE]]
    BY <1>4 DEF Poll
  <2>2. rpc'[h].pc = "read" /\ rpc'[h].node = n /\ rpc'[h].age = age
    BY <2>1 DEF TypeInv, TypeOK, HandlerType
  <2>3. Pending(h, n)' /\ rpc'[h].age = age
    BY <2>2 DEF Pending, Busy, Idle
  <2>4. since[n] \in Nat /\ since[n] <= PollInterval /\ timer \in Nat
    BY DEF TypeInv, TypeOK, PollerType, MonitorType, SteadyPoll
  <2>5. n \in DOMAIN nodes => nodes[n].age \in Int
    BY DEF TypeInv, TypeOK, DatabaseType, Row, Ages
  <2>6. ASSUME n \in DOMAIN nodes, Strong(n) PROVE Strong(n)'
    <3>1. CASE nodes[n].age <= since[n] + Latency
      <4>1. nodes'[n].age <= PollInterval + Latency + Ahead + rpc'[h].age
        BY <1>1, <2>3, <2>4, <2>5, <2>6, <3>1
      <4> QED
        BY <2>3, <4>1 DEF Strong
    <3>2. CASE ~(nodes[n].age <= since[n] + Latency)
      BY <1>1, <1>2, <2>6, <3>2 DEF Strong
    <3> QED
      BY <3>1, <3>2
  <2>7. ASSUME n \in DOMAIN nodes, Weak(n) PROVE Weak(n)'
    <3>1. CASE nodes[n].age <= since[n] + StoredAge + MonitorInterval
      <4>1. nodes'[n].age <= StoredAge + MonitorInterval + PollInterval + Ahead + rpc'[h].age
        BY <1>1, <2>3, <2>4, <2>5, <2>7, <3>1, Margins
      <4> QED
        BY <2>3, <4>1 DEF Weak
    <3>2. CASE ~(nodes[n].age <= since[n] + StoredAge + MonitorInterval)
      BY <1>1, <1>2, <2>7, <3>2 DEF Weak
    <3> QED
      BY <3>1, <3>2
  <2>8. ASSUME Starting(n) PROVE Starting(n)'
    <3>1. CASE timer <= since[n]
      <4>1. timer' <= PollInterval + Ahead + rpc'[h].age
        BY <1>1, <2>3, <2>4, <3>1
      <4> QED
        BY <1>1, <2>3, <2>8, <4>1 DEF Starting
    <3>2. CASE ~(timer <= since[n])
      BY <1>1, <1>2, <2>8, <3>2 DEF Starting
    <3> QED
      BY <3>1, <3>2
  <2> QED
    BY <1>1, <2>6, <2>7, <2>8 DEF Fresh
<1> QED
  BY <1>3, <1>4

LEMMA MonitorRow ==
  ASSUME TypeInv, SteadyPoll, SteadyJob, MonitorStep, lock = "sound",
         NEW n \in Steady, Fresh(n) \/ Starting(n)
  PROVE  Fresh(n)' \/ Starting(n)'
<1> USE DEF pollerVars, monitorVars
<1>1. since' = since /\ rpc' = rpc
  BY DEF MonitorStep, JobStep, BeginInitialCheck, CheckInitialRow, EndInitialCheck, BeginScan,
         EvaluateRow, EndScan, MarkDown, DeclareDown, AnnounceOffline, ShowDown, Recheck,
         DeclareRecovered, AnnounceRecovered, JobFails
<1>2. \A h \in Handlers : Pending(h, n) => Pending(h, n)' /\ rpc'[h].age = rpc[h].age
  BY <1>1 DEF Pending, Busy
<1>3. CASE BeginInitialCheck
  <2>1. phase = "discover" /\ timer = DiscoveryDelay /\ nodes' = nodes
    BY <1>3 DEF BeginInitialCheck
  <2>2. n \in DOMAIN nodes /\ Strong(n)
    BY <2>1, NotStarting DEF Fresh
  <2> QED
    BY <1>1, <1>2, <2>1, <2>2, RowFrame DEF Fresh
<1>4. CASE BeginScan
  <2>1. phase \in {"settle", "idle"} /\ phase' = "scan" /\ nodes' = nodes
    BY <1>4 DEF BeginScan
  <2>2. Fresh(n)
    BY <2>1 DEF Starting
  <2> QED
    BY <1>1, <1>2, <2>1, <2>2, RowFrame DEF Fresh
<1>5. CASE EndInitialCheck \/ EndScan
  <2>1. nodes' = nodes
    BY <1>5 DEF EndInitialCheck, EndScan
  <2>2. \/ phase = "initial" /\ phase' = "settle"
        \/ phase = "scan" /\ phase' = "idle"
    BY <1>5 DEF EndInitialCheck, EndScan
  <2>3. Fresh(n)
    BY <2>2 DEF Starting
  <2> QED
    BY <1>1, <1>2, <2>1, <2>2, <2>3, RowFrame DEF Fresh
<1>6. CASE \E m \in Watched : CheckInitialRow(m) \/ EvaluateRow(m)
  <2>1. nodes' = nodes /\ phase' = phase /\ timer' = timer
    BY <1>6 DEF CheckInitialRow, EvaluateRow
  <2> QED
    BY <1>1, <1>2, <2>1, FreshFrame
<1>7. CASE JobStep
  <2>1. phase' = phase /\ timer' = timer
    BY <1>7 DEF JobStep, MarkDown, DeclareDown, AnnounceOffline, ShowDown, Recheck,
                DeclareRecovered, AnnounceRecovered, JobFails
  <2>2. job # NoJob /\ job \in Job
    <3>1. job.step # "none" /\ NoJob.step = "none"
      BY <1>7 DEF JobStep, MarkDown, DeclareDown, AnnounceOffline, ShowDown, Recheck,
                  DeclareRecovered, AnnounceRecovered, JobFails, NoJob
    <3> QED
      BY <3>1 DEF TypeInv, TypeOK, MonitorType
  <2>3. CASE DeclareRecovered /\ job.node = n
    <3>1. phase = "scan" /\ job.age <= StoredAge + timer
      BY <2>2, <2>3 DEF SteadyJob, DeclareRecovered
    <3>2. nodes' = Put(nodes, n, [age |-> job.age, healthy |-> TRUE])
      BY <2>3 DEF DeclareRecovered, WriteStatus
    <3>3. n \in DOMAIN nodes' /\ nodes'[n].age = job.age /\ nodes'[n].healthy
      BY <3>2 DEF Put
    <3>4. timer \in Nat /\ timer <= MonitorInterval /\ job.age \in Int /\ since[n] \in Nat
      BY <2>2, <3>1 DEF TypeInv, Rounds, PhaseEnds, TypeOK, MonitorType, PollerType, Job, Ages
    <3>5. Weak(n)'
      BY <1>1, <3>1, <3>3, <3>4, Margins DEF Weak
    <3> QED
      BY <2>1, <3>1, <3>3, <3>5 DEF Fresh
  <2>4. CASE ~(DeclareRecovered /\ job.node = n)
    <3>1. n \in DOMAIN nodes => n \in DOMAIN nodes' /\ nodes'[n] = nodes[n]
      <4>1. CASE MarkDown \/ DeclareDown
        <5>1. job.node # n
          BY <2>2, <4>1 DEF SteadyJob, MarkDown, DeclareDown
        <5> QED
          BY <4>1, <5>1 DEF MarkDown, DeclareDown, WriteStatus, Put
      <4>2. CASE DeclareRecovered
        BY <2>4, <4>2 DEF DeclareRecovered, WriteStatus, Put
      <4>3. CASE AnnounceOffline \/ ShowDown \/ Recheck \/ AnnounceRecovered \/ JobFails
        BY <4>3 DEF AnnounceOffline, ShowDown, Recheck, AnnounceRecovered, JobFails
      <4> QED
        BY <1>7, <4>1, <4>2, <4>3 DEF JobStep
    <3> QED
      BY <1>1, <1>2, <2>1, <3>1, FreshFrame
  <2> QED
    BY <2>3, <2>4
<1> QED
  BY <1>3, <1>4, <1>5, <1>6, <1>7 DEF MonitorStep

LEMMA SteadyRowStep ==
  ASSUME IInv, Next
  PROVE  SteadyRow'
<1> USE DEF IInv
<1> SUFFICES ASSUME NEW n \in Steady, up', lock' = "sound" PROVE Fresh(n)' \/ Starting(n)'
  BY DEF SteadyRow
<1>1. CASE Start
  <2>1. phase' = "discover" /\ timer' = 0 /\ since' = since
    BY <1>1 DEF Start, pollerVars
  <2>2. since[n] \in Nat
    BY DEF TypeInv, TypeOK, PollerType
  <2> QED
    BY <2>1, <2>2 DEF Starting
<1>2. CASE Halt
  BY <1>2 DEF Halt
<1>3. ASSUME ~Start, ~Halt PROVE up /\ lock = "sound"
  <2>1. up' = up /\ lock' \in {lock, "lost"}
    BY <1>3 DEF Next, MonitorStep, JobStep, BeginInitialCheck, CheckInitialRow, EndInitialCheck,
         BeginScan, EvaluateRow, EndScan, MarkDown, DeclareDown, AnnounceOffline, ShowDown,
         Recheck, DeclareRecovered, AnnounceRecovered, JobFails, HandlerStep, ReadHealth,
         StoreStatus, StoreFails, AnnounceRecovery, UpdateAPI, PollDropped, PollerStops,
         PollerResumes, Poll, Tick, cloudVars
  <2> QED
    BY <2>1
<1>4. CASE up /\ lock = "sound" /\ (Fresh(n) \/ Starting(n))
  <2>1. CASE Tick
    BY <1>4, <2>1, TickRow
  <2>2. CASE MonitorStep
    BY <1>4, <2>2, MonitorRow
  <2>3. CASE \E h \in Handlers : HandlerStep(h)
    BY <1>4, <2>3, HandlerRow
  <2>4. CASE \E m \in Known, h \in Handlers : Poll(m, h)
    BY <1>4, <2>4, PollRow
  <2>5. CASE \E m \in Known : PollDropped(m) \/ PollerStops(m) \/ PollerResumes(m)
    <3>1. nodes' = nodes /\ rpc' = rpc /\ phase' = phase /\ timer' = timer
      BY <2>5 DEF PollDropped, PollerStops, PollerResumes, monitorVars
    <3>2. since'[n] = since[n]
      BY <1>4, <2>5 DEF PollDropped, PollerStops, PollerResumes, TypeInv, TypeOK, PollerType
    <3>3. \A h \in Handlers : Pending(h, n) => Pending(h, n)' /\ rpc'[h].age = rpc[h].age
      BY <3>1 DEF Pending, Busy
    <3> QED
      BY <1>4, <3>1, <3>2, <3>3, FreshFrame
  <2> QED
    BY <1>1, <1>2, <2>1, <2>2, <2>3, <2>4, <2>5 DEF Next
<1> QED
  BY <1>1, <1>2, <1>3, <1>4 DEF SteadyRow

-----------------------------------------------------------------------------
(* The monitor never condemns a steady poller.                               *)

LEMMA SteadyPollStep ==
  ASSUME IInv, Next
  PROVE  SteadyPoll'
<1> USE DEF IInv
<1> SUFFICES ASSUME NEW n \in Steady PROVE alive'[n] /\ since'[n] <= PollInterval
  BY DEF SteadyPoll
<1>1. alive[n] /\ since[n] \in 0..MaxAge /\ since[n] <= PollInterval
  BY DEF TypeInv, TypeOK, PollerType, SteadyPoll
<1>2. CASE Tick
  <2>1. alive' = alive /\ since'[n] = Older(since[n]) /\ since[n] < PollInterval
    BY <1>1, <1>2 DEF Tick
  <2> QED
    BY <1>1, <2>1, OlderFacts
<1>3. CASE \/ Start \/ Halt \/ MonitorStep
           \/ \E h \in Handlers : HandlerStep(h)
  <2>1. alive' = alive /\ since' = since
    BY <1>3 DEF MonitorStep, JobStep, BeginInitialCheck, CheckInitialRow, EndInitialCheck,
         BeginScan, EvaluateRow, EndScan, MarkDown, DeclareDown, AnnounceOffline, ShowDown,
         Recheck, DeclareRecovered, AnnounceRecovered, JobFails, HandlerStep, ReadHealth,
         StoreStatus, StoreFails, AnnounceRecovery, UpdateAPI, Start, Halt, pollerVars
  <2> QED
    BY <1>1, <2>1
<1>4. CASE \/ \E m \in Known : PollDropped(m) \/ PollerStops(m) \/ PollerResumes(m)
           \/ \E m \in Known, h \in Handlers : Poll(m, h)
  <2>1. alive'[n] = alive[n]
    BY <1>1, <1>4 DEF PollDropped, PollerStops, PollerResumes, Poll, TypeInv, TypeOK, PollerType
  <2>2. since'[n] \in {0, since[n]}
    BY <1>4 DEF PollDropped, PollerStops, PollerResumes, Poll, TypeInv, TypeOK, PollerType
  <2> QED
    BY <1>1, <2>1, <2>2
<1> QED
  BY <1>2, <1>3, <1>4 DEF Next

LEMMA SteadySnapshotStep ==
  ASSUME IInv, Next
  PROVE  SteadySnapshot'
<1> USE DEF IInv
<1>1. CASE Start \/ Halt \/ EndInitialCheck \/ EndScan
  <2>1. rows' = NoRows
    BY <1>1 DEF Start, Halt, EndInitialCheck, EndScan, TypeInv, Rounds
  <2> QED
    BY <2>1 DEF SteadySnapshot, NoRows
<1>2. CASE BeginInitialCheck \/ BeginScan
  <2> SUFFICES ASSUME lock' = "sound", NEW n \in Steady \cap DOMAIN rows'
               PROVE  /\ ~rows'[n].stale
                      /\ phase' = "initial" => rows'[n].age <= StoredAge + timer'
                      /\ phase' = "scan" /\ ~rows'[n].healthy => rows'[n].age <= StoredAge + timer'
    BY DEF SteadySnapshot
  <2>1. rows' = Snapshot /\ timer' = 0 /\ lock = "sound"
    BY <1>2 DEF BeginInitialCheck, BeginScan, cloudVars
  <2>2. /\ n \in DOMAIN nodes
        /\ rows'[n] = [age |-> nodes[n].age, healthy |-> nodes[n].healthy,
                       stale |-> Stale(nodes[n].age)]
    BY <2>1 DEF Snapshot
  <2>3. up /\ Fresh(n)
    <3>1. up
      BY <1>2 DEF BeginInitialCheck, BeginScan, TypeInv, Rounds
    <3> QED
      BY <1>2, <2>1, <3>1, NotStarting DEF BeginInitialCheck, BeginScan, SteadyRow, Starting
  <2>4. ~Stale(nodes[n].age)
    BY <2>2, <2>3, RowBounds DEF Stale, Ages
  <2>5. ASSUME phase' = "initial" \/ ~nodes[n].healthy PROVE nodes[n].age <= StoredAge
    <3>1. Strong(n)
      BY <1>2, <2>3, <2>5 DEF BeginInitialCheck, BeginScan, Fresh
    <3> QED
      BY <2>2, <3>1, RowBounds
  <2>6. StoredAge + timer' = StoredAge
    BY <2>1, Margins
  <2> QED
    BY <2>2, <2>4, <2>5, <2>6
<1>3. CASE Tick
  <2> SUFFICES ASSUME lock' = "sound", NEW n \in Steady \cap DOMAIN rows'
               PROVE  /\ ~rows'[n].stale
                      /\ phase' = "initial" => rows'[n].age <= StoredAge + timer'
                      /\ phase' = "scan" /\ ~rows'[n].healthy => rows'[n].age <= StoredAge + timer'
    BY DEF SteadySnapshot
  <2>1. n \in DOMAIN rows /\ rows'[n] = [rows[n] EXCEPT !.age = Older(rows[n].age)]
    BY <1>3 DEF Tick, AgeRows
  <2>2. rows[n] \in SnapshotRow
    BY <2>1 DEF TypeInv, TypeOK, MonitorType
  <2>3. /\ rows'[n].stale = rows[n].stale /\ rows'[n].healthy = rows[n].healthy
        /\ rows[n].age \in Int /\ rows'[n].age \in Int /\ rows'[n].age <= rows[n].age + 1
    BY <2>1, <2>2, OlderFacts DEF SnapshotRow, Ages
  <2>4. /\ phase' = phase /\ timer \in Nat /\ (phase # "off" => timer' = timer + 1)
        /\ lock = "sound"
    BY <1>3 DEF Tick, TypeInv, TypeOK, MonitorType
  <2> QED
    BY <2>1, <2>3, <2>4, Margins DEF SteadySnapshot
<1>4. CASE \E n \in Watched : CheckInitialRow(n) \/ EvaluateRow(n)
  <2>1. PICK n \in Watched : CheckInitialRow(n) \/ EvaluateRow(n)
    BY <1>4
  <2>2. /\ rows' = Restrict(rows, DOMAIN rows \ {n}) /\ phase' = phase /\ timer' = timer
        /\ lock' = lock
    BY <2>1 DEF CheckInitialRow, EvaluateRow, cloudVars
  <2>3. DOMAIN rows' \subseteq DOMAIN rows /\ \A m \in DOMAIN rows' : rows'[m] = rows[m]
    BY <2>2 DEF Restrict
  <2> QED
    BY <2>2, <2>3 DEF SteadySnapshot
<1>5. CASE \/ JobStep
           \/ \E h \in Handlers : HandlerStep(h)
           \/ \E m \in Known : PollDropped(m) \/ PollerStops(m) \/ PollerResumes(m)
           \/ \E m \in Known, h \in Handlers : Poll(m, h)
  <2>1. rows' = rows /\ phase' = phase /\ timer' = timer /\ lock' \in {lock, "lost"}
    BY <1>5 DEF JobStep, MarkDown, DeclareDown, AnnounceOffline, ShowDown, Recheck,
         DeclareRecovered, AnnounceRecovered, JobFails, HandlerStep, ReadHealth, StoreStatus,
         StoreFails, AnnounceRecovery, UpdateAPI, PollDropped, PollerStops, PollerResumes,
         Poll, monitorVars, cloudVars
  <2> QED
    BY <2>1 DEF SteadySnapshot
<1> QED
  BY <1>1, <1>2, <1>3, <1>4, <1>5 DEF Next, MonitorStep

LEMMA SteadyJobStep ==
  ASSUME IInv, Next
  PROVE  SteadyJob'
<1> USE DEF IInv
<1>0. lock \in {"sound", "lost"} /\ lock' \in {"sound", "lost"}
  BY TypeInvStep DEF TypeInv, TypeOK, ProcessType
<1>1. CASE Start \/ Halt \/ BeginInitialCheck \/ BeginScan \/ EndInitialCheck \/ EndScan
  <2>1. job' = NoJob
    BY <1>1 DEF Start, Halt, BeginInitialCheck, BeginScan, EndInitialCheck, EndScan, TypeInv, Rounds
  <2> QED
    BY <2>1 DEF SteadyJob
<1>2. CASE Tick
  <2>1. CASE job = NoJob
    BY <1>2, <2>1 DEF Tick, SteadyJob
  <2>2. CASE job # NoJob
    <3>1. job \in Job /\ job' = [job EXCEPT !.age = Older(job.age)]
      BY <1>2, <2>2 DEF Tick, TypeInv, TypeOK, MonitorType
    <3>2. /\ job'.node = job.node /\ job'.step = job.step
          /\ job.age \in Int /\ job'.age \in Int /\ job'.age <= job.age + 1
      BY <3>1, OlderFacts DEF Job, Ages
    <3>3. /\ phase' = phase /\ timer \in Nat /\ (phase # "off" => timer' = timer + 1)
          /\ lock' = lock
      BY <1>2 DEF Tick, TypeInv, TypeOK, MonitorType
    <3> QED
      BY <2>2, <3>2, <3>3, Margins DEF SteadyJob
  <2> QED
    BY <2>1, <2>2
<1>3. CASE \E n \in Watched : CheckInitialRow(n) \/ EvaluateRow(n)
  <2>1. PICK n \in Watched : CheckInitialRow(n) \/ EvaluateRow(n)
    BY <1>3
  <2>2. CASE n \notin Steady
    BY <2>1, <2>2 DEF CheckInitialRow, EvaluateRow, Verdict, SteadyJob
  <2>4. CASE n \in Steady /\ lock = "lost"
    <3>1. job' = NoJob \/ job'.step \in {"markDown", "down", "recheck"}
      BY <2>1 DEF CheckInitialRow, EvaluateRow, Verdict
    <3>2. lock' = "lost"
      BY <2>1, <2>4 DEF CheckInitialRow, EvaluateRow, cloudVars
    <3> QED
      BY <3>1, <3>2 DEF SteadyJob
  <2>3. CASE n \in Steady /\ lock = "sound"
    <3>0. lock' = "sound"
      BY <2>1, <2>3 DEF CheckInitialRow, EvaluateRow, cloudVars
    <3>1. n \in Steady \cap DOMAIN rows /\ rows[n] \in SnapshotRow /\ timer \in Nat
      BY <2>1, <2>3 DEF CheckInitialRow, EvaluateRow, TypeInv, TypeOK, MonitorType
    <3>2. CASE CheckInitialRow(n)
      <4>1. phase = "initial" /\ timer <= MonitorInterval
        BY <3>2 DEF CheckInitialRow, TypeInv, Rounds, PhaseEnds
      <4>2. rows[n].age \in Int /\ rows[n].age <= StoredAge + timer
        BY <2>3, <3>1, <4>1 DEF SteadySnapshot, SnapshotRow, Ages
      <4>3. ~Stale(rows[n].age)
        BY <2>3, <3>1, <4>1, <4>2, Margins DEF Stale
      <4>4. job' = NoJob
        BY <3>2, <4>3 DEF CheckInitialRow
      <4> QED
        BY <4>4 DEF SteadyJob
    <3>3. CASE EvaluateRow(n)
      <4>1. phase = "scan" /\ phase' = phase /\ timer' = timer /\ job' = Verdict(n)
        BY <3>3 DEF EvaluateRow
      <4>2. ~rows[n].stale /\ (~rows[n].healthy => rows[n].age <= StoredAge + timer)
        BY <2>3, <3>1, <4>1 DEF SteadySnapshot
      <4>3. rows[n].healthy \in BOOLEAN /\ rows[n].stale = FALSE
        BY <3>1, <4>2 DEF SnapshotRow
      <4>4. CASE rows[n].healthy
        BY <3>0, <4>1, <4>3, <4>4 DEF Verdict, SteadyJob
      <4>5. CASE ~rows[n].healthy
        <5>1. job' \in {NoJob, [step |-> "recheck", node |-> n, age |-> rows[n].age]}
          BY <4>1, <4>5 DEF Verdict
        <5> QED
          BY <3>0, <4>1, <4>2, <4>5, <5>1 DEF SteadyJob
      <4> QED
        BY <4>4, <4>5
    <3> QED
      BY <2>1, <3>2, <3>3
  <2> QED
    BY <1>0, <2>2, <2>3, <2>4
<1>4. CASE JobStep
  <2>1. phase' = phase /\ timer' = timer /\ lock' = lock
    BY <1>4 DEF JobStep, MarkDown, DeclareDown, AnnounceOffline, ShowDown, Recheck,
                DeclareRecovered, AnnounceRecovered, JobFails, cloudVars
  <2>2. job # NoJob /\ job \in Job
    <3>1. job.step # "none" /\ NoJob.step = "none"
      BY <1>4 DEF JobStep, MarkDown, DeclareDown, AnnounceOffline, ShowDown, Recheck,
                  DeclareRecovered, AnnounceRecovered, JobFails, NoJob
    <3> QED
      BY <3>1 DEF TypeInv, TypeOK, MonitorType
  <2>3. CASE job' = NoJob
    BY <2>3 DEF SteadyJob
  <2>4. CASE job' # NoJob /\ job.node \notin Steady
    <3>1. job'.node = job.node
      BY <1>4, <2>2, <2>4 DEF JobStep, MarkDown, DeclareDown, AnnounceOffline, ShowDown, Recheck,
                  DeclareRecovered, AnnounceRecovered, JobFails, Job
    <3> QED
      BY <2>4, <3>1 DEF SteadyJob
  <2>6. CASE job' # NoJob /\ job.node \in Steady /\ lock = "lost"
    <3>1. Recheck \/ AnnounceOffline
      BY <1>4, <2>6 DEF JobStep, MarkDown, DeclareDown, DeclareRecovered, WriteStatus, ShowDown,
                        AnnounceRecovered, JobFails
    <3>2. Recheck
      BY <2>2, <2>6, <3>1 DEF SteadyJob, AnnounceOffline
    <3>3. job' = [job EXCEPT !.step = "recover"]
      BY <2>6, <3>2 DEF Recheck
    <3>4. job'.step = "recover"
      BY <2>2, <3>3 DEF Job
    <3> QED
      BY <2>1, <2>6, <3>4 DEF SteadyJob
  <2>5. CASE job' # NoJob /\ job.node \in Steady /\ lock = "sound"
    <3>1. /\ phase = "scan"
          /\ job.step \in {"recheck", "recover", "recovered"}
          /\ job.step \in {"recheck", "recover"} => job.age <= StoredAge + timer
      BY <2>2, <2>5 DEF SteadyJob
    <3>2. CASE Recheck
      <4>1. job' = [job EXCEPT !.step = "recover"] /\ job.step = "recheck"
        BY <2>5, <3>2 DEF Recheck
      <4>2. job'.step = "recover" /\ job'.age = job.age
        BY <2>2, <4>1 DEF Job
      <4> QED
        BY <2>1, <2>5, <3>1, <4>1, <4>2 DEF SteadyJob
    <3>3. CASE DeclareRecovered
      <4>1. job'.step = "recovered"
        BY <2>2, <3>3 DEF DeclareRecovered, Job
      <4> QED
        BY <2>1, <2>5, <3>1, <4>1 DEF SteadyJob
    <3> QED
      BY <1>4, <2>5, <3>1, <3>2, <3>3
         DEF JobStep, MarkDown, DeclareDown, AnnounceOffline, ShowDown, AnnounceRecovered, JobFails
  <2> QED
    BY <1>0, <2>3, <2>4, <2>5, <2>6
<1>5. CASE \/ \E h \in Handlers : HandlerStep(h)
           \/ \E m \in Known : PollDropped(m) \/ PollerStops(m) \/ PollerResumes(m)
           \/ \E m \in Known, h \in Handlers : Poll(m, h)
  <2>1. job' = job /\ phase' = phase /\ timer' = timer /\ lock' \in {lock, "lost"}
    BY <1>5 DEF HandlerStep, ReadHealth, StoreStatus, StoreFails, AnnounceRecovery, UpdateAPI,
                PollDropped, PollerStops, PollerResumes, Poll, monitorVars, cloudVars
  <2> QED
    BY <2>1 DEF SteadyJob
<1> QED
  BY <1>1, <1>2, <1>3, <1>4, <1>5 DEF Next, MonitorStep

LEMMA NoFalseOfflineStep ==
  ASSUME IInv, Next
  PROVE  NoFalseOffline'
<1> USE DEF IInv
<1> SUFFICES ASSUME NEW n \in Steady PROVE lastAlert'[n] # "offline"
  BY DEF NoFalseOffline
<1>1. lastAlert \in [Pollers -> Alerts] /\ n \in Pollers /\ lastAlert[n] # "offline"
  BY DEF NoFalseOffline, TypeInv, TypeOK, ViewType
<1>2. CASE AnnounceOffline
  <2>1. job # NoJob
    BY <1>2 DEF AnnounceOffline, NoJob
  <2>2. job.node # n
    BY <1>2, <2>1 DEF AnnounceOffline, SteadyJob
  <2> QED
    BY <1>1, <1>2, <2>2 DEF AnnounceOffline
<1>3. CASE AnnounceRecovered \/ \E h \in Handlers : AnnounceRecovery(h)
  BY <1>1, <1>3 DEF AnnounceRecovered, AnnounceRecovery
<1>4. CASE ~AnnounceOffline /\ ~AnnounceRecovered /\ ~\E h \in Handlers : AnnounceRecovery(h)
  <2>1. lastAlert' = lastAlert
    BY <1>4 DEF Next, MonitorStep, JobStep, BeginInitialCheck, CheckInitialRow, EndInitialCheck,
         BeginScan, EvaluateRow, EndScan, MarkDown, DeclareDown, ShowDown,
         Recheck, DeclareRecovered, JobFails, HandlerStep, ReadHealth,
         StoreStatus, StoreFails, UpdateAPI, PollDropped, PollerStops,
         PollerResumes, Poll, Tick, Start, Halt
  <2> QED
    BY <1>1, <2>1
<1> QED
  BY <1>2, <1>3, <1>4

LEMMA IInvInit == Init => IInv
<1> SUFFICES ASSUME Init PROVE IInv
  OBVIOUS
<1>1. TypeInv
  BY InitTypeOK DEF Init, TypeInv, Rounds, RowsExist, MonitorRows, HandlerRows, Down, NoRows, Idle
<1>2. SteadyPoll
  BY DEF Init, SteadyPoll
<1>3. SteadyRow /\ SteadySnapshot /\ SteadyJob
  BY DEF Init, SteadyRow, SteadySnapshot, SteadyJob, NoRows
<1>4. NoFalseOffline
  BY DEF Init, NoFalseOffline
<1> QED
  BY <1>1, <1>2, <1>3, <1>4 DEF IInv

LEMMA IInvStep == IInv /\ [Next]_vars => IInv'
<1> SUFFICES ASSUME IInv, [Next]_vars PROVE IInv'
  OBVIOUS
<1>1. TypeInv'
  BY TypeInvStep DEF IInv
<1>2. CASE Next
  BY <1>1, <1>2, SteadyPollStep, SteadyRowStep, SteadySnapshotStep, SteadyJobStep,
     NoFalseOfflineStep DEF IInv
<1>3. CASE UNCHANGED vars
  <2>1. SteadyPoll' /\ SteadyRow' /\ SteadySnapshot' /\ SteadyJob' /\ NoFalseOffline'
    BY <1>3 DEF vars, IInv, SteadyPoll, SteadyRow, SteadySnapshot, SteadyJob, NoFalseOffline,
                Fresh, Strong, Weak, Starting, Pending, Busy
  <2> QED
    BY <1>1, <2>1 DEF IInv
<1> QED
  BY <1>2, <1>3

\* A steady poller is never declared offline, for every set of pollers and of
\* handlers and all durations that meet SteadyAssumption: the two checks of
\* monitorNodes raise no false alarm, whatever the interleaving.
THEOREM NeverFalselyOffline == Spec => []NoFalseOffline
<1>1. IInv => NoFalseOffline
  BY DEF IInv
<1> QED
  BY <1>1, IInvInit, IInvStep, PTL DEF Spec

-----------------------------------------------------------------------------
(* The inductive invariant of SilenceDetected.  A node that has been silent  *)
(* has an old row; once the row is stale, a round of checkNodeStates that    *)
(* starts has it condemned, and no later round spares it.                    *)

Silenced == (Known \cap Watched) \ Faulty

\* Beyond this, the row of a silent node is stale and the first round has begun.
Settled == Ahead + DiscoveryDelay + SettleDelay + AlertThreshold + MonitorInterval

\* The node or the process has been there for no longer than x.
Recent(n, x) == since[n] <= x \/ uptime <= x

\* An age is that of a report of n, or of a mark that checkInitialStates made.
OldEnough(n, a) == a >= since[n] - Ahead \/ a >= uptime - DiscoveryDelay - MonitorInterval

Clock ==
  /\ phase = "off" => uptime = 0
  /\ phase = "discover" => uptime <= timer
  /\ phase = "initial" => uptime <= DiscoveryDelay + timer
  /\ phase = "settle" => uptime <= DiscoveryDelay + MonitorInterval + timer

ReportsAge(n) == \A h \in Handlers : Busy(h) /\ rpc[h].node = n => rpc[h].age >= since[n] - Ahead

RowsAge(n) ==
  /\ n \in DOMAIN nodes => OldEnough(n, nodes[n].age)
  /\ n \in DOMAIN rows => OldEnough(n, rows[n].age)
  /\ job # NoJob /\ job.node = n => OldEnough(n, job.age)

\* A round spares n, or goes on to declare it recovered, only if it began early.
Spared(n) ==
  phase = "scan" =>
    /\ n \in DOMAIN rows /\ ~rows[n].stale => Recent(n, Settled + timer)
    /\ job.step \in {"recheck", "recover"} /\ job.node = n => Recent(n, Settled + timer)

\* The round under way will declare n down.
Condemned(n) ==
  \/ n \in DOMAIN rows /\ rows[n].healthy /\ rows[n].stale
  \/ job.step = "down" /\ job.node = n

Detected(n) ==
  phase \in {"scan", "idle"} /\ Healthy(n) /\ lock = "sound" =>
    \/ Recent(n, Settled + timer)
    \/ Condemned(n) /\ Recent(n, Settled + MonitorInterval + timer)

Silent(n) == ReportsAge(n) /\ RowsAge(n) /\ Spared(n) /\ Detected(n)

SilenceInv == TypeInv /\ Clock /\ \A n \in Silenced : Silent(n)

-----------------------------------------------------------------------------
(* How the clocks move.                                                      *)

LEMMA SettledFacts ==
  /\ Settled \in Nat /\ DetectionTime \in Nat
  /\ DetectionTime = Settled + 2 * MonitorInterval
  /\ Settled >= Latency + Ahead
  /\ Settled >= DiscoveryDelay + MonitorInterval + SettleDelay
  /\ Settled >= AlertThreshold + Ahead
  /\ Settled >= AlertThreshold + DiscoveryDelay + MonitorInterval
BY LatencyAssumption DEF Settled, DetectionTime

LEMMA ClockType ==
  ASSUME TypeInv, NEW n \in Silenced
  PROVE  /\ n \in Known /\ n \in Watched /\ n \in Pollers /\ n \notin Faulty
         /\ since[n] \in 0..MaxAge /\ uptime \in 0..MaxAge /\ timer \in Nat
         /\ n \in DOMAIN nodes => nodes[n] \in Row /\ nodes[n].age \in Ages
         /\ n \in DOMAIN rows => rows[n] \in SnapshotRow /\ rows[n].age \in Ages
         /\ job # NoJob => job \in Job /\ job.age \in Ages
BY DEF TypeInv, TypeOK, ProcessType, DatabaseType, PollerType, MonitorType, Silenced,
       Row, SnapshotRow, Job

\* Unless time passes, the silence of n and the age of the process do not grow.
LEMMA StillStep ==
  ASSUME TypeInv, NEW n \in Silenced,
         \/ Start \/ Halt \/ MonitorStep
         \/ \E h \in Handlers : HandlerStep(h)
         \/ \E m \in Known : PollDropped(m) \/ PollerStops(m) \/ PollerResumes(m)
         \/ \E m \in Known, h \in Handlers : Poll(m, h)
  PROVE  since'[n] <= since[n] /\ uptime' <= uptime
<1>1. since[n] \in 0..MaxAge /\ uptime \in 0..MaxAge /\ since \in [Known -> 0..MaxAge] /\ n \in Known
  BY ClockType DEF TypeInv, TypeOK, PollerType
<1>2. CASE Start \/ Halt
  <2>1. since' = since /\ uptime' = 0
    BY <1>2 DEF Start, Halt, pollerVars
  <2> QED
    BY <1>1, <2>1
<1>3. CASE MonitorStep \/ \E h \in Handlers : HandlerStep(h)
  <2>1. since' = since /\ uptime' = uptime
    BY <1>3 DEF MonitorStep, JobStep, BeginInitialCheck, CheckInitialRow, EndInitialCheck,
         BeginScan, EvaluateRow, EndScan, MarkDown, DeclareDown, AnnounceOffline, ShowDown,
         Recheck, DeclareRecovered, AnnounceRecovered, JobFails, HandlerStep, ReadHealth,
         StoreStatus, StoreFails, AnnounceRecovery, UpdateAPI, pollerVars, cloudVars
  <2> QED
    BY <1>1, <2>1
<1>4. CASE \/ \E m \in Known : PollDropped(m) \/ PollerStops(m) \/ PollerResumes(m)
           \/ \E m \in Known, h \in Handlers : Poll(m, h)
  <2>1. uptime' = uptime /\ (since' = since \/ \E m \in Known : since' = [since EXCEPT ![m] = 0])
    BY <1>4 DEF PollDropped, PollerStops, PollerResumes, Poll, cloudVars
  <2> QED
    BY <1>1, <2>1
<1> QED
  BY <1>2, <1>3, <1>4

LEMMA StillFacts ==
  ASSUME TypeInv, TypeInv', NEW n \in Silenced,
         since'[n] <= since[n], uptime' <= uptime
  PROVE  /\ \A x \in Int : Recent(n, x) => Recent(n, x)'
         /\ \A a \in Ages : OldEnough(n, a) => OldEnough(n, a)'
<1>1. since[n] \in Int /\ uptime \in Int /\ since'[n] \in Int /\ uptime' \in Int
  BY ClockType DEF TypeInv, TypeOK, ProcessType, PollerType
<1> QED
  BY <1>1 DEF Recent, OldEnough, Ages

\* What is old enough stays so when both it and its bound grow by one.
LEMMA Later ==
  ASSUME NEW a \in Int, NEW s \in Int, NEW t \in Int, NEW d \in Int, a >= s - d, t <= s + 1
  PROVE  a + 1 >= t - d
OBVIOUS

\* The same with the delay as a sum of two.
LEMMA LaterStill ==
  ASSUME NEW a \in Int, NEW s \in Int, NEW t \in Int, NEW d \in Int, NEW e \in Int,
         a >= s - d - e, t <= s + 1
  PROVE  a + 1 >= t - d - e
OBVIOUS

LEMMA TickFacts ==
  ASSUME TypeInv, TypeInv', NEW n \in Silenced, Tick
  PROVE  /\ since'[n] <= since[n] + 1 /\ uptime' <= uptime + 1
         /\ \A x \in Int : Recent(n, x) => Recent(n, x + 1)'
         /\ \A a, b \in Ages : OldEnough(n, a) /\ b = Older(a) => OldEnough(n, b)'
<1>1. since[n] \in 0..MaxAge /\ uptime \in 0..MaxAge /\ since'[n] = Older(since[n])
      /\ uptime' \in {uptime, Older(uptime)}
  BY ClockType DEF Tick
<1>2. /\ since'[n] \in 0..MaxAge /\ uptime' \in 0..MaxAge
      /\ since'[n] <= since[n] + 1 /\ uptime' <= uptime + 1
  BY <1>1, OlderFacts
<1>3. \A x \in Int : Recent(n, x) => Recent(n, x + 1)'
  BY <1>1, <1>2 DEF Recent
<1>4. ASSUME NEW a \in Ages, NEW b \in Ages, OldEnough(n, a), b = a + 1 \/ b = MaxAge
      PROVE  OldEnough(n, b)'
  <2>1. /\ a \in Int /\ b \in Int /\ since[n] \in Int /\ uptime \in Int
        /\ since'[n] \in Int /\ since'[n] <= MaxAge /\ uptime' \in Int
    BY <1>1, <1>2 DEF Ages
  <2>2. b >= since'[n] - Ahead \/ b >= uptime' - DiscoveryDelay - MonitorInterval
    <3>1. CASE b = MaxAge
      BY <2>1, <3>1
    <3>2. CASE b = a + 1 /\ a >= since[n] - Ahead
      <4>1. a + 1 >= since'[n] - Ahead
        BY <1>2, <2>1, <3>2, Later
      <4> QED
        BY <2>1, <3>2, <4>1
    <3>3. CASE b = a + 1 /\ a >= uptime - DiscoveryDelay - MonitorInterval
      <4>1. DiscoveryDelay \in Int /\ MonitorInterval \in Int
        BY DurationsAssumption
      <4>2. a + 1 >= uptime' - DiscoveryDelay - MonitorInterval
        BY <1>2, <2>1, <3>3, <4>1, LaterStill
      <4> QED
        BY <3>3, <4>2
    <3> QED
      BY <1>4, <3>1, <3>2, <3>3 DEF OldEnough
  <2> QED
    BY <2>2 DEF OldEnough
<1>5. \A a \in Ages : Older(a) \in Ages /\ (Older(a) = a + 1 \/ Older(a) = MaxAge)
  BY DEF Older, Ages
<1> QED
  BY <1>2, <1>3, <1>4, <1>5

-----------------------------------------------------------------------------
(* Every step keeps the invariant of a silent node.                          *)

\* The steps that leave the row of n and the monitor alone.
LEMMA SilentFrame ==
  ASSUME TypeInv, TypeInv', NEW n \in Silenced, Silent(n),
         since'[n] <= since[n], uptime' <= uptime, ReportsAge(n)',
         n \in DOMAIN nodes' => n \in DOMAIN nodes /\ nodes'[n] = nodes[n],
         rows' = rows, job' = job, phase' = phase, timer' = timer, lock' \in {lock, "lost"}
  PROVE  Silent(n)'
<1>1. /\ \A x \in Int : Recent(n, x) => Recent(n, x)'
      /\ \A a \in Ages : OldEnough(n, a) => OldEnough(n, a)'
  BY StillFacts
<1>2. /\ n \in DOMAIN nodes => nodes[n].age \in Ages
      /\ n \in DOMAIN rows => rows[n].age \in Ages
      /\ job # NoJob => job.age \in Ages
      /\ Settled + timer \in Int /\ Settled + MonitorInterval + timer \in Int
  BY ClockType, SettledFacts
<1>3. RowsAge(n)'
  BY <1>1, <1>2 DEF Silent, RowsAge
<1>4. Spared(n)'
  BY <1>1, <1>2 DEF Silent, Spared
<1>5. Healthy(n)' => Healthy(n)
  BY DEF Healthy
<1>6. Detected(n)'
  BY <1>1, <1>2, <1>5 DEF Silent, Detected, Condemned
<1> QED
  BY <1>3, <1>4, <1>6 DEF Silent

LEMMA SilentPoll ==
  ASSUME TypeInv, TypeInv', NEW n \in Silenced, Silent(n),
         \/ \E m \in Known : PollDropped(m) \/ PollerStops(m) \/ PollerResumes(m)
         \/ \E m \in Known, h \in Handlers : Poll(m, h)
  PROVE  Silent(n)'
<1>1. since'[n] <= since[n] /\ uptime' <= uptime
  BY StillStep
<1>2. /\ nodes' = nodes /\ rows' = rows /\ job' = job /\ phase' = phase /\ timer' = timer
      /\ lock' = lock
  BY DEF PollDropped, PollerStops, PollerResumes, Poll, monitorVars, cloudVars
<1>3. since[n] \in 0..MaxAge /\ since'[n] \in 0..MaxAge
  BY ClockType DEF TypeInv, TypeOK, PollerType
<1>4. ASSUME NEW h \in Handlers, Busy(h), rpc[h].node = n
      PROVE  rpc[h].age \in Int /\ rpc[h].age >= since'[n] - Ahead
  <2>1. rpc[h].age \in Int
    BY <1>4 DEF TypeInv, TypeOK, HandlerType, Busy, Request
  <2>2. rpc[h].age >= since[n] - Ahead
    BY <1>4 DEF Silent, ReportsAge
  <2> QED
    BY <1>1, <1>3, <2>1, <2>2
<1>5. ReportsAge(n)'
  <2>1. CASE \E m \in Known : PollDropped(m) \/ PollerStops(m) \/ PollerResumes(m)
    <3>1. rpc' = rpc
      BY <2>1 DEF PollDropped, PollerStops, PollerResumes
    <3> QED
      BY <1>4, <3>1 DEF ReportsAge, Busy
  <2>2. CASE \E m \in Known, h \in Handlers : Poll(m, h)
    <3>1. PICK m \in Known, g \in Handlers : Poll(m, g)
      BY <2>2
    <3>2. PICK age \in (-Ahead)..Latency, healthy \in BOOLEAN :
            rpc' = [rpc EXCEPT ![g] = [pc |-> "read", node |-> m, age |-> age,
                                       healthy |-> healthy, was |-> FALSE]]
      BY <3>1 DEF Poll
    <3>3. rpc \in [Handlers -> Request \cup {Idle}]
      BY DEF TypeInv, TypeOK, HandlerType
    <3>4. ASSUME NEW h \in Handlers, Busy(h)', rpc'[h].node = n
          PROVE  rpc'[h].age >= since'[n] - Ahead
      <4>1. CASE h = g
        <5>1. rpc'[h].node = m /\ rpc'[h].age = age
          BY <3>2, <3>3, <4>1
        <5>2. since'[n] = 0
          BY <3>1, <3>4, <5>1, ClockType DEF Poll, TypeInv, TypeOK, PollerType
        <5> QED
          BY <5>1, <5>2
      <4>2. CASE h # g
        <5>1. rpc'[h] = rpc[h]
          BY <3>2, <3>3, <4>2
        <5> QED
          BY <1>4, <3>4, <5>1 DEF Busy
      <4> QED
        BY <4>1, <4>2
    <3> QED
      BY <3>4 DEF ReportsAge
  <2> QED
    BY <2>1, <2>2
<1> QED
  BY <1>1, <1>2, <1>5, SilentFrame

LEMMA SilentHandler ==
  ASSUME TypeInv, TypeInv', NEW n \in Silenced, Silent(n), NEW h \in Handlers, HandlerStep(h)
  PROVE  Silent(n)'
<1>1. /\ since' = since /\ uptime' = uptime /\ rows' = rows /\ job' = job /\ phase' = phase
      /\ timer' = timer /\ lock' \in {lock, "lost"}
  BY DEF HandlerStep, ReadHealth, StoreStatus, StoreFails, AnnounceRecovery, UpdateAPI,
         pollerVars, monitorVars, cloudVars
<1>2. since[n] \in 0..MaxAge /\ uptime \in 0..MaxAge /\ timer \in Nat
  BY ClockType
<1>3. rpc[h] \in Request
  BY DEF HandlerStep, ReadHealth, StoreStatus, StoreFails, AnnounceRecovery, UpdateAPI,
         TypeInv, TypeOK, HandlerType, Idle
<1>4. \A g \in Handlers \ {h} : rpc'[g] = rpc[g]
  BY DEF HandlerStep, ReadHealth, StoreStatus, StoreFails, AnnounceRecovery, UpdateAPI,
         TypeInv, TypeOK, HandlerType
<1>5. rpc'[h] = Idle \/ (rpc'[h].node = rpc[h].node /\ rpc'[h].age = rpc[h].age)
  <2>1. rpc \in [Handlers -> Request \cup {Idle}]
    BY DEF TypeInv, TypeOK, HandlerType
  <2>2. CASE StoreFails(h) \/ UpdateAPI(h)
    BY <2>1, <2>2 DEF StoreFails, UpdateAPI
  <2>3. CASE ReadHealth(h)
    <3>1. PICK b \in BOOLEAN : rpc' = [rpc EXCEPT ![h].pc = "store", ![h].was = b]
      BY <2>3 DEF ReadHealth
    <3>2. rpc'[h] = [rpc[h] EXCEPT !.pc = "store", !.was = b]
      BY <2>1, <3>1
    <3> QED
      BY <1>3, <3>2 DEF Request
  <2>4. CASE StoreStatus(h)
    BY <1>3, <2>1, <2>4 DEF StoreStatus, Request
  <2>5. CASE AnnounceRecovery(h)
    BY <1>3, <2>1, <2>5 DEF AnnounceRecovery, Request
  <2> QED
    BY <2>2, <2>3, <2>4, <2>5 DEF HandlerStep
<1>6. ReportsAge(n)'
  <2>1. rpc[h] # Idle
    BY <1>3 DEF Request, Idle
  <2>2. ASSUME NEW g \in Handlers, Busy(g)', rpc'[g].node = n
        PROVE  rpc'[g].age >= since'[n] - Ahead
    <3>1. CASE g = h
      BY <1>1, <1>5, <2>1, <2>2, <3>1 DEF Silent, ReportsAge, Busy
    <3>2. CASE g # h
      BY <1>1, <1>4, <2>2, <3>2 DEF Silent, ReportsAge, Busy
    <3> QED
      BY <3>1, <3>2
  <2> QED
    BY <2>2 DEF ReportsAge
<1>7. CASE StoreStatus(h) /\ rpc[h].node = n
  <2> DEFINE v == [age |-> rpc[h].age, healthy |-> rpc[h].healthy]
  <2>1. nodes' = Put(nodes, n, v)
    BY <1>7 DEF StoreStatus, WriteStatus
  <2>2. nodes'[n] = v
    BY <2>1 DEF Put
  <2>3. rpc[h].age \in Int /\ rpc[h].age <= Latency /\ rpc[h].age >= since[n] - Ahead
    BY <1>3, <1>7 DEF Silent, ReportsAge, Busy, Request, Idle
  <2>4. nodes'[n].age >= since'[n] - Ahead
    BY <1>1, <2>2, <2>3
  <2>5. RowsAge(n)'
    BY <1>1, <2>4 DEF Silent, RowsAge, OldEnough
  <2>6. Spared(n)'
    BY <1>1 DEF Silent, Spared, Recent
  <2>7. Recent(n, Settled + timer)'
    <3>1. since[n] <= Latency + Ahead
      BY <1>2, <2>3
    <3>2. since[n] <= Settled + timer
      BY <1>2, <3>1, SettledFacts
    <3> QED
      BY <1>1, <3>2 DEF Recent
  <2>8. Detected(n)'
    BY <1>1, <2>7 DEF Detected
  <2> QED
    BY <1>6, <2>5, <2>6, <2>8 DEF Silent
<1>8. CASE ~(StoreStatus(h) /\ rpc[h].node = n)
  <2>1. n \in DOMAIN nodes' => n \in DOMAIN nodes /\ nodes'[n] = nodes[n]
    BY <1>8 DEF HandlerStep, ReadHealth, StoreStatus, StoreFails, AnnounceRecovery, UpdateAPI,
                WriteStatus, Put
  <2>2. since'[n] <= since[n] /\ uptime' <= uptime
    BY <1>1, <1>2
  <2> QED
    BY <1>1, <1>6, <2>1, <2>2, SilentFrame
<1> QED
  BY <1>7, <1>8

LEMMA SilentProcess ==
  ASSUME TypeInv, TypeInv', NEW n \in Silenced, Silent(n), Start \/ Halt
  PROVE  Silent(n)'
<1>1. since'[n] <= since[n] /\ uptime' <= uptime
  BY StillStep
<1>2. /\ rows' = NoRows /\ job' = NoJob /\ phase' \in {"off", "discover"}
      /\ \A h \in Handlers : ~Busy(h)'
  BY DEF Start, Halt, TypeInv, Rounds, Down, Busy
<1>3. n \in DOMAIN nodes' => n \in DOMAIN nodes /\ nodes'[n] = nodes[n]
  <2>1. CASE Start
    <3>1. PICK K \in Kept : nodes' = Restrict(nodes, K)
      BY <2>1 DEF Start
    <3>2. K \subseteq DOMAIN nodes
      BY DEF Kept
    <3> QED
      BY <3>1, <3>2 DEF Restrict
  <2>2. CASE Halt
    BY <2>2 DEF Halt
  <2> QED
    BY <2>1, <2>2
<1>4. n \in DOMAIN nodes' => OldEnough(n, nodes[n].age) /\ nodes[n].age \in Ages
  BY <1>3, ClockType DEF Silent, RowsAge
<1>5. n \in DOMAIN nodes' => (nodes'[n].age >= since'[n] - Ahead
                              \/ nodes'[n].age >= uptime' - DiscoveryDelay - MonitorInterval)
  <2>1. \A a \in Ages : OldEnough(n, a) => OldEnough(n, a)'
    BY <1>1, StillFacts
  <2> QED
    BY <1>3, <1>4, <2>1 DEF OldEnough
<1>6. RowsAge(n)'
  BY <1>2, <1>5 DEF RowsAge, OldEnough, NoRows
<1> QED
  BY <1>2, <1>6 DEF Silent, ReportsAge, Spared, Detected

LEMMA SilentTick ==
  ASSUME TypeInv, TypeInv', NEW n \in Silenced, Silent(n), Tick
  PROVE  Silent(n)'
<1>1. /\ since'[n] <= since[n] + 1
      /\ \A x \in Int : Recent(n, x) => Recent(n, x + 1)'
      /\ \A a, b \in Ages : OldEnough(n, a) /\ b = Older(a) => OldEnough(n, b)'
  BY TickFacts
<1>2. since[n] \in 0..MaxAge /\ since'[n] \in 0..MaxAge /\ timer \in Nat
  BY ClockType DEF TypeInv, TypeOK, PollerType
<1>3. phase' = phase /\ lock' = lock /\ (phase # "off" => timer' = timer + 1)
  BY DEF Tick
<1>4. ReportsAge(n)'
  <2> SUFFICES ASSUME NEW h \in Handlers, Busy(h)', rpc'[h].node = n
               PROVE  rpc'[h].age >= since'[n] - Ahead
    BY DEF ReportsAge
  <2>1. Busy(h)
    BY DEF Tick, Busy
  <2>2. rpc[h] \in Request
    BY <2>1 DEF TypeInv, TypeOK, HandlerType, Busy
  <2>3. rpc'[h] = [rpc[h] EXCEPT !.age = rpc[h].age + 1]
    BY <2>1 DEF Tick
  <2>4. rpc'[h].node = rpc[h].node /\ rpc'[h].age = rpc[h].age + 1 /\ rpc[h].age \in Int
    BY <2>2, <2>3 DEF Request
  <2>5. rpc[h].age >= since[n] - Ahead
    BY <2>1, <2>4 DEF Silent, ReportsAge
  <2>6. rpc[h].age + 1 >= since'[n] - Ahead
    BY <1>1, <1>2, <2>4, <2>5, Later
  <2> QED
    BY <2>4, <2>6
<1>5. ASSUME n \in DOMAIN nodes'
      PROVE  /\ n \in DOMAIN nodes /\ nodes'[n].healthy = nodes[n].healthy
             /\ nodes'[n].age \in Ages /\ nodes'[n].age = Older(nodes[n].age)
  <2>1. nodes' = AgeRows(nodes)
    BY DEF Tick
  <2>2. n \in DOMAIN nodes /\ nodes[n] \in Row
    BY <1>5, <2>1, ClockType DEF AgeRows
  <2>3. nodes'[n] = [nodes[n] EXCEPT !.age = Older(nodes[n].age)]
    BY <2>1, <2>2 DEF AgeRows
  <2> QED
    BY <2>2, <2>3, OlderFacts DEF Row
<1>6. ASSUME n \in DOMAIN rows'
      PROVE  /\ n \in DOMAIN rows /\ rows'[n].healthy = rows[n].healthy
             /\ rows'[n].stale = rows[n].stale
             /\ rows'[n].age \in Ages /\ rows'[n].age = Older(rows[n].age)
  <2>1. rows' = AgeRows(rows)
    BY DEF Tick
  <2>2. n \in DOMAIN rows /\ rows[n] \in SnapshotRow
    BY <1>6, <2>1, ClockType DEF AgeRows
  <2>3. rows'[n] = [rows[n] EXCEPT !.age = Older(rows[n].age)]
    BY <2>1, <2>2 DEF AgeRows
  <2> QED
    BY <2>2, <2>3, OlderFacts DEF SnapshotRow
<1>7. DOMAIN rows' = DOMAIN rows
  BY DEF Tick, AgeRows
<1>8. /\ job = NoJob <=> job' = NoJob
      /\ job # NoJob => /\ job'.node = job.node /\ job'.step = job.step
                        /\ job'.age \in Ages /\ job'.age = Older(job.age)
  <2>1. CASE job = NoJob
    BY <2>1 DEF Tick
  <2>2. CASE job # NoJob
    <3>1. job \in Job /\ job' = [job EXCEPT !.age = Older(job.age)]
      BY <2>2, ClockType DEF Tick
    <3>2. /\ job'.node = job.node /\ job'.step = job.step /\ job'.age = Older(job.age)
          /\ job.age \in Ages /\ job.step # "none"
      BY <3>1 DEF Job
    <3> QED
      BY <2>2, <3>2, OlderFacts DEF NoJob
  <2> QED
    BY <2>1, <2>2
<1>9. RowsAge(n)'
  <2>1. n \in DOMAIN nodes' => OldEnough(n, nodes[n].age) /\ nodes[n].age \in Ages
    BY <1>5, ClockType DEF Silent, RowsAge
  <2>2. n \in DOMAIN rows' => OldEnough(n, rows[n].age) /\ rows[n].age \in Ages
    BY <1>6, ClockType DEF Silent, RowsAge
  <2>3. job' # NoJob /\ job'.node = n => OldEnough(n, job.age) /\ job.age \in Ages
    BY <1>8, ClockType DEF Silent, RowsAge
  <2>4. \A a, b \in Ages : OldEnough(n, a) /\ b = Older(a) =>
          b >= since'[n] - Ahead \/ b >= uptime' - DiscoveryDelay - MonitorInterval
    BY <1>1 DEF OldEnough
  <2>5. n \in DOMAIN nodes' => (nodes'[n].age >= since'[n] - Ahead
                                \/ nodes'[n].age >= uptime' - DiscoveryDelay - MonitorInterval)
    BY <1>5, <2>1, <2>4
  <2>6. n \in DOMAIN rows' => (rows'[n].age >= since'[n] - Ahead
                                \/ rows'[n].age >= uptime' - DiscoveryDelay - MonitorInterval)
    BY <1>6, <2>2, <2>4
  <2>7. job' # NoJob /\ job'.node = n =>
          (job'.age >= since'[n] - Ahead \/ job'.age >= uptime' - DiscoveryDelay - MonitorInterval)
    BY <1>8, <2>3, <2>4
  <2> QED
    BY <2>5, <2>6, <2>7 DEF RowsAge, OldEnough
<1>10. ASSUME phase # "off"
       PROVE  /\ Recent(n, Settled + timer) => Recent(n, Settled + timer)'
              /\ Recent(n, Settled + MonitorInterval + timer) =>
                   Recent(n, Settled + MonitorInterval + timer)'
  <2>1. \A x, y \in Int : Recent(n, x) /\ y = x + 1 => since'[n] <= y \/ uptime' <= y
    BY <1>1 DEF Recent
  <2>2. /\ Settled + timer \in Int /\ Settled + MonitorInterval + timer \in Int
        /\ Settled + timer' \in Int /\ Settled + timer' = (Settled + timer) + 1
        /\ Settled + MonitorInterval + timer' \in Int
        /\ Settled + MonitorInterval + timer' = (Settled + MonitorInterval + timer) + 1
    BY <1>2, <1>3, <1>10, SettledFacts
  <2>3. Settled' = Settled
    BY DEF Settled
  <2> QED
    BY <2>1, <2>2, <2>3 DEF Recent
<1>11. job.step = job'.step
  BY <1>8
<1>12. Spared(n)'
  BY <1>3, <1>6, <1>7, <1>8, <1>10 DEF Silent, Spared, NoJob
<1>13. Detected(n)'
  <2>1. Healthy(n)' => Healthy(n)
    BY <1>5 DEF Healthy
  <2>2. Condemned(n) => Condemned(n)'
    <3>1. job.step = "down" => job # NoJob
      BY DEF NoJob
    <3> QED
      BY <1>6, <1>7, <1>8, <3>1 DEF Condemned
  <2> QED
    BY <1>3, <1>10, <2>1, <2>2 DEF Silent, Detected
<1> QED
  BY <1>4, <1>9, <1>12, <1>13 DEF Silent

LEMMA SilentRounds ==
  ASSUME TypeInv, TypeInv', Clock, NEW n \in Silenced, Silent(n),
         BeginInitialCheck \/ EndInitialCheck \/ BeginScan \/ EndScan
  PROVE  Silent(n)'
<1> USE DEF cloudVars, pollerVars, monitorVars
<1>1. /\ since' = since /\ uptime' = uptime /\ nodes' = nodes /\ rpc' = rpc
      /\ lock' = lock /\ job = NoJob /\ job' = NoJob
  BY DEF BeginInitialCheck, EndInitialCheck, BeginScan, EndScan, TypeInv, Rounds
<1>2. since[n] \in 0..MaxAge /\ uptime \in 0..MaxAge /\ timer \in Nat /\ n \in Watched
  BY ClockType
<1>3. ReportsAge(n)'
  BY <1>1 DEF Silent, ReportsAge, Busy
<1>4. CASE BeginInitialCheck \/ BeginScan
  <2>1. rows' = Snapshot /\ timer' = 0 /\ phase' \in {"initial", "scan"}
    BY <1>4 DEF BeginInitialCheck, BeginScan
  <2>2. /\ n \in DOMAIN rows' <=> n \in DOMAIN nodes
        /\ n \in DOMAIN rows' =>
             rows'[n] = [age |-> nodes[n].age, healthy |-> nodes[n].healthy,
                         stale |-> Stale(nodes[n].age)]
    BY <1>2, <2>1 DEF Snapshot
  <2>3. n \in DOMAIN nodes => OldEnough(n, nodes[n].age) /\ nodes[n].age \in Ages
    BY ClockType DEF Silent, RowsAge
  <2>4. RowsAge(n)'
    BY <1>1, <2>2, <2>3 DEF RowsAge, OldEnough
  <2>5. n \in DOMAIN rows' /\ ~rows'[n].stale => Recent(n, Settled)
    <3>1. SUFFICES ASSUME n \in DOMAIN rows', ~rows'[n].stale PROVE Recent(n, Settled)
      OBVIOUS
    <3>2. nodes[n].age <= AlertThreshold /\ nodes[n].age \in Int
      <4>1. ~Stale(nodes[n].age)
        BY <2>2, <3>1
      <4>2. nodes[n].age \in Int
        BY <2>2, <2>3, <3>1 DEF Ages
      <4> QED
        BY <4>1, <4>2 DEF Stale
    <3>3. CASE nodes[n].age >= since[n] - Ahead
      <4>1. since[n] <= AlertThreshold + Ahead
        BY <1>2, <3>2, <3>3
      <4> QED
        BY <1>2, <4>1, SettledFacts DEF Recent
    <3>4. CASE nodes[n].age >= uptime - DiscoveryDelay - MonitorInterval
      <4>1. uptime <= AlertThreshold + DiscoveryDelay + MonitorInterval
        BY <1>2, <3>2, <3>4
      <4> QED
        BY <1>2, <4>1, SettledFacts DEF Recent
    <3> QED
      BY <2>2, <2>3, <3>1, <3>3, <3>4 DEF OldEnough
  <2>6. Recent(n, Settled) => Recent(n, Settled + timer)'
    BY <1>1, <1>2, <2>1, SettledFacts DEF Recent, Settled
  <2>7. Spared(n)'
    BY <1>1, <2>5, <2>6 DEF Spared, NoJob
  <2>8. Detected(n)'
    <3>1. SUFFICES ASSUME BeginScan, Healthy(n), lock = "sound"
                   PROVE  \/ Recent(n, Settled + timer)'
                          \/ Condemned(n)' /\ Recent(n, Settled + MonitorInterval + timer)'
      BY <1>1, <1>4 DEF BeginInitialCheck, BeginScan, Detected, Healthy
    <3>2. n \in DOMAIN rows' /\ rows'[n].healthy
      BY <2>2, <3>1 DEF Healthy
    <3>3. CASE ~rows'[n].stale
      BY <2>5, <2>6, <3>2, <3>3
    <3>4. CASE rows'[n].stale
      <4>1. Condemned(n)'
        BY <3>2, <3>4 DEF Condemned
      <4>2. Recent(n, Settled + MonitorInterval)
        <5>1. CASE phase = "settle"
          <6>1. uptime <= DiscoveryDelay + MonitorInterval + SettleDelay
            BY <1>2, <3>1, <5>1 DEF BeginScan, Clock
          <6> QED
            BY <1>2, <6>1, SettledFacts DEF Recent
        <5>2. CASE phase = "idle"
          <6>1. timer = MonitorInterval /\ ~Condemned(n)
            BY <1>1, <3>1, <5>2 DEF BeginScan, Condemned, TypeInv, Rounds, NoRows, NoJob
          <6> QED
            BY <3>1, <5>2, <6>1 DEF Silent, Detected
        <5> QED
          BY <3>1, <5>1, <5>2 DEF BeginScan
      <4>3. Recent(n, Settled + MonitorInterval + timer)'
        BY <1>1, <1>2, <2>1, <4>2, SettledFacts DEF Recent, Settled
      <4> QED
        BY <4>1, <4>3
    <3> QED
      BY <3>3, <3>4
  <2> QED
    BY <1>3, <2>4, <2>7, <2>8 DEF Silent
<1>5. CASE EndInitialCheck \/ EndScan
  <2>1. rows = NoRows /\ rows' = NoRows
    BY <1>5 DEF EndInitialCheck, EndScan
  <2>2. RowsAge(n)'
    BY <1>1, <2>1 DEF Silent, RowsAge, OldEnough
  <2>3. Spared(n)'
    BY <1>1, <2>1 DEF Spared, NoRows, NoJob
  <2>4. Detected(n)'
    <3>1. CASE EndInitialCheck
      BY <3>1 DEF EndInitialCheck, Detected
    <3>2. CASE EndScan
      <4>1. ~Condemned(n) /\ phase = "scan" /\ timer' = timer
        BY <1>1, <2>1, <3>2 DEF EndScan, Condemned, NoRows, NoJob
      <4> QED
        BY <1>1, <4>1 DEF Silent, Detected, Healthy, Recent
    <3> QED
      BY <1>5, <3>1, <3>2
  <2> QED
    BY <1>3, <2>2, <2>3, <2>4 DEF Silent
<1> QED
  BY <1>4, <1>5

LEMMA SilentLook ==
  ASSUME TypeInv, TypeInv', Clock, NEW n \in Silenced, Silent(n),
         NEW m \in Watched, CheckInitialRow(m) \/ EvaluateRow(m)
  PROVE  Silent(n)'
<1> USE DEF cloudVars, pollerVars
<1>1. /\ since' = since /\ uptime' = uptime /\ nodes' = nodes /\ rpc' = rpc
      /\ phase' = phase /\ timer' = timer /\ lock' = lock
      /\ job = NoJob /\ m \in DOMAIN rows
      /\ rows' = Restrict(rows, DOMAIN rows \ {m})
  BY DEF CheckInitialRow, EvaluateRow
<1>2. since[n] \in 0..MaxAge /\ uptime \in 0..MaxAge /\ timer \in Nat
  BY ClockType
<1>3. /\ n \in DOMAIN rows' <=> n \in DOMAIN rows /\ n # m
      /\ n \in DOMAIN rows' => rows'[n] = rows[n]
  BY <1>1 DEF Restrict
<1>4. ReportsAge(n)'
  BY <1>1 DEF Silent, ReportsAge, Busy
<1>5. job' # NoJob => job'.node = m
  BY DEF CheckInitialRow, EvaluateRow, Verdict
<1>6. \A x : Recent(n, x)' <=> Recent(n, x)
  BY <1>1 DEF Recent
<1>7. job' # NoJob /\ m = n =>
        (job'.age >= since[n] - Ahead \/ job'.age >= uptime - DiscoveryDelay - MonitorInterval)
  <2>1. SUFFICES ASSUME job' # NoJob, m = n
                 PROVE  \/ job'.age >= since[n] - Ahead
                        \/ job'.age >= uptime - DiscoveryDelay - MonitorInterval
    OBVIOUS
  <2>2. CASE CheckInitialRow(m)
    <3>1. job'.age = 0 /\ phase = "initial"
      BY <2>1, <2>2 DEF CheckInitialRow
    <3>2. uptime <= DiscoveryDelay + MonitorInterval
      BY <1>2, <3>1 DEF Clock, TypeInv, Rounds, PhaseEnds
    <3> QED
      BY <1>2, <3>1, <3>2
  <2>3. CASE EvaluateRow(m)
    <3>1. job'.age = rows[n].age
      BY <2>1, <2>3 DEF EvaluateRow, Verdict
    <3> QED
      BY <1>1, <2>1, <3>1 DEF Silent, RowsAge, OldEnough
  <2> QED
    BY <2>2, <2>3
<1>8. RowsAge(n)'
  BY <1>1, <1>3, <1>5, <1>7 DEF Silent, RowsAge, OldEnough
<1>9. job' # NoJob /\ job'.step \in {"recheck", "recover", "down"} =>
        /\ job'.step \in {"recheck", "down"}
        /\ job'.step = "recheck" <=> ~rows[m].healthy
        /\ rows[m].healthy = rows[m].stale
  BY DEF CheckInitialRow, EvaluateRow, Verdict
<1>10. Spared(n)'
  <2>1. SUFFICES ASSUME phase = "scan", job'.step \in {"recheck", "recover"}, job'.node = n
                 PROVE  Recent(n, Settled + timer)
    BY <1>1, <1>3, <1>6 DEF Silent, Spared, Recent
  <2>2. job' # NoJob
    BY <2>1 DEF NoJob
  <2>3. n = m /\ ~rows[n].stale
    BY <1>5, <1>9, <2>1, <2>2
  <2> QED
    BY <1>1, <2>1, <2>3 DEF Silent, Spared
<1>11. Detected(n)'
  <2>1. SUFFICES ASSUME phase \in {"scan", "idle"}, Healthy(n), lock = "sound"
                 PROVE  \/ Recent(n, Settled + timer)
                        \/ Condemned(n)' /\ Recent(n, Settled + MonitorInterval + timer)
    BY <1>1 DEF Detected, Healthy, Recent
  <2>2. phase = "scan" /\ EvaluateRow(m)
    BY <2>1 DEF CheckInitialRow, EvaluateRow
  <2>3. CASE Condemned(n)
    <3>1. n \in DOMAIN rows /\ rows[n].healthy /\ rows[n].stale
      BY <1>1, <2>3 DEF Condemned, NoJob
    <3>2. CASE n # m
      BY <1>3, <2>1, <3>1, <3>2 DEF Silent, Detected, Condemned
    <3>3. CASE n = m
      <4>1. rows[n].healthy = rows[n].stale
        BY <3>1, ClockType DEF SnapshotRow
      <4>2. job' = [step |-> "down", node |-> n, age |-> rows[n].age]
        BY <2>2, <3>1, <3>3, <4>1 DEF EvaluateRow, Verdict
      <4>3. Condemned(n)'
        BY <4>2 DEF Condemned
      <4> QED
        BY <2>1, <4>3 DEF Silent, Detected
    <3> QED
      BY <3>2, <3>3
  <2>4. CASE ~Condemned(n)
    BY <2>1, <2>4 DEF Silent, Detected
  <2> QED
    BY <2>3, <2>4
<1> QED
  BY <1>4, <1>8, <1>10, <1>11 DEF Silent

LEMMA SilentJob ==
  ASSUME TypeInv, TypeInv', NEW n \in Silenced, Silent(n), JobStep
  PROVE  Silent(n)'
<1> USE DEF cloudVars, pollerVars
<1>1. /\ since' = since /\ uptime' = uptime /\ rpc' = rpc /\ rows' = rows
      /\ phase' = phase /\ timer' = timer /\ lock' = lock
  BY DEF JobStep, MarkDown, DeclareDown, AnnounceOffline, ShowDown, Recheck,
         DeclareRecovered, AnnounceRecovered, JobFails
<1>2. job # NoJob /\ job \in Job
  <2>1. job.step # "none" /\ NoJob.step = "none"
    BY DEF JobStep, MarkDown, DeclareDown, AnnounceOffline, ShowDown, Recheck,
           DeclareRecovered, AnnounceRecovered, JobFails, NoJob
  <2> QED
    BY <2>1, ClockType
<1>3. /\ phase \in {"initial", "scan"}
      /\ n \in DOMAIN nodes => OldEnough(n, nodes[n].age)
      /\ n \in DOMAIN rows => OldEnough(n, rows[n].age)
      /\ job.node = n => OldEnough(n, job.age)
  BY <1>2 DEF Silent, RowsAge, TypeInv, Rounds
<1>4. ReportsAge(n)'
  BY <1>1 DEF Silent, ReportsAge, Busy
<1>5. \A x : Recent(n, x)' <=> Recent(n, x)
  BY <1>1 DEF Recent
<1>6. \/ job' = NoJob
      \/ job'.node = job.node /\ job'.age = job.age
  <2>1. \/ job' = NoJob
        \/ job' = [job EXCEPT !.step = "offline"]
        \/ job' = [job EXCEPT !.step = "api"]
        \/ job' = [job EXCEPT !.step = "recover"]
        \/ job' = [job EXCEPT !.step = "recovered"]
    BY Zenon DEF JobStep, MarkDown, DeclareDown, AnnounceOffline, ShowDown, Recheck,
                DeclareRecovered, AnnounceRecovered, JobFails
  <2> QED
    BY <1>2, <2>1 DEF Job
<1>7. n \in DOMAIN nodes' =>
        \/ n \in DOMAIN nodes /\ nodes'[n] = nodes[n]
        \/ job.node = n /\ nodes'[n].age = job.age
  <2>1. CASE MarkDown \/ DeclareDown \/ DeclareRecovered
    <3>1. PICK b \in BOOLEAN : nodes' = Put(nodes, job.node, [age |-> job.age, healthy |-> b])
      BY <2>1 DEF MarkDown, DeclareDown, DeclareRecovered, WriteStatus
    <3> QED
      BY <3>1 DEF Put
  <2>2. CASE AnnounceOffline \/ ShowDown \/ Recheck \/ AnnounceRecovered \/ JobFails
    BY <2>2 DEF AnnounceOffline, ShowDown, Recheck, AnnounceRecovered, JobFails
  <2> QED
    BY <2>1, <2>2 DEF JobStep
<1>8. RowsAge(n)'
  BY <1>1, <1>3, <1>6, <1>7 DEF RowsAge, OldEnough
<1>9. job'.step \in {"recheck", "recover"} /\ job'.node = n =>
        job.step \in {"recheck", "recover"} /\ job.node = n
  <2>1. job'.step \in {"recheck", "recover"} => Recheck /\ job'.step = "recover"
    <3>1. CASE Recheck
      BY <1>2, <3>1 DEF Recheck, NoJob, Job
    <3>2. CASE \/ MarkDown \/ DeclareDown \/ AnnounceOffline \/ ShowDown
               \/ DeclareRecovered \/ AnnounceRecovered \/ JobFails
      <4>1. \/ job' = NoJob
            \/ job' = [job EXCEPT !.step = "offline"]
            \/ job' = [job EXCEPT !.step = "api"]
            \/ job' = [job EXCEPT !.step = "recovered"]
        BY <3>2, Zenon DEF MarkDown, DeclareDown, AnnounceOffline, ShowDown,
                           DeclareRecovered, AnnounceRecovered, JobFails
      <4> QED
        BY <1>2, <4>1 DEF NoJob, Job
    <3> QED
      BY <3>1, <3>2 DEF JobStep
  <2> QED
    BY <1>6, <2>1 DEF Recheck, NoJob
<1>10. Spared(n)'
  BY <1>1, <1>5, <1>9 DEF Silent, Spared, Recent
<1>11. Detected(n)'
  <2>1. SUFFICES ASSUME phase \in {"scan", "idle"}, Healthy(n)', lock = "sound"
                 PROVE  \/ Recent(n, Settled + timer)
                        \/ Condemned(n)' /\ Recent(n, Settled + MonitorInterval + timer)
    BY <1>1 DEF Detected, Recent
  <2>2. CASE DeclareRecovered /\ job.node = n
    BY <1>3, <2>1, <2>2 DEF DeclareRecovered, Silent, Spared
  <2>3. CASE (MarkDown \/ DeclareDown) /\ job.node = n
    <3>1. ~nodes'[n].healthy
      BY <2>3 DEF MarkDown, DeclareDown, WriteStatus, Put
    <3> QED
      BY <2>1, <3>1 DEF Healthy
  <2>4. CASE ~((MarkDown \/ DeclareDown \/ DeclareRecovered) /\ job.node = n)
    <3>1. n \in DOMAIN nodes' => n \in DOMAIN nodes /\ nodes'[n] = nodes[n]
      <4>1. CASE MarkDown \/ DeclareDown \/ DeclareRecovered
        <5>1. PICK b \in BOOLEAN : nodes' = Put(nodes, job.node, [age |-> job.age, healthy |-> b])
          BY <4>1 DEF MarkDown, DeclareDown, DeclareRecovered, WriteStatus
        <5> QED
          BY <2>4, <4>1, <5>1 DEF Put
      <4>2. CASE AnnounceOffline \/ ShowDown \/ Recheck \/ AnnounceRecovered \/ JobFails
        BY <4>2 DEF AnnounceOffline, ShowDown, Recheck, AnnounceRecovered, JobFails
      <4> QED
        BY <4>1, <4>2 DEF JobStep
    <3>2. Healthy(n)
      BY <2>1, <3>1 DEF Healthy
    <3>3. Condemned(n) => Condemned(n)'
      <4>1. ~(job.step = "down" /\ job.node = n)
        BY <2>1, <2>4, ClockType DEF JobStep, MarkDown, DeclareDown, AnnounceOffline, ShowDown, Recheck,
                    DeclareRecovered, AnnounceRecovered, JobFails, VerdictMayFail
      <4> QED
        BY <1>1, <4>1 DEF Condemned
    <3> QED
      BY <2>1, <3>2, <3>3 DEF Silent, Detected
  <2> QED
    BY <2>2, <2>3, <2>4
<1> QED
  BY <1>4, <1>8, <1>10, <1>11 DEF Silent

LEMMA ClockStep ==
  ASSUME TypeInv, TypeInv', Clock, Next
  PROVE  Clock'
<1>1. uptime \in 0..MaxAge /\ uptime' \in 0..MaxAge /\ timer \in Nat
  BY DEF TypeInv, TypeOK, ProcessType, MonitorType
<1>2. CASE Start \/ Halt
  BY <1>2 DEF Start, Halt, Clock
<1>3. CASE Tick
  <2>1. phase' = phase /\ (phase # "off" => timer' = timer + 1)
    BY <1>3 DEF Tick
  <2>2. uptime' <= uptime + 1
    BY <1>1, <1>3, OlderFacts DEF Tick
  <2>3. phase = "off" => uptime' = uptime
    BY <1>3 DEF Tick, TypeInv, Rounds
  <2> QED
    BY <1>1, <2>1, <2>2, <2>3 DEF Clock
<1>4. CASE BeginInitialCheck \/ EndInitialCheck \/ BeginScan \/ EndScan
  <2>1. uptime' = uptime
    BY <1>4 DEF BeginInitialCheck, EndInitialCheck, BeginScan, EndScan, cloudVars
  <2>2. CASE BeginInitialCheck
    BY <1>1, <2>1, <2>2 DEF BeginInitialCheck, Clock
  <2>3. CASE EndInitialCheck
    <3>1. phase = "initial" /\ timer <= MonitorInterval /\ phase' = "settle" /\ timer' = 0
      BY <2>3 DEF EndInitialCheck, TypeInv, Rounds, PhaseEnds
    <3> QED
      BY <1>1, <2>1, <3>1 DEF Clock
  <2>4. CASE BeginScan \/ EndScan
    BY <2>4 DEF BeginScan, EndScan, Clock
  <2> QED
    BY <1>4, <2>2, <2>3, <2>4
<1>5. CASE \/ \E n \in Watched : CheckInitialRow(n) \/ EvaluateRow(n)
           \/ JobStep
           \/ \E h \in Handlers : HandlerStep(h)
           \/ \E m \in Known : PollDropped(m) \/ PollerStops(m) \/ PollerResumes(m)
           \/ \E m \in Known, h \in Handlers : Poll(m, h)
  <2>1. uptime' = uptime /\ phase' = phase /\ timer' = timer
    BY <1>5 DEF CheckInitialRow, EvaluateRow, JobStep, MarkDown, DeclareDown, AnnounceOffline,
         ShowDown, Recheck, DeclareRecovered, AnnounceRecovered, JobFails, HandlerStep, ReadHealth,
         StoreStatus, StoreFails, AnnounceRecovery, UpdateAPI, PollDropped, PollerStops,
         PollerResumes, Poll, cloudVars, monitorVars
  <2> QED
    BY <2>1 DEF Clock
<1> QED
  BY <1>2, <1>3, <1>4, <1>5 DEF Next, MonitorStep

LEMMA SilenceInvStep == SilenceInv /\ [Next]_vars => SilenceInv'
<1> SUFFICES ASSUME SilenceInv, [Next]_vars PROVE SilenceInv'
  OBVIOUS
<1>1. TypeInv /\ TypeInv' /\ Clock
  BY TypeInvStep DEF SilenceInv
<1>2. CASE Next
  <2>1. Clock'
    BY <1>1, <1>2, ClockStep
  <2>2. ASSUME NEW n \in Silenced PROVE Silent(n)'
    <3>1. Silent(n)
      BY DEF SilenceInv
    <3>2. CASE Start \/ Halt
      BY <1>1, <3>1, <3>2, SilentProcess
    <3>3. CASE Tick
      BY <1>1, <3>1, <3>3, SilentTick
    <3>4. CASE BeginInitialCheck \/ EndInitialCheck \/ BeginScan \/ EndScan
      BY <1>1, <3>1, <3>4, SilentRounds
    <3>5. CASE \E m \in Watched : CheckInitialRow(m) \/ EvaluateRow(m)
      BY <1>1, <3>1, <3>5, SilentLook
    <3>6. CASE JobStep
      BY <1>1, <3>1, <3>6, SilentJob
    <3>7. CASE \E h \in Handlers : HandlerStep(h)
      BY <1>1, <3>1, <3>7, SilentHandler
    <3>8. CASE \/ \E m \in Known : PollDropped(m) \/ PollerStops(m) \/ PollerResumes(m)
               \/ \E m \in Known, h \in Handlers : Poll(m, h)
      BY <1>1, <3>1, <3>8, SilentPoll
    <3> QED
      BY <1>2, <3>2, <3>3, <3>4, <3>5, <3>6, <3>7, <3>8 DEF Next, MonitorStep
  <2> QED
    BY <1>1, <2>1, <2>2 DEF SilenceInv, Silenced
<1>3. CASE UNCHANGED vars
  <2>1. Clock'
    BY <1>1, <1>3 DEF vars, Clock
  <2>2. ASSUME NEW n \in Silenced PROVE Silent(n)'
    BY <1>3 DEF vars, SilenceInv, Silent, ReportsAge, RowsAge, Spared, Detected, Condemned,
                Healthy, Recent, OldEnough, Busy
  <2> QED
    BY <1>1, <2>1, <2>2 DEF SilenceInv, Silenced
<1> QED
  BY <1>2, <1>3

\* A poller that has been silent for DetectionTime while the cloud ran is
\* unhealthy in the table, for every set of pollers and handlers and all
\* durations: no late report, no snapshot taken before it went silent, no
\* last_seen bumped by checkInitialStates and no restart hides the silence.
THEOREM SilenceIsDetected == Spec => []SilenceDetected
<1>1. Init => SilenceInv
  <2> SUFFICES ASSUME Init PROVE SilenceInv
    OBVIOUS
  <2>1. TypeInv
    BY InitTypeOK DEF Init, TypeInv, Rounds, RowsExist, MonitorRows, HandlerRows, Down, NoRows, Idle
  <2>2. Clock
    BY DEF Init, Clock
  <2>3. ASSUME NEW n \in Silenced PROVE Silent(n)
    <3>1. /\ phase = "off" /\ rows = NoRows /\ job = NoJob /\ since[n] = 0
          /\ \A h \in Handlers : ~Busy(h)
      BY ClockType, <2>1 DEF Init, Busy
    <3>2. n \in DOMAIN nodes => nodes[n].age \in 0..MaxAge
      BY DEF Init
    <3> QED
      BY <3>1, <3>2 DEF Silent, ReportsAge, RowsAge, OldEnough, Spared, Detected, NoRows
  <2> QED
    BY <2>1, <2>2, <2>3 DEF SilenceInv
<1>2. SilenceInv => SilenceDetected
  <2> SUFFICES ASSUME SilenceInv, NEW n \in Silenced, Healthy(n), lock = "sound",
                      since[n] > DetectionTime, uptime > DetectionTime
               PROVE  FALSE
    BY DEF SilenceDetected, Silenced
  <2>1. TypeInv /\ Clock /\ Silent(n)
    BY DEF SilenceInv
  <2>2. since[n] \in 0..MaxAge /\ uptime \in 0..MaxAge /\ timer \in Nat
    BY <2>1, ClockType
  <2>3. phase \in Phases /\ (phase # "off" => timer <= PhaseEnds)
    BY <2>1 DEF TypeInv, TypeOK, MonitorType, Rounds
  <2>4. CASE phase \in {"scan", "idle"}
    <3>1. timer <= MonitorInterval
      BY <2>3, <2>4 DEF PhaseEnds
    <3>2. Recent(n, Settled + timer) \/ Recent(n, Settled + MonitorInterval + timer)
      BY <2>1, <2>4 DEF Silent, Detected
    <3> QED
      BY <2>2, <3>1, <3>2, SettledFacts DEF Recent
  <2>5. CASE phase \in {"off", "discover", "initial", "settle"}
    <3>1. uptime <= DiscoveryDelay + MonitorInterval + SettleDelay
      BY <2>1, <2>2, <2>3, <2>5 DEF Clock, PhaseEnds
    <3> QED
      BY <2>2, <3>1, SettledFacts
  <2> QED
    BY <2>3, <2>4, <2>5 DEF Phases
<1> QED
  BY <1>1, <1>2, SilenceInvStep, PTL DEF Spec

=============================================================================
