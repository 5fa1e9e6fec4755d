# TLA+ verification of homemon (serviceradar)

homemon watches services behind firewalls.  **Agents** run checks on their
hosts, a **poller** asks its agents every `poll_interval` and reports to the
**cloud**, which keeps the state of every node, shows it in a web dashboard and
sends webhook alerts when a poller goes silent or comes back.

This directory holds the TLA+ model of that program, the TLC configurations
that check it on small instances and the proofs that hold for every instance.
All paths are relative to `src/`; `server.go` without a directory is
`pkg/cloud/server.go`.

## 1. Inventory

| part | state | operations | hard behaviour | what makes it correct | module |
|---|---|---|---|---|---|
| node monitor and report handlers (`pkg/cloud/server.go`) | none of its own but goroutines: one per `ReportStatus` call, `monitorNodes`, clean-up loops | `ReportStatus`, `checkInitialStates`, `checkNodeStates` and their verdicts, `Start`, `Stop` | unsynchronised handlers and monitor, snapshots acted on later, restarts, failed statements, clocks | no false alarm, every silent node detected, the API tells what the table holds | `NodeMonitor` |
| database (`pkg/db/db.go`) | tables `nodes`, `node_history`, `service_status` | `UpdateNodeStatus`, `UpdateServiceStatus`, `CleanOldData`, queries | transactions that fail half way, a rollback that never happens, foreign keys on one connection only | a status is in both tables or in neither; a clean-up takes old rows only | `NodeStore` implements `NodeTables` |
| web API (`pkg/cloud/api/server.go`) | map id -> status | `UpdateNodeStatus`, GET handlers | written by handlers and monitor in any order | serves only nodes that exist, and their latest status | in `NodeMonitor` |
| webhooks (`pkg/cloud/alerts`) | last alert time per title | `Alert` | concurrent alerts, failed requests, several webhooks | no flood; no webhook left out because of another | `WebhookAlerter` |
| metrics (`pkg/metrics`) | one ring of points per node, node count, eviction list | `AddMetric`, `CleanupStaleNodes`, `GetMetrics` | lock-free ring, limit checked outside the lock | list, count and map agree; the limit holds; readers find the last points | `MetricsManager`, `MetricRing` |
| TCP scanner (`pkg/scan/tcp_scanner.go`) | connection pool, result channels | `Scan`, `Stop`, pool clean-up | workers that outlive their scan, a shared pool | the promise of `ScanChannel`; no connection lost or shared | `TCPScan` |
| combined scanner (`combined_scanner.go`) | result channel, `done` | `Scan`, `Stop` | the closer beside forwarders that still send | the promise of `ScanChannel` | `CombinedScan` |
| ICMP scanner (`icmp_scanner.go`) | socket pool, listeners, responses of all calls | `Scan`, `Stop`, `getSocket`, clean-up | calls that ping the same host share its record; the cleaner closes sockets that are in use; listener and feeder end apart | the promise of `ScanChannel`; a socket has one user; nothing is left behind | `ICMPScan`, `SocketPool` |
| sweeper and stores (`pkg/sweeper`) | host map, port counts, result list or table | `Process`, `GetSummary`, `SaveResult`, `GetResults`, pruning | two copies of each result, pointers that escape the lock, pruning in two steps | an answer is consistent; a store has the result of each target that was saved last, and returns those its filter matches | `SweepProcessor`, `MemoryStore` and `SqliteStore` implement `ResultStore` |
| poller (`pkg/poller`) | table of agent connections, cloud client | `poll`, `reconnectAgent`, checks, report, `Stop`, `Close` | stale connections, failed dials, a stop during a poll | no connection lost, no healthy agent reported as down, whole reports | `Poller`; its visible behaviour also in `NodeMonitor` |
| agent (`pkg/agent/server.go`) | checker cache, services | `Start`, `GetStatus`, `Stop` | blocking `Start`, lock held while dialling, cached connections that an outage breaks | one client per checker; every call answered | `Agent` |
| sweep service (`pkg/agent/sweep_service.go`) | `closed`, the running sweep | `Start`, `performSweep`, `Stop` | scans that do not end by themselves | every sweep ends; exactly the hosts of the networks are scanned | `Agent`, `Networks` |
| lifecycle (`pkg/lifecycle`) | error channel, context | `RunServer`, `handleShutdown` | a stop while calls, sweep and start are under way | the process ends | `Agent` |
| gRPC wrappers (`pkg/grpc`) | connection | `RetryInterceptor`, `CheckHealth`, `Stop` | repeats of what was already done | a repeated report is harmless, retries end | `Poller`, `Agent`, `NodeMonitor` |
| dusk checker (`pkg/checker/dusk`) | websocket, last block, history | `StartMonitoring`, `listenForEvents`, `GetStatus` | broken connection, read deadlines, other messages | the history is the last blocks; the websocket is released | `Dusk` |
| IPv4 ranges (`pkg/scan/ipv4_utils.go`, both `generateTargets`) | none | `Inc`, `IsFirstOrLastAddress` | first, last and 32-bit addresses | exactly the host addresses | `Networks` |
| security, configuration, commands, models, HTTP middleware, dashboard | files, plain data | parsing, wiring | none of interest here | - | not modelled |

How they interact: the poller calls its agents and then the cloud over gRPC; an
agent calls its checkers and the sweeper; `ReportStatus` writes the database,
may call the webhooks, feeds the metrics and writes the API's map;
`monitorNodes` reads and writes the database, calls the webhooks and writes the
API's map.  Only SQLite's transactions and the mutex of each map serialise
them.  `hazards` in `PROJECT.json` lists, at its line, what can go wrong there.

## 2. Plan

1. **`NodeMonitor`**, `MCNodeMonitor`, `NodeMonitorProofs`: the core that
   decides what the program tells its users - *done*.
2. **`MetricsManager`**, `MetricsManagerProofs`: list, count and map under
   concurrent reports; checked as a part of `SharedState`, and with
   `MCMetricsManager` for finding 4 - *done*.
3. **`ScanChannel`**, the promise of a scanner, and **`TCPScan`**,
   **`CombinedScan`**, **`ICMPScan`** that implement it, together **`Scanning`**,
   with `MCScans` and `ScanningProofs` - *done*.
4. **`Poller`**, `MCPoller`, `PollerProofs` - *done*.
5. **`Agent`** with its lifecycle, **`Networks`**, **`Dusk`**, together
   **`EdgeProcesses`**, with `MCAgent` and `EdgeProcessesProofs` - *done*.
6. **`NodeTables`** and **`NodeStore`**, `NodeStoreProofs`; **`ResultStore`** with
   **`MemoryStore`** and **`SqliteStore`**; **`SweepProcessor`**, **`SocketPool`**,
   **`WebhookAlerter`**, `WebhookAlerterProofs`; **`MetricRing`**; with `MetricsManager` together
   **`SharedState`**, with `MCStores` and `SharedStateProofs` - *done*.

Runs stay small: one or two nodes, one or two goroutines of a kind, durations
of a few ticks.  Modules that are proved about declare no RECURSIVE operator.

**Three compositions of components that share nothing.**  The components of one
program that do not touch each other's state need no product of their state
spaces.  `Scanning`, `EdgeProcesses` and `SharedState` therefore instantiate several
modules each over disjoint variables, and a variable `part`, chosen in the
initial state, says which of them runs in a behaviour; the others rest.  TLC
explores the sum of the state spaces in one run, for which `MCScans`, `MCAgent` and
`MCStores` give the constants; the theorems are about the same three
specifications, for all constants.  Components
that do interact are composed by promise instead: `CombinedScan` and the sweeps
of `Agent` are over the channel `ScanChannel` promises, `ICMPScan` over a pool
that may close its socket, `SweepProcessor` over `ResultStore`, and
`NodeMonitor` over the atomic transactions of `NodeTables`.

## 3. `NodeMonitor`

### Correspondence

| variable | in the code |
|---|---|
| `up`, `uptime` | the cloud process, and how long it has run |
| `lock` | SQLite's write lock: `"lost"` once a transaction nobody rolls back keeps it, until the process ends |
| `nodes` | table `nodes`: `last_seen` (as an age) and `is_healthy` |
| `apiNodes` | `APIServer.nodes[id].IsHealthy` |
| `lastAlert` | the last alert about a node handed to `sendAlert` |
| `rpc[h]` | a goroutine in `ReportStatus`: what it is about to do, the request, and `currentState`, which it read before (`was`) |
| `phase`, `timer` | where `monitorNodes` is: the two sleeps, the two kinds of check, the ticker |
| `rows` | rows of the monitor's query still to be looked at, with `lastSeen.Before(threshold)` as of the moment the threshold was computed |
| `job` | the verdict being carried out for a row: `markNodeDown`, `handleNodeDown` or `handlePotentialRecovery`, and how far it got |
| `alive`, `since` | the poller process, and the time since its last report |

Steps are as fine as the code can be interleaved: each database transaction,
each call of the webhooks and each update of the API's map is one.

- `ReportStatus` is `Poll` (the call), `ReadHealth` (`getNodeHealthState`),
  `StoreStatus` or `StoreFails` (`updateNodeState`), `AnnounceRecovery`
  (`handleNodeRecovery`), `UpdateAPI`.
- `monitorNodes` is `BeginInitialCheck`, `CheckInitialRow`, `EndInitialCheck`,
  then `BeginScan`, `EvaluateRow`, `EndScan` for ever; verdicts are `MarkDown`
  or `DeclareDown`, `AnnounceOffline`, `ShowDown`, and `Recheck`,
  `DeclareRecovered`, `AnnounceRecovered`; `JobFails` is every error return
  of a verdict.
- `Start` includes `cleanupUnknownPollers`; `Halt` is a stop or a crash at any
  point: the table survives, goroutines and the API's map do not.  The webhook's
  memory of what it sent survives too, as it is what the user has seen.

**Time.**  The code compares `last_seen`, written by the poller's clock, with
the cloud's.  The model keeps ages: `Tick` adds one to every age, and an age
stops at `MaxAge`, beyond all thresholds.  Behaviours are infinite and the
state space is finite without an artificial end of time.  `Ahead` is the clock
difference (ages may start at `-Ahead`), `Latency` how old a report is at most
when its handler returns (this includes a poller's slow clock, the network, and
the webhook calls, which have time-outs), `PollInterval` the largest time
between two polls, and `MonitorInterval` both the ticker's period and the
longest time a round takes.  `Tick` waits for these deadlines, and that is all
the model assumes of scheduling.

**Abstractions.**  Services of a report are reduced to the conjunction of their
`Available` flags, which is all the node's health depends on.  `node_history`
is left out: it is read for the text of a message only.  A failed transaction
leaves no trace in the tables, as `NodeStore` shows, but a failed
`UpdateNodeStatus` may keep the write lock (`StoreFails`, finding 5): from then on
every write fails, the monitor's too, until the process ends.  The monitor's own
transactions are rolled back.  For steady pollers no transaction of a report fails
of itself, and for ids outside `Faulty` no statement of the monitor does: these
sets are constants, so both worlds are checked.  The never-reported
checks are left out: `WHERE last_seen = ''` (`server.go:792`) matches no row,
since every statement that inserts one writes a time, and the column is
`NOT NULL DEFAULT CURRENT_TIMESTAMP`.

### Properties

- `TypeOK`: types, and the API serves no node without a row: a handler whose
  transaction failed goes no further, and rows are deleted only while the map
  is empty.
- `NoFalseOffline`: the alert *Node Offline* is never sent for a poller in
  `Steady`.  It is hard because handlers of one poller may store in the
  opposite order, and because the monitor writes back the `last_seen` of a
  snapshot one round old: `handlePotentialRecovery` can make a fresh row old.
  It holds also when the report of another poller has lost the lock: the steady
  poller's reports are then not stored, but neither is any verdict.
- `SilenceDetected`: a poller silent for `DetectionTime` is unhealthy in the
  table, as long as the lock is sound.  The bound covers the worst case: a late handler, a restart, and
  `checkInitialStates` storing the current time for a node it finds silent.
- `SilentNodeGoesDown` (liveness): the same when statements fail, without a
  bound, for known pollers and for leftover rows.  After the failure of finding 5
  the code does not keep it: a node that falls silent then stays healthy until the
  process ends.  Both properties therefore promise nothing while the lock is lost.
- `ApiShowsSilence`, `RecoveryMatchesStatus`, `RecoveredHasReported` state what
  comments of the code say; TLC refutes them (section 11).

### Assumptions on the constants

`SteadyAssumption` is what an operator has to configure for `NoFalseOffline`:

- `PollInterval + Latency + Ahead < DiscoveryDelay`: a report is stored before
  `checkInitialStates` looks;
- `AlertThreshold >= StoredAge + MonitorInterval + PollInterval + Latency + Ahead`,
  where `StoredAge == PollInterval + 2 * Latency + Ahead`.

The second is tight: with `AlertThreshold = 5` instead of 6 in
`MonitorSteady.cfg` TLC finds a steady poller declared offline.  The first is
**not met by the packaged configuration**: `nodeDiscoveryTimeout` and the
default `poll_interval` (root `README.md:283`) are both 30 s, so a poller in good health may be
declared offline once when the cloud restarts after an outage longer than the
alert threshold.

`LatencyAssumption` is what `SilenceDetected` needs: a report that is stored
later than `DiscoveryDelay + SettleDelay + AlertThreshold + MonitorInterval` after
it was sent makes the row of a silent node healthy when the detection is all but
over.  The code sets no such limit (a handler waits for the database and for the
webhooks, which have time-outs of their own), and the bound is exact: with all
durations 1 TLC finds the property violated for `Latency = 5`, and satisfied for 4.

## 4. `MetricsManager`

The handlers of `ReportStatus` call `AddMetric` concurrently for the ICMP
services they received, and `runMetricsCleanup` calls `CleanupStaleNodes` every
hour.  `nodes` is the `sync.Map` of buffers, `count` is `nodeCount` (`activeNodes`
always changes with it), `lru` is `evictList` with `evictMap`, and `mu` names
the holder of the lock.

| code | actions |
|---|---|
| `updateNodeLRU` (`manager.go:91`) | `UpdateNodeLRU`: one lock section |
| the limit, read without the lock (`:73`) | `CheckLimit` |
| `evictOldest` (`:106`) | `EvictOldest`, `NothingToEvict`, then `CountEvicted`, which unlocks |
| `LoadOrStore` and the count (`:80`, `:82`) | `LoadOrStore`, `CountStored` |
| `Add` of the buffer (`buffer.go:61`, `:65`) | `ClaimSlot`, `StorePoint` |
| `CleanupStaleNodes` (`:34`) | `BeginCleanup`, `VisitNode`, `DropNode`, `CountDropped`, `EndCleanup` |

Of a buffer only what `GetLastPoint` finds is kept: nothing, a fresh point or a
stale one.  A slot that is claimed but not yet stored shows the zero point the
buffer was made with, so that the clean-up may drop a node that is reporting
right now: the model has that, and `Detached` follows the calls that go on to
write to a buffer no longer in the map.

- `CountAccurate` (`MetricsCountAccurate` in `SharedState`): the count never drifts
  from the map, whatever interleaves.
- `NoGhostEntries` (`MetricsNoGhostEntries`): an entry of the list without a buffer
  belongs to a call that is about to store it, so that evictions free buffers.
- `LimitEnforced` is what the code does **not** keep (finding 4).

The slots of one buffer and all its readers are `MetricRing` (section 9).

## 5. The scanners: `ScanChannel`, `TCPScan`, `CombinedScan`, `ICMPScan`

`ScanChannel` is what the code of a scanner guarantees to the reader of the channel:
it has a result of every target and is then closed; only if the scan was
*abandoned* (its context cancelled, its scanner stopped, or part of it failed with an
error) may it close early.  Of hosts that another call of the ICMP scanner wants at
the same time (`contested`) the result may be missing.  A goroutine that an abandoned
scan left behind may send on the closed channel, which is a panic.  `ScanChannel` has
that step since the code does not exclude it, and not because anyone promises it: the
comments call each of the three closes safe, or say that it waits for the scanning
(findings 14 to 16).  For the TCP scanner `TcpClosesSafely` states what the comment
says, and TLC refutes it.

- **`TCPScan`**: calls of `Scan` side by side.  `feeder` is `processTargets`,
  which takes a slot of the semaphore for each target; `worker[s][t]` dials or
  takes a connection of the pool, reads, and gives it back; `closer` is the
  goroutine that waits, cancels and closes.  `pool`, `open` and `shut` are the
  `connectionPool` they share with its cleaner and `Stop`.
  `TcpConnectionsAccounted`: each open connection is with one worker or in the
  pool; `TcpScansEnd`: nobody waits for a slot for ever.
- **`CombinedScan`**: one call over two scanners, each a `ScanChannel`.  `fwd` are
  the goroutines of `processTargetsWithError`, `closer` that of `startCleanup`,
  `caller` the call itself with its 10 ms wait for an immediate error.
  `CombinedCallEnds`: it ends if it is cancelled or stopped, or the scanners end.
- **`ICMPScan`**: calls of `Scan` side by side, each with a `listener`, a `feeder` (in
  batches), one `pinger` per host and a `closer`.  `resp` is the scanner's one map of
  `responses` (`icmp_scanner.go:79`): a pinger starts the record of its host anew,
  and the first call that has sent a host's result deletes it, so that another call
  finds none and sends no result.  Replies and their counts, which change no control,
  are left out.  `contested` is history, the hosts another call wanted while this one
  ran: of those a call may have no result (finding 17).  `IcmpNothingLeft`: after the
  end none of its goroutines is left behind with a socket of the pool.

## 6. `Poller`

`phase` follows the goroutine of `Start` through `poll`, `pollAgent` and
`reportToCloud`; `table` is `Poller.agents` and `open` the connections that are
not closed, so that both a closed connection in the table and an open one outside
it can happen; `conn` is the connection the poll holds, which may be neither.
Dials are one step under the lock.  `Cancel`, `Stop` and `Close` come at any
point, as the lifecycle calls them.  `sawDown` is history: the agents that left a
call of this poll unanswered.

- `ConnsInTable`: a reconnect, `Stop` or `Close` finds every open connection.
- `DownWasSeen`: nothing of an earlier poll makes a healthy agent look dead.
- `ReportComplete`: one status of every check of an agent, or none of the agent.
- `PollEnds` and `Recovers` (liveness): a poll ends whatever agents do, and an
  agent that stays up is reported as reached again and again.

## 7. The agent's process: `Agent`, `Networks`, `Dusk`

- **`Agent`** has three kinds of goroutines: the one of `RunServer` and
  `handleShutdown` (`main`), that of `Server.Start`, which runs the sweep loop
  (`starter`), and the calls of `GetStatus`.  `lock` is `Server.mu`, kept while a
  checker is made (`server.go:404` of the agent).  The client of an external checker
  stays in the cache for ever; an outage of its service breaks its connection
  (`broken`), and until gRPC's backoff, of two minutes at most, is over and
  `Reconnect` is taken, calls fail at once, also when the service is up again.
  `AgentClientsAccounted`: calls that need the same checker at once make one client of
  it.  `AgentDownWasSeen`: an answer "not available" has one of two reasons during
  that very call: the service did not answer, or its broken connection was not yet
  made again.  An earlier call's failure to make the checker, or a client closed by
  another call, is never one.
  `AgentCallsAnswered`, `AgentSweepEnds`, `AgentShutdownEnds` (liveness): waits on
  the lock, on a scan and on the shutdown end, the last after at most the
  time-out of the context.
- **`Networks`** enumerates the targets of a sweep, once as the sweep service does
  (a `/32` is a single host) and once as `NetworkSweeper` does.
  `SweepTargetsExact` compares the list and the count with the set of usable
  addresses, for the sweeper in sweeps without a `/32`, which it counts and does not
  list (finding 13).
  `SweepListingEnds` fails if `Inc` does not carry.
- **`Dusk`**: `StartMonitoring`, the listener with its read deadline, and the node
  at the other end, which sends blocks and other messages.
  `DuskHistoryIsLatest` and `DuskWebsocketReleased`.

## 8. The database: `NodeTables`, `NodeStore`

`NodeTables` is the promise: a node's row and its history change together, and a
clean-up takes all rows of a table older than a time and no others (the services
may stay).  `NodeStore` has the transactions as statements: `tx[w].pc` says which
one comes next, `lock` who may write (also nobody ever again: `Lost`), `staged`
the tables as that transaction sees them.  A statement or the commit may fail
whenever it is tried, and `Restart` drops what was not committed.
`DatabaseHistoryShowsStatus` is about a reader that asks for a row and then for
its history, between which anything may be written.

## 9. What goroutines share: `SocketPool`, `SweepProcessor`, `MemoryStore`, `SqliteStore`, `WebhookAlerter`, `MetricRing`

- **`SocketPool`**: `getSocket` in its three cases (`TakeAvailable`, `Create`,
  `Recycle`), the release function, which runs without the lock, `Cleanup` and
  `ClosePool`.  Ages are abstract (`Grow`).  `PoolSocketExclusive`: no two users
  share a socket, and an old release never frees one that was handed out again;
  `PoolSocketsAccounted`: no more than `maxSockets` are open, and none is lost.
- **`ResultStore`** is the interface `sweeper.Store`.  `last` is the last call with its
  arguments and its answer, so that the promise ties what is stored to what was asked
  for: `Save(t, b)` makes the result that was passed that of its target and changes no
  other, `Prune(cutoff)` forgets all results older than the cutoff and none that is
  newer, `Renew` (of `SaveHostResult`) never takes availability away, `Query(f)` answers
  with exactly what `f` matches, and `Trim`, the cleaner of the in-memory store, leaves
  `MaxResults` results.  **`MemoryStore`** (a list, updated in place) and
  **`SqliteStore`** (a table whose key has no mode, pruned in two steps) implement it;
  `MayCut` is the second's cut-off query.  Which results `Trim` leaves is not
  promised: a comment says that they are the most recent ones, and they need not be
  (finding 9).
- **`SweepProcessor`**: a result goes to the processor and then to the store.
  `SweepAnswerConsistent` is about an answer written out after the lock was
  released, `SweepStoreWithinProcessor` about the two copies.
- **`WebhookAlerter`**: `sendAlert` over all webhooks, called by several
  goroutines.  `OneRequestForEachCooldown`: a webhook gets one request of a title
  per cooldown; `AlertTriesAllWebhooks`: none is left out because of another.
- **`MetricRing`**: the buffer of one node.  `Claim` and `Store` are the two atomic
  operations of `Add`, `LoadPosition` and `LoadPoint` those of `GetPoints` and of
  `GetLastPoint`, which loads one point.  A point is the number of its `Add`.
  Nothing keeps an `Add` from being overtaken between its steps by as many others as
  the ring has slots, and then it puts an old point over a new one; readers may find
  that, or a point that is not there yet.  `MetricsReadLatest` says that they find
  nothing else wrong: each point of an answer is the wanted one, unless an `Add` is
  the reason.  For it, two histories: `inFlight` (of a reader: the points without
  a store when it began) and `overtaken`.

## 10. Runs

| run | instance | shows |
|---|---|---|
| `monitor_steady` | one steady poller, two handlers, threshold 6, discovery 3, other durations 1; 2.9 million states | `NoFalseOffline`, with restarts at any point, services that come and go, retried reports |
| `monitor_silence` | one known poller, and a leftover row of an unknown one whose statements may fail; one handler | `SilenceDetected`, at the exact bound |
| `monitor_live` | one poller whose statements fail now and then; fair | `TypeOK`, `SilentNodeGoesDown` |
| `monitor_api_race`, `monitor_recovery`, `monitor_restart` | one poller, one handler, threshold 2 | findings 1 to 3 |
| `metrics_limit` | the metrics of `shared_stores` | finding 4 |
| `agent_scans` | TCP: two calls, of which one has two targets or both want the same one, two connections, concurrency 1, one idle connection; combined: three targets of three modes, ICMP may fail; ICMP: the same two kinds of calls, batches of one, one call that may be cancelled; 330 thousand states | the three refinements of `ScanChannel`, `TcpConnectionsAccounted`, and, under fairness, that scans end and leave no goroutine behind |
| `scans_tcp_close` | the same | finding 14 |
| `agent_process` | agent: two status calls, one external checker and one other; Dusk: history of 2, four blocks, two messages on the way; lists: all networks of a 3-bit address space paired with three others, both algorithms; 69 thousand states | one client per checker, answers, sweeps and shutdown end, the block history, the targets |
| `poller_rounds` | two agents with two checks each, four connections, two attempts; 95 thousand states | the properties of `Poller` |
| `shared_stores` | pool: two goroutines, two sockets, three files and entries; sweep: three targets on two hosts, at most two results kept, three kinds of filter; database: two goroutines, one node, two instants; webhooks: two calls, three webhooks, one of them disabled, cooldown 2; ring: two slots, two goroutines that add up to five points, one reader; metrics: three nodes, two concurrent reporters, limit 2, clean-up; 336 thousand states, up to the symmetry of the metrics' nodes and reporters | refinements of `ResultStore` and `NodeTables`, and the invariants of what is shared |

**Why these bounds are enough.**  Nothing in the code relates two pollers
except the order in which a round looks at their rows and the time it takes;
the round's time is a parameter, and `monitor_silence` has two rows.  Two
handlers of one poller are the fewest that can store out of order.  Durations
are the smallest for which all phases and both sides of each comparison occur:
every passing run reaches ages beyond every threshold (`MaxAge` exceeds
`DetectionTime`, an assumption TLC evaluates).  For all other values there is
the proof.

For the metrics, three nodes at a limit of two are the fewest for which an
eviction hits a node other than those being stored; two reporters and the
clean-up are all the kinds of pairs that can interleave.  Nodes and reporters
are interchangeable in module and properties, no constant of the other parts has them,
and no liveness is checked in that run, so the symmetry is sound.

**Fairness** (`FairSpec`, used by `monitor_live` only).  Time goes on; a
goroutine that can run does run (weak fairness of the monitor and of each
handler); and a verdict that the database could carry out in round after round
does not fail every time (strong fairness of `MarkDown` and `DeclareDown`, which are
enabled only while the lock is sound: what else makes a statement fail is another
connection's transaction, and that ends).  Nothing is assumed of pollers, reports,
restarts or failures: a failed report may lose the lock at any time, and the property
says what the code keeps then, which is nothing.

Each property of a passing run is paired in `PROJECT.json` with a mutant, a
plausible bug that breaks it: `StaleAtThreshold` (`>=` for `>`),
`DeclareDownNow` (the current time for the snapshot's `last_seen`, as
`markNodeDown` does) `StoreFailsOn` (the error of the transaction logged
and ignored), `DropUncounted` (a clean-up that forgets the count) and
`DropFromMapOnly` (one that forgets the list).  Those of the later modules stand
beside the definition they change, with a comment that begins "Mutant:" and says
what the bug is.

**The other instances.**  Two calls, goroutines, hosts or agents are the fewest
that can hold something the other needs (a slot, a connection, the lock, a
socket, the write lock), and the numbers of slots, connections and entries are
one below or at what they may hold together, so that every limit is met.  Two
attempts are one retry.  In `Poller` an agent has at most one connection in the
table, and one that is held, so that four never run out.  The address space of
three bits has networks of every length with first, last, inner and no host, and
the network at its very end, where `Inc` wraps.  In `Dusk` four blocks overflow a
history of two twice.  The clocks of the stores need two instants to have an
older and a younger row; that of the webhooks three, to pass a cooldown of two.
Five points go round a ring of two slots twice, so that one goroutine overtakes the
other; a second reader would add nothing, as a reader changes nothing.

**Fairness of the components** (`agent_scans`, `agent_process`,
`poller_rounds`).  A goroutine that can run does run: weak fairness of each
one's steps.  A wait that has a deadline in the code ends (`ScanAbandoned`,
`Expire`, `Deadline`, `ReadFails`).  Strong fairness is assumed in two places: of `Lock`
in `Agent`, as a Go mutex starves nobody, and of `Redial` in `Poller`, as a gRPC
dial without WithBlock fails only for reasons of its own configuration, not
because the agent is away.  Nothing is assumed of agents, checkers, callers,
cancels, signals, broken connections, or ICMP replies.

## 11. Findings

1. **The API may show a silent node as healthy** (`monitor_api_race`).  A
   handler stores its report and publishes it later (`server.go:1298`, `1340`);
   if the monitor declares the node down in between, its `FALSE` is published
   first and overwritten.  It stays so until the next report: case 1 of
   `evaluateNodeHealth` does not fire again for an unhealthy row.  The handler
   must be delayed for as long as the node is over the threshold, for instance
   by webhook calls of its own or by a report that was old on arrival.
2. **Nodes with a failed service "recover" every round** (`monitor_recovery`).
   A report with an unavailable service stores `is_healthy = FALSE` and a
   recent `last_seen`, which is case 3; `handlePotentialRecovery` looks only at
   the column, sets it to `TRUE` and sends *Node Recovered*.
3. **A restart announces the recovery of silent nodes** (`monitor_restart`).
   `checkInitialStates` passes `time.Now()` as `last_seen` (`server.go:453`); the
   first periodic check then finds an unhealthy node "that has reported
   recently".  It is declared down again after another threshold, so
   `SilenceDetected` holds, with a larger bound.

4. **More buffers than `MaxNodes`** (`metrics_limit`).  The limit is compared
   before, and apart from, the insertion (`manager.go:73`, `80`): two reporters of
   new nodes both see a count below it.  An insertion at the limit evicts one
   node and adds one, so that only a metric of a node that is already stored,
   which needlessly evicts another, brings the map back.

5. **A failed `UpdateNodeStatus` keeps the write lock** (`NodeStore`, `Leaks`).
   `defer rollbackOnError(tx, err)` (`db.go:172`) evaluates `err` while it is
   nil, so nothing is ever rolled back.  When a statement after the first one
   fails, the transaction stays open, and every later write of the process
   fails: reports are refused, and a node that falls silent stays healthy
   (`NodeMonitor`, `lock`).  The tables themselves stay right.
6. **`CleanOldData` commits half a clean-up** (`NodeStore`, `Fails`).  The errors
   of its statements shadow the one its deferred function looks at
   (`db.go:482`).
7. **A poll goes on with the connection it has just closed** (`Poller`,
   `Redial`).  `pollAgent` keeps its connection when `ensureAgentHealth` replaces
   it (`poller.go:419`): the checks of that poll fail although the agent is
   reached again.
8. **ICMP scans do not end by themselves** (`ICMPScan`, `ProcessDone`).  The
   closer also waits for the listener (`icmp_scanner.go:529`), which only ends
   with its context, `Stop` or a broken socket.  "ICMP scan completed
   successfully" (`icmp_scanner.go:567`) is logged only then.
9. **The in-memory store drops the wrong results** (`MemoryStore`, `Trim`).  "Keep the
   most recent results (which are at the end)" (`memory_store.go:63`) is not so:
   `SaveResult` replaces a result in place.
10. **An answer may mix two moments** (`SweepProcessor`, `Written`):
    `GetSummary` copies hosts but shares their ICMP status
    (`base_processor.go:252`).
11. **A cut-off query looks complete** (`SqliteStore`): `rows.Err` is not asked
    (`sqlite_store.go:192`).
12. **The Dusk checker stays SERVING** after its listener has ended: `ws` is never
    reset (`dusk.go:380`), and nobody dials again.
13. **`NetworkSweeper` never scans a `/32`** (`Networks`,
    `IsFirstOrLast`): `sweeper.go:370`
    leaves its one address out, while `calculateNetworkCapacity` counts it
    ("considering /32", `sweeper.go:284`).
14. **The TCP scanner's close is not safe** (`scans_tcp_close`).  After a cancel or a
    stop the closer waits for the workers until a timer fires, and then closes the
    channel ("Safe to close results channel now", `tcp_scanner.go:328`); a worker
    whose dial or read takes longer sends on it and panics.
15. **Nor is the ICMP scanner's** (`ICMPScan`): the same timer, before "Safe to
    close the results channel." (`icmp_scanner.go:595`), and a feeder that is between
    the results of its batch.
16. **The combined scanner closes while it scans** (`CombinedScan`).
    `startCleanup` "waits for scanning to finish, then cancels and closes channels"
    (`combined_scanner.go:181`): after a cancel or a stop it does not wait, and its
    deferred calls close first and cancel then (`:191`, `:192`).
17. **Concurrent ICMP scans take each other's results** (`ICMPScan`).  Two
    calls that ping the same host share its record (`icmp_scanner.go:79`); the first to
    send its result deletes it (`:428`), and the other returns without one (`:390`).

Findings 1 to 4 and 14 have a run whose property TLC refutes.  The others were met
while modelling.  The modules have each as a step of the code, so that all other
properties are checked in its presence, and no run is spent on restating it, although
9, 13 and 15 to 17 contradict what a comment says, as quoted.

## 12. Proofs

Every theorem is checked by TLAPS for all values of the constants that satisfy the
named assumptions; TLC evaluates these assumptions in every run, so that they hold
of the instances that are explored.  For each theorem that states a property of a
run, the two are about the same specification.

### `NodeMonitorProofs`

The theorems hold for all sets of pollers and handlers, and all durations
that satisfy `SetsAssumption`, `DurationsAssumption`, `SteadyAssumption` and
`LatencyAssumption`.

- **`TypeCorrect`**: `Spec => []TypeOK`.  That the API serves only nodes with a
  row is not inductive: `TypeInv` adds where the monitor is (`Rounds`), that
  the rows and jobs of the monitor and the reports that handlers have stored
  belong to nodes with a row (`RowsExist`), and that a stopped process has no
  handlers and an empty map (`Down`).
- **`NeverFalselyOffline`**: `Spec => []NoFalseOffline`.  The inductive
  invariant `IInv` says why.  The freshness of steady rows
  (`SteadyRow`, `SteadySnapshot`) is kept only while the lock is sound; once it is lost
  no verdict about a steady poller can be written either (`SteadyJob`), and a restart
  makes it sound and starts anew.  The row of a steady poller is *strong*: no older
  than its last poll, or the report of that poll is on its way in some handler.
  `DeclareRecovered` may replace it by the `last_seen` of a snapshot up to one
  round old: the row is then *weak*, but healthy, and the next report makes it
  strong again, so that it never gets older than the threshold.  Before the first report after a start a row
  may have any age, and `Starting` says that the report is due before the
  initial check.  Snapshots are therefore never stale (`SteadySnapshot`) and
  the only verdicts about steady pollers are recoveries (`SteadyJob`).  Each
  part is kept by each action: one lemma per part.
- **`SilenceIsDetected`**: `Spec => []SilenceDetected`.  `SilenceInv` bounds, for
  each poller that is `Silenced`, everything that could still hide its silence:
  a report in some handler is as old as the silence, but for the clocks
  (`ReportsAge`); a row, and the snapshot of one that the monitor works through, is
  that old too, or was marked by `checkInitialStates` shortly after the start
  (`RowsAge`); a round under way spares the poller only if it began when the silence
  was young (`Spared`); and a healthy row means that the silence is young, or that
  the round under way has found it stale and will declare it down (`Detected`).
  There is one lemma for each kind of step; that of `Tick` is where the durations
  of `DetectionTime` add up.

### `MetricsManagerProofs`

For all finite sets of nodes and reporters and every positive limit, if the two values that
stand for nobody and for the clean-up are no reporters (`ConstantsOK`):

- **`CountIsAccurate`**: `Spec => []CountAccurate`, and
- **`NoGhosts`**: `Spec => []NoGhostEntries`.

The inductive invariant adds to them the types, that the list has no duplicates
(`ListOK`, else removing an entry would leave another), that whoever has a
removal to count holds the lock (`LockOK`, so that there is at most one), and
that the node the clean-up is about to drop is in the map (`DropOK`: all
removals are made under the lock).  The lemmas `WithoutFacts`, `PushFrontFacts`
and `BackFacts` say what the operations of the list do to its set of entries.

### `PollerProofs`

For all sets of agents, checks and connections and any number of attempts, and
without an assumption on them:

- **`ConnectionsNeverLost`**: `Spec => []ConnsInTable`.  The property is
  inductive: a dial takes a connection nobody has, and closes the one it
  replaces in the table (`DialKeepsConns`); everything else only closes
  (`ClosingKeepsConns`).
- **`OnlyDownIsReported`**: `Spec => []DownWasSeen`.  `PollKnows` adds what the
  poll knows at each point of its way until the context is cancelled: after a
  dial or a good health check the connection in the table is open, and if the
  second health check fails, or the checks run over a closed connection
  (finding 7), the agent has left a call without an answer.
- **`ReportsAreComplete`**: `Spec => []ReportComplete`.  `ReportInv` says that
  the agents the poll has not come to have no statuses, the one it is at has
  exactly those of the checks that have answered, and all others are whole.

### `ScanningProofs`

For all sets of targets, calls, connections, scanners and modes.  The TCP scanner
needs `TcpAssumption` (a call lists finitely many targets, and the values that stand
for no call and no connection are none); the others need nothing.  `StepOfOne`
says that a step of `Scanning` is one of each component or leaves it alone.

- **`TcpConnectionsAreAccounted`**: `Spec => []TcpConnectionsAccounted`.  It is
  inductive with its types, written over operators of the workers and of the
  pool (`ConnsOK`): no two workers hold the same connection (`HeldApart`), no two
  entries have the same (`PooledApart`), and none is in both.  The lemmas follow
  what the code does: a connection is dialled, taken from the end of a list
  (`RemoveAt`), put back (`PoolAppended`), closed, or an entry is dropped by the
  cleaner, which keeps a sublist (`Sublists`).  That the pool has as many
  connections as entries is a bijection (`EntriesCount`).
- **`TcpImplementsScanner`**: `Spec => TcpImplementsChannel`, for each call of
  `Scan`.  `CallOK` says that a target that is past its send has been sent unless
  the call is abandoned, and that the closer wakes only when every worker of the
  call has ended.  A worker can only panic (send on the closed channel) in a call
  that was cancelled or stopped.
- **`CombinedImplementsScanner`**: `Spec => CombinedImplementsChannel`.  Two facts
  carry it.  A forwarder that has ended has sent everything of its kind unless the
  call is abandoned (`ForwardsAll`), as it ends only when its scanner's channel is
  closed and drained; and the closer leaves its wait only when no forwarder runs,
  or the call is abandoned (`CombinedCloses`), so that a send after the close needs
  an abandoned call.  `CombinedRefines` then maps each step: opening, delivery,
  close and crash to their abstract actions, all others to nothing or to `Abandon`.
- **`IcmpImplementsScanner`**: `Spec => IcmpImplementsChannel`, for each of the calls
  that share the responses.  `IcmpFeeds` follows the feeder: each host is sent, in the
  batch or to come, or contested; one whose pinger has begun has a record, which stays
  until it is sent, whatever becomes of the listener, unless another call contests the
  host.  That only a contesting call can take a record away is `IcmpContests`: two
  calls at work know what they both want.  So the closer finds every other host sent
  (`IcmpCloses`).

### `NodeStoreProofs`

For all sets of goroutines and nodes, assuming that a goroutine is none of the two
values of `lock` that mean nobody, that `Health` is a set of Booleans, and that time
is counted in numbers (`ConstantsOK`).

- **`StoreImplementsTables`**: `Spec => ImplementsTables`.  The invariant
  `StagedFollows` says that only the goroutine with the lock is past its first
  statement and that what it has staged is what its statements make of the
  committed tables, which cannot change meanwhile.  A commit is then one abstract
  step (`CommitsOneStep`).
- **`ReaderFindsStatus`**: `Spec => []HistoryShowsStatus`.  `ReadersInv` adds that the
  status in the row of every node, and the one a reader holds, is in the history
  or older than a clean-up that has committed; the newest rows of a query then
  have it, or as many newer ones as the limit.

### `WebhookAlerterProofs`

For all finite sets of calls and all titles, numbers of webhooks, cooldowns and
times (`ConstantsOK`):

- **`OneRequestForEachCooldown`**: `Spec => []OneForEachCooldown`.  `Spaced`
  says why: `checkCooldown` lets a title pass only a whole cooldown after it last
  did, so that the requests delivered and those still on their way, all but
  one, fit into the time until then.  `CheckCooldownKeeps` is the step that adds
  one; `SendRequestKeeps` only turns one on its way into one delivered.
- **`AllWebhooksAreTried`**: `Spec => []AllWebhooksTried`.  `PastCovered` says it
  of the webhooks a call has gone past, and the last times only grow.

### `SharedStateProofs`

The components of `SharedState`, each under its assumption of section
"What the theorems assume" of the module.

- **`PoolSocketsAreExclusive`**, **`PoolSocketsAreAccounted`**.  `PoolInv`: the list has
  no entry twice (`ListedOnce`); a goroutine that holds an entry has it marked in
  use and with the file it was handed, and nobody else holds it (`HeldByOne`, which
  survives the recycling of an entry because one in use is never recycled); the
  open files are those of the live entries, one each (`LiveOpen`).  The clean-up
  closes sockets in use too: their entries leave the list and live on only with
  their holders.
- **`SweepAnswersAreConsistent`**, **`SweepStoreIsWithinProcessor`**.  `ProcessorInv`:
  in the processor's maps, and in the copy that is being written out, a count is the
  number of hosts with the port open (`Consistent`), what the copy says of a host
  the map still says (`ReportWithinMap`: its entries only grow), and what is in hand
  or in the store has been through the map (`AllReported`).
- **`MemoryIsStore`**, **`MemorySummariesAgree`**.  `MemoryInv`: the list has each
  target once, so that it is a function from targets to results; each operation on
  the list is one on that function: a save replaces the value of its target and of no
  other, pruning and trimming restrict it (`Sublists`).
- **`SqliteIsStore`**.  The key of a row is host and port, without the mode
  (`sqlite_store.go:47` of the sweeper);
  the table is a store only if no two targets share a key, which `SqliteAssumption`
  says.  It holds as the ICMP target of a host has port 0.  The pruning takes effect
  where its DELETE commits: with the cutoff computed before, it takes what was old
  then, and what was renewed meanwhile it finds new.
- **`DatabaseIsTables`**, **`DatabaseReadersFindStatus`**, **`CooldownsHold`**,
  **`WebhooksAreTried`**, **`MetricsCounted`** and **`MetricsEvictBuffers`** carry the
  theorems of `NodeStoreProofs`, `WebhookAlerterProofs` and `MetricsManagerProofs` over to
  `SharedState`: its part of a behaviour is a behaviour of the component
  (`DatabaseRuns`, `SameDatabase` and their like).
- **`MetricsReadersFindLatest`**, for every retention but 0, which `NewServer` replaces
  (`server.go:81`; `RingAssumption`).  `RingInv`: a slot has a point of its own
  (`SlotsHaveTheirs`); for each position that was given, its slot has that point or
  a newer one, or the point is in flight, or what the slot has was overtaken
  (`SlotsHaveLatest`); what is in flight while its slot was given to a later point is
  overtaken (`LateOvertaken`); and what is in flight and older than a reader was in
  flight when that began (`ReadersKnow`).  `BehindFacts` says that the index
  `GetPoints` computes is that of the wanted point, and that a newer point of that
  slot is a whole ring away: from a position the reader did not see.

### `EdgeProcessesProofs`

- **`OneClientForEachChecker`**, **`OnlySeenDownIsAnswered`**, for all sets of calls,
  keys and external checkers (`ServerAssumption`).  `CacheInv` joins the two with
  `LockHeld` (the lock belongs to the call that makes a checker, which is not in the
  cache yet, so that no other call makes it too) and `CallKnows` (the checker a call
  looks at is cached and therefore has its client: the check fails only if what it
  looks at does not answer, or not over the connection it has).
- **`HistoryIsTheLatest`**, for every size of the history (`CheckerAssumption`) and any
  number of blocks.  `CheckerInv`: the wire has the blocks that were sent and not
  read, in order, between messages of other kinds (`WireInOrder`), and the history
  is the last of those read (`HistoryOf`), by which `Remember` drops the oldest
  exactly when it is full.
- **`SweepsAreExact`**, for every width of an address, all lists of networks (the
  sweeper's: without a network of one address), modes and lists of ports
  (`ListingAssumption`: addresses fit the width, and no prefix has
  length 0, with which the loops would not end).  `ListingInv`: where the loop is (in
  its network or just behind it, `Where`), that the targets are those of the hosts
  it has passed, in number too (`TargetsSoFar`), and that the total counts the hosts
  of the networks it has begun (`TotalSoFar`), which joins the sizes computed from
  prefix lengths with the sets of addresses.  It rests on arithmetic: the addresses
  of a network are one block of `2^(W - ones)` numbers (`BlockFacts`, `NetworkFacts`),
  all but two of them hosts (`UsableFacts`).  That a power of two doubles (`Doubling`)
  is counted on the subsets of an interval, and `2^(m + n) = 2^m * 2^n` follows by
  induction (`InductiveSet`), obtained from a smallest counterexample
  (`LeastElement`, from the well-foundedness of strict inclusion).

### What is only model-checked

- **Liveness**: `SilentNodeGoesDown`, `TcpScansEnd`, `CombinedCallEnds`,
  `IcmpNothingLeft`, `AgentCallsAnswered`, `AgentSweepEnds`, `AgentShutdownEnds`,
  `DuskWebsocketReleased`, `SweepListingEnds`, `PollEnds`, `Recovers`.  TLAPS has no
  rule for fairness here.
- The properties that are refuted (section 11).

## 13. Not modelled

- The foreign keys of the database: `PRAGMA foreign_keys` holds on the connection
  that ran it (`db.go:106`), and the pool has others.  `NodeStore` lets rows of
  services without a node in.
- `checkNeverReportedPollers`: its query uses `REGEXP` (`server.go:863`), for
  which SQLite has no function unless one is registered, and none is.
- A disabled `MetricsConfig`, with which `AddMetric` does nothing.
- Reports of unknown ids: `ReportStatus` answers and changes nothing.  With no
  known poller configured every report is dropped, while the clean-up's comment
  (`server.go:259`) says "No filtering if no known pollers specified".
- A failed query at the start of a round: the round is skipped and the next one
  follows; a round without rows is its model.
- The GET handlers of the API, which only read.
- `NetworkSweeper`'s loop and `SQLiteStore` are not part of the running program
  (`cmd/agent` uses `SweepService` and the in-memory store); the second is
  modelled since it implements the same interface.  `BaseProcessor.cleanup` and
  `UpdateConfig`, `GenerateIPsFromCIDR` and `IPSorter`: only tests use them.
- IPv6 networks: the sweep service takes a prefix of 32 for a single host
  whatever the family (`sweep_service.go:258`); `Networks` is about IPv4, and
  about networks that do not cover the whole address space (`/0`).
- Packets, payloads, templates, TLS, configuration files: data no property tells
  apart.  Security providers, configuration, commands, models, HTTP middleware
  and the dashboard keep no state that others act upon.
