------------------------------ MODULE TCPScan ------------------------------
(***************************************************************************)
(* The TCP scanner (pkg/scan/tcp_scanner.go): calls of Scan, each with its *)
(* feeder (processTargets), one worker per target and a closer, over the   *)
(* connection pool they share, its cleaner and Stop.                       *)
(*                                                                         *)
(* The results channel has room for every target, so a send never blocks;  *)
(* on a closed channel it panics, if the select takes that case.  Time is  *)
(* abstract: an entry of the pool may grow stale, a dial, a read and the   *)
(* closer's timer may end, whenever they are under way.                    *)
(***************************************************************************)
EXTENDS Naturals, Sequences, FiniteSets, SequencesExt, Sublists

CONSTANTS
  Scans,        \* calls of Scan
  Targets,      \* targets (host and port): also the addresses of the pool
  Conns,        \* connections (file descriptors that may be open at once)
  Concurrency,  \* TCPScanner.concurrency
  MaxIdle,      \* connectionPool.maxIdle
  Loads         \* what the calls may ask for: functions from Scans to SUBSET Targets

VARIABLES
  wanted,      \* the targets of each call, {} before it
  cancelled,   \* the context of the call is done, by its caller
  over,        \* its scanCtx is done, by the closer
  feeder,      \* processTargets: off, loop (starting workers), returned
  worker,      \* one goroutine per call and target
  closer,      \* off, wait (for the end), drain (for the workers), closed
  sent,        \* targets whose result is in the channel
  pool,        \* connections[address]: entries [conn, stale]
  open,        \* open connections
  shut,        \* Stop: no, done (channel closed), closed or stuck (pool.close returned early)
  crash        \* a panic: no, pool (a write to the nil map), or the call that sent

scanVars == <<wanted, cancelled, over, feeder, worker, closer, sent>>
poolVars == <<pool, open>>
vars == <<scanVars, poolVars, shut, crash>>

Resting == [pc |-> "off"]
Ended == [pc |-> "done"]
NoConn == "none"

CtxDone(s) == cancelled[s] \/ over[s]

\* Mutant: a worker that ends keeps its slot.
SlotsKept(s) == Cardinality({t \in Targets : worker[s][t].pc \notin {"off", "sem"}})

\* The slots of the semaphore that are taken.
Slots(s) ==
  Cardinality({t \in Targets : worker[s][t].pc \in {"dial", "check", "send", "decide", "put"}})

\* Workers with a connection, and what they hold.
Holders ==
  {x \in Scans \X Targets :
     LET w == worker[x[1]][x[2]] IN
     w.pc \in {"check", "send", "decide", "put"} /\ w.conn # NoConn}
Held == {worker[x[1]][x[2]].conn : x \in Holders}

Become(s, t, w) == worker' = [worker EXCEPT ![s][t] = w]

Init ==
  /\ wanted = [s \in Scans |-> {}]
  /\ cancelled = [s \in Scans |-> FALSE]
  /\ over = [s \in Scans |-> FALSE]
  /\ feeder = [s \in Scans |-> "off"]
  /\ worker = [s \in Scans |-> [t \in Targets |-> Resting]]
  /\ closer = [s \in Scans |-> "off"]
  /\ sent = [s \in Scans |-> {}]
  /\ pool = [t \in Targets |-> <<>>]
  /\ open = {}
  /\ shut = "no"
  /\ crash = "no"

-----------------------------------------------------------------------------
(* The connection pool.                                                      *)

Entries == {e \in Targets \X (1..MaxIdle) : e[2] \in DOMAIN pool[e[1]]}
Pooled == {pool[e[1]][e[2]].conn : e \in Entries}
StaleConns == {pool[e[1]][e[2]].conn : e \in {x \in Entries : pool[x[1]][x[2]].stale}}
Fresh(a) == {i \in DOMAIN pool[a] : ~pool[a][i].stale}

\* Mutant: the entry handed out stays in the pool.
TakenNot(a, i) == pool

\* getExisting takes the newest entry that is neither too old nor idle too long.
TakenFrom(a, i) == [pool EXCEPT ![a] = RemoveAt(@, i)]

\* An entry passes maxLifetime or idleTimeout.
GoStale(a) ==
  /\ \E i \in Fresh(a) : pool' = [pool EXCEPT ![a][i].stale = TRUE]
  /\ UNCHANGED <<scanVars, open, shut, crash>>

\* cleanup closes what is stale, unless close has stopped the cleaner.
CleanPool ==
  /\ shut \notin {"closed", "stuck"} /\ StaleConns # {}
  /\ pool' \in {p \in [Targets -> UNION {Sublists(pool[a], Fresh(a)) : a \in Targets}] :
                \A a \in Targets : p[a] \in Sublists(pool[a], Fresh(a))}
  /\ open' = open \ StaleConns
  /\ UNCHANGED <<scanVars, shut, crash>>

-----------------------------------------------------------------------------
(* Scan.                                                                     *)

\* Without targets the channel is returned closed, and nothing is started.
BeginScan(s) ==
  /\ feeder[s] = "off"
  /\ \E load \in Loads : LET T == load[s] IN
       /\ \A r \in Scans : feeder[r] # "off" => wanted[r] = load[r]
       /\ wanted' = [wanted EXCEPT ![s] = T]
       /\ feeder' = [feeder EXCEPT ![s] = IF T = {} THEN "returned" ELSE "loop"]
       /\ closer' = [closer EXCEPT ![s] = IF T = {} THEN "closed" ELSE "wait"]
  /\ UNCHANGED <<cancelled, over, worker, sent, poolVars, shut, crash>>

\* The caller's context is cancelled, or past its deadline.
Cancel(s) ==
  /\ ~cancelled[s] /\ closer[s] \in {"wait", "drain"}
  /\ cancelled' = [cancelled EXCEPT ![s] = TRUE]
  /\ UNCHANGED <<wanted, over, feeder, worker, closer, sent, poolVars, shut, crash>>

StartWorker(s, t) ==
  /\ feeder[s] = "loop" /\ ~CtxDone(s)
  /\ t \in wanted[s] /\ worker[s][t] = Resting
  /\ Become(s, t, [pc |-> "sem"])
  /\ UNCHANGED <<wanted, cancelled, over, feeder, closer, sent, poolVars, shut, crash>>

\* Mutant: nobody waits for the workers.
FeederForgets(s) ==
  /\ feeder[s] = "loop"
  /\ CtxDone(s) \/ \A t \in wanted[s] : worker[s][t] # Resting
  /\ feeder' = [feeder EXCEPT ![s] = "returned"]
  /\ UNCHANGED <<wanted, cancelled, over, worker, closer, sent, poolVars, shut, crash>>

\* targetWg.Wait returns; or the loop finds its context done, and nobody waits
\* for the workers it has started.
FeederReturns(s) ==
  LET Waiting == {t \in wanted[s] : worker[s][t] = Resting} IN
  /\ feeder[s] = "loop"
  /\ IF Waiting # {} THEN CtxDone(s) ELSE \A t \in wanted[s] : worker[s][t] = Ended
  /\ feeder' = [feeder EXCEPT ![s] = "returned"]
  /\ UNCHANGED <<wanted, cancelled, over, worker, closer, sent, poolVars, shut, crash>>

\* The first select of the closer; the scan's context is cancelled after it.
CloserWakes(s) ==
  /\ closer[s] = "wait"
  /\ feeder[s] = "returned" \/ CtxDone(s) \/ shut # "no"
  /\ closer' = [closer EXCEPT ![s] = "drain"]
  /\ over' = [over EXCEPT ![s] = TRUE]
  /\ UNCHANGED <<wanted, cancelled, feeder, worker, sent, poolVars, shut, crash>>

\* The second select: processing is over, or the cleanup timer fires.
CloseResults(s) ==
  /\ closer[s] = "drain"
  /\ closer' = [closer EXCEPT ![s] = "closed"]
  /\ UNCHANGED <<wanted, cancelled, over, feeder, worker, sent, poolVars, shut, crash>>

-----------------------------------------------------------------------------
(* A worker: processSingleTarget.                                            *)

\* The select of the semaphore: a slot, or the end of the context.
AcquireSlot(s, t) ==
  /\ worker[s][t].pc = "sem"
  /\ \/ Slots(s) < Concurrency /\ Become(s, t, [pc |-> "dial"])
     \/ CtxDone(s) /\ Become(s, t, Ended)
  /\ UNCHANGED <<wanted, cancelled, over, feeder, closer, sent, poolVars, shut, crash>>

\* pool.get: a pooled connection, a new one, or none (the result is an error).
GetConn(s, t) ==
  /\ worker[s][t].pc = "dial"
  /\ IF Fresh(t) # {}
     THEN LET i == CHOOSE j \in Fresh(t) : \A k \in Fresh(t) : k <= j IN
          /\ Become(s, t, [pc |-> "check", conn |-> pool[t][i].conn, ok |-> FALSE])
          /\ pool' = TakenFrom(t, i)
          /\ UNCHANGED open
     ELSE /\ \/ \E c \in Conns \ (Held \cup Pooled) :
                  /\ Become(s, t, [pc |-> "check", conn |-> c, ok |-> FALSE])
                  /\ open' = open \cup {c}
             \/ /\ Become(s, t, [pc |-> "send", conn |-> NoConn, ok |-> FALSE])
                /\ UNCHANGED open
          /\ UNCHANGED pool
  /\ UNCHANGED <<wanted, cancelled, over, feeder, closer, sent, shut, crash>>

\* checkConnection fails on a connection that was closed.
CheckConn(s, t) ==
  /\ worker[s][t].pc = "check"
  /\ \E ok \in {FALSE, worker[s][t].conn \in open} : Become(s, t, [worker[s][t] EXCEPT !.pc = "send", !.ok = ok])
  /\ UNCHANGED <<wanted, cancelled, over, feeder, closer, sent, poolVars, shut, crash>>

AfterSend(s, t) == IF worker[s][t].conn = NoConn THEN Ended ELSE [worker[s][t] EXCEPT !.pc = "decide"]

\* sendResult takes either ready case; sending on the closed channel panics.
SendResult(s, t) ==
  /\ worker[s][t].pc = "send"
  /\ \/ /\ closer[s] # "closed"
        /\ sent' = [sent EXCEPT ![s] = @ \cup {t}]
        /\ Become(s, t, AfterSend(s, t))
        /\ UNCHANGED crash
     \/ /\ CtxDone(s)
        /\ Become(s, t, AfterSend(s, t))
        /\ UNCHANGED <<sent, crash>>
     \/ /\ closer[s] = "closed"
        /\ crash' = s
        /\ UNCHANGED <<sent, worker>>
  /\ UNCHANGED <<wanted, cancelled, over, feeder, closer, poolVars, shut>>

\* The deferred function: a good connection of a live scan is put back, any
\* other is closed.
DecideConn(s, t) ==
  /\ worker[s][t].pc = "decide"
  /\ IF worker[s][t].ok /\ ~CtxDone(s)
     THEN Become(s, t, [worker[s][t] EXCEPT !.pc = "put"]) /\ UNCHANGED open
     ELSE Become(s, t, Ended) /\ open' = open \ {worker[s][t].conn}
  /\ UNCHANGED <<wanted, cancelled, over, feeder, closer, sent, pool, shut, crash>>

\* pool.put: into the pool, closed when that is full; close may have left a nil
\* map behind, which cannot be written.
PutConn(s, t) ==
  /\ worker[s][t].pc = "put"
  /\ IF Len(pool[t]) >= MaxIdle
     THEN /\ Become(s, t, Ended) /\ open' = open \ {worker[s][t].conn}
          /\ UNCHANGED <<pool, crash>>
     ELSE IF shut = "closed"
     THEN crash' = "pool" /\ UNCHANGED <<worker, poolVars>>
     ELSE /\ Become(s, t, Ended)
          /\ pool' = [pool EXCEPT ![t] = Append(@, [conn |-> worker[s][t].conn, stale |-> FALSE])]
          /\ UNCHANGED <<open, crash>>
  /\ UNCHANGED <<wanted, cancelled, over, feeder, closer, sent, shut>>

-----------------------------------------------------------------------------
(* Stop closes the done channel, once, and then the pool.                    *)

Stop ==
  /\ shut = "no"
  /\ shut' = "done"
  /\ UNCHANGED <<scanVars, poolVars, crash>>

\* close returns at the first error, which leaves the map as it is, with the
\* connections closed up to there in it.
ClosePool ==
  /\ shut = "done"
  /\ \/ /\ shut' = "closed"
        /\ open' = open \ Pooled
        /\ pool' = [a \in Targets |-> <<>>]
     \/ /\ \E C \in SUBSET Pooled \ {{}} : open' = open \ C
        /\ shut' = "stuck"
        /\ UNCHANGED pool
  /\ UNCHANGED <<scanVars, crash>>

WorkerStep(s, t) ==
  \/ AcquireSlot(s, t) \/ GetConn(s, t) \/ CheckConn(s, t) \/ SendResult(s, t)
  \/ DecideConn(s, t) \/ PutConn(s, t)

ScanStep(s) ==
  \/ FeederReturns(s) \/ CloserWakes(s) \/ CloseResults(s)
  \/ \E t \in Targets : StartWorker(s, t)

Step ==
  \/ Stop \/ ClosePool \/ CleanPool
  \/ \E a \in Targets : GoStale(a)
  \/ \E s \in Scans : BeginScan(s) \/ Cancel(s) \/ ScanStep(s)
  \/ \E s \in Scans, t \in Targets : WorkerStep(s, t)

\* A panic ends the process.
Next == crash = "no" /\ Step

Spec == Init /\ [][Next]_vars

\* Goroutines run; dials and reads have time-outs.
Fairness ==
  \A s \in Scans :
    /\ WF_vars(crash = "no" /\ ScanStep(s))
    /\ \A t \in Targets : WF_vars(crash = "no" /\ WorkerStep(s, t))

-----------------------------------------------------------------------------
(* Properties.                                                               *)

\* The channel a call returns.
Channel(s) == INSTANCE ScanChannel WITH
  AllTargets <- Targets,
  wanted <- wanted[s],
  status <- IF crash = s THEN "crashed"
            ELSE CASE closer[s] = "closed" -> "closed"
                   [] closer[s] = "off" -> "none"
                   [] OTHER -> "open",
  delivered <- sent[s],
  abandoned <- cancelled[s] \/ shut # "no",
  contested <- {}

\* Every call keeps the promise of ScanChannel (\A s : Channel(s)!ChanSpec, in
\* the form TLC checks): results are lost, the channel closed while a worker
\* may still send, and the send a panic, only if the call was cancelled or the
\* scanner stopped.
ImplementsChannel ==
  /\ \A s \in Scans : Channel(s)!ChanInit
  /\ [][\A s \in Scans : UNCHANGED Channel(s)!chanVars \/ Channel(s)!ChanNext]_vars

\* The pool and the workers of all calls share connections correctly: each open
\* one is in one place, an entry of the pool or a worker, no worker holds a
\* closed one or one that is pooled, and the pool keeps to maxIdle.  (Where
\* close met an error, some of them are closed.)
ConnectionsAccounted ==
  /\ \A a \in Targets : Len(pool[a]) <= MaxIdle
  /\ open \subseteq Held \cup Pooled
  /\ shut # "stuck" => Held \cup Pooled \subseteq open
  /\ Held \cap Pooled = {}
  /\ Cardinality(Pooled) = Cardinality(Entries)
  /\ \A x, y \in Holders : x # y => worker[x[1]][x[2]].conn # worker[y[1]][y[2]].conn
  /\ shut = "closed" => Pooled = {}

\* Every scan ends: no worker waits for a slot, no feeder for a worker and no
\* closer for either for ever, unless the process panics.
ScansEnd == []<>(\A s \in Scans : closer[s] \in {"off", "closed"} \/ crash # "no")

\* What the comment claims of the closer, and the code does not keep: it closes a
\* channel nobody sends on any more.
ClosesSafely == crash \notin Scans
=============================================================================
