------------------------------ MODULE ICMPScan ------------------------------
(***************************************************************************)
(* The ICMP scanner (pkg/scan/icmp_scanner.go): calls of Scan, each with a *)
(* listener that counts the replies, a feeder that pings the hosts in      *)
(* batches and sends their results, one goroutine per host of a batch, and *)
(* a closer.  The calls share the responses: a host has one record, which  *)
(* each call that pings it starts anew, and which the first call to send   *)
(* its result deletes.  What a record counts is left out, and with it the  *)
(* replies.  The results channel has room for every host.  Sockets come    *)
(* from the pool (SocketPool), whose cleaner may close the listener's      *)
(* under it: a read may fail at any time.                                  *)
(***************************************************************************)
EXTENDS Naturals, FiniteSets

CONSTANTS
  Scans,        \* calls of Scan
  Targets,      \* hosts
  Concurrency,  \* ICMPScanner.concurrency: the size of a batch
  Loads,        \* what the calls may ask for: functions from Scans to SUBSET Targets
  Cancellable   \* bound: the calls whose context may end

VARIABLES
  wanted,     \* the hosts of each call: what filterICMPTargets leaves
  cancelled,  \* the caller's context: no, due (the deadline is too near to wait), yes
  over,       \* scanCtx was cancelled
  caller,     \* off, select (waiting for the listener), channel, error
  listener,   \* off, get, read, nosocket, failed (its error is in the channel), ended
  feeder,     \* off, next, ping, collect, returned
  batch,      \* the hosts of the batch, while it collects those left
  todo,       \* the hosts of later batches
  pinger,     \* per host: off, wait (for the limiter), ping, done
  closer,     \* off, wait, drain, closed
  sent,       \* hosts whose result was sent
  contested,  \* history: hosts another call wanted while this one ran
  stopped,    \* Stop: the done channel is closed
  resp,       \* responses[host]: none, or kept (what it counts makes no difference)
  crash       \* no, or the call that sent on its closed channel

callVars == <<wanted, cancelled, over, caller, contested>>
feedVars == <<feeder, batch, todo, sent>>
sharedVars == <<stopped, resp, crash>>
vars == <<callVars, listener, feedVars, pinger, closer, sharedVars>>

CtxDone(s) == cancelled[s] = "yes" \/ over[s]

\* The call still works on its hosts.
Running(s) == caller[s] = "select" \/ feeder[s] \notin {"off", "returned"}

Init ==
  /\ wanted = [s \in Scans |-> {}] /\ contested = [s \in Scans |-> {}]
  /\ cancelled = [s \in Scans |-> "no"] /\ over = [s \in Scans |-> FALSE]
  /\ caller = [s \in Scans |-> "off"] /\ listener = [s \in Scans |-> "off"]
  /\ feeder = [s \in Scans |-> "off"]
  /\ batch = [s \in Scans |-> {}] /\ todo = [s \in Scans |-> {}]
  /\ pinger = [s \in Scans |-> [h \in Targets |-> "off"]]
  /\ closer = [s \in Scans |-> "off"] /\ sent = [s \in Scans |-> {}]
  /\ stopped = FALSE
  /\ resp = [h \in Targets |-> "none"]
  /\ crash = "no"

-----------------------------------------------------------------------------
(* The call: Scan, its context, and Stop.                                    *)

\* The history of a call that begins among the running ones, and theirs.
Contest(s, T) ==
  contested' = [r \in Scans |->
    IF r = s THEN T \cap UNION {wanted[q] : q \in {p \in Scans : Running(p)}}
    ELSE IF Running(r) THEN contested[r] \cup (wanted[r] \cap T)
    ELSE contested[r]]

BeginScan(s) ==
  /\ caller[s] = "off"
  /\ \E load \in Loads : LET T == load[s] IN
       /\ \A r \in Scans : caller[r] # "off" => wanted[r] = load[r]
       /\ wanted' = [wanted EXCEPT ![s] = T]
       /\ caller' = [caller EXCEPT ![s] = IF T = {} THEN "channel" ELSE "select"]
       /\ closer' = [closer EXCEPT ![s] = IF T = {} THEN "closed" ELSE @]
       /\ listener' = [listener EXCEPT ![s] = IF T = {} THEN @ ELSE "get"]
       /\ Contest(s, T)
  /\ UNCHANGED <<cancelled, over, feedVars, pinger, sharedVars>>

\* The listener is ready, which it says too when it has no socket.
ReturnChannel(s) ==
  /\ caller[s] = "select" /\ listener[s] # "get"
  /\ caller' = [caller EXCEPT ![s] = "channel"]
  /\ feeder' = [feeder EXCEPT ![s] = "next"]
  /\ todo' = [todo EXCEPT ![s] = wanted[s]]
  /\ closer' = [closer EXCEPT ![s] = "wait"]
  /\ UNCHANGED <<wanted, cancelled, over, contested, listener, batch, sent, pinger, sharedVars>>

\* Its error is there before the select, or the context is done.
ReturnError(s) ==
  /\ caller[s] = "select" /\ (listener[s] = "failed" \/ CtxDone(s))
  /\ caller' = [caller EXCEPT ![s] = "error"]
  /\ over' = [over EXCEPT ![s] = TRUE]
  /\ UNCHANGED <<wanted, cancelled, contested, listener, feedVars, pinger, closer, sharedVars>>

Cancel(s) ==
  /\ s \in Cancellable /\ caller[s] # "off"
  /\ \E c \in (IF cancelled[s] = "no" THEN {"due", "yes"} ELSE {"yes"}) \ {cancelled[s]} :
       cancelled' = [cancelled EXCEPT ![s] = c]
  /\ UNCHANGED <<wanted, over, caller, contested, listener, feedVars, pinger, closer, sharedVars>>

Stop ==
  /\ ~stopped
  /\ stopped' = TRUE
  /\ UNCHANGED <<callVars, listener, feedVars, pinger, closer, resp, crash>>

-----------------------------------------------------------------------------
(* listenForReplies and startListener.                                       *)

Listens(s, l) ==
  /\ listener' = [listener EXCEPT ![s] = l]
  /\ UNCHANGED <<callVars, feedVars, pinger, closer, sharedVars>>

ListenerGets(s) == listener[s] = "get" /\ \E l \in {"read", "nosocket"} : Listens(s, l)

\* The error reaches its channel after ready is closed.
ListenerFails(s) == listener[s] \in {"nosocket", "read"} /\ Listens(s, "failed")

\* Mutant: the loop looks at the done channel alone.
ListenerDeaf(s) == listener[s] = "read" /\ stopped /\ Listens(s, "ended")

ListenerEnds(s) == listener[s] = "read" /\ (CtxDone(s) \/ stopped) /\ Listens(s, "ended")

-----------------------------------------------------------------------------
(* processTargets and processBatch.                                          *)

Pings(s, h, p) == pinger' = [pinger EXCEPT ![s][h] = p]

BeginBatch(s) ==
  /\ feeder[s] = "next" /\ todo[s] # {} /\ ~CtxDone(s)
  /\ \E B \in SUBSET todo[s] :
       /\ Cardinality(B) = IF Cardinality(todo[s]) < Concurrency THEN Cardinality(todo[s])
                           ELSE Concurrency
       /\ batch' = [batch EXCEPT ![s] = B]
       /\ todo' = [todo EXCEPT ![s] = @ \ B]
       /\ pinger' = [pinger EXCEPT ![s] = [h \in Targets |-> IF h \in B THEN "wait" ELSE @[h]]]
  /\ feeder' = [feeder EXCEPT ![s] = "ping"]
  /\ UNCHANGED <<callVars, listener, sent, closer, sharedVars>>

\* limiter.Wait, which gives up near a deadline; then sendPingsToTarget starts a
\* new record of the host, in the place of any other call's, and sends its pings,
\* any of which may fail.
StartPinger(s, h) ==
  /\ pinger[s][h] = "wait"
  /\ \/ /\ cancelled[s] # "no" \/ over[s]
        /\ Pings(s, h, "done")
        /\ UNCHANGED resp
     \/ /\ ~CtxDone(s)
        /\ Pings(s, h, "ping")
        /\ resp' = [resp EXCEPT ![h] = "kept"]
  /\ UNCHANGED <<callVars, listener, feedVars, closer, stopped, crash>>

\* After count pings, or at the end of the scan.
PingerReturns(s, h) ==
  /\ pinger[s][h] = "ping"
  /\ Pings(s, h, "done")
  /\ UNCHANGED <<callVars, listener, feedVars, closer, sharedVars>>

Feeds(s, f) == feeder' = [feeder EXCEPT ![s] = f]

\* The select of processBatch: all pinged, or the end.
CollectBatch(s) ==
  /\ feeder[s] = "ping"
  /\ \/ (\A h \in batch[s] : pinger[s][h] = "done") /\ Feeds(s, "collect")
     \/ (CtxDone(s) \/ stopped) /\ Feeds(s, "returned")
  /\ UNCHANGED <<callVars, listener, batch, todo, sent, pinger, closer, sharedVars>>

\* sendResultsForTarget: a host without a record has no result, be it that the
\* call never pinged it or that another call has deleted its record.  (It loads,
\* sends and deletes the record in one step here: a call that loads it before
\* another one deletes it only sends what it would send one step earlier.)
SendResult(s, h) ==
  /\ feeder[s] = "collect" /\ h \in batch[s]
  /\ \/ /\ resp[h] = "none"
        /\ UNCHANGED <<sent, crash, resp>>
     \/ /\ resp[h] # "none" /\ closer[s] # "closed"
        /\ sent' = [sent EXCEPT ![s] = @ \cup {h}]
        /\ resp' = [resp EXCEPT ![h] = "none"]
        /\ UNCHANGED crash
     \/ /\ resp[h] # "none" /\ closer[s] = "closed"
        /\ crash' = s
        /\ UNCHANGED <<sent, resp>>
     \/ /\ resp[h] # "none" /\ (CtxDone(s) \/ stopped)
        /\ UNCHANGED <<sent, crash, resp>>
  /\ batch' = [batch EXCEPT ![s] = @ \ {h}]
  /\ Feeds(s, IF batch[s] = {h} THEN "next" ELSE "collect")
  /\ UNCHANGED <<callVars, listener, todo, pinger, closer, stopped>>

FeederReturns(s) ==
  /\ feeder[s] = "next" /\ (CtxDone(s) \/ todo[s] = {})
  /\ Feeds(s, "returned")
  /\ UNCHANGED <<callVars, listener, batch, todo, sent, pinger, closer, sharedVars>>

-----------------------------------------------------------------------------
(* startCleanup.                                                             *)

\* Mutant: the WaitGroup does not count the feeder.
ListenerDone(s) == listener[s] \in {"failed", "ended"}

\* The WaitGroup: the listener and the feeder.
ProcessDone(s) == listener[s] \in {"failed", "ended"} /\ feeder[s] = "returned"

CloserWakes(s) ==
  /\ closer[s] = "wait"
  /\ ProcessDone(s) \/ cancelled[s] = "yes" \/ stopped
  /\ closer' = [closer EXCEPT ![s] = "drain"]
  /\ over' = [over EXCEPT ![s] = TRUE]
  /\ UNCHANGED <<wanted, cancelled, caller, contested, listener, feedVars, pinger, sharedVars>>

\* Processing is over, or the timer fires: the channel is closed.
CloseResults(s) ==
  /\ closer[s] = "drain"
  /\ closer' = [closer EXCEPT ![s] = "closed"]
  /\ UNCHANGED <<callVars, listener, feedVars, pinger, sharedVars>>

ListenerStep(s) ==
  ListenerGets(s) \/ ListenerEnds(s) \/ (listener[s] = "nosocket" /\ ListenerFails(s))
CallerStep(s) == ReturnChannel(s) \/ ReturnError(s)
FeederStep(s) ==
  BeginBatch(s) \/ CollectBatch(s) \/ FeederReturns(s) \/ \E h \in Targets : SendResult(s, h)
PingerStep(s, h) == StartPinger(s, h) \/ PingerReturns(s, h)
CloserStep(s) == CloserWakes(s) \/ CloseResults(s)

CallStep(s) ==
  \/ BeginScan(s) \/ Cancel(s) \/ CallerStep(s)
  \/ ListenerStep(s) \/ ListenerFails(s) \/ FeederStep(s) \/ CloserStep(s)
  \/ \E h \in Targets : PingerStep(s, h)

Step == Stop \/ \E s \in Scans : CallStep(s)

\* A panic ends the process.
Next == crash = "no" /\ Step

Spec == Init /\ [][Next]_vars

\* Goroutines run; reads, writes and waits have time-outs.
Fairness ==
  \A s \in Scans :
    /\ WF_vars(crash = "no" /\ CallerStep(s)) /\ WF_vars(crash = "no" /\ ListenerStep(s))
    /\ WF_vars(crash = "no" /\ FeederStep(s)) /\ WF_vars(crash = "no" /\ CloserStep(s))
    /\ \A h \in Targets : WF_vars(crash = "no" /\ PingerStep(s, h))

-----------------------------------------------------------------------------
(* Properties.                                                               *)

\* The caller has given up once the deadline of its context is too near for
\* another ping.
Abandoned(s) == cancelled[s] # "no" \/ stopped

\* The channel a call returns.
Channel(s) == INSTANCE ScanChannel WITH
  AllTargets <- Targets,
  wanted <- IF caller[s] = "channel" THEN wanted[s] ELSE {},
  status <- IF crash = s THEN "crashed"
            ELSE IF caller[s] # "channel" THEN "none"
            ELSE IF closer[s] = "closed" THEN "closed" ELSE "open",
  delivered <- sent[s],
  abandoned <- Abandoned(s),
  contested <- contested[s]

\* Every call keeps the promise of ScanChannel (\A s : Channel(s)!ChanSpec, in
\* the form TLC checks) even when its listener has no socket or loses it: the
\* closer never closes the channel before every host has its result, unless the
\* caller cancelled, the scanner was stopped, or the host was pinged by another
\* call at the same time, which may have taken the record they share.
ImplementsChannel ==
  /\ \A s \in Scans : Channel(s)!ChanInit
  /\ [][\A s \in Scans : UNCHANGED Channel(s)!chanVars \/ Channel(s)!ChanNext]_vars

\* However a call ends, with an error, its context, Stop, or the listener's
\* failure, none of its goroutines is left behind with a socket of the pool.
NothingLeft ==
  []<>(\A s \in Scans : closer[s] = "closed" \/ caller[s] = "error" =>
         \/ crash # "no"
         \/ /\ listener[s] \in {"off", "failed", "ended"} /\ feeder[s] \in {"off", "returned"}
            /\ \A h \in Targets : pinger[s][h] \in {"off", "done"})
=============================================================================
