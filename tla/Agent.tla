-------------------------------- MODULE Agent --------------------------------
(***************************************************************************)
(* The agent process: the lifecycle that runs it (pkg/lifecycle/server.go, *)
(* pkg/grpc/server.go), Start and Stop of its server (pkg/agent/server.go) *)
(* with the loop of the sweep service (pkg/agent/sweep_service.go), and    *)
(* the status calls it answers with cached checkers.  The scan of a sweep  *)
(* is the channel ScanChannel promises.                                    *)
(***************************************************************************)
EXTENDS Naturals, FiniteSets

CONSTANTS
  Calls,      \* goroutines that serve GetStatus
  Keys,       \* type:name:details of a request: the key of a checker
  External    \* the keys of type grpc: their checkers hold a connection

VARIABLES
  main,       \* handleShutdown: serve, graceful, service, linger, exited
  exit,       \* what RunServer returned: none, nil, error
  cancelled,  \* the context of Start
  expired,    \* shutdownCtx is past its deadline
  errors,     \* an error is in RunServer's errChan
  server,     \* the gRPC server: off, serving, draining, failed
  starter,    \* the goroutine of Server.Start: init, begin, sweep, loop, failed, returned
  first,      \* it is at the initial sweep
  health,     \* Server.healthChecker is there
  sweep,      \* a sweep service is configured
  scan,       \* the channel of the running sweep: none, open, closed
  timedOut,   \* sweepCtx is past its deadline
  closed,     \* SweepService.closed is closed
  call,       \* each call: [pc, key, sawDown], or Resting
  lock,       \* the holder of Server.mu
  cache,      \* Server.checkers: the keys that have one
  clients,    \* per key, the gRPC clients that are open
  up,         \* external checkers that answer
  broken,     \* those whose open client lost its connection, or got none, in an outage
  crash       \* a nil pointer was followed

mainVars == <<main, exit, expired, errors, server>>
startVars == <<starter, first, health, sweep, scan, timedOut>>
callVars == <<call, lock, cache, clients, up, broken>>
vars == <<mainVars, cancelled, startVars, closed, callVars, crash>>

NoLock == "none"
Resting == [pc |-> "off"]

Init ==
  /\ main = "serve" /\ exit = "none" /\ cancelled = FALSE /\ expired = FALSE
  /\ errors = FALSE /\ server = "off"
  /\ starter = "init" /\ first = TRUE /\ health = FALSE
  /\ sweep \in BOOLEAN /\ scan = "none" /\ timedOut = FALSE /\ closed = FALSE
  /\ call = [c \in Calls |-> Resting]
  /\ lock = NoLock /\ cache = {} /\ clients = [k \in Keys |-> 0]
  /\ up \in SUBSET External /\ broken = {} /\ crash = FALSE

-----------------------------------------------------------------------------
(* Server.Start, and SweepService.Start, which it waits for.                 *)

StartServer ==
  /\ starter = "init"
  /\ health' = TRUE
  /\ starter' = IF sweep THEN "begin" ELSE "returned"
  /\ UNCHANGED <<mainVars, cancelled, first, sweep, scan, timedOut, closed, callVars, crash>>

\* performSweep: its targets or its scan may fail, which ends Start if it is the
\* initial sweep.
AfterFailure == IF first THEN "failed" ELSE "loop"

BeginSweep ==
  /\ starter = "begin"
  /\ \/ starter' = "sweep" /\ scan' = "open" /\ timedOut' = FALSE
     \/ starter' = AfterFailure /\ UNCHANGED <<scan, timedOut>>
  /\ UNCHANGED <<mainVars, cancelled, first, health, sweep, closed, callVars, crash>>

Deadline ==
  /\ scan = "open" /\ ~timedOut
  /\ timedOut' = TRUE
  /\ UNCHANGED <<mainVars, cancelled, starter, first, health, sweep, scan, closed, callVars, crash>>

\* The scan closes its channel when it has all results.
ScanCompletes ==
  /\ scan = "open"
  /\ scan' = "closed"
  /\ UNCHANGED <<mainVars, cancelled, starter, first, health, sweep, timedOut, closed, callVars, crash>>

\* Mutant: the scan runs under the context of the service.
ScanUntimed ==
  /\ scan = "open" /\ (cancelled \/ closed)
  /\ scan' = "closed"
  /\ UNCHANGED <<mainVars, cancelled, starter, first, health, sweep, timedOut, closed, callVars, crash>>

\* ... and soon after its context has ended, or its scanner was stopped.
ScanAbandoned ==
  /\ scan = "open" /\ (timedOut \/ cancelled \/ closed)
  /\ scan' = "closed"
  /\ UNCHANGED <<mainVars, cancelled, starter, first, health, sweep, timedOut, closed, callVars, crash>>

\* processScanResults returns.
EndSweep ==
  /\ starter = "sweep"
  /\ \/ scan = "closed" /\ starter' = "loop" /\ first' = FALSE
     \/ cancelled /\ starter' = AfterFailure /\ UNCHANGED first
  /\ UNCHANGED <<mainVars, cancelled, health, sweep, scan, timedOut, closed, callVars, crash>>

Loop ==
  /\ starter = "loop"
  /\ \/ starter' = "begin"
     \/ closed /\ starter' = "returned"
     \/ cancelled /\ starter' = "failed"
  /\ UNCHANGED <<mainVars, cancelled, first, health, sweep, scan, timedOut, closed, callVars, crash>>

\* The error of Start goes to errChan if that has room.
ReportError ==
  /\ starter = "failed"
  /\ starter' = "returned" /\ errors' = TRUE
  /\ UNCHANGED <<main, exit, expired, server, cancelled, first, health, sweep, scan, timedOut, closed, callVars, crash>>

-----------------------------------------------------------------------------
(* RunServer and handleShutdown.                                             *)

\* The goroutine of the gRPC server: its port may be taken.
Serve ==
  /\ server = "off"
  /\ \/ server' = "serving" /\ UNCHANGED errors
     \/ server' = "failed" /\ errors' = TRUE
  /\ UNCHANGED <<main, exit, expired, cancelled, startVars, closed, callVars, crash>>

Signal ==
  /\ main = "serve"
  /\ main' = "graceful" /\ cancelled' = TRUE
  /\ server' = IF server = "failed" THEN server ELSE "draining"
  /\ UNCHANGED <<exit, expired, errors, startVars, closed, callVars, crash>>

\* An error of either goroutine: the process ends, and nothing is stopped.
TakeError ==
  /\ main = "serve" /\ errors
  /\ main' = "exited" /\ exit' = "error"
  /\ UNCHANGED <<expired, errors, server, cancelled, startVars, closed, callVars, crash>>

\* GracefulStop waits for the calls, however long they take.
GracefulStop ==
  /\ main = "graceful" /\ \A c \in Calls : call[c].pc = "off"
  /\ main' = "service"
  /\ UNCHANGED <<exit, expired, errors, server, cancelled, startVars, closed, callVars, crash>>

\* Server.Stop: the sweep service is closed, its scanner stopped, which may fail
\* once the context is done, and its status is set; Start may not have run.
StopService ==
  /\ main = "service"
  /\ closed' = sweep
  /\ \/ sweep /\ expired /\ main' = "exited" /\ exit' = "error" /\ UNCHANGED crash
     \/ sweep /\ ~health /\ crash' = TRUE /\ UNCHANGED <<main, exit>>
     \/ (sweep => health) /\ main' = "linger" /\ UNCHANGED <<exit, crash>>
  /\ UNCHANGED <<expired, errors, server, cancelled, startVars, callVars>>

Expire ==
  /\ main \in {"graceful", "service", "linger"} /\ ~expired
  /\ expired' = TRUE
  /\ UNCHANGED <<main, exit, errors, server, cancelled, startVars, closed, callVars, crash>>

\* The whole time-out is waited for.
Linger ==
  /\ main = "linger" /\ expired
  /\ main' = "exited" /\ exit' = "nil"
  /\ UNCHANGED <<expired, errors, server, cancelled, startVars, closed, callVars, crash>>

-----------------------------------------------------------------------------
(* GetStatus of a checker: getChecker, then Check.                           *)

\* A checker in this process answers; an external one over a connection that is
\* not broken: gRPC connects again by itself, but calls that come while it waits
\* to try (two minutes at most) fail at once.
Answering(k) == k \notin External \/ (k \in up /\ k \notin broken)
Become(c, pc) ==
  call' = [call EXCEPT ![c].pc = pc, ![c].sawDown = @ \/ ~Answering(call[c].key)]

Dial(k) ==
  IF k \in External
  THEN /\ clients' = [clients EXCEPT ![k] = @ + 1]
       /\ broken' = IF k \in up THEN broken ELSE broken \cup {k}
  ELSE UNCHANGED <<clients, broken>>

CloseClient(k) ==
  /\ clients' = [clients EXCEPT ![k] = @ - 1]
  /\ broken' = broken \ {k}

\* Mutant: a server that drains takes new calls.
CallDraining(c) ==
  /\ server \in {"serving", "draining"} /\ call[c].pc = "off"
  /\ \E k \in Keys : call' = [call EXCEPT ![c] = [pc |-> "lock", key |-> k, sawDown |-> ~Answering(k)]]
  /\ UNCHANGED <<mainVars, cancelled, startVars, closed, lock, cache, clients, up, broken, crash>>

BeginCall(c) ==
  /\ server = "serving" /\ call[c].pc = "off"
  /\ \E k \in Keys : call' = [call EXCEPT ![c] = [pc |-> "lock", key |-> k, sawDown |-> ~Answering(k)]]
  /\ UNCHANGED <<mainVars, cancelled, startVars, closed, lock, cache, clients, up, broken, crash>>

\* Mutant: the lock is not held while a checker is made.
LookAtCache(c) ==
  /\ call[c].pc = "lock" /\ lock = NoLock
  /\ IF call[c].key \in cache
     THEN Become(c, "check") /\ UNCHANGED <<clients, broken>>
     ELSE Become(c, "create") /\ Dial(call[c].key)
  /\ UNCHANGED <<mainVars, cancelled, startVars, closed, lock, cache, up, crash>>

\* The lock is kept while a checker is made.
Lock(c) ==
  /\ call[c].pc = "lock" /\ lock = NoLock
  /\ IF call[c].key \in cache
     THEN Become(c, "check") /\ UNCHANGED <<lock, clients, broken>>
     ELSE Become(c, "create") /\ Dial(call[c].key) /\ lock' = c
  /\ UNCHANGED <<mainVars, cancelled, startVars, closed, cache, up, crash>>

\* Mutant: the error returns with the lock.
KeepsLock(c) ==
  LET k == call[c].key IN
  /\ call[c].pc = "create"
  /\ IF Answering(k)
     THEN Become(c, "check") /\ cache' = cache \cup {k} /\ lock' = NoLock /\ UNCHANGED <<clients, broken>>
     ELSE Become(c, "done") /\ CloseClient(k) /\ UNCHANGED <<cache, lock>>
  /\ UNCHANGED <<mainVars, cancelled, startVars, closed, up, crash>>

\* Mutant: a checker is cached though it could not be made.
CachesFailure(c) ==
  LET k == call[c].key IN
  /\ call[c].pc = "create"
  /\ cache' = cache \cup {k} /\ lock' = NoLock
  /\ Become(c, "check")
  /\ IF Answering(k) THEN UNCHANGED <<clients, broken>> ELSE CloseClient(k)
  /\ UNCHANGED <<mainVars, cancelled, startVars, closed, up, crash>>

\* NewExternalChecker closes its client when the health check fails; other
\* checkers are only made.
Create(c) ==
  LET k == call[c].key IN
  /\ call[c].pc = "create"
  /\ lock' = NoLock
  /\ IF Answering(k)
     THEN Become(c, "check") /\ cache' = cache \cup {k} /\ UNCHANGED <<clients, broken>>
     ELSE Become(c, "done") /\ CloseClient(k) /\ UNCHANGED cache
  /\ UNCHANGED <<mainVars, cancelled, startVars, closed, up, crash>>

\* Check: over a client that was closed nothing answers.
Works(k) == Answering(k) /\ (k \in External => clients[k] > 0)

Check(c) ==
  /\ call[c].pc = "check"
  /\ Become(c, IF Works(call[c].key) THEN "answered" ELSE "done")
  /\ UNCHANGED <<mainVars, cancelled, startVars, closed, lock, cache, clients, up, broken, crash>>

\* The answer: available after answered, not available or an error after done.
Answer(c) ==
  /\ call[c].pc \in {"answered", "done"}
  /\ call' = [call EXCEPT ![c] = Resting]
  /\ UNCHANGED <<mainVars, cancelled, startVars, closed, lock, cache, clients, up, broken, crash>>

\* An outage breaks the connection of an open client, and goes by.
Toggle(k) ==
  /\ up' = IF k \in up THEN up \ {k} ELSE up \cup {k}
  /\ broken' = IF k \in up /\ clients[k] > 0 THEN broken \cup {k} ELSE broken
  /\ call' = [c \in Calls |-> IF call[c].pc # "off" /\ call[c].key = k
                              THEN [call[c] EXCEPT !.sawDown = TRUE] ELSE call[c]]
  /\ UNCHANGED <<mainVars, cancelled, startVars, closed, lock, cache, clients, crash>>

\* The attempt to connect at the end of a backoff.
Reconnect(k) ==
  /\ k \in broken /\ k \in up
  /\ broken' = broken \ {k}
  /\ UNCHANGED <<mainVars, cancelled, startVars, closed, call, lock, cache, clients, up, crash>>

StarterStep == StartServer \/ BeginSweep \/ EndSweep \/ Loop \/ ReportError
MainStep == TakeError \/ GracefulStop \/ StopService \/ Linger
CallStep(c) == Lock(c) \/ Create(c) \/ Check(c) \/ Answer(c)

Step ==
  \/ StarterStep \/ Deadline \/ ScanCompletes \/ ScanAbandoned
  \/ MainStep \/ Serve \/ Signal \/ Expire
  \/ \E c \in Calls : BeginCall(c) \/ CallStep(c)
  \/ \E k \in External : Toggle(k) \/ Reconnect(k)

Alive == main # "exited" /\ ~crash

\* When main returns, or a goroutine panics, the process ends.
Next == Alive /\ Step

Spec == Init /\ [][Next]_vars

\* Goroutines run and time passes; a mutex starves nobody; a scan is only known
\* to end with its context (ICMPScan).
Fairness ==
  /\ WF_vars(Alive /\ StarterStep) /\ WF_vars(Alive /\ MainStep)
  /\ WF_vars(Alive /\ Deadline) /\ WF_vars(Alive /\ ScanAbandoned) /\ WF_vars(Alive /\ Expire)
  /\ \A c \in Calls : WF_vars(Alive /\ CallStep(c)) /\ SF_vars(Alive /\ Lock(c))

-----------------------------------------------------------------------------
(* Properties.                                                               *)

\* Calls that need the same checker at once make one of it: every client that
\* is open belongs to the cached checker of its key, or to the one that is being
\* made.
ClientsAccounted ==
  \A k \in Keys :
    clients[k] = IF k \in External /\ (k \in cache \/ (\E c \in Calls : lock = c /\ call[c].key = k))
                 THEN 1 ELSE 0

\* A service is reported as not available only if, while the call was under way,
\* it failed to answer, or the connection an outage broke since the client was
\* opened was not yet made again: never because an earlier call could not make
\* its checker, or because another one's client was closed.
DownWasSeen == \A c \in Calls : call[c].pc = "done" => call[c].sawDown

\* Every call is answered, though each waits for the one that makes a checker.
CallsAnswered == \A c \in Calls : call[c].pc # "off" ~> (call[c].pc = "off" \/ ~Alive)

\* A sweep ends, whether its scan does or not.
SweepEnds == starter = "sweep" ~> (starter # "sweep" \/ ~Alive)

\* After a signal the process ends, whatever the calls and the sweep are doing.
ShutdownEnds == main = "graceful" ~> ~Alive
=============================================================================
