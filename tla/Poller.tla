------------------------------- MODULE Poller -------------------------------
(***************************************************************************)
(* The poller (pkg/poller/poller.go): its poll cycle over the agents, the  *)
(* table of agent connections that Stop and Close share with it, the       *)
(* checks of an agent, which run at the same time, and the report to the   *)
(* cloud with the retries of the gRPC client (pkg/grpc/client.go).         *)
(***************************************************************************)
EXTENDS Naturals, FiniteSets, Functions

CONSTANTS
  Agents,     \* Config.Agents
  Checks,     \* the checks of each agent
  Conns,      \* gRPC connections that may exist at once: numbers from 1
  Attempts    \* defaultMaxRetries

VARIABLES
  up,          \* the agents that answer
  table,       \* Poller.agents: the connection of each agent in it
  open,        \* connections not closed
  phase,       \* where the goroutine of Start is: idle, next (agent), get, missing,
               \* health, unhealthy, fetch, ensure, stale, checks, report
  todo,        \* agents the poll has not come to
  at, conn,    \* the agent it is at, and the connection it holds (0: none)
  pending,     \* checks not answered yet
  statuses,    \* the statuses of this poll: [agent, check, reached]
  sawDown,     \* agents that did not answer some call of this poll (history)
  attempt,     \* of the report
  cancelled,   \* the context of Start
  stopped,     \* Stop has closed everything: the table is empty, cloudClient is nil
  crash        \* a nil pointer was followed

connVars == <<table, open>>
pollVars == <<todo, at, conn, pending, statuses, sawDown, attempt>>
vars == <<up, connVars, phase, pollVars, cancelled, stopped, crash>>

\* New has dialled every agent.
Init ==
  /\ up \in SUBSET Agents
  /\ table \in {f \in [Agents -> 1..Cardinality(Agents)] : IsInjective(f)} /\ open = Range(table)
  /\ phase = "idle" /\ todo = {} /\ at \in Agents /\ conn = 0
  /\ pending = {} /\ statuses = {} /\ sawDown = {} /\ attempt = 0
  /\ cancelled = FALSE /\ stopped = FALSE /\ crash = FALSE

\* After the cancel it makes no difference.
Toggle(a) ==
  /\ ~cancelled
  /\ up' = IF a \in up THEN up \ {a} ELSE up \cup {a}
  /\ UNCHANGED <<connVars, phase, pollVars, cancelled, stopped, crash>>

\* A call over the connection that is held.
Answers == conn \in open /\ at \in up /\ ~cancelled
NoAnswer == sawDown' = IF at \in up THEN sawDown ELSE sawDown \cup {at}

-----------------------------------------------------------------------------
(* reconnectAgent, under the lock.                                           *)

Fresh == {c \in Conns : c \notin open \cup Range(table) \cup {conn}}

\* Mutant: the new connection is made, and the table keeps the old one.
DialForgets(then) ==
  /\ \E c \in Fresh : \A d \in Fresh : c <= d
  /\ \E c \in Fresh :
       /\ \A d \in Fresh : c <= d
       /\ open' = (open \ {table[b] : b \in DOMAIN table \cap {at}}) \cup {c}
       /\ UNCHANGED table
  /\ phase' = then
  /\ UNCHANGED <<up, pollVars, cancelled, stopped, crash>>

Dial(then) ==
  /\ \E c \in Fresh :
       /\ \A d \in Fresh : c <= d
       /\ open' = (open \ {table[b] : b \in DOMAIN table \cap {at}}) \cup {c}
       /\ table' = [b \in DOMAIN table \cup {at} |-> IF b = at THEN c ELSE table[b]]
  /\ phase' = then
  /\ UNCHANGED <<up, pollVars, cancelled, stopped, crash>>

\* The old connection is closed before the dial fails, and stays in the table.
DialFails ==
  /\ phase \in {"missing", "unhealthy", "stale"}
  /\ open' = open \ {table[b] : b \in DOMAIN table \cap {at}}
  /\ phase' = "next"
  /\ UNCHANGED <<up, table, pollVars, cancelled, stopped, crash>>

\* The three places it is called from: poll for an agent that is not in the
\* table, poll after its health check, and ensureAgentHealth; after that one
\* pollAgent goes on with the connection that was just closed.
Redial ==
  \/ phase = "missing" /\ Dial("get")
  \/ phase = "unhealthy" /\ Dial("fetch")
  \/ phase = "stale" /\ Dial("checks")

-----------------------------------------------------------------------------
(* poll and pollAgent.                                                       *)

\* The ticker, or Start's first poll.
BeginPoll ==
  /\ phase = "idle" /\ ~cancelled
  /\ phase' = "next" /\ todo' = Agents
  /\ UNCHANGED <<up, connVars, at, conn, pending, statuses, sawDown, attempt, cancelled, stopped, crash>>

NextAgent ==
  /\ phase = "next"
  /\ \E a \in todo :
       /\ at' = a /\ todo' = todo \ {a}
       /\ conn' = IF a \in DOMAIN table THEN table[a] ELSE 0
       /\ phase' = IF a \in DOMAIN table THEN "health" ELSE "missing"
  /\ pending' = Checks
  /\ UNCHANGED <<up, connVars, statuses, sawDown, attempt, cancelled, stopped, crash>>

\* poll gets the connection it has just made; its error is ignored.
GetAgain ==
  /\ phase = "get"
  /\ IF at \in DOMAIN table
     THEN conn' = table[at] /\ phase' = "health" /\ UNCHANGED crash
     ELSE crash' = TRUE /\ UNCHANGED <<conn, phase>>
  /\ UNCHANGED <<up, connVars, todo, at, pending, statuses, sawDown, attempt, cancelled, stopped>>

\* CheckHealth, of poll and of ensureAgentHealth.
CheckHealth ==
  /\ phase \in {"health", "ensure"}
  /\ IF Answers
     THEN phase' = (IF phase = "health" THEN "fetch" ELSE "checks") /\ UNCHANGED sawDown
     ELSE phase' = (IF phase = "health" THEN "unhealthy" ELSE "stale") /\ NoAnswer
  /\ UNCHANGED <<up, connVars, todo, at, conn, pending, statuses, attempt, cancelled, stopped, crash>>

\* getAgentConnection of pollAgent.
FetchConn ==
  /\ phase = "fetch"
  /\ IF at \in DOMAIN table
     THEN conn' = table[at] /\ phase' = "ensure"
     ELSE phase' = "next" /\ UNCHANGED conn
  /\ UNCHANGED <<up, connVars, todo, at, pending, statuses, sawDown, attempt, cancelled, stopped, crash>>

\* execute: an error becomes a status that is not available.
ExecuteCheck(k) ==
  /\ phase = "checks" /\ k \in pending
  /\ pending' = pending \ {k}
  /\ statuses' = statuses \cup {[agent |-> at, check |-> k, reached |-> Answers]}
  /\ IF Answers THEN UNCHANGED sawDown ELSE NoAnswer
  /\ UNCHANGED <<up, connVars, phase, todo, at, conn, attempt, cancelled, stopped, crash>>

\* Mutant: the results are collected before every check has answered.
CollectEarly ==
  /\ phase = "checks"
  /\ phase' = "next"
  /\ UNCHANGED <<up, connVars, pollVars, cancelled, stopped, crash>>

\* ExecuteChecks returns when the results channel is closed.
CollectChecks ==
  /\ phase = "checks" /\ pending = {}
  /\ phase' = "next"
  /\ UNCHANGED <<up, connVars, pollVars, cancelled, stopped, crash>>

-----------------------------------------------------------------------------
(* reportToCloud.                                                            *)

\* cloudClient is read without the lock; Stop sets it to nil.
BeginReport ==
  /\ phase = "next" /\ todo = {}
  /\ IF stopped THEN crash' = TRUE /\ UNCHANGED <<phase, attempt>>
     ELSE phase' = "report" /\ attempt' = 1 /\ UNCHANGED crash
  /\ UNCHANGED <<up, connVars, todo, at, conn, pending, statuses, sawDown, cancelled, stopped>>

\* Mutant: the retries start over and over.
RetryAlways ==
  /\ phase = "report"
  /\ attempt' = (attempt % Attempts) + 1
  /\ UNCHANGED <<up, connVars, phase, todo, at, conn, pending, statuses, sawDown, cancelled, stopped, crash>>

\* RetryInterceptor tries again whatever went wrong.
RetryReport ==
  /\ phase = "report" /\ attempt < Attempts
  /\ attempt' = attempt + 1
  /\ UNCHANGED <<up, connVars, phase, todo, at, conn, pending, statuses, sawDown, cancelled, stopped, crash>>

\* An answer, or the last error; the poll is over.
EndReport ==
  /\ phase = "report" /\ (~cancelled \/ attempt = Attempts)
  /\ phase' = "idle" /\ attempt' = 0 /\ conn' = 0 /\ statuses' = {} /\ sawDown' = {}
  /\ UNCHANGED <<up, connVars, todo, at, pending, cancelled, stopped, crash>>

-----------------------------------------------------------------------------
(* The end: the lifecycle cancels the context, then it calls Stop.           *)

Cancel ==
  /\ ~cancelled
  /\ cancelled' = TRUE
  /\ UNCHANGED <<up, connVars, phase, pollVars, stopped, crash>>

Stop ==
  /\ cancelled /\ ~stopped
  /\ stopped' = TRUE
  /\ open' = open \ Range(table)
  /\ table' = [a \in {} |-> 0]
  /\ UNCHANGED <<up, phase, pollVars, cancelled, crash>>

\* Close leaves the table as it is.
Close ==
  /\ cancelled /\ open # {}
  /\ open' = open \ Range(table)
  /\ UNCHANGED <<up, table, phase, pollVars, cancelled, stopped, crash>>

PollStep ==
  \/ NextAgent \/ GetAgain \/ CheckHealth \/ FetchConn
  \/ CollectChecks \/ BeginReport \/ RetryReport \/ EndReport
  \/ \E k \in Checks : ExecuteCheck(k)

Step ==
  \/ BeginPoll \/ PollStep \/ Redial \/ DialFails \/ Cancel \/ Stop \/ Close
  \/ \E a \in Agents : Toggle(a)

\* A panic ends the process.
Next == ~crash /\ Step

Spec == Init /\ [][Next]_vars

\* The ticker ticks and the poll goes on; a dial does not wait for the agent, so
\* that it does not fail for ever.
Fairness ==
  /\ WF_vars(~crash /\ BeginPoll) /\ WF_vars(~crash /\ PollStep)
  /\ WF_vars(~crash /\ (Redial \/ DialFails)) /\ \A a \in Agents : SF_vars(~crash /\ at = a /\ Redial)
  /\ WF_vars(~crash /\ EndReport)

-----------------------------------------------------------------------------
(* Properties.                                                               *)

\* No connection is lost: each open one is in the table, for one agent, so that
\* a reconnect, Stop or Close finds it.
ConnsInTable ==
  /\ open \subseteq Range(table)
  /\ \A a, b \in DOMAIN table : a # b => table[a] # table[b]

\* The services of an agent are reported as not reached only if the agent left a
\* call of the same poll without an answer, or the poller is being shut down:
\* no connection left by an earlier poll makes a healthy agent look dead.
DownWasSeen == \A s \in statuses : ~s.reached => s.agent \in sawDown \/ cancelled

\* A report has one status of every check of an agent, or none of the agent.
ReportComplete ==
  phase = "report" =>
    \A a \in Agents :
      LET Of == {s \in statuses : s.agent = a} IN
      Of = {} \/ \A k \in Checks : Cardinality({s \in Of : s.check = k}) = 1

\* Every poll ends, whatever agents do.
PollEnds == phase # "idle" ~> (phase = "idle" \/ crash)

\* An agent that stays up is reported as reached again and again, whatever
\* happened to its connections before.
Recovers ==
  \A a \in Agents :
    (<>[](a \in up /\ ~cancelled)) =>
      []<>(phase = "report" /\ \A k \in Checks : [agent |-> a, check |-> k, reached |-> TRUE] \in statuses)
=============================================================================
