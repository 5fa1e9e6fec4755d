---------------------------- MODULE PollerProofs ----------------------------
(* Theorems about Poller, for every set of agents, checks and connections   *)
(* and every number of attempts.                                            *)
EXTENDS Poller, FiniteSetTheorems, TLAPS

-----------------------------------------------------------------------------
(* The connections.                                                          *)

\* A dial keeps the open connections in the table, each for one agent.
LEMMA DialKeepsConns ==
  ASSUME ConnsInTable, NEW then, Dial(then)
  PROVE  ConnsInTable'
<1>1. PICK c \in Fresh :
        /\ open' = (open \ {table[b] : b \in DOMAIN table \cap {at}}) \cup {c}
        /\ table' = [b \in DOMAIN table \cup {at} |-> IF b = at THEN c ELSE table[b]]
  BY DEF Dial
<1>2. \A b \in DOMAIN table : table[b] # c
  BY <1>1 DEF Fresh, Range
<1>3. DOMAIN table' = DOMAIN table \cup {at}
  BY <1>1
<1>4. /\ table'[at] = c
      /\ \A b \in DOMAIN table \ {at} : table'[b] = table[b]
  BY <1>1
<1>5. ASSUME NEW x \in open' PROVE x \in Range(table')
  <2>1. CASE x = c
    BY <2>1, <1>3, <1>4 DEF Range
  <2>2. CASE x # c
    <3>1. x \in open /\ x \notin {table[b] : b \in DOMAIN table \cap {at}}
      BY <2>2, <1>1
    <3>2. PICK b \in DOMAIN table : x = table[b]
      BY <3>1 DEF ConnsInTable, Range
    <3>3. b # at
      BY <3>1, <3>2
    <3> QED
      BY <3>2, <3>3, <1>3, <1>4 DEF Range
  <2> QED
    BY <2>1, <2>2
<1>6. ASSUME NEW a \in DOMAIN table', NEW b \in DOMAIN table', a # b
      PROVE  table'[a] # table'[b]
  BY <1>2, <1>3, <1>4, <1>6 DEF ConnsInTable
<1> QED
  BY <1>5, <1>6 DEF ConnsInTable

\* A step that closes connections and leaves the table alone keeps the rest.
LEMMA ClosingKeepsConns ==
  ASSUME ConnsInTable, open' \subseteq open, UNCHANGED table
  PROVE  ConnsInTable'
BY DEF ConnsInTable

\* No connection is lost, whatever dials fail and whenever Stop and Close run
\* beside a poll: reconnectAgent, Stop and Close find every open connection.
THEOREM ConnectionsNeverLost == Spec => []ConnsInTable
<1>1. Init => ConnsInTable
  BY DEF Init, ConnsInTable, IsInjective
<1>2. ConnsInTable /\ [Next]_vars => ConnsInTable'
  <2> SUFFICES ASSUME ConnsInTable, [Next]_vars PROVE ConnsInTable'
    OBVIOUS
  <2>1. CASE UNCHANGED vars
    BY <2>1, ClosingKeepsConns DEF vars, connVars
  <2>2. CASE BeginPoll \/ Cancel \/ PollStep \/ \E a \in Agents : Toggle(a)
    <3>1. UNCHANGED connVars
      BY <2>2 DEF BeginPoll, Cancel, PollStep, Toggle, NextAgent, GetAgain, CheckHealth,
         FetchConn, ExecuteCheck, CollectChecks, BeginReport, RetryReport, EndReport
    <3> QED
      BY <3>1, ClosingKeepsConns DEF connVars
  <2>3. CASE Redial
    BY <2>3, DialKeepsConns DEF Redial
  <2>4. CASE DialFails
    BY <2>4, ClosingKeepsConns DEF DialFails
  <2>5. CASE Stop
    <3>1. open' = {} /\ DOMAIN table' = {}
      BY <2>5 DEF Stop, ConnsInTable
    <3> QED
      BY <3>1 DEF ConnsInTable
  <2>6. CASE Close
    BY <2>6, ClosingKeepsConns DEF Close
  <2> QED
    BY <2>1, <2>2, <2>3, <2>4, <2>5, <2>6 DEF Next, Step
<1> QED
  BY <1>1, <1>2, PTL DEF Spec

-----------------------------------------------------------------------------
(* What a status says.                                                       *)

\* What the poll knows of the agent it is at, until the context is cancelled.
PollKnows ==
  ~cancelled =>
    /\ phase \in {"get", "fetch"} => at \in DOMAIN table /\ table[at] \in open
    /\ phase = "health" => at \in DOMAIN table /\ conn = table[at]
    /\ phase = "ensure" => conn \in open
    /\ phase = "stale" => at \in sawDown
    /\ phase = "checks" => conn \in open \/ at \in sawDown

DownInv == PollKnows /\ DownWasSeen

\* A dial leaves an open connection of the agent in the table.
LEMMA DialOpens ==
  ASSUME NEW then, Dial(then)
  PROVE  /\ at \in DOMAIN table' /\ table'[at] \in open' /\ phase' = then
         /\ UNCHANGED <<statuses, sawDown, at, conn, cancelled>>
BY DEF Dial, pollVars

\* Before the context is cancelled no connection is closed but by a dial.
LEMMA KnowledgeKept ==
  ASSUME DownInv, [Next]_vars
  PROVE  PollKnows'
<1> SUFFICES ASSUME ~cancelled' PROVE PollKnows'
  BY DEF PollKnows
<1>1. CASE UNCHANGED vars
  BY <1>1 DEF vars, connVars, pollVars, DownInv, PollKnows
<1>2. CASE BeginPoll \/ Cancel \/ NextAgent \/ CollectChecks \/ BeginReport \/ RetryReport \/ EndReport
  <2>1. CASE BeginPoll \/ NextAgent \/ CollectChecks \/ EndReport
    BY <2>1 DEF BeginPoll, NextAgent, CollectChecks, EndReport, connVars, pollVars, PollKnows
  <2>2. CASE BeginReport
    BY <2>2 DEF BeginReport, connVars, PollKnows
  <2>3. CASE RetryReport
    BY <2>3 DEF RetryReport, connVars, PollKnows
  <2>4. CASE Cancel
    BY <2>4 DEF Cancel
  <2> QED
    BY <1>2, <2>1, <2>2, <2>3, <2>4
<1>3. CASE \E a \in Agents : Toggle(a)
  BY <1>3 DEF Toggle, connVars, pollVars, DownInv, PollKnows
<1>4. CASE GetAgain
  BY <1>4 DEF GetAgain, connVars, DownInv, PollKnows
<1>5. CASE CheckHealth
  BY <1>5 DEF CheckHealth, Answers, NoAnswer, connVars, DownInv, PollKnows
<1>6. CASE FetchConn
  BY <1>6 DEF FetchConn, connVars, DownInv, PollKnows
<1>7. CASE \E k \in Checks : ExecuteCheck(k)
  BY <1>7 DEF ExecuteCheck, Answers, NoAnswer, connVars, DownInv, PollKnows
<1>8. CASE Redial
  <2>1. CASE phase = "missing" /\ Dial("get")
    BY <2>1, DialOpens DEF PollKnows
  <2>2. CASE phase = "unhealthy" /\ Dial("fetch")
    BY <2>2, DialOpens DEF PollKnows
  <2>3. CASE phase = "stale" /\ Dial("checks")
    BY <2>3, DialOpens DEF PollKnows, DownInv
  <2> QED
    BY <1>8, <2>1, <2>2, <2>3 DEF Redial
<1>9. CASE DialFails
  BY <1>9 DEF DialFails, PollKnows
<1>10. CASE Stop \/ Close
  BY <1>10 DEF Stop, Close
<1> QED
  BY <1>1, <1>2, <1>3, <1>4, <1>5, <1>6, <1>7, <1>8, <1>9, <1>10 DEF Next, Step, PollStep

\* A status without an answer is made only by a call the agent did not answer,
\* and sawDown keeps the agent until the report is over.
LEMMA StatusesKept ==
  ASSUME DownInv, [Next]_vars
  PROVE  DownWasSeen'
<1>1. CASE \E k \in Checks : ExecuteCheck(k)
  <2>1. PICK k \in Checks : ExecuteCheck(k)
    BY <1>1
  <2>2. sawDown \subseteq sawDown' /\ UNCHANGED <<cancelled, at>>
    BY <2>1 DEF ExecuteCheck, NoAnswer
  <2>3. ASSUME ~Answers, ~cancelled PROVE at \in sawDown'
    BY <2>1, <2>3 DEF ExecuteCheck, Answers, NoAnswer, DownInv, PollKnows
  <2>4. ASSUME NEW s \in statuses', ~s.reached PROVE s.agent \in sawDown' \/ cancelled'
    <3>1. CASE s \in statuses
      BY <3>1, <2>2, <2>4 DEF DownInv, DownWasSeen
    <3>2. CASE s = [agent |-> at, check |-> k, reached |-> Answers]
      BY <3>2, <2>2, <2>3, <2>4
    <3> QED
      BY <2>1, <3>1, <3>2 DEF ExecuteCheck
  <2> QED
    BY <2>4 DEF DownWasSeen
<1>2. CASE EndReport
  BY <1>2 DEF EndReport, DownWasSeen
<1>3. CASE CheckHealth
  BY <1>3 DEF CheckHealth, NoAnswer, DownInv, DownWasSeen
<1>4. CASE Redial
  <2>1. UNCHANGED <<statuses, sawDown, cancelled>>
    BY <1>4, DialOpens DEF Redial
  <2> QED
    BY <2>1 DEF DownInv, DownWasSeen
<1>5. CASE Cancel \/ Stop \/ Close
  <2>1. cancelled' = TRUE \/ UNCHANGED cancelled
    BY <1>5 DEF Cancel, Stop, Close
  <2>2. UNCHANGED pollVars
    BY <1>5 DEF Cancel, Stop, Close
  <2> QED
    BY <2>1, <2>2 DEF pollVars, DownInv, DownWasSeen
<1>6. CASE \/ UNCHANGED vars \/ BeginPoll \/ NextAgent \/ GetAgain \/ FetchConn \/ CollectChecks
           \/ BeginReport \/ RetryReport \/ DialFails \/ \E a \in Agents : Toggle(a)
  <2>1. UNCHANGED <<statuses, sawDown, cancelled>>
    BY <1>6 DEF vars, pollVars, BeginPoll, NextAgent, GetAgain, FetchConn, CollectChecks,
       BeginReport, RetryReport, DialFails, Toggle
  <2> QED
    BY <2>1 DEF DownInv, DownWasSeen
<1> QED
  BY <1>1, <1>2, <1>3, <1>4, <1>5, <1>6 DEF Next, Step, PollStep

\* No connection left over from an earlier poll makes an agent in good health
\* look dead: the statuses of ServicePoller.execute say that an agent was not
\* reached only if it left a call of this poll without an answer, or the
\* poller is being shut down.
THEOREM OnlyDownIsReported == Spec => []DownWasSeen
<1>1. Init => DownInv
  BY DEF Init, DownInv, PollKnows, DownWasSeen
<1>2. DownInv /\ [Next]_vars => DownInv'
  BY KnowledgeKept, StatusesKept DEF DownInv
<1>3. DownInv => DownWasSeen
  BY DEF DownInv
<1> QED
  BY <1>1, <1>2, <1>3, PTL DEF Spec

-----------------------------------------------------------------------------
(* What a report holds.                                                      *)

\* The statuses of this poll, by agent and check.
StatusesOf(a, k) == {s \in {t \in statuses : t.agent = a} : s.check = k}
NoneOf(a) == \A k \in Checks : StatusesOf(a, k) = {}
Whole(a) == NoneOf(a) \/ \A k \in Checks : Cardinality(StatusesOf(a, k)) = 1

\* The agents of the poll are done or not begun; the one it is at is half done.
OthersWhole ==
  phase # "idle" =>
    /\ todo \subseteq Agents
    /\ \A a \in todo : NoneOf(a)
    /\ \A a \in Agents : a # at => Whole(a)

CurrentKnown ==
  /\ phase \in {"next", "report"} => Whole(at)
  /\ phase \in {"get", "missing", "health", "unhealthy", "fetch", "ensure", "stale"} =>
       at \in Agents \ todo /\ NoneOf(at) /\ pending = Checks
  /\ phase = "checks" =>
       /\ at \in Agents \ todo
       /\ pending \subseteq Checks
       /\ \A k \in pending : StatusesOf(at, k) = {}
       /\ \A k \in Checks \ pending : Cardinality(StatusesOf(at, k)) = 1

Phases == {"idle", "next", "get", "missing", "health", "unhealthy", "fetch", "ensure",
           "stale", "checks", "report"}

Typed ==
  /\ statuses \subseteq [agent : Agents, check : Checks, reached : BOOLEAN]
  /\ at \in Agents /\ phase \in Phases
  /\ phase = "idle" => statuses = {}

ReportInv == Typed /\ OthersWhole /\ CurrentKnown

\* An answer adds one status, of the check it is of.
LEMMA CheckAddsOne ==
  ASSUME ReportInv, NEW k \in Checks, ExecuteCheck(k)
  PROVE  /\ \A a \in Agents, j \in Checks :
              (a # at \/ j # k) => StatusesOf(a, j)' = StatusesOf(a, j)
         /\ Cardinality(StatusesOf(at, k)') = 1
         /\ statuses' \subseteq [agent : Agents, check : Checks, reached : BOOLEAN]
<1> DEFINE new == [agent |-> at, check |-> k, reached |-> Answers]
<1>1. statuses' = statuses \cup {new}
  BY DEF ExecuteCheck
<1>2. new.agent = at /\ new.check = k
  OBVIOUS
<1>3. new \in [agent : Agents, check : Checks, reached : BOOLEAN]
  BY DEF ReportInv, Typed, Answers
<1>4. StatusesOf(at, k) = {}
  BY DEF ExecuteCheck, ReportInv, CurrentKnown
<1> HIDE DEF new
<1>5. \A a \in Agents, j \in Checks :
        (a # at \/ j # k) => StatusesOf(a, j)' = StatusesOf(a, j)
  BY <1>1, <1>2 DEF StatusesOf
<1>6. StatusesOf(at, k)' = {new}
  <2>1. at' = at
    BY DEF ExecuteCheck
  <2> QED
    BY <1>1, <1>2, <1>4, <2>1 DEF StatusesOf
<1>7. statuses' \subseteq [agent : Agents, check : Checks, reached : BOOLEAN]
  BY <1>1, <1>3 DEF ReportInv, Typed
<1> QED
  BY <1>5, <1>6, <1>7, FS_Singleton

\* A poll keeps the statuses of each agent whole.
LEMMA WholenessKept ==
  ASSUME ReportInv, [Next]_vars
  PROVE  ReportInv'
<1> USE DEF ReportInv, Typed, OthersWhole, CurrentKnown, Phases
<1>1. ASSUME NEW k \in Checks, ExecuteCheck(k) PROVE ReportInv'
  <2>1. /\ phase = "checks" /\ phase' = "checks" /\ k \in pending
        /\ pending' = pending \ {k} /\ UNCHANGED <<todo, at>>
    BY <1>1 DEF ExecuteCheck
  <2>2. \A a \in Agents : a # at => (NoneOf(a) => NoneOf(a)') /\ (Whole(a) => Whole(a)')
    BY <1>1, CheckAddsOne DEF NoneOf, Whole
  <2>3. /\ \A j \in pending' : StatusesOf(at, j)' = {}
        /\ \A j \in Checks \ pending' : Cardinality(StatusesOf(at, j)') = 1
    BY <1>1, <2>1, CheckAddsOne
  <2>4. Typed'
    BY <1>1, <2>1, CheckAddsOne
  <2> QED
    BY <2>1, <2>2, <2>3, <2>4 DEF StatusesOf
<1>2. CASE EndReport
  <2>1. phase' = "idle" /\ statuses' = {} /\ at' = at
    BY <1>2 DEF EndReport
  <2> QED
    BY <2>1
<1>3. ASSUME ~ \E k \in Checks : ExecuteCheck(k), ~EndReport
      PROVE  ReportInv'
  <2>1. UNCHANGED statuses
    BY <1>3 DEF Next, Step, PollStep, vars, pollVars, BeginPoll, NextAgent, GetAgain, CheckHealth,
       FetchConn, CollectChecks, BeginReport, RetryReport, Redial, Dial, DialFails, Cancel,
       Stop, Close, Toggle
  <2>2. \A a : (NoneOf(a)' <=> NoneOf(a)) /\ (Whole(a)' <=> Whole(a))
    BY <2>1 DEF NoneOf, Whole, StatusesOf
  <2>3. CASE BeginPoll
    <3>1. \A a \in Agents : NoneOf(a)
      BY <2>3 DEF BeginPoll, NoneOf, StatusesOf
    <3> QED
      BY <2>1, <2>2, <2>3, <3>1 DEF BeginPoll, Whole
  <2>4. CASE NextAgent
    <3>1. PICK a \in todo : /\ at' = a /\ todo' = todo \ {a} /\ phase' \in {"health", "missing"}
                            /\ pending' = Checks /\ phase = "next"
      BY <2>4 DEF NextAgent
    <3>2. \A b \in Agents : Whole(b)
      BY <3>1
    <3> QED
      BY <2>1, <2>2, <3>1, <3>2
  <2>5. CASE CollectChecks
    <3>1. phase = "checks" /\ pending = {} /\ phase' = "next" /\ UNCHANGED <<at, todo>>
      BY <2>5 DEF CollectChecks, pollVars
    <3>2. Whole(at)
      BY <3>1 DEF Whole
    <3> QED
      BY <2>1, <2>2, <3>1, <3>2
  <2>6. CASE BeginReport
    BY <2>1, <2>2, <2>6 DEF BeginReport
  <2>7. CASE \/ GetAgain \/ CheckHealth \/ FetchConn \/ Redial \/ DialFails
    <3>1. /\ phase \in {"get", "missing", "health", "unhealthy", "fetch", "ensure", "stale"}
          /\ UNCHANGED <<at, todo, pending>>
      BY <2>7 DEF GetAgain, CheckHealth, FetchConn, Redial, Dial, DialFails, pollVars
    <3>2. phase' \in {"get", "next", "health", "unhealthy", "fetch", "ensure", "stale", "checks"}
      BY <2>7 DEF GetAgain, CheckHealth, FetchConn, Redial, Dial, DialFails
    <3>3. Whole(at) /\ \A k \in Checks : StatusesOf(at, k) = {}
      BY <3>1 DEF NoneOf, Whole
    <3> QED
      BY <2>1, <2>2, <3>1, <3>2, <3>3 DEF StatusesOf
  <2>8. CASE \/ UNCHANGED vars \/ RetryReport \/ Cancel \/ Stop \/ Close \/ \E a \in Agents : Toggle(a)
    <3>1. UNCHANGED <<phase, at, todo, pending, statuses>>
      BY <2>8 DEF vars, pollVars, RetryReport, Cancel, Stop, Close, Toggle
    <3> QED
      BY <2>2, <3>1 DEF StatusesOf
  <2> QED
    BY <1>3, <2>3, <2>4, <2>5, <2>6, <2>7, <2>8 DEF Next, Step, PollStep
<1> QED
  BY <1>1, <1>2, <1>3

\* Whatever fails, and wherever a shutdown falls, what reportToCloud sends has
\* one status of every check of an agent or none of the agent: ExecuteChecks
\* returns no half of an agent's services.
THEOREM ReportsAreComplete == Spec => []ReportComplete
<1>1. Init => ReportInv
  BY DEF Init, ReportInv, Typed, Phases, OthersWhole, CurrentKnown
<1>2. ReportInv /\ [Next]_vars => ReportInv'
  BY WholenessKept
<1>3. ReportInv => ReportComplete
  <2> SUFFICES ASSUME ReportInv, phase = "report", NEW a \in Agents,
                      {s \in statuses : s.agent = a} # {}
               PROVE  \A k \in Checks : Cardinality(StatusesOf(a, k)) = 1
    BY DEF ReportComplete, StatusesOf
  <2>1. Whole(a)
    BY DEF ReportInv, OthersWhole, CurrentKnown
  <2>2. PICK s \in statuses : s.agent = a
    OBVIOUS
  <2>3. s.check \in Checks
    BY <2>2 DEF ReportInv, Typed
  <2>4. s \in StatusesOf(a, s.check)
    BY <2>2 DEF StatusesOf
  <2> QED
    BY <2>1, <2>3, <2>4 DEF Whole, NoneOf
<1> QED
  BY <1>1, <1>2, <1>3, PTL DEF Spec
=============================================================================
