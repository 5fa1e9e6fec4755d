----------------------------- MODULE NodeStore ------------------------------
(***************************************************************************)
(* The database of the cloud (pkg/db/db.go) with several goroutines at it: *)
(* the transactions of DB.UpdateNodeStatus, of Server.updateNodeStatus     *)
(* (pkg/cloud/server.go) and of CleanOldData, statement by statement, and  *)
(* UpdateServiceStatus, a statement of its own.  SQLite is external: one   *)
(* transaction writes at a time, its changes appear when it commits, a     *)
(* statement may fail (busy, disk), and a crash drops what is not          *)
(* committed.                                                              *)
(***************************************************************************)
EXTENDS Naturals, FiniteSets, FiniteSetsExt

CONSTANTS
  Writers,   \* goroutines: handlers of reports, the monitor
  Nodes,     \* node ids
  Health,    \* values of is_healthy: a subset of BOOLEAN
  Limit,     \* the limit of history queries
  MaxTime    \* bound on the clock

VARIABLES
  nodes, history, services,   \* the committed tables, as in NodeTables
  tx,       \* the transaction of a goroutine: [pc, op, node, status, cutoff]
  lock,     \* who may write: a goroutine, NoOne, or Lost: a transaction nobody ends
  staged,   \* the tables as the transaction that holds the lock has changed them
  row,      \* what a reader got from GetNodeStatus: [node, seen, healthy], or NoRow
  points,   \* what it got from GetNodeHistoryPoints afterwards, or NoPoints
  cleaned,  \* the latest cutoff of a CleanOldData that has committed
  clock

reader == <<row, points>>
vars == <<nodes, history, services, tx, lock, staged, reader, cleaned, clock>>

NoOne == "no one"
Lost == "lost"
Idle == [pc |-> "idle"]
NoRow == [node |-> "none"]
NoPoints == {NoRow}
Unstaged == [nodes |-> 0]
Committed == [nodes |-> nodes, history |-> history, services |-> services]

\* What the theorems assume.  A goroutine is neither of the two values of lock that name none.
ConstantsOK ==
  /\ NoOne \notin Writers /\ Lost \notin Writers
  /\ Health \subseteq BOOLEAN /\ MaxTime \in Nat \ {0}

\* The limit of a query is a number.
LimitOK == Limit \in Nat

Init ==
  /\ nodes = [n \in {} |-> 0] /\ history = {} /\ services = {}
  /\ tx = [w \in Writers |-> Idle] /\ lock = NoOne /\ staged = Unstaged
  /\ row = NoRow /\ points = NoPoints /\ cleaned = 0 /\ clock = 1

Tick ==
  /\ clock < MaxTime /\ clock' = clock + 1
  /\ UNCHANGED <<nodes, history, services, tx, lock, staged, reader, cleaned>>

-----------------------------------------------------------------------------
(* Statements.                                                               *)

\* UPDATE, and INSERT when no row was there.
PutNode(T, n, s) ==
  [T EXCEPT !.nodes = [m \in DOMAIN @ \cup {n} |-> IF m = n THEN s ELSE @[m]]]

AddHistory(T, n, s) ==
  [T EXCEPT !.history = @ \cup {[node |-> n, seen |-> s.seen, healthy |-> s.healthy]}]

\* Mutant: the rows of the cutoff go, too.
DeleteUpTo(T, t) == [T EXCEPT !.history = {r \in @ : r.seen > t}]

DeleteHistory(T, t) == [T EXCEPT !.history = {r \in @ : r.seen >= t}]
DeleteServices(T, t) == [T EXCEPT !.services = {r \in @ : r.seen >= t}]

First(x) == IF x.op = "clean" THEN DeleteHistory(Committed, x.cutoff) ELSE PutNode(Committed, x.node, x.status)
Second(x) == IF x.op = "clean" THEN DeleteServices(staged, x.cutoff) ELSE AddHistory(staged, x.node, x.status)

SetTables(T) == nodes' = T.nodes /\ history' = T.history /\ services' = T.services
KeepTables == UNCHANGED <<nodes, history, services>>

-----------------------------------------------------------------------------
(* Transactions.                                                             *)

BeginStatus(w) ==
  /\ tx[w] = Idle
  /\ \E op \in {"update", "server"}, n \in Nodes, b \in Health :
       tx' = [tx EXCEPT ![w] = [pc |-> "first", op |-> op, node |-> n,
                                status |-> [seen |-> clock, healthy |-> b]]]
  /\ KeepTables /\ UNCHANGED <<lock, staged, reader, cleaned, clock>>

BeginClean(w) ==
  /\ tx[w] = Idle
  /\ \E t \in 1..clock : tx' = [tx EXCEPT ![w] = [pc |-> "first", op |-> "clean", cutoff |-> t]]
  /\ KeepTables /\ UNCHANGED <<lock, staged, reader, cleaned, clock>>

FirstStatement(w) ==
  /\ tx[w].pc = "first" /\ lock = NoOne
  /\ lock' = w /\ staged' = First(tx[w])
  /\ tx' = [tx EXCEPT ![w].pc = "second"]
  /\ KeepTables /\ UNCHANGED <<reader, cleaned, clock>>

SecondStatement(w) ==
  /\ tx[w].pc = "second"
  /\ staged' = Second(tx[w])
  /\ tx' = [tx EXCEPT ![w].pc = "commit"]
  /\ KeepTables /\ UNCHANGED <<lock, reader, cleaned, clock>>

\* The end of a goroutine's transaction: committed, rolled back or, by
\* DB.UpdateNodeStatus, whose deferred rollbackOnError was given the error of
\* Begin, left open with what it holds.
Commits(w) ==
  /\ SetTables(IF lock = w THEN staged ELSE Committed)
  /\ cleaned' = IF lock = w /\ tx[w].op = "clean" /\ tx[w].cutoff > cleaned THEN tx[w].cutoff ELSE cleaned
RollsBack == KeepTables /\ UNCHANGED cleaned
LeavesLock(w, l) == IF lock = w THEN lock' = l /\ staged' = Unstaged ELSE UNCHANGED <<lock, staged>>
Ends(w) == LeavesLock(w, NoOne)
Leaks(w) == LeavesLock(w, Lost)

\* Mutant: a failure commits whatever was done, for every operation.
FailureCommits(w) ==
  /\ tx[w].pc \in {"first", "second"}
  /\ tx' = [tx EXCEPT ![w] = Idle]
  /\ Commits(w) /\ Ends(w)
  /\ UNCHANGED <<reader, clock>>

\* A statement fails.  The deferred function of CleanOldData looks at an error
\* its statements shadow: it commits.
Fails(w) ==
  /\ tx[w].pc \in {"first", "second"}
  /\ tx' = [tx EXCEPT ![w] = Idle]
  /\ \/ tx[w].op = "update" /\ RollsBack /\ Leaks(w)
     \/ tx[w].op = "server" /\ RollsBack /\ Ends(w)
     \/ tx[w].op = "clean" /\ Commits(w) /\ Ends(w)
  /\ UNCHANGED <<reader, clock>>

\* COMMIT succeeds, or fails and rolls back.
Commit(w) ==
  /\ tx[w].pc = "commit"
  /\ tx' = [tx EXCEPT ![w] = Idle]
  /\ Commits(w) \/ RollsBack
  /\ Ends(w)
  /\ UNCHANGED <<reader, clock>>

\* UpdateServiceStatus.  Only one connection of the pool checks the foreign key.
WriteService(n) ==
  /\ lock = NoOne
  /\ services' = services \cup {[node |-> n, seen |-> clock]}
  /\ UNCHANGED <<nodes, history, tx, lock, staged, reader, cleaned, clock>>

\* The process ends and starts again: SQLite drops what was not committed.
Restart ==
  /\ tx' = [w \in Writers |-> Idle] /\ lock' = NoOne /\ staged' = Unstaged /\ row' = NoRow /\ points' = NoPoints
  /\ KeepTables /\ UNCHANGED <<cleaned, clock>>

\* The queries read what is committed.
GetNodeStatus(n) ==
  /\ n \in DOMAIN nodes
  /\ row' = [node |-> n, seen |-> nodes[n].seen, healthy |-> nodes[n].healthy]
  /\ points' = NoPoints
  /\ KeepTables /\ UNCHANGED <<tx, lock, staged, cleaned, clock>>

Newest(rows, limit) ==
  {R \in SUBSET rows :
     /\ Cardinality(R) = Min({Cardinality(rows), limit})
     /\ \A x \in R, y \in rows \ R : y.seen <= x.seen}

GetNodeHistoryPoints ==
  /\ row # NoRow /\ points = NoPoints
  /\ points' \in Newest({r \in history : r.node = row.node}, Limit)
  /\ KeepTables /\ UNCHANGED <<tx, lock, staged, row, cleaned, clock>>

Next ==
  \/ \E w \in Writers :
       BeginStatus(w) \/ BeginClean(w) \/ FirstStatement(w) \/ SecondStatement(w) \/ Fails(w) \/ Commit(w)
  \/ \E n \in Nodes : WriteService(n) \/ GetNodeStatus(n)
  \/ GetNodeHistoryPoints
  \/ Restart \/ Tick

Spec == Init /\ [][Next]_vars

-----------------------------------------------------------------------------
(* Properties.                                                               *)

Tables == INSTANCE NodeTables WITH Times <- 1..MaxTime

\* Whatever statement fails, whichever transactions overlap and wherever the
\* process ends, a status is in both tables or in neither, and a cleanup takes
\* the old rows and no others.
ImplementsTables == Tables!TablesSpec

\* A reader that asks for a node's row and then for its history finds the row's
\* status there, unless it is too old for the retention, or more than Limit
\* points are as new: however the two queries lie between the writers' steps.
HistoryShowsStatus ==
  row # NoRow /\ points # NoPoints =>
    \/ row \in points
    \/ row.seen < cleaned
    \/ Cardinality(points) = Limit /\ \A r \in points : r.seen >= row.seen
=============================================================================
