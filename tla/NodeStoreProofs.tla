-------------------------- MODULE NodeStoreProofs ---------------------------
(* NodeStore implements NodeTables, for every set of writers and nodes.     *)
EXTENDS NodeStore, FiniteSetTheorems, TLAPS

Statuses == [seen : 1..MaxTime, healthy : BOOLEAN]

Transactions ==
  {Idle}
    \cup [pc : {"first", "second", "commit"}, op : {"update", "server"}, node : Nodes, status : Statuses]
    \cup [pc : {"first", "second", "commit"}, op : {"clean"}, cutoff : 1..MaxTime]

Typed ==
  /\ tx \in [Writers -> Transactions]
  /\ clock \in 1..MaxTime

\* One goroutine at most is past its first statement, the one that has the
\* lock; what it has staged follows from the committed tables, which nobody
\* changes meanwhile.
Final(x) ==
  IF x.op = "clean" THEN DeleteServices(First(x), x.cutoff) ELSE AddHistory(First(x), x.node, x.status)

Follows(w) ==
  /\ lock = w => tx[w].pc \in {"second", "commit"}
  /\ tx[w].pc = "second" => lock = w /\ staged = First(tx[w])
  /\ tx[w].pc = "commit" => lock = w /\ staged = Final(tx[w])

StagedFollows == \A w \in Writers : Follows(w)

StoreInv == Typed /\ StagedFollows

\* What holds the lock, or commits, is one of the transactions of StoreInv.
LEMMA IdleHoldsNothing ==
  ASSUME ConstantsOK, StoreInv, NEW w \in Writers, lock = NoOne \/ lock = Lost
  PROVE  tx[w].pc \notin {"second", "commit"}
BY DEF ConstantsOK, StoreInv, StagedFollows, Follows

\* An operation's fields.
LEMMA OperationFields ==
  ASSUME StoreInv, NEW w \in Writers, tx[w].pc # "idle"
  PROVE  \/ /\ tx[w].op \in {"update", "server"} /\ tx[w].node \in Nodes
            /\ tx[w].status \in Statuses
            /\ tx[w] \in [pc : {"first", "second", "commit"}, op : {"update", "server"}, node : Nodes, status : Statuses]
         \/ /\ tx[w].op = "clean" /\ tx[w].cutoff \in 1..MaxTime
            /\ tx[w] \in [pc : {"first", "second", "commit"}, op : {"clean"}, cutoff : 1..MaxTime]
<1>1. tx[w] \in Transactions /\ tx[w] # Idle
  BY DEF StoreInv, Typed, Idle
<1> QED
  BY <1>1 DEF Transactions

\* The transactions keep their types.
LEMMA TypesKept ==
  ASSUME ConstantsOK, StoreInv, [Next]_vars
  PROVE  Typed'
<1>1. CASE \E w \in Writers : BeginStatus(w)
  <2>1. PICK w \in Writers, op \in {"update", "server"}, n \in Nodes, b \in Health :
          /\ tx' = [tx EXCEPT ![w] = [pc |-> "first", op |-> op, node |-> n,
                                      status |-> [seen |-> clock, healthy |-> b]]]
          /\ clock' = clock
    BY <1>1 DEF BeginStatus
  <2>2. [seen |-> clock, healthy |-> b] \in Statuses
    BY DEF StoreInv, Typed, Statuses, ConstantsOK
  <2> QED
    BY <2>1, <2>2 DEF StoreInv, Typed, Transactions
<1>2. CASE \E w \in Writers : BeginClean(w)
  <2>1. PICK w \in Writers, t \in 1..clock :
          /\ tx' = [tx EXCEPT ![w] = [pc |-> "first", op |-> "clean", cutoff |-> t]]
          /\ clock' = clock
    BY <1>2 DEF BeginClean
  <2>2. t \in 1..MaxTime
    BY DEF StoreInv, Typed, ConstantsOK
  <2> QED
    BY <2>1, <2>2 DEF StoreInv, Typed, Transactions
<1>3. ASSUME NEW w \in Writers, FirstStatement(w) \/ SecondStatement(w) PROVE Typed'
  <2>1. PICK pc \in {"second", "commit"} :
          tx' = [tx EXCEPT ![w].pc = pc] /\ clock' = clock /\ tx[w].pc # "idle"
    BY <1>3 DEF FirstStatement, SecondStatement
  <2>2. [tx[w] EXCEPT !.pc = pc] \in Transactions
    BY <2>1, OperationFields DEF Transactions
  <2> QED
    BY <2>1, <2>2 DEF StoreInv, Typed
<1>4. CASE \E w \in Writers : Fails(w) \/ Commit(w)
  BY <1>4 DEF Fails, Commit, StoreInv, Typed, Transactions
<1>5. CASE Restart
  BY <1>5 DEF Restart, StoreInv, Typed, Transactions
<1>6. CASE Tick
  BY <1>6 DEF Tick, StoreInv, Typed, ConstantsOK
<1>7. CASE UNCHANGED vars \/ GetNodeHistoryPoints \/ \E n \in Nodes : WriteService(n) \/ GetNodeStatus(n)
  BY <1>7 DEF vars, GetNodeHistoryPoints, WriteService, GetNodeStatus, StoreInv, Typed
<1> QED
  BY <1>1, <1>2, <1>3, <1>4, <1>5, <1>6, <1>7 DEF Next

\* A transaction that is left alone, or is not past its first statement.
LEMMA FollowsKept ==
  ASSUME StoreInv, NEW w \in Writers,
         \/ tx'[w].pc \notin {"second", "commit"} /\ lock' # w
         \/ tx'[w] = tx[w] /\ KeepTables /\ UNCHANGED <<lock, staged>>
  PROVE  Follows(w)'
<1>1. CASE tx'[w].pc \notin {"second", "commit"} /\ lock' # w
  BY <1>1 DEF Follows
<1>2. CASE tx'[w] = tx[w] /\ KeepTables /\ UNCHANGED <<lock, staged>>
  <2>1. First(tx[w])' = First(tx[w]) /\ Final(tx[w])' = Final(tx[w])
    BY <1>2 DEF KeepTables, First, Final, Committed, PutNode, AddHistory, DeleteHistory, DeleteServices
  <2> QED
    BY <1>2, <2>1 DEF StoreInv, StagedFollows, Follows
<1> QED
  BY <1>1, <1>2

\* While a goroutine has the lock the committed tables do not change, and what it
\* has staged is what its statements make of them.
LEMMA StagedKept ==
  ASSUME ConstantsOK, StoreInv, [Next]_vars
  PROVE  StagedFollows'
<1> SUFFICES ASSUME NEW v \in Writers PROVE Follows(v)'
  BY DEF StagedFollows
<1>1. ASSUME NEW w \in Writers, BeginStatus(w) \/ BeginClean(w) PROVE Follows(v)'
  <2>1. /\ KeepTables /\ UNCHANGED <<lock, staged>>
        /\ \E x : x.pc = "first" /\ tx' = [tx EXCEPT ![w] = x]
        /\ tx[w] = Idle
    BY <1>1 DEF BeginStatus, BeginClean
  <2>2. lock # w
    BY <2>1 DEF StoreInv, StagedFollows, Follows, Idle
  <2> QED
    BY <2>1, <2>2, FollowsKept DEF StoreInv, Typed
<1>2. ASSUME NEW w \in Writers, FirstStatement(w) PROVE Follows(v)'
  <2>1. /\ lock = NoOne /\ lock' = w /\ staged' = First(tx[w])
        /\ tx' = [tx EXCEPT ![w].pc = "second"] /\ tx[w].pc = "first" /\ KeepTables
    BY <1>2 DEF FirstStatement
  <2>2. CASE v # w
    <3>1. tx'[v] = tx[v] /\ tx[v].pc \notin {"second", "commit"} /\ lock' # v
      BY <2>1, <2>2, IdleHoldsNothing DEF StoreInv, Typed
    <3> QED
      BY <3>1, FollowsKept
  <2>3. CASE v = w
    <3>1. tx'[w] = [tx[w] EXCEPT !.pc = "second"]
      BY <2>1 DEF StoreInv, Typed
    <3>2. tx'[w].pc = "second" /\ tx'[w].op = tx[w].op
      BY <2>1, <3>1, OperationFields
    <3>3. First(tx[w])' = First(tx[w])
      BY <2>1, <3>1, OperationFields DEF First, KeepTables, Committed, PutNode, DeleteHistory
    <3> QED
      BY <2>1, <2>3, <3>2, <3>3 DEF Follows
  <2> QED
    BY <2>2, <2>3
<1>3. ASSUME NEW w \in Writers, SecondStatement(w) PROVE Follows(v)'
  <2>1. /\ lock' = lock /\ staged' = Second(tx[w])
        /\ tx' = [tx EXCEPT ![w].pc = "commit"] /\ tx[w].pc = "second" /\ KeepTables
    BY <1>3 DEF SecondStatement
  <2>2. lock = w /\ staged = First(tx[w])
    BY <2>1 DEF StoreInv, StagedFollows, Follows
  <2>3. CASE v # w
    <3>1. tx'[v] = tx[v] /\ tx[v].pc \notin {"second", "commit"} /\ lock' # v
      BY <2>1, <2>2, <2>3 DEF StoreInv, Typed, StagedFollows, Follows
    <3> QED
      BY <3>1, FollowsKept
  <2>4. CASE v = w
    <3>1. tx'[w] = [tx[w] EXCEPT !.pc = "commit"]
      BY <2>1 DEF StoreInv, Typed
    <3>2. tx'[w].pc = "commit"
      BY <2>1, <3>1, OperationFields
    <3>3. Final(tx[w])' = Final(tx[w])
      BY <2>1, <3>1, OperationFields
         DEF Final, First, KeepTables, Committed, PutNode, AddHistory, DeleteHistory, DeleteServices
    <3>4. Second(tx[w]) = Final(tx[w])
      BY <2>2 DEF Second, Final
    <3> QED
      BY <2>1, <2>2, <2>4, <3>2, <3>3, <3>4 DEF Follows
  <2> QED
    BY <2>3, <2>4
<1>4. ASSUME NEW w \in Writers, Fails(w) \/ Commit(w) PROVE Follows(v)'
  <2>1. /\ tx' = [tx EXCEPT ![w] = Idle]
        /\ Commits(w) \/ RollsBack
        /\ Ends(w) \/ Leaks(w)
    BY <1>4 DEF Fails, Commit
  <2>2. CASE v = w \/ tx[v].pc \notin {"second", "commit"}
    <3>1. tx'[v].pc \notin {"second", "commit"}
      BY <2>1, <2>2 DEF StoreInv, Typed, Idle
    <3>2. lock' # v
      BY <2>1, <2>2 DEF Ends, Leaks, LeavesLock, ConstantsOK, StoreInv, StagedFollows, Follows
    <3> QED
      BY <3>1, <3>2, FollowsKept
  <2>3. CASE v # w /\ tx[v].pc \in {"second", "commit"}
    <3>1. lock # w
      BY <2>3 DEF StoreInv, StagedFollows, Follows
    <3>2. KeepTables /\ UNCHANGED <<lock, staged>>
      BY <2>1, <3>1 DEF Commits, RollsBack, SetTables, Committed, KeepTables, Ends, Leaks, LeavesLock
    <3> QED
      BY <2>1, <2>3, <3>2, FollowsKept DEF StoreInv, Typed
  <2> QED
    BY <2>2, <2>3
<1>5. CASE \E n \in Nodes : WriteService(n)
  <2>1. lock = NoOne /\ tx' = tx
    BY <1>5 DEF WriteService
  <2> QED
    BY <2>1, <1>5, FollowsKept, IdleHoldsNothing DEF WriteService, ConstantsOK
<1>6. CASE Restart
  BY <1>6, FollowsKept DEF Restart, Idle, ConstantsOK
<1>7. CASE UNCHANGED vars \/ Tick \/ GetNodeHistoryPoints \/ \E n \in Nodes : GetNodeStatus(n)
  <2>1. KeepTables /\ UNCHANGED <<tx, lock, staged>>
    BY <1>7 DEF vars, Tick, GetNodeHistoryPoints, GetNodeStatus, KeepTables
  <2> QED
    BY <2>1, FollowsKept
<1> QED
  BY <1>1, <1>2, <1>3, <1>4, <1>5, <1>6, <1>7 DEF Next

-----------------------------------------------------------------------------
(* The refinement.                                                           *)

\* What the end of a goroutine's transaction does to the tables: nothing, a
\* status in both, or the old rows gone from one or from two.
Nothing == KeepTables /\ UNCHANGED cleaned

Puts(n, b, t) ==
  /\ nodes' = [m \in DOMAIN nodes \cup {n} |-> IF m = n THEN [seen |-> t, healthy |-> b] ELSE nodes[m]]
  /\ history' = history \cup {[node |-> n, seen |-> t, healthy |-> b]}
  /\ UNCHANGED <<services, cleaned>>

Cleans(t) ==
  /\ history' = {r \in history : r.seen >= t}
  /\ services' \in {services, {r \in services : r.seen >= t}}
  /\ cleaned' = IF t > cleaned THEN t ELSE cleaned
  /\ UNCHANGED nodes

LEMMA EndMoves ==
  ASSUME ConstantsOK, StoreInv, NEW w \in Writers, Fails(w) \/ Commit(w)
  PROVE  \/ Nothing
         \/ \E n \in Nodes, b \in BOOLEAN, t \in 1..MaxTime : Puts(n, b, t)
         \/ \E t \in 1..MaxTime : Cleans(t)
<1>1. CASE RollsBack
  BY <1>1 DEF RollsBack, Nothing
<1>2. CASE Commits(w) /\ lock # w
  BY <1>2 DEF Commits, SetTables, Committed, Nothing, KeepTables
<1>3. CASE Commits(w) /\ lock = w /\ tx[w].pc = "second" /\ tx[w].op = "clean"
  <2>1. staged = DeleteHistory(Committed, tx[w].cutoff)
    BY <1>3 DEF StoreInv, StagedFollows, Follows, First
  <2>2. tx[w].cutoff \in 1..MaxTime
    BY <1>3, OperationFields
  <2>3. Cleans(tx[w].cutoff)
    BY <1>3, <2>1 DEF Commits, SetTables, DeleteHistory, Committed, Cleans
  <2> QED
    BY <2>2, <2>3
<1>4. CASE Commits(w) /\ lock = w /\ tx[w].pc = "commit" /\ tx[w].op = "clean"
  <2>1. staged = DeleteServices(DeleteHistory(Committed, tx[w].cutoff), tx[w].cutoff)
    BY <1>4 DEF StoreInv, StagedFollows, Follows, Final, First
  <2>2. tx[w].cutoff \in 1..MaxTime
    BY <1>4, OperationFields
  <2>3. Cleans(tx[w].cutoff)
    BY <1>4, <2>1 DEF Commits, SetTables, DeleteHistory, DeleteServices, Committed, Cleans
  <2> QED
    BY <2>2, <2>3
<1>5. CASE Commits(w) /\ lock = w /\ tx[w].pc = "commit" /\ tx[w].op # "clean"
  <2> DEFINE n == tx[w].node
             s == tx[w].status
  <2>1. staged = AddHistory(PutNode(Committed, n, s), n, s)
    BY <1>5 DEF StoreInv, StagedFollows, Follows, Final, First
  <2>2. n \in Nodes /\ s \in Statuses
    BY <1>5, OperationFields
  <2>3. s = [seen |-> s.seen, healthy |-> s.healthy] /\ s.seen \in 1..MaxTime /\ s.healthy \in BOOLEAN
    BY <2>2 DEF Statuses
  <2>4. cleaned' = cleaned
    BY <1>5 DEF Commits
  <2> HIDE DEF n, s
  <2>5. /\ nodes' = [m \in DOMAIN nodes \cup {n} |-> IF m = n THEN s ELSE nodes[m]]
        /\ history' = history \cup {[node |-> n, seen |-> s.seen, healthy |-> s.healthy]}
        /\ services' = services
    BY <1>5, <2>1 DEF Commits, SetTables, PutNode, AddHistory, Committed
  <2>6. Puts(n, s.healthy, s.seen)
    BY <2>3, <2>4, <2>5 DEF Puts
  <2> QED
    BY <2>2, <2>3, <2>6
<1>6. CASE Fails(w)
  <2>1. tx[w].pc \in {"first", "second"} /\ (RollsBack \/ (tx[w].op = "clean" /\ Commits(w)))
    BY <1>6 DEF Fails
  <2>2. tx[w].pc = "first" => lock # w
    BY DEF StoreInv, StagedFollows, Follows
  <2> QED
    BY <1>1, <1>2, <1>3, <2>1, <2>2
<1>7. CASE Commit(w)
  BY <1>1, <1>2, <1>4, <1>5, <1>7 DEF Commit
<1> QED
  BY <1>6, <1>7

\* What a goroutine commits is one step of the tables, or none.
LEMMA CommitsOneStep ==
  ASSUME ConstantsOK, StoreInv, NEW w \in Writers, Fails(w) \/ Commit(w)
  PROVE  Tables!TablesNext \/ UNCHANGED Tables!tables
<1>1. CASE Nothing
  BY <1>1 DEF Nothing, KeepTables, Tables!tables
<1>2. ASSUME NEW n \in Nodes, NEW b \in BOOLEAN, NEW t \in 1..MaxTime, Puts(n, b, t) PROVE Tables!TablesNext
  BY <1>2 DEF Puts, Tables!WriteStatus, Tables!TablesNext
<1>3. ASSUME NEW t \in 1..MaxTime, Cleans(t) PROVE Tables!TablesNext
  BY <1>3 DEF Cleans, Tables!Clean, Tables!Younger, Tables!TablesNext
<1> QED
  BY <1>1, <1>2, <1>3, EndMoves

\* Every step of the database is a step of the tables, or none.
LEMMA StepsRefine ==
  ASSUME ConstantsOK, StoreInv, [Next]_vars
  PROVE  Tables!TablesNext \/ UNCHANGED Tables!tables
<1>1. CASE \E w \in Writers : Fails(w) \/ Commit(w)
  BY <1>1, CommitsOneStep
<1>2. CASE \E n \in Nodes : WriteService(n)
  <2>1. PICK n \in Nodes : WriteService(n)
    BY <1>2
  <2>2. Tables!WriteService(n, clock)
    BY <2>1 DEF WriteService, Tables!WriteService
  <2> QED
    BY <2>2 DEF Tables!TablesNext, StoreInv, Typed
<1>3. CASE \/ UNCHANGED vars \/ GetNodeHistoryPoints \/ Restart \/ Tick
           \/ \E n \in Nodes : GetNodeStatus(n)
           \/ \E w \in Writers : BeginStatus(w) \/ BeginClean(w) \/ FirstStatement(w) \/ SecondStatement(w)
  BY <1>3 DEF vars, GetNodeHistoryPoints, Restart, Tick, GetNodeStatus, BeginStatus, BeginClean,
     FirstStatement, SecondStatement, KeepTables, Tables!tables
<1> QED
  BY <1>1, <1>2, <1>3 DEF Next

LEMMA StoreStarts ==
  ASSUME ConstantsOK, Init
  PROVE  StoreInv
BY DEF Init, StoreInv, Typed, Transactions, StagedFollows, Follows, Idle, ConstantsOK

LEMMA StoreKept ==
  ASSUME ConstantsOK, StoreInv, [Next]_vars
  PROVE  StoreInv'
BY TypesKept, StagedKept DEF StoreInv

\* Whatever statement of DB.UpdateNodeStatus, Server.updateNodeStatus or
\* CleanOldData fails, whichever of them overlap and wherever the process ends,
\* the tables move as NodeTables says: a status is written in both tables or in
\* neither, and a cleanup takes the old rows and no others.
THEOREM StoreImplementsTables ==
  ASSUME ConstantsOK
  PROVE  Spec => ImplementsTables
<1>1. Init => StoreInv
  BY StoreStarts
<1>2. StoreInv /\ [Next]_vars => StoreInv'
  BY StoreKept
<1>3. Init => Tables!TablesInit
  BY DEF Init, Tables!TablesInit
<1>4. StoreInv /\ [Next]_vars => [Tables!TablesNext]_Tables!tables
  BY StepsRefine
<1> QED
  BY <1>1, <1>2, <1>3, <1>4, PTL DEF Spec, ImplementsTables, Tables!TablesSpec

-----------------------------------------------------------------------------
(* Readers.                                                                  *)

Rows == [node : Nodes, seen : 1..MaxTime, healthy : BOOLEAN]
RowOf(n) == [node |-> n, seen |-> nodes[n].seen, healthy |-> nodes[n].healthy]

\* A row was written with its point in the history, which goes only with all
\* that is older than the cutoff.
InHistory(r) == r \in history \/ r.seen < cleaned

ReadersTyped ==
  /\ nodes \in [DOMAIN nodes -> Statuses] /\ DOMAIN nodes \subseteq Nodes
  /\ history \subseteq Rows /\ IsFiniteSet(history)
  /\ row \in {NoRow} \cup Rows
  /\ cleaned \in 0..MaxTime

ReadersInv ==
  /\ ReadersTyped
  /\ \A n \in DOMAIN nodes : InHistory(RowOf(n))
  /\ row # NoRow => InHistory(row)
  /\ HistoryShowsStatus

\* A step that writes no table keeps what a reader knows.
LEMMA QuietKeeps ==
  ASSUME ReadersInv, UNCHANGED <<nodes, history, reader, cleaned>>
  PROVE  ReadersInv'
BY DEF ReadersInv, ReadersTyped, InHistory, RowOf, HistoryShowsStatus, reader

\* The tables change, and what was in the history stays or is too old.
LEMMA WriteKeeps ==
  ASSUME ConstantsOK, ReadersInv, ReadersTyped', UNCHANGED reader,
         cleaned' >= cleaned,
         \A r \in history : r \in history' \/ r.seen < cleaned',
         \A n \in DOMAIN nodes' : RowOf(n)' \in history' \/ (n \in DOMAIN nodes /\ nodes'[n] = nodes[n])
  PROVE  ReadersInv'
<1>1. \A r \in Rows : InHistory(r) => InHistory(r)'
  <2> SUFFICES ASSUME NEW r \in Rows, r \notin history', InHistory(r) PROVE r.seen < cleaned'
    BY DEF InHistory
  <2>1. r.seen \in Nat /\ cleaned \in Nat /\ cleaned' \in Nat
    BY DEF Rows, ReadersInv, ReadersTyped, ConstantsOK
  <2> QED
    BY <2>1 DEF InHistory
<1>2. ASSUME NEW n \in DOMAIN nodes' PROVE InHistory(RowOf(n))'
  <2>1. CASE RowOf(n)' \in history'
    BY <2>1 DEF InHistory
  <2>2. CASE n \in DOMAIN nodes /\ nodes'[n] = nodes[n]
    <3>1. RowOf(n)' = RowOf(n) /\ RowOf(n) \in Rows /\ InHistory(RowOf(n))
      BY <2>2 DEF RowOf, Rows, Statuses, ReadersInv, ReadersTyped
    <3>2. RowOf(n) \in history' \/ RowOf(n).seen < cleaned'
      BY <1>1, <3>1 DEF InHistory
    <3> QED
      BY <3>1, <3>2 DEF InHistory
  <2> QED
    BY <1>2, <2>1, <2>2
<1>3. row' # NoRow => InHistory(row)'
  BY <1>1 DEF reader, ReadersInv, ReadersTyped, InHistory
<1>4. HistoryShowsStatus'
  <2>1. row # NoRow => row.seen \in Nat
    BY DEF ReadersInv, ReadersTyped, Rows
  <2>2. cleaned \in Nat /\ cleaned' \in Nat
    BY DEF ReadersInv, ReadersTyped, ConstantsOK
  <2> QED
    BY <2>1, <2>2 DEF reader, ReadersInv, HistoryShowsStatus
<1> QED
  BY <1>2, <1>3, <1>4 DEF ReadersInv

\* The points a query with a limit returns.
LEMMA NewestFacts ==
  ASSUME LimitOK, NEW S, IsFiniteSet(S), NEW R \in Newest(S, Limit), NEW r \in S, r \notin R
  PROVE  Cardinality(R) = Limit /\ \A x \in R : r.seen <= x.seen
<1>1. R \subseteq S /\ Cardinality(R) = Min({Cardinality(S), Limit}) /\ \A x \in R : r.seen <= x.seen
  BY DEF Newest
<1>2. Cardinality(S) \in Nat /\ Cardinality(R) \in Nat /\ Cardinality(R) < Cardinality(S)
  BY <1>1, FS_Subset, FS_CardinalityType
<1>3. Min({Cardinality(S), Limit}) \in {Cardinality(S), Limit}
  <2>1. \E x \in {Cardinality(S), Limit} : \A y \in {Cardinality(S), Limit} : x <= y
    BY <1>2 DEF LimitOK
  <2> QED
    BY <2>1 DEF Min
<1> QED
  BY <1>1, <1>2, <1>3 DEF LimitOK

LEMMA ReadersStart ==
  ASSUME ConstantsOK, Init
  PROVE  ReadersInv
BY FS_EmptySet DEF Init, ReadersInv, ReadersTyped, HistoryShowsStatus, ConstantsOK

LEMMA ReadersKept ==
  ASSUME ConstantsOK, LimitOK, StoreInv, ReadersInv, [Next]_vars
  PROVE  ReadersInv'
<1>1. CASE \E w \in Writers : Fails(w) \/ Commit(w)
  <2>1. PICK w \in Writers : Fails(w) \/ Commit(w)
    BY <1>1
  <2>2. UNCHANGED reader
    BY <2>1 DEF Fails, Commit
  <2>3. cleaned \in Nat
    BY DEF ReadersInv, ReadersTyped, ConstantsOK
  <2>4. CASE Nothing
    BY <2>2, <2>4, QuietKeeps DEF Nothing, KeepTables
  <2>5. ASSUME NEW n \in Nodes, NEW b \in BOOLEAN, NEW t \in 1..MaxTime, Puts(n, b, t) PROVE ReadersInv'
    <3> DEFINE s == [seen |-> t, healthy |-> b]
               r == [node |-> n, seen |-> t, healthy |-> b]
    <3>1. /\ nodes' = [m \in DOMAIN nodes \cup {n} |-> IF m = n THEN s ELSE nodes[m]]
          /\ history' = history \cup {r} /\ cleaned' = cleaned
      BY <2>5 DEF Puts
    <3>2. r \in Rows /\ s \in Statuses
      BY <2>5 DEF Rows, Statuses
    <3>3. IsFiniteSet(history')
      BY <3>1, FS_AddElement DEF ReadersInv, ReadersTyped
    <3>4. ReadersTyped'
      BY <2>2, <2>5, <3>1, <3>2, <3>3 DEF ReadersInv, ReadersTyped, reader
    <3>5. \A m \in DOMAIN nodes' : RowOf(m)' \in history' \/ (m \in DOMAIN nodes /\ nodes'[m] = nodes[m])
      <4> SUFFICES ASSUME NEW m \in DOMAIN nodes', m # n \/ m = n
                   PROVE  RowOf(m)' \in history' \/ (m \in DOMAIN nodes /\ nodes'[m] = nodes[m])
        OBVIOUS
      <4>1. CASE m = n
        BY <4>1, <3>1 DEF RowOf
      <4>2. CASE m # n
        BY <4>2, <3>1
      <4> QED
        BY <4>1, <4>2
    <3>6. cleaned' >= cleaned /\ \A x \in history : x \in history'
      BY <2>3, <3>1
    <3> QED
      BY <2>2, <3>4, <3>5, <3>6, WriteKeeps
  <2>6. ASSUME NEW t \in 1..MaxTime, Cleans(t) PROVE ReadersInv'
    <3>1. /\ history' = {r \in history : r.seen >= t} /\ nodes' = nodes
          /\ cleaned' \in 0..MaxTime /\ cleaned' >= cleaned /\ cleaned' >= t
      BY <2>3, <2>6 DEF Cleans, ReadersInv, ReadersTyped, ConstantsOK
    <3>2. IsFiniteSet(history')
      BY <3>1, FS_Subset DEF ReadersInv, ReadersTyped
    <3>3. ReadersTyped'
      BY <2>2, <3>1, <3>2 DEF ReadersInv, ReadersTyped, reader
    <3>4. ASSUME NEW r \in history, r \notin history' PROVE r.seen < cleaned'
      <4>1. r.seen \in Nat /\ ~(r.seen >= t) /\ t \in Nat /\ cleaned' \in Nat
        BY <3>1, <3>4 DEF ReadersInv, ReadersTyped, Rows, ConstantsOK
      <4> QED
        BY <3>1, <4>1
    <3> QED
      BY <2>2, <3>1, <3>3, <3>4, WriteKeeps
  <2> QED
    BY <2>1, <2>4, <2>5, <2>6, EndMoves
<1>2. CASE \E n \in Nodes : WriteService(n)
  BY <1>2, QuietKeeps DEF WriteService
<1>3. CASE \E w \in Writers : BeginStatus(w) \/ BeginClean(w) \/ FirstStatement(w) \/ SecondStatement(w)
  BY <1>3, QuietKeeps DEF BeginStatus, BeginClean, FirstStatement, SecondStatement, KeepTables
<1>4. CASE UNCHANGED vars \/ Tick
  BY <1>4, QuietKeeps DEF vars, Tick
<1>5. CASE Restart
  BY <1>5 DEF Restart, KeepTables, ReadersInv, ReadersTyped, InHistory, RowOf, HistoryShowsStatus
<1>6. CASE \E n \in Nodes : GetNodeStatus(n)
  <2>1. PICK n \in Nodes : n \in DOMAIN nodes /\ row' = RowOf(n) /\ points' = NoPoints
                          /\ UNCHANGED <<nodes, history, cleaned>>
    BY <1>6 DEF GetNodeStatus, RowOf, KeepTables
  <2>2. RowOf(n) \in Rows /\ InHistory(RowOf(n))
    BY <2>1 DEF RowOf, Rows, Statuses, ReadersInv, ReadersTyped
  <2> QED
    BY <2>1, <2>2 DEF ReadersInv, ReadersTyped, InHistory, RowOf, HistoryShowsStatus
<1>7. CASE GetNodeHistoryPoints
  <2> DEFINE S == {r \in history : r.node = row.node}
  <2>1. row # NoRow /\ points' \in Newest(S, Limit) /\ UNCHANGED <<nodes, history, row, cleaned>>
    BY <1>7 DEF GetNodeHistoryPoints, KeepTables
  <2>2. IsFiniteSet(S)
    BY FS_Subset DEF ReadersInv, ReadersTyped
  <2>3. CASE row \in history /\ row \notin points'
    <3>1. row \in S
      BY <2>3
    <3> HIDE DEF S
    <3>2. Cardinality(points') = Limit /\ \A x \in points' : row.seen <= x.seen
      BY <2>1, <2>2, <2>3, <3>1, NewestFacts
    <3>3. points' \subseteq Rows
      BY <2>1 DEF S, Newest, ReadersInv, ReadersTyped
    <3>4. \A x \in points' : x.seen >= row.seen
      BY <3>2, <3>3, <2>1 DEF ReadersInv, ReadersTyped, Rows
    <3> QED
      BY <2>1, <3>2, <3>4 DEF ReadersInv, ReadersTyped, InHistory, RowOf, HistoryShowsStatus
  <2>4. CASE row \notin history \/ row \in points'
    BY <2>1, <2>4 DEF ReadersInv, ReadersTyped, InHistory, RowOf, HistoryShowsStatus
  <2> QED
    BY <2>3, <2>4
<1> QED
  BY <1>1, <1>2, <1>3, <1>4, <1>5, <1>6, <1>7 DEF Next

\* A reader that has a node's row finds its status in the history it asks for
\* next, or the row is older than the retention, or Limit points are as new:
\* whatever the writers and the cleanup do between the two queries.
THEOREM ReaderFindsStatus ==
  ASSUME ConstantsOK, LimitOK
  PROVE  Spec => []HistoryShowsStatus
<1>1. Init => StoreInv /\ ReadersInv
  BY StoreStarts, ReadersStart
<1>2. StoreInv /\ ReadersInv /\ [Next]_vars => StoreInv' /\ ReadersInv'
  BY StoreKept, ReadersKept
<1>3. ReadersInv => HistoryShowsStatus
  BY DEF ReadersInv
<1> QED
  BY <1>1, <1>2, <1>3, PTL DEF Spec
=============================================================================
