---------------------------- MODULE SqliteStore ----------------------------
(***************************************************************************)
(* SQLiteStore (pkg/sweeper/sqlite_store.go): scan results in the table    *)
(* sweep_results, a row for each host and port.  A statement is one step;  *)
(* PruneResults is a transaction, during which other writers fail.  The    *)
(* database is external: a write may fail, a query may time out.           *)
(***************************************************************************)
EXTENDS Naturals, FiniteSets

CONSTANTS
  Targets, Filters,   \* as in ResultStore
  MaxTime             \* bound on the clock

VARIABLES
  rows,     \* the committed rows: host and port to [available, seen]
  pruning,  \* the transaction of PruneResults: none, begun, deleted
  deleted,  \* the rows it deletes
  cutoff,   \* results older than this are pruned
  clock,    \* the time
  last      \* the last call that had an effect, as in ResultStore

vars == <<rows, pruning, deleted, cutoff, clock, last>>

Init ==
  /\ rows = [k \in {} |-> 0]
  /\ pruning = "none" /\ deleted = {} /\ cutoff = 0
  /\ clock = 1 /\ last = [op |-> "none"]

Tick ==
  /\ clock < MaxTime
  /\ clock' = clock + 1 /\ last' = [op |-> "tick"]
  /\ UNCHANGED <<rows, pruning, deleted, cutoff>>

\* What ON CONFLICT compares: the mode is no column.
Key(t) == <<t.host, t.port>>

\* Mutant: a conflict does nothing.
InsertOnly(t, b) ==
  /\ pruning # "deleted"
  /\ rows' = [k \in DOMAIN rows \cup {Key(t)} |->
                IF k \in DOMAIN rows THEN rows[k] ELSE [available |-> b, seen |-> clock]]
  /\ last' = [op |-> "save", target |-> t, available |-> b]
  /\ UNCHANGED <<pruning, deleted, cutoff, clock>>

\* SaveResult: the upsert, which fails while PruneResults holds the write lock.
SaveResult(t, b) ==
  /\ pruning # "deleted"
  /\ rows' = [k \in DOMAIN rows \cup {Key(t)} |->
                IF k = Key(t) THEN [available |-> b, seen |-> clock] ELSE rows[k]]
  /\ last' = [op |-> "save", target |-> t, available |-> b]
  /\ UNCHANGED <<pruning, deleted, cutoff, clock>>

BeginPrune(age) ==
  /\ pruning = "none" /\ age <= clock
  /\ pruning' = "begun" /\ cutoff' = clock - age
  /\ UNCHANGED <<rows, deleted, clock, last>>

DeleteOld ==
  /\ pruning = "begun"
  /\ pruning' = "deleted"
  /\ deleted' = {k \in DOMAIN rows : rows[k].seen < cutoff}
  /\ UNCHANGED <<rows, cutoff, clock, last>>

\* Commit; or, when a statement fails, the rollback.
EndPrune ==
  /\ pruning # "none"
  /\ pruning' = "none" /\ deleted' = {} /\ cutoff' = 0
  /\ \/ /\ pruning = "deleted"
        /\ rows' = [k \in DOMAIN rows \ deleted |-> rows[k]]
        /\ last' = [op |-> "prune", cutoff |-> cutoff]
     \/ UNCHANGED <<rows, last>>
  /\ UNCHANGED clock

\* The query, with a condition for each field of the filter that is set.
Selected(f) ==
  {k \in DOMAIN rows :
     /\ k[1] \in f.hosts
     /\ f.port # 0 => k[2] = f.port
     /\ f.from # 0 => rows[k].seen >= f.from
     /\ f.to # 0 => rows[k].seen <= f.to
     /\ rows[k].available \in f.available}

TargetOf(k) == CHOOSE t \in Targets : Key(t) = k

\* ORDER BY last_seen DESC.
NewestFirst(S) == {T \in SUBSET S : \A x \in T, y \in S \ T : rows[y].seen <= rows[x].seen}

\* GetResults reads the rows, newest first.  rows.Next ends early when the time
\* is over, and nobody asks rows.Err: what was read is the answer.
GetResults(f) ==
  /\ \E read \in NewestFirst(Selected(f)) :
       last' = [op |-> "query", filter |-> f,
                found |-> {[target |-> TargetOf(k), result |-> rows[k]] : k \in read}]
  /\ UNCHANGED <<rows, pruning, deleted, cutoff, clock>>

Next ==
  \/ \E t \in Targets, b \in BOOLEAN : SaveResult(t, b)
  \/ \E age \in 0..MaxTime : BeginPrune(age)
  \/ DeleteOld \/ EndPrune
  \/ \E f \in Filters : GetResults(f)
  \/ Tick

Spec == Init /\ [][Next]_vars

-----------------------------------------------------------------------------
(* Properties.                                                               *)

Abstract == INSTANCE ResultStore WITH
  MaxResults <- Cardinality(Targets), MayCut <- TRUE, now <- clock,
  known <- [t \in {u \in Targets : Key(u) \in DOMAIN rows} |-> rows[Key(t)]]

\* The table is a store, though it has no column for the mode and calls of others
\* come between the steps of a prune: each target has the result that was saved
\* last until a prune that commits finds it too old, and a query answers with
\* results its filter matches, the newest if it is cut.  Nothing is trimmed.
ImplementsStore == Abstract!StoreSpec
=============================================================================
