---------------------------- MODULE ResultStore ----------------------------
(***************************************************************************)
(* What a store of scan results promises (Store in                         *)
(* pkg/sweeper/interfaces.go): it keeps the last result of each target,    *)
(* pruning forgets the old ones and nothing else, and a query answers with *)
(* the results its filter matches.  MemoryStore and SqliteStore implement  *)
(* it.  last is what a caller sees of a store: the last call that had an   *)
(* effect, its arguments and its answer.                                   *)
(***************************************************************************)
EXTENDS Naturals, FiniteSets

CONSTANTS
  Targets,     \* what is scanned: records [host, mode, port]
  Filters,     \* the filters of queries: [hosts, port, available, from, to]
  MaxResults,  \* more results than these may be trimmed
  MayCut       \* a query that runs out of time answers with what it has

VARIABLES
  known,     \* the last result of each target that has one: [available, seen]
  now,       \* the time
  last       \* the last call

storeVars == <<known, now, last>>

\* An empty field of a filter: every host, port 0, both availabilities, from 0
\* (nothing is older), to 0.
Matches(f, t, r) ==
  /\ t.host \in f.hosts
  /\ f.port \in {0, t.port}
  /\ r.available \in f.available
  /\ f.from <= r.seen
  /\ f.to = 0 \/ r.seen <= f.to

StoreInit == known = [t \in {} |-> 0] /\ now = 1 /\ last = [op |-> "none"]

Tick == now' = now + 1 /\ last' = [op |-> "tick"] /\ UNCHANGED known

\* The result that is saved is the target's result, and no other changes.
Save(t, b) ==
  /\ known' = [u \in DOMAIN known \cup {t} |-> IF u = t THEN [available |-> b, seen |-> now] ELSE known[u]]
  /\ last' = [op |-> "save", target |-> t, available |-> b]
  /\ UNCHANGED now

\* One result of the host is renewed, and does not become unavailable.
Renew(h, b) ==
  /\ \E t \in DOMAIN known :
       /\ t.host = h
       /\ known' = [known EXCEPT ![t] = [available |-> known[t].available \/ b, seen |-> now]]
  /\ last' = [op |-> "renew", host |-> h, available |-> b]
  /\ UNCHANGED now

Without(S) == [u \in DOMAIN known \ S |-> known[u]]

\* What is older than the cutoff is forgotten, what is newer is not.
Prune(cutoff) ==
  /\ \E S \in SUBSET {t \in DOMAIN known : known[t].seen <= cutoff} :
       /\ {t \in DOMAIN known : known[t].seen < cutoff} \subseteq S
       /\ known' = Without(S)
  /\ last' = [op |-> "prune", cutoff |-> cutoff]
  /\ UNCHANGED now

\* Of too many results MaxResults are left, and it is not said which.
Trim ==
  /\ Cardinality(DOMAIN known) > MaxResults
  /\ \E S \in SUBSET DOMAIN known :
       Cardinality(DOMAIN known \ S) = MaxResults /\ known' = Without(S)
  /\ last' = [op |-> "trim"]
  /\ UNCHANGED now

\* An answer that is cut has the newest.
Query(f) ==
  LET all == {[target |-> t, result |-> known[t]] : t \in {u \in DOMAIN known : Matches(f, u, known[u])}} IN
  /\ \E found \in IF MayCut THEN SUBSET all ELSE {all} :
       /\ \A x \in found, y \in all \ found : y.result.seen <= x.result.seen
       /\ last' = [op |-> "query", filter |-> f, found |-> found]
  /\ UNCHANGED <<known, now>>

StoreNext ==
  \/ \E t \in Targets, b \in BOOLEAN : Save(t, b)
  \/ \E h \in {t.host : t \in Targets}, b \in BOOLEAN : Renew(h, b)
  \/ \E cutoff \in 0..now : Prune(cutoff)
  \/ \E f \in Filters : Query(f)
  \/ Trim \/ Tick

StoreSpec == StoreInit /\ [][StoreNext]_storeVars
=============================================================================
