---------------------------- MODULE MemoryStore ----------------------------
(***************************************************************************)
(* InMemoryStore (pkg/sweeper/memory_store.go): the list of the last       *)
(* results the sweep service keeps, with its periodic cleanup.  Each       *)
(* method runs under the store's lock, so each is one action.              *)
(***************************************************************************)
EXTENDS Naturals, Sequences, FiniteSets, SequencesExt, Sublists

CONSTANTS
  Targets, Filters,   \* as in ResultStore
  MaxResults,         \* maxResults
  MaxTime             \* bound on the clock

VARIABLES
  results,   \* results: [target, available, seen]
  open,      \* cleanupDone is not closed
  clock,     \* the time
  last       \* the last call that had an effect, as in ResultStore

vars == <<results, open, clock, last>>

Hosts == {t.host : t \in Targets}
Ports == {t.port : t \in {u \in Targets : u.mode = "tcp"}}

Init == results = <<>> /\ open = TRUE /\ clock = 1 /\ last = [op |-> "none"]

Tick ==
  /\ clock < MaxTime
  /\ clock' = clock + 1 /\ last' = [op |-> "tick"]
  /\ UNCHANGED <<results, open>>

-----------------------------------------------------------------------------
(* Changes.                                                                  *)

\* Mutant: a result that is not available is not found again.
IndexOfAvailable(t) == {i \in DOMAIN results : results[i].target = t /\ results[i].available}

\* The result that SaveResult replaces.
IndexOf(t) == {i \in DOMAIN results : results[i].target = t}

FirstOf(t) == CHOOSE i \in IndexOf(t) : \A j \in IndexOf(t) : i <= j

\* Mutant: as in SaveHostResult, what was available stays so.
NeverUnavailable(t, b) ==
  LET r == [target |-> t, available |-> b \/ \E i \in IndexOf(t) : results[i].available, seen |-> clock] IN
  /\ results' = IF IndexOf(t) = {} THEN Append(results, r) ELSE [results EXCEPT ![FirstOf(t)] = r]
  /\ last' = [op |-> "save", target |-> t, available |-> b]
  /\ UNCHANGED <<open, clock>>

SaveResult(t, b) ==
  LET r == [target |-> t, available |-> b, seen |-> clock] IN
  /\ results' = IF IndexOf(t) = {} THEN Append(results, r) ELSE [results EXCEPT ![FirstOf(t)] = r]
  /\ last' = [op |-> "save", target |-> t, available |-> b]
  /\ UNCHANGED <<open, clock>>

\* SaveHostResult renews the first result of a host, and never takes its
\* availability away.
SaveHostResult(h, b) ==
  LET Of == {i \in DOMAIN results : results[i].target.host = h} IN
  /\ \E i \in Of :
       /\ \A j \in Of : i <= j
       /\ results' = [results EXCEPT ![i] =
            [target |-> results[i].target, available |-> results[i].available \/ b, seen |-> clock]]
  /\ last' = [op |-> "renew", host |-> h, available |-> b]
  /\ UNCHANGED <<open, clock>>

\* The cleaner drops the results at the front.  SaveResult replaces in place,
\* so they are the targets that were first seen longest ago, not the oldest
\* results.
CleanOldResults ==
  /\ open /\ Len(results) > MaxResults
  /\ results' = SubSeq(results, Len(results) - MaxResults + 1, Len(results))
  /\ last' = [op |-> "trim"]
  /\ UNCHANGED <<open, clock>>

PruneResults(age) ==
  LET cutoff == clock - age IN
  /\ age <= clock
  /\ results' \in Sublists(results, {i \in DOMAIN results : results[i].seen > cutoff})
  /\ last' = [op |-> "prune", cutoff |-> cutoff]
  /\ UNCHANGED <<open, clock>>

Close == open /\ open' = FALSE /\ UNCHANGED <<results, clock, last>>

-----------------------------------------------------------------------------
(* Queries.                                                                  *)

CheckTimeRange(r, f) ==
  /\ f.from = 0 \/ r.seen >= f.from
  /\ f.to = 0 \/ r.seen <= f.to

MatchesFilter(r, f) ==
  /\ CheckTimeRange(r, f)
  /\ r.target.host \in f.hosts
  /\ f.port = 0 \/ r.target.port = f.port
  /\ r.available \in f.available

Result(r) == [available |-> r.available, seen |-> r.seen]

GetResults(f) ==
  /\ last' = [op |-> "query", filter |-> f,
              found |-> {[target |-> r.target, result |-> Result(r)] :
                           r \in {q \in Range(results) : MatchesFilter(q, f)}}]
  /\ UNCHANGED <<results, open, clock>>

\* What GetSweepSummary and GetHostResults report of a host: open ports, whether
\* it is available, and whether ICMP is, which any result of ICMP sets.
Host(h) ==
  LET Of == {r \in Range(results) : r.target.host = h} IN
  [available |-> \E r \in Of : r.available,
   icmp |-> \E r \in Of : r.target.mode = "icmp",
   ports |-> {r.target.port : r \in {q \in Of : q.available /\ q.target.mode = "tcp"}}]

Summary ==
  [hosts |-> [h \in {r.target.host : r \in Range(results)} |-> Host(h)],
   ports |-> [p \in Ports |-> Cardinality({i \in DOMAIN results :
                results[i].available /\ results[i].target.mode = "tcp" /\ results[i].target.port = p})]]

Next ==
  \/ \E t \in Targets, b \in BOOLEAN : SaveResult(t, b)
  \/ \E h \in Hosts, b \in BOOLEAN : SaveHostResult(h, b)
  \/ \E f \in Filters : GetResults(f)
  \/ \E age \in 0..MaxTime : PruneResults(age)
  \/ CleanOldResults \/ Close \/ Tick

Spec == Init /\ [][Next]_vars

-----------------------------------------------------------------------------
(* Properties.                                                               *)

Kept(t) == CHOOSE r \in Range(results) : r.target = t

Abstract == INSTANCE ResultStore WITH
  MayCut <- FALSE, now <- clock,
  known <- [t \in {r.target : r \in Range(results)} |-> Result(Kept(t))]

\* The list is a store: each target has the result that was saved last, renewed
\* by SaveHostResult at most, until it is pruned for its age or trimmed, and a
\* query returns exactly the results its filter matches.
ImplementsStore == Abstract!StoreSpec

\* The summary counts a port once for each host that is listed with the port
\* open, though counts and lists are kept apart.
SummaryAgrees ==
  \A p \in Ports :
    Summary.ports[p] = Cardinality({h \in DOMAIN Summary.hosts : p \in Summary.hosts[h].ports})
=============================================================================
