-------------------------- MODULE SweepProcessor ---------------------------
(***************************************************************************)
(* How the sweep service takes in the results of its scans                 *)
(* (handleResult in pkg/agent/sweep_service.go): BaseProcessor             *)
(* (pkg/sweeper/base_processor.go) first, the store of ResultStore then,   *)
(* while GetStatus reports the processor's summary.  Process and           *)
(* GetSummary run under the processor's lock, so each is one action; what  *)
(* GetStatus does with the summary does not.                               *)
(***************************************************************************)
EXTENDS Naturals, FiniteSets

CONSTANTS
  Targets,     \* what is scanned: records [host, mode, port]
  MaxResults   \* the store's limit

VARIABLES
  hostMap,     \* hostMap: [available, icmp, ports] of each host with a result
  portCounts,  \* portCounts
  inHand,      \* the result handleResult has processed and not yet saved
  known,       \* the store (ResultStore)
  last,        \* ... and the last call to it
  report       \* the summary GetStatus took: [hosts, ports]

vars == <<hostMap, portCounts, inHand, known, last, report>>

\* No property here is about times: it is always the first.
Store == INSTANCE ResultStore WITH Filters <- {}, MayCut <- FALSE, now <- 1

Hosts == {t.host : t \in Targets}
Ports == {t.port : t \in {u \in Targets : u.mode = "tcp"}}
NoResult == [target |-> 0]
NoReport == [hosts |-> [h \in {} |-> 0], ports |-> [p \in Ports |-> 0]]

NewHost == [available |-> FALSE, icmp |-> "none", ports |-> {}]

Init ==
  /\ hostMap = [h \in {} |-> NewHost]
  /\ portCounts = [p \in Ports |-> 0]
  /\ inHand = NoResult
  /\ Store!StoreInit
  /\ report = NoReport

-----------------------------------------------------------------------------
(* Process.                                                                  *)

\* Mutant: a host is made for each result.
HostAnew(h) == NewHost

\* getOrCreateHost.
HostOf(h) == IF h \in DOMAIN hostMap THEN hostMap[h] ELSE NewHost

\* processICMPResult: a host that stops answering stays available.
ICMPResult(host, b) ==
  [host EXCEPT !.available = @ \/ b, !.icmp = IF b THEN "up" ELSE "down"]

\* processTCPResult: a port that is not open changes nothing.
TCPResult(host, p, b) == IF b THEN [host EXCEPT !.ports = @ \cup {p}] ELSE host

\* Mutant: a port is counted for each result.
CountsEach(t, b) == t.mode = "tcp" /\ b

\* updatePortStatus counts a port when it enters a host's list.
Counts(t, b) == t.mode = "tcp" /\ b /\ t.port \notin HostOf(t.host).ports

Processed(t, b) ==
  LET host == HostOf(t.host)
      host2 == IF t.mode = "icmp" THEN ICMPResult(host, b) ELSE TCPResult(host, t.port, b) IN
  /\ hostMap' = [h \in DOMAIN hostMap \cup {t.host} |-> IF h = t.host THEN host2 ELSE hostMap[h]]
  /\ portCounts' = [p \in Ports |-> portCounts[p] + IF Counts(t, b) /\ p = t.port THEN 1 ELSE 0]

Process(t, b) ==
  /\ inHand = NoResult
  /\ Processed(t, b)
  /\ inHand' = [target |-> t, available |-> b]
  /\ UNCHANGED <<known, last, report>>

SaveResult ==
  /\ inHand # NoResult
  /\ Store!Save(inHand.target, inHand.available)
  /\ inHand' = NoResult
  /\ UNCHANGED <<hostMap, portCounts, report>>

\* The cleaner of the store (cleanOldResults).
Trim ==
  /\ Store!Trim
  /\ UNCHANGED <<hostMap, portCounts, inHand, report>>

\* GetSummary copies the hosts and the counts.
GetSummary ==
  /\ report' = [hosts |-> hostMap, ports |-> portCounts]
  /\ UNCHANGED <<hostMap, portCounts, inHand, known, last>>

\* What GetStatus writes out of its copy of a host: the copy shares the pointer
\* of the ICMP status, if there was one, with the processor.
Written(h) ==
  [report.hosts[h] EXCEPT !.icmp = IF @ = "none" THEN @ ELSE hostMap[h].icmp]

Next ==
  \/ \E t \in Targets, b \in BOOLEAN : Process(t, b)
  \/ SaveResult \/ Trim \/ GetSummary

Spec == Init /\ [][Next]_vars

-----------------------------------------------------------------------------
(* Properties.                                                               *)

\* Whatever results follow the summary while GetStatus writes it, the answer is
\* consistent: it counts a port once for each host it lists with the port, and a
\* host that is listed as available has an ICMP status.
AnswerConsistent ==
  /\ \A p \in Ports :
       report.ports[p] = Cardinality({h \in DOMAIN report.hosts : p \in Written(h).ports})
  /\ \A h \in DOMAIN report.hosts : Written(h).available => Written(h).icmp # "none"

\* The two places a result goes to agree: what the store has as available, the
\* processor reports, however the steps of handleResult and the cleaner of the
\* store interleave.
StoreWithinProcessor ==
  \A t \in DOMAIN known :
    /\ t.host \in DOMAIN hostMap
    /\ known[t].available => IF t.mode = "icmp" THEN hostMap[t.host].available
                             ELSE t.port \in hostMap[t.host].ports
=============================================================================
