------------------------------ MODULE Networks ------------------------------
(***************************************************************************)
(* How a sweep lists its targets: generateTargets of the agent's           *)
(* SweepService (pkg/agent/sweep_service.go) and of NetworkSweeper         *)
(* (pkg/sweeper/sweeper.go), address by address, with the address          *)
(* arithmetic both rest on (also pkg/scan/ipv4_utils.go).  An address has  *)
(* W bits instead of 32; a network is an address and the length of its     *)
(* prefix.  A prefix of length 0 is left out: the loops would not end.     *)
(***************************************************************************)
EXTENDS Naturals, Sequences, FiniteSets, Functions

CONSTANTS
  W,          \* bits of an address
  Configs,    \* sequences of networks: records [ip, ones]
  Modes,      \* SweepModes
  PortList    \* Ports: a sequence

VARIABLES
  by,        \* who lists: "service" or "sweeper"
  networks,  \* config.Networks
  at,        \* the network being listed
  addr,      \* the loop's address; None before the loop of a network
  total,     \* globalTotalHosts; the sweeper's targetCapacity
  targets,   \* the targets so far: [host, mode, port]
  finished

vars == <<by, networks, at, addr, total, targets, finished>>

None == 2^W

Base(n) == n.ip - (n.ip % 2^(W - n.ones))
Broadcast(n) == Base(n) + 2^(W - n.ones) - 1
Holds(n, a) == Base([n EXCEPT !.ip = a]) = Base(n)

\* Mutant: the carry out of the last byte is lost.
IncNoCarry(a) == IF a % 2 = 1 THEN a - 1 ELSE a + 1

\* incrementIP and Inc wrap around.
Inc(a) == (a + 1) % 2^W

\* Mutant: the broadcast address is not skipped.
IsFirst(n, a) == a = Base(n)

IsFirstOrLast(n, a) == a \in {Base(n), Broadcast(n)}

\* calculateNetworkSize, and the size calculateNetworkCapacity begins with.
NetworkSize(n) == IF n.ones = W THEN 1 ELSE 2^(W - n.ones) - 2

PerHost == (IF "icmp" \in Modes THEN 1 ELSE 0) + (IF "tcp" \in Modes THEN Len(PortList) ELSE 0)

Init ==
  /\ by \in {"service", "sweeper"} /\ networks \in Configs
  /\ at = 1 /\ addr = None
  /\ total = 0 /\ targets = <<>> /\ finished = FALSE

\* buildTargets.
TargetsOf(a) ==
  (IF "icmp" \in Modes THEN <<[host |-> a, mode |-> "icmp", port |-> 0]>> ELSE <<>>) \o
  (IF "tcp" \in Modes THEN [i \in DOMAIN PortList |-> [host |-> a, mode |-> "tcp", port |-> PortList[i]]]
   ELSE <<>>)

N == networks[at]

BeginNetwork ==
  /\ ~finished /\ addr = None /\ at <= Len(networks)
  /\ total' = total + (IF by = "service" THEN NetworkSize(N) ELSE NetworkSize(N) * PerHost)
  /\ IF by = "service" /\ N.ones = W
     THEN targets' = targets \o TargetsOf(N.ip) /\ at' = at + 1 /\ UNCHANGED addr
     ELSE /\ addr' = IF by = "service" THEN Inc(Base(N)) ELSE Base(N)
          /\ UNCHANGED <<targets, at>>
  /\ UNCHANGED <<by, networks, finished>>

NextAddress ==
  /\ addr # None /\ Holds(N, addr)
  /\ targets' = IF IsFirstOrLast(N, addr) THEN targets ELSE targets \o TargetsOf(addr)
  /\ addr' = Inc(addr)
  /\ UNCHANGED <<by, networks, at, total, finished>>

EndNetwork ==
  /\ addr # None /\ ~Holds(N, addr)
  /\ addr' = None /\ at' = at + 1
  /\ UNCHANGED <<by, networks, total, targets, finished>>

Finish ==
  /\ at > Len(networks) /\ ~finished
  /\ finished' = TRUE
  /\ UNCHANGED <<by, networks, at, addr, total, targets>>

Next == BeginNetwork \/ NextAddress \/ EndNetwork \/ Finish

Spec == Init /\ [][Next]_vars

\* The loops run.
Fairness == WF_vars(Next)

-----------------------------------------------------------------------------
(* Properties.                                                               *)

\* The hosts of a network: all but its first and its last address, and the one
\* of a network that has no other (a /32).
Addresses == 0..(2^W - 1)
Usable(n) == {a \in Addresses : Holds(n, a) /\ (n.ones = W \/ a \notin {Base(n), Broadcast(n)})}

\* The hosts to scan, once for each network that has them.
Hosts == {h \in (DOMAIN networks) \X Addresses : h[2] \in Usable(networks[h[1]])}
Single == {i \in DOMAIN networks : networks[i].ones = W}

\* At the ends of networks and of the address space, none is missed and none is
\* added: a sweep scans exactly the hosts of its networks, each in each way, once
\* for each network that has it, and the number of hosts it reports, or the
\* capacity it allots, is right.  This is so of every list of the service, and of
\* the sweeper's for networks of more than one address.
TargetsExact ==
  finished /\ (by = "service" \/ Single = {}) =>
    /\ Range(targets) = UNION {Range(TargetsOf(h[2])) : h \in Hosts}
    /\ Len(targets) = Cardinality(Hosts) * PerHost
    /\ total = Cardinality(Hosts) * (IF by = "service" THEN 1 ELSE PerHost)

\* The list is complete some time: no network, even at the end of the address
\* space, is gone round for ever.
ListingEnds == <>finished
=============================================================================
