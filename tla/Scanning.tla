------------------------------ MODULE Scanning ------------------------------
(***************************************************************************)
(* The scanners of the agent (pkg/scan): TCPScan, CombinedScan and         *)
(* ICMPScan.  They share no variable: a behaviour chooses one of them in   *)
(* its initial state, and that one runs while the others rest, so that TLC *)
(* explores the sum of their state spaces and not the product.             *)
(***************************************************************************)
EXTENDS Naturals, Sequences, FiniteSets

CONSTANTS
  Targets,                                   \* of TCPScan, and the hosts of ICMPScan
  Scans, Concurrency,                        \* TCPScan, ICMPScan
  Conns, MaxIdle, Loads,                     \* TCPScan
  IcmpLoads, Cancellable,                    \* ICMPScan
  MixedTargets, Mode, Scanners, MayFail      \* CombinedScan

VARIABLES
  part,                                                     \* the component that runs
  wanted, cancelled, over, feeder, worker, closer, sent,    \* TCPScan
  pool, open, shut, crash,
  wantedC, contested, cancelledC, overC, stoppedC, found, ended, fwd,  \* CombinedScan
  taken, callerC, closerC, sentC, crashC,
  wantedI, cancelledI, overI, callerI, listener, feederI,   \* ICMPScan
  batch, todo, pinger, closerI, sentI, contestedI,
  stopped, resp, crashI

Tcp == INSTANCE TCPScan

Combined == INSTANCE CombinedScan WITH
  Targets <- MixedTargets,
  wanted <- wantedC, cancelled <- cancelledC, over <- overC, stopped <- stoppedC,
  caller <- callerC, closer <- closerC, sent <- sentC, crash <- crashC

Icmp == INSTANCE ICMPScan WITH
  Loads <- IcmpLoads,
  wanted <- wantedI, cancelled <- cancelledI, over <- overI, caller <- callerI,
  feeder <- feederI, closer <- closerI, sent <- sentI, contested <- contestedI, crash <- crashI

\* A call lists its targets, and the values that stand for nothing are none.
TcpConstants ==
  /\ IsFiniteSet(Targets) /\ MaxIdle \in Nat
  /\ Tcp!NoConn \notin Conns /\ "no" \notin Scans /\ "pool" \notin Scans
  /\ \A load \in Loads : load \in [Scans -> SUBSET Targets]
ASSUME TcpAssumption == TcpConstants

IcmpConstants == "no" \notin Scans /\ \A load \in IcmpLoads : load \in [Scans -> SUBSET Targets]
ASSUME IcmpAssumption == IcmpConstants

tcpVars == <<wanted, cancelled, over, feeder, worker, closer, sent, pool, open, shut, crash>>
combinedVars == <<wantedC, contested, cancelledC, overC, stoppedC, found, ended, fwd, taken,
                  callerC, closerC, sentC, crashC>>
icmpVars == <<wantedI, cancelledI, overI, callerI, listener, feederI, batch, todo, pinger, closerI,
              sentI, contestedI, stopped, resp, crashI>>
vars == <<part, tcpVars, combinedVars, icmpVars>>

Init ==
  /\ part \in {"tcp", "combined", "icmp"}
  /\ Tcp!Init /\ Combined!Init /\ Icmp!Init

Next ==
  /\ UNCHANGED part
  /\ \/ /\ part = "tcp" /\ Tcp!Next
        /\ UNCHANGED <<combinedVars, icmpVars>>
     \/ /\ part = "combined" /\ Combined!Next
        /\ UNCHANGED <<tcpVars, icmpVars>>
     \/ /\ part = "icmp" /\ Icmp!Next
        /\ UNCHANGED <<tcpVars, combinedVars>>

Safety == Init /\ [][Next]_vars

\* A component that rests has no step its fairness asks for.
Spec == Safety /\ Tcp!Fairness /\ Combined!Fairness /\ Icmp!Fairness

-----------------------------------------------------------------------------
(* The properties of the components, under names a .cfg can use.             *)

\* Each call of TCPScanner.Scan implements ScanChannel (TCPScan).
TcpImplementsChannel == Tcp!ImplementsChannel

\* Each connection is in one place, and open (TCPScan).
TcpConnectionsAccounted == Tcp!ConnectionsAccounted

\* Each TCP scan ends (TCPScan).
TcpScansEnd == Tcp!ScansEnd

\* A call of CombinedScanner.Scan implements ScanChannel (CombinedScan).
CombinedImplementsChannel == Combined!ImplementsChannel

\* A combined call ends if it is cancelled, stopped, or has no ICMP targets
\* (CombinedScan).
CombinedCallEnds == Combined!CallEnds

\* Each call of ICMPScanner.Scan implements ScanChannel, beside other calls that
\* share its responses (ICMPScan).
IcmpImplementsChannel == Icmp!ImplementsChannel

\* An ICMP call that has ended leaves no goroutine behind (ICMPScan).
IcmpNothingLeft == Icmp!NothingLeft

\* "Safe to close results channel now" (tcp_scanner.go:328): no worker sends a
\* result on a channel its scan has closed (TCPScan; the code does not keep it).
TcpClosesSafely == Tcp!ClosesSafely
=============================================================================
