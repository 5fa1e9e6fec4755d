---------------------------- MODULE ScanChannel ----------------------------
(***************************************************************************)
(* What the code of a scanner guarantees to the reader of the channel its  *)
(* Scan returns (the interface scan.Scanner): results of the targets, then *)
(* the close.  A scan that nobody abandons, by cancelling its context or   *)
(* stopping its scanner, closes only after the result of every target,     *)
(* except those that another call of the same scanner contested.  An       *)
(* abandoned one may close early, and a goroutine left behind may then     *)
(* send, which is a panic.  The comments claim that such a close is safe   *)
(* (TCPScan!ClosesSafely says so, and TLC refutes it); what is said here   *)
(* is as far as the code excludes it.  TCPScan, CombinedScan and ICMPScan  *)
(* implement it.                                                           *)
(***************************************************************************)
CONSTANT AllTargets

VARIABLES
  wanted,     \* the targets of the scan
  status,     \* of the channel: none, open, closed, or crashed (a send after the close)
  delivered,  \* targets whose result was sent
  abandoned,  \* the caller cancelled the scan, or the scanner was stopped or failed
  contested   \* targets another call of the scanner wanted while this one ran

chanVars == <<wanted, status, delivered, abandoned, contested>>

ChanInit ==
  /\ wanted = {} /\ status = "none" /\ delivered = {}
  /\ abandoned = FALSE /\ contested = {}

Contest ==
  /\ contested \subseteq contested' /\ contested' \subseteq AllTargets
  /\ UNCHANGED <<wanted, status, delivered, abandoned>>

Open(T) ==
  /\ status = "none"
  /\ wanted' = T
  /\ status' = IF T = {} THEN "closed" ELSE "open"
  /\ contested \subseteq contested' /\ contested' \subseteq AllTargets
  /\ UNCHANGED <<delivered, abandoned>>

Deliver ==
  /\ status = "open"
  /\ \E t \in wanted \ delivered : delivered' = delivered \cup {t}
  /\ UNCHANGED <<wanted, status, abandoned, contested>>

Abandon ==
  /\ abandoned' = TRUE
  /\ UNCHANGED <<wanted, status, delivered, contested>>

Close ==
  /\ status = "open"
  /\ abandoned \/ wanted \subseteq delivered \cup contested
  /\ status' = "closed"
  /\ UNCHANGED <<wanted, delivered, abandoned, contested>>

Crash ==
  /\ status = "closed" /\ abandoned
  /\ status' = "crashed"
  /\ UNCHANGED <<wanted, delivered, abandoned, contested>>

ChanNext ==
  \/ \E T \in SUBSET AllTargets : Open(T)
  \/ Contest \/ Deliver \/ Abandon \/ Close \/ Crash

ChanSpec == ChanInit /\ [][ChanNext]_chanVars
=============================================================================
