---------------------------- MODULE CombinedScan ----------------------------
(***************************************************************************)
(* A call of CombinedScanner.Scan (pkg/scan/combined_scanner.go): one      *)
(* goroutine per kind of target calls its scanner and forwards what it     *)
(* finds, a closer ends the scan, and the caller waits a moment for an     *)
(* immediate error.  The two scanners are the channels ScanChannel         *)
(* describes.  Calls share Stop and the ICMP scanner, so that one call is  *)
(* enough, with the hosts other calls contest.                             *)
(***************************************************************************)
EXTENDS Naturals, FiniteSets

CONSTANTS
  Targets,      \* the targets a caller may ask for
  Mode,         \* Target.Mode: tcp, icmp, or one nobody scans
  Scanners,     \* the kinds that have a scanner: tcp, and icmp if it could be made
  MayFail       \* the kinds whose Scan may return an error

VARIABLES
  wanted,       \* the targets of the call
  contested,    \* the ICMP targets that other calls want while this one runs
  cancelled,    \* the caller's context is done
  over,         \* scanCtx was cancelled
  stopped,      \* Stop was called: the done channel is closed
  found,        \* results each scanner has put into its channel
  ended,        \* scanners whose channel is closed
  fwd,          \* the goroutine of each kind: off, scan, read, send (with a result), failed, done
  taken,        \* results each goroutine has taken from its channel
  caller,       \* off, waiting (for an immediate error), channel, error
  closer,       \* off, wait, close, cancel, done
  sent,         \* targets whose result was sent to the caller
  crash         \* a send on the closed channel

subVars == <<found, ended>>
vars == <<wanted, contested, cancelled, over, stopped, subVars, fwd, taken, caller, closer, sent, crash>>

CtxDone == cancelled \/ over

\* separateTargets; a target of another mode is logged and left out.
Part(k) == {t \in wanted : Mode[t] = k}
Served == {t \in wanted : Mode[t] \in Scanners}
Closed == closer \in {"cancel", "done"}
Failed == {k \in Scanners : fwd[k].pc = "failed"}

Init ==
  /\ wanted = {} /\ contested = {} /\ cancelled = FALSE /\ over = FALSE /\ stopped = FALSE
  /\ found = [k \in Scanners |-> {}] /\ ended = {}
  /\ fwd = [k \in Scanners |-> [pc |-> "off"]]
  /\ taken = [k \in Scanners |-> {}]
  /\ caller = "off" /\ closer = "off" /\ sent = {} /\ crash = FALSE

\* The goroutines the closer's WaitGroup waits for.
Running(k) == fwd[k].pc \in {"scan", "read", "send"}

-----------------------------------------------------------------------------
(* The call.                                                                 *)

\* No targets: a closed channel.  Else startScanning starts a goroutine for
\* each kind that has targets and a scanner.
BeginScan ==
  /\ caller = "off"
  /\ \E T \in SUBSET Targets :
       /\ wanted' = T
       /\ contested' \in SUBSET {t \in T : Mode[t] = "icmp"}
       /\ IF T = {} THEN caller' = "channel" /\ closer' = "done" /\ UNCHANGED fwd
          ELSE /\ caller' = "waiting" /\ closer' = "wait"
               /\ fwd' = [k \in Scanners |->
                            [pc |-> IF \E t \in T : Mode[t] = k THEN "scan" ELSE "off"]]
  /\ UNCHANGED <<cancelled, over, stopped, subVars, taken, sent, crash>>

\* waitForImmediateError: an error cancels the scan; after 10 ms the caller gets
\* the channel, and an error is lost.
ReturnError ==
  /\ caller = "waiting" /\ Failed # {}
  /\ caller' = "error" /\ over' = TRUE
  /\ UNCHANGED <<wanted, contested, cancelled, stopped, subVars, fwd, taken, closer, sent, crash>>

ReturnChannel ==
  /\ caller = "waiting"
  /\ caller' = "channel"
  /\ UNCHANGED <<wanted, contested, cancelled, over, stopped, subVars, fwd, taken, closer, sent, crash>>

Cancel ==
  /\ caller # "off" /\ ~cancelled
  /\ cancelled' = TRUE
  /\ UNCHANGED <<wanted, contested, over, stopped, subVars, fwd, taken, caller, closer, sent, crash>>

\* Stop closes done, and stops both scanners.
Stop ==
  /\ ~stopped
  /\ stopped' = TRUE
  /\ UNCHANGED <<wanted, contested, cancelled, over, subVars, fwd, taken, caller, closer, sent, crash>>

-----------------------------------------------------------------------------
(* The scanners, as ScanChannel has them.                                    *)

Find(k) ==
  /\ fwd[k].pc \in {"read", "send", "done"} /\ k \notin ended
  /\ \E t \in Part(k) \ found[k] : found' = [found EXCEPT ![k] = @ \cup {t}]
  /\ UNCHANGED <<wanted, contested, cancelled, over, stopped, ended, fwd, taken, caller, closer, sent, crash>>

EndScanner(k) ==
  /\ fwd[k].pc \in {"read", "send", "done"} /\ k \notin ended
  /\ CtxDone \/ stopped \/ Part(k) \subseteq found[k] \cup contested
  /\ ended' = ended \cup {k}
  /\ UNCHANGED <<wanted, contested, cancelled, over, stopped, found, fwd, taken, caller, closer, sent, crash>>

-----------------------------------------------------------------------------
(* processTargetsWithError and forwardScanResults.                           *)

\* Scan returns its channel, or an error that is reported.
StartScanner(k) ==
  /\ fwd[k].pc = "scan"
  /\ \E pc \in {"read"} \cup (IF k \in MayFail THEN {"failed"} ELSE {}) :
       fwd' = [fwd EXCEPT ![k] = [pc |-> pc]]
  /\ UNCHANGED <<wanted, contested, cancelled, over, stopped, subVars, taken, caller, closer, sent, crash>>

\* Mutant: the goroutine ends as soon as the scanner has closed its channel.
DrainsNot(k) == k \in ended

\* A closed channel is found closed when its buffer is empty.
Drained(k) == k \in ended /\ taken[k] = found[k]

TakeResult(k) ==
  /\ fwd[k].pc = "read"
  /\ \E t \in found[k] \ taken[k] :
       /\ fwd' = [fwd EXCEPT ![k] = [pc |-> "send", result |-> t]]
       /\ taken' = [taken EXCEPT ![k] = @ \cup {t}]
  /\ UNCHANGED <<wanted, contested, cancelled, over, stopped, subVars, caller, closer, sent, crash>>

StopForwarding(k) ==
  /\ \/ fwd[k].pc = "read" /\ (CtxDone \/ Drained(k))
     \/ fwd[k].pc = "send" /\ CtxDone
  /\ fwd' = [fwd EXCEPT ![k] = [pc |-> "done"]]
  /\ UNCHANGED <<wanted, contested, cancelled, over, stopped, subVars, taken, caller, closer, sent, crash>>

\* The channel has room for every target: only its close makes a difference.
ForwardResult(k) ==
  /\ fwd[k].pc = "send"
  /\ IF Closed
     THEN crash' = TRUE /\ UNCHANGED <<fwd, sent>>
     ELSE /\ sent' = sent \cup {fwd[k].result}
          /\ fwd' = [fwd EXCEPT ![k] = [pc |-> "read"]]
          /\ UNCHANGED crash
  /\ UNCHANGED <<wanted, contested, cancelled, over, stopped, subVars, taken, caller, closer>>

-----------------------------------------------------------------------------
(* startCleanup: its goroutine closes the results first and cancels then.    *)

\* Mutant: a stopped scanner is not noticed.
CloserWaits ==
  /\ closer = "wait"
  /\ (\A k \in Scanners : ~Running(k)) \/ cancelled
  /\ closer' = "close"
  /\ UNCHANGED <<wanted, contested, cancelled, over, stopped, subVars, fwd, taken, caller, sent, crash>>

CloserWakes ==
  /\ closer = "wait"
  /\ (\A k \in Scanners : ~Running(k)) \/ cancelled \/ stopped
  /\ closer' = "close"
  /\ UNCHANGED <<wanted, contested, cancelled, over, stopped, subVars, fwd, taken, caller, sent, crash>>

CloseResults ==
  /\ closer = "close"
  /\ closer' = "cancel"
  /\ UNCHANGED <<wanted, contested, cancelled, over, stopped, subVars, fwd, taken, caller, sent, crash>>

CancelScan ==
  /\ closer = "cancel"
  /\ closer' = "done" /\ over' = TRUE
  /\ UNCHANGED <<wanted, contested, cancelled, stopped, subVars, fwd, taken, caller, sent, crash>>

CloserStep == CloserWakes \/ CloseResults \/ CancelScan
ForwarderStep(k) == StartScanner(k) \/ TakeResult(k) \/ StopForwarding(k) \/ ForwardResult(k)

Step ==
  \/ BeginScan \/ ReturnError \/ ReturnChannel \/ Cancel \/ Stop \/ CloserStep
  \/ \E k \in Scanners : Find(k) \/ EndScanner(k) \/ ForwarderStep(k)

\* A panic ends the process.
Next == ~crash /\ Step

Spec == Init /\ [][Next]_vars

\* Goroutines run; a TCP scan ends (TCPScan's ScansEnd), an ICMP scan need not.
Fairness ==
  /\ WF_vars(~crash /\ CloserStep)
  /\ \A k \in Scanners : WF_vars(~crash /\ ForwarderStep(k))
  /\ \A k \in Scanners \ {"icmp"} : WF_vars(~crash /\ Find(k)) /\ WF_vars(~crash /\ EndScanner(k))

-----------------------------------------------------------------------------
(* Properties.                                                               *)

\* The channel the call returns, for the targets somebody scans.
ChannelStatus ==
  IF crash THEN "crashed"
  ELSE IF caller = "off" THEN "none"
  ELSE IF Closed \/ Served = {} THEN "closed" ELSE "open"
Abandoned == cancelled \/ stopped \/ Failed # {}

Channel == INSTANCE ScanChannel WITH
  AllTargets <- Targets, wanted <- Served, status <- ChannelStatus,
  delivered <- sent, abandoned <- Abandoned, contested <- contested

\* Two scanners and two forwarders behave like one scanner: no result is lost
\* but what the ICMP scanner loses to another call, and the channel is not closed
\* under a forwarder, unless the caller cancels, the scanner is stopped, or one
\* of its scanners returned an error.
ImplementsChannel == Channel!ChanSpec

\* A call that is cancelled or stopped ends, and so does one without ICMP
\* targets, whatever becomes of the scanners' own channels.
CallEnds ==
  []<>(caller # "off" /\ (cancelled \/ stopped \/ \A k \in Scanners \ {"tcp"} : ~Running(k))
         => Closed \/ crash)
=============================================================================
