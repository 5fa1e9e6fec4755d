--------------------------- MODULE EdgeProcesses ----------------------------
(***************************************************************************)
(* The processes at the edge: the agent (Agent), the listing of its sweep  *)
(* targets (Networks) and the Dusk checker (Dusk).  They share no variable *)
(* with each other: as in Scanning, a behaviour is one of a component that *)
(* runs while the others rest, here each in one state.                     *)
(***************************************************************************)
EXTENDS Naturals, Sequences

CONSTANTS
  Calls, Keys, External,                \* Agent
  HistorySize, MaxHeight, MaxInFlight,  \* Dusk
  W, Configs, Modes, PortList           \* Networks

VARIABLES
  part,                                                          \* the component that runs
  main, exit, cancelled, expired, errors, server, starter,       \* Agent
  first, health, sweep, scan, timedOut, closed, call, lock, cache, clients, up,
  broken, crash,
  start, ws, socket, peer, listener, done, sent, wire, last, history,   \* Dusk
  by, networks, at, addr, total, targets, finished               \* Networks

Server == INSTANCE Agent

Checker == INSTANCE Dusk

Listing == INSTANCE Networks

\* What the theorems assume: no call is the value of lock that names none, the
\* history holds a block, and the networks are lists of addresses with prefixes
\* (of which none has length 0).
CheckerConstants == HistorySize \in Nat \ {0}
ASSUME ServerAssumption == Server!NoLock \notin Calls
ASSUME CheckerAssumption == CheckerConstants
ListingConstants ==
  /\ W \in Nat \ {0} /\ PortList \in Seq(Nat)
  /\ Configs \subseteq Seq([ip : 0..(2^W - 1), ones : 1..W])
ASSUME ListingAssumption == ListingConstants

serverVars == <<main, exit, cancelled, expired, errors, server, starter, first, health, sweep,
                scan, timedOut, closed, call, lock, cache, clients, up, broken, crash>>
checkerVars == <<start, ws, socket, peer, listener, done, sent, wire, last, history>>
listingVars == <<by, networks, at, addr, total, targets, finished>>
vars == <<part, serverVars, checkerVars, listingVars>>

ServerRests ==
  /\ main = "exited" /\ exit = "nil" /\ cancelled = TRUE /\ expired = TRUE
  /\ errors = FALSE /\ server = "off" /\ starter = "returned" /\ first = TRUE /\ health = TRUE
  /\ sweep = FALSE /\ scan = "none" /\ timedOut = FALSE /\ closed = FALSE
  /\ call = [c \in Calls |-> Server!Resting]
  /\ lock = Server!NoLock /\ cache = {} /\ clients = [k \in Keys |-> 0]
  /\ up = {} /\ broken = {} /\ crash = FALSE

ListingRests ==
  /\ by = "service" /\ networks = <<>> /\ at = 1 /\ addr = Listing!None
  /\ total = 0 /\ targets = <<>> /\ finished = TRUE

Init ==
  /\ Checker!Init
  /\ \/ part = "server" /\ Server!Init /\ ListingRests
     \/ part = "checker" /\ ServerRests /\ ListingRests
     \/ part = "listing" /\ ServerRests /\ Listing!Init

Next ==
  /\ UNCHANGED part
  /\ \/ part = "server" /\ Server!Next /\ UNCHANGED <<checkerVars, listingVars>>
     \/ part = "checker" /\ Checker!Next /\ UNCHANGED <<serverVars, listingVars>>
     \/ part = "listing" /\ Listing!Next /\ UNCHANGED <<serverVars, checkerVars>>

\* A component that rests has no step its fairness asks for.
Spec == Init /\ [][Next]_vars /\ Server!Fairness /\ Checker!Fairness /\ Listing!Fairness

-----------------------------------------------------------------------------
(* The properties of the components, under names a .cfg can use.             *)

\* Each external client that is open belongs to one checker (Agent).
AgentClientsAccounted == Server!ClientsAccounted

\* A service is reported as down only if it, or the connection to it, was down
\* during the call (Agent).
AgentDownWasSeen == Server!DownWasSeen

\* Each status call is answered (Agent).
AgentCallsAnswered == Server!CallsAnswered

\* Each sweep ends (Agent).
AgentSweepEnds == Server!SweepEnds

\* A signal ends the process (Agent).
AgentShutdownEnds == Server!ShutdownEnds

\* The history is the last blocks the node sent (Dusk).
DuskHistoryIsLatest == Checker!HistoryIsLatest

\* The websocket is closed after Stop (Dusk).
DuskWebsocketReleased == Checker!WebsocketReleased

\* A sweep has exactly the targets of its networks (Networks); the sweeper's, if
\* none of them is a single address.
SweepTargetsExact == Listing!TargetsExact

\* The list of a sweep's targets is complete some time (Networks).
SweepListingEnds == part = "listing" => Listing!ListingEnds
=============================================================================
