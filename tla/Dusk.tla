-------------------------------- MODULE Dusk --------------------------------
(***************************************************************************)
(* The Dusk checker (pkg/checker/dusk/dusk.go, cmd/checkers/dusk/main.go): *)
(* StartMonitoring opens a websocket to a Dusk node and subscribes to its  *)
(* blocks, a listener reads them with a deadline, and the gRPC services    *)
(* answer from what the listener has stored.                               *)
(***************************************************************************)
EXTENDS Naturals, Sequences, FiniteSets

CONSTANTS
  HistorySize,   \* blockHistorySize
  MaxHeight,     \* bound on the blocks the node sends: heights 1..MaxHeight
  MaxInFlight    \* bound on the messages the websocket holds

VARIABLES
  start,      \* StartMonitoring: dial, session, subscribe, returned, failed
  ws,         \* d.ws is set
  socket,     \* the websocket: none, open, closed
  peer,       \* the node still holds its end
  listener,   \* listenForEvents: none, select, read, ended
  done,       \* Done is closed
  sent,       \* the height of the last block the node sent
  wire,       \* messages on the way: heights, and 0 for one that is no block
  last,       \* lastBlockData, its height; 0 at first
  history     \* blockHistory, heights

vars == <<start, ws, socket, peer, listener, done, sent, wire, last, history>>

Junk == 0

Init ==
  /\ start = "dial" /\ ws = FALSE /\ socket = "none" /\ peer = FALSE
  /\ listener = "none" /\ done = FALSE
  /\ sent = 0 /\ wire = <<>>
  /\ last = 0 /\ history = <<>>

-----------------------------------------------------------------------------
(* StartMonitoring.  When it fails the process ends (Alive).                 *)

Dial ==
  /\ start = "dial"
  /\ \/ start' = "session" /\ ws' = TRUE /\ socket' = "open" /\ peer' = TRUE
     \/ start' = "failed" /\ UNCHANGED <<ws, socket, peer>>
  /\ UNCHANGED <<listener, done, sent, wire, last, history>>

\* The first message is the session; it is read without a deadline.
GetSession ==
  /\ start = "session"
  /\ \/ peer /\ start' = "subscribe" /\ UNCHANGED socket
     \/ ~peer /\ start' = "failed" /\ socket' = "closed"
  /\ UNCHANGED <<ws, peer, listener, done, sent, wire, last, history>>

\* A subscription that fails leaves the websocket open.
Subscribe ==
  /\ start = "subscribe"
  /\ \/ start' = "returned" /\ listener' = "select"
     \/ start' = "failed" /\ UNCHANGED listener
  /\ UNCHANGED <<ws, socket, peer, done, sent, wire, last, history>>

\* Stop.
CloseDone ==
  /\ ~done
  /\ done' = TRUE
  /\ UNCHANGED <<start, ws, socket, peer, listener, sent, wire, last, history>>

-----------------------------------------------------------------------------
(* The node.                                                                 *)

Send ==
  /\ peer /\ start = "returned" /\ Len(wire) < MaxInFlight
  /\ \/ sent < MaxHeight /\ sent' = sent + 1 /\ wire' = Append(wire, sent + 1)
     \/ wire' = Append(wire, Junk) /\ UNCHANGED sent
  /\ UNCHANGED <<start, ws, socket, peer, listener, done, last, history>>

Hangup ==
  /\ peer
  /\ peer' = FALSE
  /\ UNCHANGED <<start, ws, socket, listener, done, sent, wire, last, history>>

-----------------------------------------------------------------------------
(* listenForEvents.                                                          *)

Select ==
  /\ listener = "select"
  /\ IF done THEN listener' = "ended" /\ socket' = "closed"
     ELSE listener' = "read" /\ UNCHANGED socket
  /\ UNCHANGED <<start, ws, peer, done, sent, wire, last, history>>

\* Mutant: the oldest block goes one too late.
RememberOneMore(b) ==
  /\ last' = b
  /\ history' = Append(IF Len(history) > HistorySize THEN Tail(history) ELSE history, b)

\* processMessage, for a message that parses.
Remember(b) ==
  /\ last' = b
  /\ history' = Append(IF Len(history) >= HistorySize THEN Tail(history) ELSE history, b)

Read ==
  /\ listener = "read" /\ wire # <<>>
  /\ wire' = Tail(wire) /\ listener' = "select"
  /\ IF Head(wire) = Junk THEN UNCHANGED <<last, history>> ELSE Remember(Head(wire))
  /\ UNCHANGED <<start, ws, socket, peer, done, sent>>

\* Mutant: the read has no deadline.
ReadWaits ==
  /\ listener = "read" /\ wire = <<>> /\ ~peer
  /\ listener' = "ended" /\ socket' = "closed"
  /\ UNCHANGED <<start, ws, peer, done, sent, wire, last, history>>

\* The node has hung up, or the deadline is past: nobody listens from now on,
\* and d.ws stays set.
ReadFails ==
  /\ listener = "read" /\ wire = <<>>
  /\ listener' = "ended" /\ socket' = "closed"
  /\ UNCHANGED <<start, ws, peer, done, sent, wire, last, history>>

\* What GetStatus and the health check answer with: the block, if ws is set.
Answer == IF ws THEN [available |-> TRUE, block |-> last] ELSE [available |-> FALSE]

Alive == start # "failed"

Next ==
  /\ Alive
  /\ \/ Dial \/ GetSession \/ Subscribe \/ CloseDone
     \/ Send \/ Hangup
     \/ Select \/ Read \/ ReadFails

Spec == Init /\ [][Next]_vars

\* The listener runs, and its deadline passes.
Fairness == WF_vars(Alive /\ (Select \/ Read \/ ReadFails))

-----------------------------------------------------------------------------
(* Properties.                                                               *)

\* However blocks and other messages mix, the history is the last blocks that
\* came out of the websocket, none missing, doubled or out of order, and an
\* answer carries the newest of them.
HistoryIsLatest ==
  LET read == sent - Cardinality({i \in DOMAIN wire : wire[i] # Junk})
      kept == IF read < HistorySize THEN read ELSE HistorySize IN
  /\ history = [i \in 1..kept |-> read - kept + i]
  /\ Answer.available => Answer.block = read

\* A websocket is not kept once Done is closed: the listener notices, though
\* the node may be silent.
WebsocketReleased == done /\ listener # "none" ~> socket = "closed"
=============================================================================
