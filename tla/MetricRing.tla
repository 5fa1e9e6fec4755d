----------------------------- MODULE MetricRing -----------------------------
(***************************************************************************)
(* The buffer of a node's metrics (pkg/metrics/buffer.go): a ring of       *)
(* atomic pointers and an atomic position, without a lock.  The handlers   *)
(* of ReportStatus add points, the web API reads them all and the clean-up *)
(* the last one, at once; MetricsManager says who reaches which buffer.  A *)
(* point is the number of its Add.                                         *)
(***************************************************************************)
EXTENDS Integers

CONSTANTS
  Adders,    \* goroutines that may be in Add at once
  Readers,   \* goroutines that may be in GetPoints or GetLastPoint at once
  Size,      \* config.Retention
  MaxAdds    \* bound: points

VARIABLES
  points,     \* LockFreeRingBuffer.points
  pos,        \* LockFreeRingBuffer.pos
  adding,     \* the point a goroutine has a position for and has not stored
  reading,    \* the last or the running call of a reader
  overtaken   \* history: points not yet stored when their slot was given to another

vars == <<points, pos, adding, reading, overtaken>>

Zero == -1
NoPoint == -1
Places == 0..(Size - 1)
Slot(k) == k % Size

\* Mutant: the position is taken for the last point's, not for the next one's.
BehindNext(p, i) == (p - i + Size) % Size

\* The slot of the point that is i points older than the last one before p.
Behind(p, i) == (p - i - 1 + Size) % Size

InFlight == {adding[a] : a \in Adders} \ {NoPoint}

\* A call reads the points next..(count - 1) yet; inFlight is history: the points
\* that had a position but were not stored when it loaded pos.
NoCall == [pos |-> 0, count |-> 0, next |-> 0, inFlight |-> {}, answer |-> [i \in Places |-> Zero]]

Init ==
  /\ points = [s \in Places |-> Zero]
  /\ pos = 0
  /\ adding = [a \in Adders |-> NoPoint]
  /\ reading = [r \in Readers |-> NoCall]
  /\ overtaken = {}

\* Add takes the next position ...
Claim(a) ==
  /\ adding[a] = NoPoint /\ pos < MaxAdds
  /\ adding' = [adding EXCEPT ![a] = pos]
  /\ pos' = pos + 1
  /\ overtaken' = overtaken \cup {k \in InFlight : Slot(k) = Slot(pos)}
  /\ UNCHANGED <<points, reading>>

\* ... and stores its point.
Store(a) ==
  /\ adding[a] # NoPoint
  /\ points' = [points EXCEPT ![Slot(adding[a])] = adding[a]]
  /\ adding' = [adding EXCEPT ![a] = NoPoint]
  /\ UNCHANGED <<pos, reading, overtaken>>

\* GetPoints loads the position, and so does GetLastPoint, which returns nil if
\* there is no point yet.
LoadPosition(r) ==
  /\ reading[r].next = reading[r].count
  /\ \E count \in {1, Size} :
       /\ count = 1 /\ Size > 1 => pos > 0
       /\ reading' = [reading EXCEPT ![r] = [NoCall EXCEPT !.pos = pos, !.count = count, !.inFlight = InFlight]]
  /\ UNCHANGED <<points, pos, adding, overtaken>>

LoadPoint(r) ==
  /\ reading[r].next < reading[r].count
  /\ reading' = [reading EXCEPT ![r].answer[reading[r].next] = points[Behind(reading[r].pos, reading[r].next)],
                          ![r].next = @ + 1]
  /\ UNCHANGED <<points, pos, adding, overtaken>>

Next == (\E a \in Adders : Claim(a) \/ Store(a)) \/ (\E r \in Readers : LoadPosition(r) \/ LoadPoint(r))

Spec == Init /\ [][Next]_vars

-----------------------------------------------------------------------------
(* Properties.                                                               *)

\* The i-th point of an answer is the i-th last one before the position that was
\* read, though nothing keeps Add from storing before, between or after the reads.
\* It is older only if that one had a position but was not stored when the call
\* began, or was replaced by a point that was stored so late that its slot had been
\* given away; and newer only if it was added since the call began.
ReadsLatest ==
  \A r \in Readers : \A i \in 0..(reading[r].next - 1) :
    LET call == reading[r]
        wanted == call.pos - i - 1
        got == call.answer[i]
    IN  /\ got < wanted => wanted \in call.inFlight \/ got \in overtaken
        /\ got > wanted /\ got # Zero => got >= call.pos
=============================================================================
