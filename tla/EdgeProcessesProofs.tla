------------------------ MODULE EdgeProcessesProofs -------------------------
(* Theorems about EdgeProcesses: what the agent's calls and the Dusk checker *)
(* promise holds of it, for every set of calls, keys and external checkers,  *)
(* every history size and every number of blocks.                            *)
EXTENDS EdgeProcesses, Integers, FiniteSetTheorems, FunctionTheorems, SequenceTheorems, TLAPS

-----------------------------------------------------------------------------
(* The agent's calls.                                                        *)

CallStates == {"lock", "create", "check", "answered", "done"}

CallsTyped ==
  /\ call \in [Calls -> {Server!Resting} \cup [pc : CallStates, key : Keys, sawDown : BOOLEAN]]
  /\ clients \in [Keys -> Nat]

\* The lock belongs to the call that makes a checker, and the checker it makes
\* is not in the cache yet.
LockHeld ==
  \A c \in Calls :
    /\ call[c].pc = "create" => lock = c /\ call[c].key \notin cache
    /\ lock = c => call[c].pc = "create"

\* What a call knows: the checker it looks at is cached, and a checker that does
\* not answer has been seen down.
CallKnows ==
  \A c \in Calls : call[c].pc # "off" =>
    /\ call[c].pc = "check" => call[c].key \in cache
    /\ call[c].pc = "done" \/ ~Server!Answering(call[c].key) => call[c].sawDown

CacheInv == CallsTyped /\ LockHeld /\ Server!ClientsAccounted /\ CallKnows

\* What a running call has.
LEMMA RunningCall ==
  ASSUME CallsTyped, NEW c \in Calls, call[c].pc # "off"
  PROVE  /\ call[c] \in [pc : CallStates, key : Keys, sawDown : BOOLEAN]
         /\ call[c].key \in Keys /\ call[c].sawDown \in BOOLEAN
<1>1. call[c] # Server!Resting
  BY DEF Server!Resting
<1> QED
  BY <1>1 DEF CallsTyped

\* What Become changes: the state of one call.
LEMMA BecomeChanges ==
  ASSUME CallsTyped, NEW c \in Calls, call[c].pc # "off", NEW pc \in CallStates, Server!Become(c, pc)
  PROVE  /\ call'[c].pc = pc /\ call'[c].key = call[c].key
         /\ call'[c].sawDown = (call[c].sawDown \/ ~Server!Answering(call[c].key))
         /\ \A d \in Calls \ {c} : call'[d] = call[d]
         /\ call' \in [Calls -> {Server!Resting} \cup [pc : CallStates, key : Keys, sawDown : BOOLEAN]]
<1>1. call[c] \in [pc : CallStates, key : Keys, sawDown : BOOLEAN]
  BY RunningCall
<1> DEFINE new == [call[c] EXCEPT !.pc = pc, !.sawDown = @ \/ ~Server!Answering(call[c].key)]
<1>2. /\ new \in [pc : CallStates, key : Keys, sawDown : BOOLEAN]
      /\ new.pc = pc /\ new.key = call[c].key
      /\ new.sawDown = (call[c].sawDown \/ ~Server!Answering(call[c].key))
  BY <1>1, Zenon
<1>3. call' = [call EXCEPT ![c] = new]
  BY DEF Server!Become
<1> HIDE DEF new
<1> QED
  BY <1>2, <1>3 DEF CallsTyped

-----------------------------------------------------------------------------
(* The steps of a call.                                                      *)

LEMMA BeginKeeps ==
  ASSUME CacheInv, NEW c \in Calls, Server!BeginCall(c)
  PROVE  CacheInv'
<1>1. PICK k \in Keys : call' = [call EXCEPT ![c] = [pc |-> "lock", key |-> k, sawDown |-> ~Server!Answering(k)]]
  BY DEF Server!BeginCall
<1>2. /\ call[c].pc = "off"
      /\ UNCHANGED <<lock, cache, clients, up, broken>>
  BY DEF Server!BeginCall
<1>3. /\ call'[c] = [pc |-> "lock", key |-> k, sawDown |-> ~Server!Answering(k)]
      /\ \A d \in Calls \ {c} : call'[d] = call[d]
  BY <1>1 DEF CacheInv, CallsTyped
<1>4. CallsTyped'
  <2>1. [pc |-> "lock", key |-> k, sawDown |-> ~Server!Answering(k)] \in [pc : CallStates, key : Keys, sawDown : BOOLEAN]
    BY DEF CallStates, Server!Answering
  <2> QED
    BY <2>1, <1>1, <1>2 DEF CacheInv, CallsTyped
<1>5. lock # c
  BY <1>2 DEF CacheInv, LockHeld
<1>6. LockHeld'
  BY <1>2, <1>3, <1>5 DEF CacheInv, LockHeld
<1>7. Server!ClientsAccounted'
  BY <1>2, <1>3, <1>5 DEF CacheInv, Server!ClientsAccounted
<1>8. CallKnows'
  <2>1. call'[c].pc = "lock" /\ call'[c].key = k /\ call'[c].sawDown = (~Server!Answering(k))
    BY <1>3
  <2>2. call'[c].sawDown = (~(k \notin External \/ (k \in up /\ k \notin broken)))
    BY <2>1 DEF Server!Answering
  <2> QED
    BY <1>2, <1>3, <2>1, <2>2 DEF CacheInv, CallKnows, Server!Answering
<1> QED
  BY <1>4, <1>6, <1>7, <1>8 DEF CacheInv

LEMMA LockKeeps ==
  ASSUME Server!NoLock \notin Calls, CacheInv, NEW c \in Calls, Server!Lock(c)
  PROVE  CacheInv'
<1> DEFINE k == call[c].key
<1>1. call[c].pc = "lock" /\ lock = Server!NoLock /\ UNCHANGED <<cache, up>>
  BY DEF Server!Lock
<1>2. k \in Keys /\ CallsTyped
  BY <1>1, RunningCall DEF CacheInv
<1>3. \A d \in Calls : call[d].pc # "create"
  BY <1>1 DEF CacheInv, LockHeld
<1>4. CASE k \in cache
  <2>1. Server!Become(c, "check") /\ UNCHANGED <<lock, clients, broken>>
    BY <1>4 DEF Server!Lock
  <2>2. /\ call'[c].pc = "check" /\ call'[c].key = k
        /\ call'[c].sawDown = (call[c].sawDown \/ ~Server!Answering(k))
        /\ \A d \in Calls \ {c} : call'[d] = call[d]
        /\ call' \in [Calls -> {Server!Resting} \cup [pc : CallStates, key : Keys, sawDown : BOOLEAN]]
    BY <1>1, <1>2, <2>1, BecomeChanges DEF CallStates
  <2>3. CallsTyped'
    BY <1>2, <2>1, <2>2 DEF CallsTyped
  <2>4. LockHeld'
    BY <1>1, <1>3, <2>1, <2>2 DEF LockHeld
  <2>5. Server!ClientsAccounted'
    BY <1>1, <2>1, <2>2 DEF CacheInv, Server!ClientsAccounted
  <2>6. CallKnows'
    BY <1>1, <1>4, <2>1, <2>2 DEF CacheInv, CallKnows, Server!Answering
  <2> QED
    BY <2>3, <2>4, <2>5, <2>6 DEF CacheInv
<1>5. CASE k \notin cache
  <2>1. /\ Server!Become(c, "create") /\ lock' = c
        /\ clients' = [clients EXCEPT ![k] = IF k \in External THEN @ + 1 ELSE @]
        /\ broken' = IF k \in External \ up THEN broken \cup {k} ELSE broken
    <3>1. Server!Become(c, "create") /\ Server!Dial(k) /\ lock' = c
      BY <1>5 DEF Server!Lock
    <3>2. clients = [clients EXCEPT ![k] = @]
      BY <1>2 DEF CallsTyped
    <3> QED
      BY <3>1, <3>2 DEF Server!Dial
  <2>2. /\ call'[c].pc = "create" /\ call'[c].key = k
        /\ call'[c].sawDown = (call[c].sawDown \/ ~Server!Answering(k))
        /\ \A d \in Calls \ {c} : call'[d] = call[d]
        /\ call' \in [Calls -> {Server!Resting} \cup [pc : CallStates, key : Keys, sawDown : BOOLEAN]]
    BY <1>1, <1>2, <2>1, BecomeChanges DEF CallStates
  <2>3. CallsTyped'
    BY <1>2, <2>1, <2>2 DEF CallsTyped
  <2>4. LockHeld'
    BY <1>1, <1>3, <1>5, <2>1, <2>2 DEF LockHeld
  <2>5. clients[k] = 0
    BY <1>1, <1>2, <1>5 DEF CacheInv, Server!ClientsAccounted
  <2>6. ASSUME NEW j \in Keys
        PROVE  clients'[j] = IF j \in External /\ (j \in cache' \/ j = k) THEN 1 ELSE 0
    <3>1. CASE j = k
      BY <3>1, <1>2, <2>1, <2>5, <1>1, <1>5 DEF CallsTyped
    <3>2. CASE j # k
      BY <3>2, <1>1, <1>2, <2>1 DEF CacheInv, Server!ClientsAccounted, CallsTyped
    <3> QED
      BY <3>1, <3>2
  <2>7. Server!ClientsAccounted'
    BY <2>1, <2>2, <2>6 DEF Server!ClientsAccounted
  <2>8. \A j : Server!Answering(j) => Server!Answering(j)'
    BY <1>1, <2>1 DEF Server!Answering
  <2>9. CallKnows'
    BY <1>1, <2>2, <2>8 DEF CacheInv, CallKnows
  <2> QED
    BY <2>3, <2>4, <2>7, <2>9 DEF CacheInv
<1> QED
  BY <1>4, <1>5

LEMMA CreateKeeps ==
  ASSUME Server!NoLock \notin Calls, CacheInv, NEW c \in Calls, Server!Create(c)
  PROVE  CacheInv'
<1> DEFINE k == call[c].key
<1>1. call[c].pc = "create" /\ lock' = Server!NoLock /\ UNCHANGED up
  BY DEF Server!Create
<1>2. /\ k \in Keys /\ CallsTyped
      /\ lock = c /\ k \notin cache
  BY <1>1, RunningCall DEF CacheInv, LockHeld
<1>3. clients[k] = IF k \in External THEN 1 ELSE 0
  BY <1>2 DEF CacheInv, Server!ClientsAccounted
<1>4. \A d \in Calls \ {c} : call[d].pc # "create"
  BY <1>2 DEF CacheInv, LockHeld
<1>5. CASE Server!Answering(k)
  <2>1. Server!Become(c, "check") /\ cache' = cache \cup {k} /\ UNCHANGED <<clients, broken>>
    BY <1>5 DEF Server!Create
  <2>2. /\ call'[c].pc = "check" /\ call'[c].key = k
        /\ call'[c].sawDown = (call[c].sawDown \/ ~Server!Answering(k))
        /\ \A d \in Calls \ {c} : call'[d] = call[d]
        /\ call' \in [Calls -> {Server!Resting} \cup [pc : CallStates, key : Keys, sawDown : BOOLEAN]]
    BY <1>1, <1>2, <2>1, BecomeChanges DEF CallStates
  <2>3. CallsTyped'
    BY <1>2, <2>1, <2>2 DEF CallsTyped
  <2>4. LockHeld'
    BY <1>1, <1>4, <2>2 DEF LockHeld
  <2>5. ASSUME NEW j \in Keys
        PROVE  clients'[j] = IF j \in External /\ j \in cache' THEN 1 ELSE 0
    BY <2>1, <1>2, <1>3 DEF CacheInv, Server!ClientsAccounted
  <2>6. Server!ClientsAccounted'
    BY <1>1, <2>5 DEF Server!ClientsAccounted
  <2>7. CallKnows'
    BY <1>1, <2>1, <2>2 DEF CacheInv, CallKnows, Server!Answering
  <2> QED
    BY <2>3, <2>4, <2>6, <2>7 DEF CacheInv
<1>6. CASE ~Server!Answering(k)
  <2>1. /\ Server!Become(c, "done") /\ clients' = [clients EXCEPT ![k] = @ - 1] /\ UNCHANGED cache
        /\ broken' = broken \ {k}
    BY <1>6 DEF Server!Create, Server!CloseClient
  <2>2. /\ call'[c].pc = "done" /\ call'[c].key = k
        /\ call'[c].sawDown = (call[c].sawDown \/ ~Server!Answering(k))
        /\ \A d \in Calls \ {c} : call'[d] = call[d]
        /\ call' \in [Calls -> {Server!Resting} \cup [pc : CallStates, key : Keys, sawDown : BOOLEAN]]
    BY <1>1, <1>2, <2>1, BecomeChanges DEF CallStates
  <2>3. clients[k] = 1
    BY <1>3, <1>6 DEF Server!Answering
  <2>4. CallsTyped'
    BY <1>2, <2>1, <2>2, <2>3 DEF CallsTyped
  <2>5. LockHeld'
    BY <1>1, <1>4, <2>2 DEF LockHeld
  <2>6. ASSUME NEW j \in Keys
        PROVE  clients'[j] = IF j \in External /\ j \in cache' THEN 1 ELSE 0
    <3>1. CASE j = k
      BY <3>1, <1>2, <2>1, <2>3 DEF CallsTyped
    <3>2. CASE j # k
      BY <3>2, <1>2, <2>1 DEF CacheInv, Server!ClientsAccounted, CallsTyped
    <3> QED
      BY <3>1, <3>2
  <2>7. Server!ClientsAccounted'
    BY <1>1, <2>6 DEF Server!ClientsAccounted
  <2>8. \A j : Server!Answering(j) => Server!Answering(j)'
    BY <1>1, <2>1 DEF Server!Answering
  <2>9. CallKnows'
    BY <1>1, <1>6, <2>1, <2>2, <2>8 DEF CacheInv, CallKnows
  <2> QED
    BY <2>4, <2>5, <2>7, <2>9 DEF CacheInv
<1> QED
  BY <1>5, <1>6

\* A cached checker has its client, so that a check fails only if what it looks
\* at does not answer.
LEMMA CheckKeeps ==
  ASSUME CacheInv, NEW c \in Calls, Server!Check(c)
  PROVE  CacheInv'
<1> DEFINE k == call[c].key
           pc == IF Server!Works(k) THEN "answered" ELSE "done"
<1>1. call[c].pc = "check" /\ Server!Become(c, pc) /\ UNCHANGED <<lock, cache, clients, up, broken>>
  BY DEF Server!Check
<1>2. CallsTyped /\ k \in Keys /\ k \in cache
  BY <1>1, RunningCall DEF CacheInv, CallKnows
<1>3. k \in External => clients[k] = 1
  BY <1>2 DEF CacheInv, Server!ClientsAccounted
<1>4. pc = "done" => ~Server!Answering(k)
  BY <1>3 DEF Server!Works
<1>5. pc \in CallStates /\ pc # "check" /\ pc # "create"
  BY DEF CallStates
<1> HIDE DEF pc
<1>6. /\ call'[c].pc = pc /\ call'[c].key = k
      /\ call'[c].sawDown = (call[c].sawDown \/ ~Server!Answering(k))
      /\ \A d \in Calls \ {c} : call'[d] = call[d]
      /\ call' \in [Calls -> {Server!Resting} \cup [pc : CallStates, key : Keys, sawDown : BOOLEAN]]
  BY <1>1, <1>2, <1>5, BecomeChanges
<1>7. CallsTyped'
  BY <1>1, <1>2, <1>6 DEF CallsTyped
<1>8. lock # c
  BY <1>1 DEF CacheInv, LockHeld
<1>9. LockHeld'
  BY <1>1, <1>5, <1>6, <1>8 DEF CacheInv, LockHeld
<1>10. Server!ClientsAccounted'
  BY <1>1, <1>6, <1>8 DEF CacheInv, Server!ClientsAccounted
<1>11. CallKnows'
  BY <1>1, <1>4, <1>5, <1>6 DEF CacheInv, CallKnows, Server!Answering
<1> QED
  BY <1>7, <1>9, <1>10, <1>11 DEF CacheInv

LEMMA AnswerKeeps ==
  ASSUME CacheInv, NEW c \in Calls, Server!Answer(c)
  PROVE  CacheInv'
<1>1. /\ call[c].pc \in {"answered", "done"}
      /\ call' = [call EXCEPT ![c] = Server!Resting] /\ UNCHANGED <<lock, cache, clients, up, broken>>
  BY DEF Server!Answer
<1>2. /\ call'[c].pc = "off"
      /\ \A d \in Calls \ {c} : call'[d] = call[d]
  BY <1>1 DEF CacheInv, CallsTyped, Server!Resting
<1>3. lock # c
  BY <1>1 DEF CacheInv, LockHeld
<1>4. CallsTyped'
  BY <1>1 DEF CacheInv, CallsTyped
<1>5. LockHeld'
  BY <1>1, <1>2, <1>3 DEF CacheInv, LockHeld
<1>6. Server!ClientsAccounted'
  BY <1>1, <1>2, <1>3 DEF CacheInv, Server!ClientsAccounted
<1>7. CallKnows'
  BY <1>1, <1>2 DEF CacheInv, CallKnows, Server!Answering
<1> QED
  BY <1>4, <1>5, <1>6, <1>7 DEF CacheInv

\* An external checker that stops to answer is seen by the calls about it.
LEMMA ToggleKeeps ==
  ASSUME CacheInv, NEW k \in External, Server!Toggle(k)
  PROVE  CacheInv'
<1> DEFINE About(c) == call[c].pc # "off" /\ call[c].key = k
<1>1. UNCHANGED <<lock, cache, clients>>
  BY DEF Server!Toggle
<1>2. ASSUME NEW c \in Calls
      PROVE  /\ call'[c] \in {Server!Resting} \cup [pc : CallStates, key : Keys, sawDown : BOOLEAN]
             /\ call'[c].pc = call[c].pc
             /\ call[c].pc # "off" => call'[c].key = call[c].key
             /\ call[c].pc # "off" /\ call[c].key = k => call'[c].sawDown
             /\ ~About(c) => call'[c] = call[c]
  <2>1. call'[c] = IF About(c) THEN [call[c] EXCEPT !.sawDown = TRUE] ELSE call[c]
    BY DEF Server!Toggle
  <2>2. CASE About(c)
    <3>1. call[c] \in [pc : CallStates, key : Keys, sawDown : BOOLEAN]
      BY <2>2, RunningCall DEF CacheInv
    <3> QED
      BY <2>1, <2>2, <3>1
  <2>3. CASE ~About(c)
    BY <2>1, <2>3 DEF CacheInv, CallsTyped
  <2> QED
    BY <2>2, <2>3
<1>3. \A j : j # k => (j \in up' <=> j \in up) /\ (j \in broken' <=> j \in broken)
  BY DEF Server!Toggle
<1>4. CallsTyped'
  <2>1. call' = [c \in Calls |-> call'[c]]
    BY DEF Server!Toggle
  <2> QED
    BY <1>1, <1>2, <2>1 DEF CacheInv, CallsTyped
<1>5. LockHeld'
  BY <1>1, <1>2 DEF CacheInv, LockHeld
<1>6. \A c \in Calls : lock = c => call'[c].key = call[c].key
  BY <1>2 DEF CacheInv, LockHeld
<1>7. Server!ClientsAccounted'
  BY <1>1, <1>6 DEF CacheInv, Server!ClientsAccounted
<1>8. CallKnows'
  <2> SUFFICES ASSUME NEW c \in Calls, call'[c].pc # "off"
               PROVE  /\ call'[c].pc = "check" => call'[c].key \in cache
                      /\ call'[c].pc = "done" => call'[c].sawDown
                      /\ call'[c].key \in External \ (up' \ broken') => call'[c].sawDown
    BY <1>1 DEF CallKnows, Server!Answering
  <2>1. call[c].pc # "off" /\ call'[c].key = call[c].key
    BY <1>2
  <2>2. CASE call[c].key = k
    BY <2>1, <2>2, <1>2 DEF CacheInv, CallKnows
  <2>3. CASE call[c].key # k
    <3>1. call'[c] = call[c]
      BY <2>3, <1>2
    <3> QED
      BY <2>1, <2>3, <3>1, <1>3 DEF CacheInv, CallKnows, Server!Answering
  <2> QED
    BY <2>2, <2>3
<1> QED
  BY <1>4, <1>5, <1>7, <1>8 DEF CacheInv

\* A connection that is made again does no harm.
LEMMA ReconnectKeeps ==
  ASSUME CacheInv, NEW k \in External, Server!Reconnect(k)
  PROVE  CacheInv'
<1>1. UNCHANGED <<call, lock, cache, clients, up>> /\ broken' \subseteq broken
  BY DEF Server!Reconnect
<1>2. \A j : Server!Answering(j) => Server!Answering(j)'
  BY <1>1 DEF Server!Answering
<1> QED
  BY <1>1, <1>2 DEF CacheInv, CallsTyped, LockHeld, Server!ClientsAccounted, CallKnows

LEMMA CacheKept ==
  ASSUME Server!NoLock \notin Calls, CacheInv, [Server!Next]_Server!vars
  PROVE  CacheInv'
<1>1. CASE UNCHANGED <<Server!callVars>>
  BY <1>1 DEF Server!callVars, CacheInv, CallsTyped, LockHeld, Server!ClientsAccounted, CallKnows, Server!Answering
<1>2. CASE \E c \in Calls : Server!BeginCall(c) \/ Server!CallStep(c)
  BY <1>2, BeginKeeps, LockKeeps, CreateKeeps, CheckKeeps, AnswerKeeps DEF Server!CallStep
<1>3. CASE \E k \in External : Server!Toggle(k) \/ Server!Reconnect(k)
  BY <1>3, ToggleKeeps, ReconnectKeeps
<1>4. CASE Server!StarterStep \/ Server!Deadline \/ Server!ScanCompletes \/ Server!ScanAbandoned
  BY <1>1, <1>4 DEF Server!StarterStep, Server!StartServer, Server!BeginSweep, Server!EndSweep, Server!Loop, Server!ReportError, Server!Deadline,
     Server!ScanCompletes, Server!ScanAbandoned
<1>5. CASE Server!MainStep \/ Server!Serve \/ Server!Signal \/ Server!Expire
  BY <1>1, <1>5 DEF Server!MainStep, Server!TakeError, Server!GracefulStop, Server!StopService, Server!Linger, Server!Serve, Server!Signal, Server!Expire
<1> QED
  BY <1>1, <1>2, <1>3, <1>4, <1>5 DEF Server!Next, Server!Step, Server!vars

LEMMA CacheStarts ==
  ASSUME Server!NoLock \notin Calls, Server!Init
  PROVE  CacheInv
BY DEF Server!Init, CacheInv, CallsTyped, LockHeld, Server!ClientsAccounted, CallKnows, Server!Resting

LEMMA CacheRests ==
  ASSUME Server!NoLock \notin Calls, ServerRests
  PROVE  CacheInv
BY DEF ServerRests, CacheInv, CallsTyped, LockHeld, Server!ClientsAccounted, CallKnows, Server!Resting

-----------------------------------------------------------------------------
(* The Dusk checker.                                                         *)

\* The blocks of a list that come after its place i.
BlocksAfter(w, i) == {j \in DOMAIN w : i < j /\ w[j] # Checker!Junk}

CountAfter(w, i) == Cardinality(BlocksAfter(w, i))

\* The last n of the blocks up to height h.
LastBlocks(h, n) == [i \in 1..n |-> h - n + i]

CheckerTyped == sent \in Nat /\ wire \in Seq(Nat)

\* What is on the way is the last blocks, in their order.
WireInOrder ==
  \A i \in DOMAIN wire : wire[i] # Checker!Junk => wire[i] = sent - CountAfter(wire, i)

WasRead == sent - CountAfter(wire, 0)

HistoryOf(read) ==
  /\ read \in Nat /\ last = read
  /\ history = LastBlocks(read, IF read < HistorySize THEN read ELSE HistorySize)

CheckerInv == CheckerTyped /\ WireInOrder /\ HistoryOf(WasRead)

LEMMA BlocksFinite ==
  ASSUME NEW w \in Seq(Nat), NEW i \in Nat
  PROVE  IsFiniteSet(BlocksAfter(w, i)) /\ CountAfter(w, i) \in Nat
<1>1. DOMAIN w = 1..Len(w) /\ Len(w) \in Nat
  OBVIOUS
<1>2. IsFiniteSet(1..Len(w))
  BY <1>1, FS_Interval
<1>3. BlocksAfter(w, i) \subseteq 1..Len(w)
  BY <1>1 DEF BlocksAfter
<1> QED
  BY <1>2, <1>3, FS_Subset, FS_CardinalityType DEF CountAfter

\* One more block in a set of places.
LEMMA OneMore ==
  ASSUME NEW w \in Seq(Nat), NEW i \in Nat, NEW v \in Seq(Nat), NEW k \in Nat, NEW j,
         j \notin BlocksAfter(w, i), BlocksAfter(v, k) = BlocksAfter(w, i) \cup {j}
  PROVE  CountAfter(v, k) = CountAfter(w, i) + 1
<1>1. IsFiniteSet(BlocksAfter(w, i))
  BY BlocksFinite
<1> QED
  BY <1>1, FS_AddElement DEF CountAfter

LEMMA AppendedBlock ==
  ASSUME NEW w \in Seq(Nat), NEW m \in Nat, NEW i \in Nat, i <= Len(w)
  PROVE  CountAfter(Append(w, m), i) = IF m # Checker!Junk THEN CountAfter(w, i) + 1 ELSE CountAfter(w, i)
<1> DEFINE v == Append(w, m)
<1>1. /\ DOMAIN w = 1..Len(w) /\ DOMAIN v = 1..(Len(w) + 1) /\ Len(w) \in Nat /\ v \in Seq(Nat)
      /\ v[Len(w) + 1] = m /\ \A j \in 1..Len(w) : v[j] = w[j]
  OBVIOUS
<1>2. CASE m = Checker!Junk
  <2>1. BlocksAfter(v, i) = BlocksAfter(w, i)
    BY <1>1, <1>2 DEF BlocksAfter
  <2> QED
    BY <1>2, <2>1 DEF CountAfter
<1>3. CASE m # Checker!Junk
  <2>1. BlocksAfter(v, i) = BlocksAfter(w, i) \cup {Len(w) + 1}
    BY <1>1, <1>3 DEF BlocksAfter
  <2>2. Len(w) + 1 \notin BlocksAfter(w, i)
    BY <1>1 DEF BlocksAfter
  <2> QED
    BY <1>1, <1>3, <2>1, <2>2, OneMore
<1> QED
  BY <1>2, <1>3

LEMMA TakenBlock ==
  ASSUME NEW w \in Seq(Nat), w # <<>>, NEW i \in Nat
  PROVE  CountAfter(Tail(w), i) = CountAfter(w, i + 1)
<1> DEFINE S == BlocksAfter(Tail(w), i)
           T == BlocksAfter(w, i + 1)
           f == [j \in S |-> j + 1]
<1>1. /\ DOMAIN w = 1..Len(w) /\ DOMAIN Tail(w) = 1..(Len(w) - 1) /\ Len(w) \in Nat
      /\ \A j \in 1..(Len(w) - 1) : Tail(w)[j] = w[j + 1]
  OBVIOUS
<1>2. ASSUME NEW j \in S PROVE j \in Int /\ j + 1 \in T
  BY <1>1 DEF BlocksAfter
<1>3. ASSUME NEW t \in T PROVE t \in Int /\ t - 1 \in S
  <2>1. t \in 1..Len(w) /\ i + 1 < t /\ w[t] # Checker!Junk
    BY <1>1 DEF BlocksAfter
  <2>2. t \in Int /\ t - 1 \in 1..(Len(w) - 1) /\ i < t - 1 /\ (t - 1) + 1 = t
    BY <1>1, <2>1
  <2>3. Tail(w)[t - 1] # Checker!Junk
    BY <1>1, <2>1, <2>2
  <2> QED
    BY <1>1, <2>2, <2>3 DEF BlocksAfter
<1>4. f \in Bijection(S, T)
  <2> HIDE DEF S, T
  <2>1. f \in [S -> T] /\ \A j, k \in S : f[j] = f[k] => j = k
    BY <1>2
  <2>2. \A t \in T : t - 1 \in S /\ f[t - 1] = t
    BY <1>3
  <2> HIDE DEF f
  <2> QED
    BY <2>1, <2>2 DEF Bijection, Injection, Surjection, IsInjective
<1>5. IsFiniteSet(S)
  <2>1. Tail(w) \in Seq(Nat)
    OBVIOUS
  <2> QED
    BY <2>1, BlocksFinite
<1> HIDE DEF f
<1> QED
  BY <1>4, <1>5, FS_Bijection DEF ExistsBijection, CountAfter

LEMMA FirstBlock ==
  ASSUME NEW w \in Seq(Nat), w # <<>>
  PROVE  CountAfter(w, 0) = IF Head(w) # Checker!Junk THEN CountAfter(w, 1) + 1 ELSE CountAfter(w, 1)
<1>1. /\ DOMAIN w = 1..Len(w) /\ Len(w) \in Nat \ {0} /\ Head(w) = w[1]
  OBVIOUS
<1>2. CASE Head(w) = Checker!Junk
  <2>1. BlocksAfter(w, 0) = BlocksAfter(w, 1)
    BY <1>1, <1>2 DEF BlocksAfter
  <2> QED
    BY <1>2, <2>1 DEF CountAfter
<1>3. CASE Head(w) # Checker!Junk
  <2>1. BlocksAfter(w, 0) = BlocksAfter(w, 1) \cup {1}
    BY <1>1, <1>3 DEF BlocksAfter
  <2>2. 1 \notin BlocksAfter(w, 1)
    BY <1>1 DEF BlocksAfter
  <2> QED
    BY <1>3, <2>1, <2>2, OneMore
<1> QED
  BY <1>2, <1>3

LEMMA SendKeeps ==
  ASSUME CheckerConstants, CheckerInv, Checker!Send
  PROVE  CheckerInv'
<1>1. PICK m \in Nat :
        /\ wire' = Append(wire, m) /\ sent' = IF m = Checker!Junk THEN sent ELSE sent + 1
        /\ m # Checker!Junk => m = sent + 1
        /\ UNCHANGED <<last, history>>
  BY DEF Checker!Send, CheckerInv, CheckerTyped, Checker!Junk
<1>2. sent \in Nat /\ wire \in Seq(Nat) /\ DOMAIN wire = 1..Len(wire) /\ Len(wire) \in Nat
  BY DEF CheckerInv, CheckerTyped
<1>3. CheckerTyped'
  BY <1>1, <1>2 DEF CheckerTyped
<1>4. ASSUME NEW i \in 0..Len(wire)
      PROVE  sent' - CountAfter(wire', i) = sent - CountAfter(wire, i)
  <2>1. i \in Nat /\ CountAfter(wire, i) \in Nat
    BY <1>2, BlocksFinite
  <2>2. CountAfter(wire', i) = IF m # Checker!Junk THEN CountAfter(wire, i) + 1 ELSE CountAfter(wire, i)
    BY <1>1, <1>2, <2>1, AppendedBlock
  <2>3. CASE m = Checker!Junk
    BY <1>1, <1>2, <2>2, <2>3
  <2>4. CASE m # Checker!Junk
    BY <1>1, <1>2, <2>1, <2>2, <2>4
  <2> QED
    BY <2>3, <2>4
<1>5. WasRead' = WasRead
  BY <1>2, <1>4 DEF WasRead
<1>6. WireInOrder'
  <2> SUFFICES ASSUME NEW i \in DOMAIN wire', wire'[i] # Checker!Junk
               PROVE  wire'[i] = sent' - CountAfter(wire', i)
    BY DEF WireInOrder
  <2>1. CASE i \in 1..Len(wire)
    BY <2>1, <1>1, <1>2, <1>4 DEF CheckerInv, WireInOrder
  <2>2. CASE i = Len(wire) + 1
    <3>1. wire'[i] = m /\ sent' = sent + 1 /\ m = sent + 1
      BY <2>2, <1>1, <1>2
    <3>2. BlocksAfter(wire', i) = {}
      BY <2>2, <1>1, <1>2 DEF BlocksAfter
    <3> QED
      BY <3>1, <3>2, <1>2, FS_EmptySet DEF CountAfter
  <2> QED
    BY <2>1, <2>2, <1>1, <1>2
<1> QED
  BY <1>1, <1>3, <1>5, <1>6 DEF CheckerInv, HistoryOf

LEMMA NextBlock ==
  ASSUME CheckerConstants, NEW read, HistoryOf(read), Checker!Remember(read + 1)
  PROVE  HistoryOf(read + 1)'
<1> DEFINE n == IF read < HistorySize THEN read ELSE HistorySize
           b == read + 1
<1>1. read \in Nat /\ n \in Nat /\ HistorySize \in Nat \ {0} /\ history = LastBlocks(read, n)
  BY DEF HistoryOf, CheckerConstants
<1>2. history \in Seq(Int) /\ Len(history) = n
  BY <1>1 DEF LastBlocks
<1>3. history' = Append(IF n >= HistorySize THEN Tail(history) ELSE history, b) /\ last' = b
  BY <1>2 DEF Checker!Remember
<1>4. CASE read < HistorySize
  <2>1. history' = Append(history, b)
    BY <1>1, <1>3, <1>4
  <2>2. history' = [i \in 1..(read + 1) |-> i]
    BY <1>1, <1>2, <1>4, <2>1 DEF LastBlocks
  <2>3. LastBlocks(b, b) = [i \in 1..(read + 1) |-> i]
    BY <1>1 DEF LastBlocks
  <2>4. b = IF b < HistorySize THEN b ELSE HistorySize
    BY <1>1, <1>4
  <2> QED
    BY <1>1, <1>3, <2>2, <2>3, <2>4 DEF HistoryOf
<1>5. CASE read >= HistorySize
  <2>1. n = HistorySize /\ history' = Append(Tail(history), b)
    BY <1>1, <1>3, <1>5
  <2> HIDE DEF n, b
  <2>2. b = read + 1 /\ \A i \in 1..n : history[i] = read - n + i
    BY <1>1 DEF LastBlocks, b
  <2>3. /\ history' \in Seq(Int) /\ Len(history') = n /\ DOMAIN history' = 1..n
        /\ history'[n] = b /\ \A i \in 1..(n - 1) : history'[i] = history[i + 1]
    BY <1>1, <1>2, <2>1, <2>2
  <2>4. ASSUME NEW i \in 1..n PROVE history'[i] = b - n + i
    <3>1. CASE i = n
      BY <1>1, <2>2, <2>3, <3>1
    <3>2. CASE i # n
      <4>1. i \in 1..(n - 1) /\ i + 1 \in 1..n
        BY <1>1, <3>2
      <4> QED
        BY <1>1, <2>2, <2>3, <4>1
    <3> QED
      BY <3>1, <3>2
  <2>5. history' = LastBlocks(b, n)
    BY <2>3, <2>4 DEF LastBlocks
  <2> QED
    BY <1>1, <1>3, <1>5, <2>1, <2>2, <2>5 DEF HistoryOf
<1> QED
  BY <1>1, <1>4, <1>5

LEMMA ReadKeeps ==
  ASSUME CheckerConstants, CheckerInv, Checker!Read
  PROVE  CheckerInv'
<1>1. /\ wire # <<>> /\ wire' = Tail(wire) /\ UNCHANGED sent
      /\ IF Head(wire) = Checker!Junk THEN UNCHANGED <<last, history>> ELSE Checker!Remember(Head(wire))
  BY DEF Checker!Read
<1>2. /\ sent \in Nat /\ wire \in Seq(Nat) /\ DOMAIN wire = 1..Len(wire) /\ Len(wire) \in Nat \ {0}
      /\ Head(wire) = wire[1] /\ wire' \in Seq(Nat)
  BY <1>1 DEF CheckerInv, CheckerTyped
<1>3. CheckerTyped'
  BY <1>1, <1>2 DEF CheckerTyped
<1>4. \A i \in Nat : CountAfter(wire', i) = CountAfter(wire, i + 1)
  BY <1>1, <1>2, TakenBlock
<1>5. WireInOrder'
  <2> SUFFICES ASSUME NEW i \in DOMAIN wire', wire'[i] # Checker!Junk
               PROVE  wire'[i] = sent' - CountAfter(wire', i)
    BY DEF WireInOrder
  <2>1. DOMAIN wire' = 1..(Len(wire) - 1) /\ \A j \in 1..(Len(wire) - 1) : wire'[j] = wire[j + 1]
    BY <1>1, <1>2
  <2>2. i \in Nat /\ i + 1 \in DOMAIN wire /\ wire'[i] = wire[i + 1]
    BY <1>2, <2>1
  <2> QED
    BY <1>1, <1>4, <2>2 DEF CheckerInv, WireInOrder
<1>6. /\ CountAfter(wire, 1) \in Nat
      /\ CountAfter(wire, 0) = IF Head(wire) # Checker!Junk THEN CountAfter(wire, 1) + 1 ELSE CountAfter(wire, 1)
      /\ CountAfter(wire', 0) = CountAfter(wire, 1)
  <2>1. CountAfter(wire, 1) \in Nat
    BY <1>2, BlocksFinite
  <2>2. CountAfter(wire, 0) = IF Head(wire) # Checker!Junk THEN CountAfter(wire, 1) + 1 ELSE CountAfter(wire, 1)
    BY <1>1, <1>2, FirstBlock
  <2>3. CountAfter(wire', 0) = CountAfter(wire, 0 + 1) /\ 0 + 1 = 1
    BY <1>4
  <2> QED
    BY <2>1, <2>2, <2>3
<1>7. WasRead' = IF Head(wire) # Checker!Junk THEN WasRead + 1 ELSE WasRead
  BY <1>1, <1>2, <1>6 DEF WasRead
<1>8. Head(wire) # Checker!Junk => Head(wire) = WasRead + 1
  BY <1>2, <1>6 DEF WasRead, CheckerInv, WireInOrder
<1>9. WasRead \in Nat
  BY DEF CheckerInv, HistoryOf
<1>10. HistoryOf(WasRead)'
  <2> DEFINE read == WasRead
  <2>1. HistoryOf(read)
    BY DEF CheckerInv
  <2>2. CASE Head(wire) = Checker!Junk
    BY <1>1, <1>7, <2>1, <2>2 DEF HistoryOf
  <2>3. CASE Head(wire) # Checker!Junk
    <3>1. Checker!Remember(read + 1) /\ WasRead' = read + 1
      BY <1>1, <1>7, <1>8, <2>3
    <3>2. PICK r : r = WasRead
      OBVIOUS
    <3>3. HistoryOf(r + 1)'
      BY <2>1, <3>1, <3>2, NextBlock
    <3> QED
      BY <3>1, <3>2, <3>3 DEF HistoryOf
  <2> QED
    BY <2>2, <2>3
<1> QED
  BY <1>3, <1>5, <1>10 DEF CheckerInv

LEMMA CheckerKept ==
  ASSUME CheckerConstants, CheckerInv, [Checker!Next]_Checker!vars
  PROVE  CheckerInv'
<1>1. CASE UNCHANGED <<sent, wire, last, history>>
  BY <1>1 DEF CheckerInv, CheckerTyped, WireInOrder, WasRead, HistoryOf
<1>2. CASE Checker!Dial \/ Checker!GetSession \/ Checker!Subscribe \/ Checker!CloseDone \/ Checker!Hangup \/ Checker!Select \/ Checker!ReadFails \/ UNCHANGED Checker!vars
  BY <1>1, <1>2 DEF Checker!Dial, Checker!GetSession, Checker!Subscribe, Checker!CloseDone, Checker!Hangup, Checker!Select, Checker!ReadFails, Checker!vars
<1> QED
  BY <1>2, SendKeeps, ReadKeeps DEF Checker!Next

LEMMA CheckerStarts ==
  ASSUME CheckerConstants, Checker!Init
  PROVE  CheckerInv
<1>1. sent = 0 /\ wire = <<>> /\ last = 0 /\ history = <<>>
  BY DEF Checker!Init
<1>2. BlocksAfter(wire, 0) = {}
  BY <1>1 DEF BlocksAfter
<1>3. WasRead = 0
  BY <1>1, <1>2, FS_EmptySet DEF WasRead, CountAfter
<1>4. LastBlocks(0, 0) = <<>>
  BY DEF LastBlocks
<1> QED
  BY <1>1, <1>3, <1>4 DEF CheckerInv, CheckerTyped, WireInOrder, HistoryOf, CheckerConstants

LEMMA CheckerLatest ==
  ASSUME CheckerInv
  PROVE  Checker!HistoryIsLatest
<1>1. BlocksAfter(wire, 0) = {i \in DOMAIN wire : wire[i] # Checker!Junk}
  BY DEF BlocksAfter, CheckerInv, CheckerTyped
<1>2. Cardinality(BlocksAfter(wire, 0)) = Checker!Cardinality(BlocksAfter(wire, 0))
  BY DEF Checker!Cardinality, Cardinality
<1> QED
  BY <1>1, <1>2 DEF CheckerInv, HistoryOf, WasRead, CountAfter, LastBlocks, Checker!HistoryIsLatest, Checker!Answer

-----------------------------------------------------------------------------
(* Numbers: induction, powers of two, and blocks of numbers.                 *)

\* Every nonempty set of natural numbers has a least element: the set of the
\* intervals below its members has a minimal one, as finite sets are well founded.
LEMMA LeastElement ==
  ASSUME NEW T \in SUBSET Nat, T # {}
  PROVE  \E m \in T : \A k \in T : m <= k
<1> DEFINE Below == {1..m : m \in T}
<1>1. Below # {} /\ Below \subseteq FiniteSubsetsOf(Nat)
  <2>1. \A m \in T : IsFiniteSet(1..m) /\ 1..m \in SUBSET Nat
    BY FS_Interval
  <2>2. \A B \in Below : B \in FiniteSubsetsOf(Nat)
    BY <2>1 DEF FiniteSubsetsOf
  <2> QED
    BY <2>2
<1>2. IsWellFoundedOn(StrictSubsetOrdering(Nat), FiniteSubsetsOf(Nat))
  BY FS_StrictSubsetOrderingWellFounded
<1> HIDE DEF Below
<1>3. PICK B \in Below : \A C \in Below : <<C, B>> \notin StrictSubsetOrdering(Nat)
  BY <1>1, <1>2, WFMin
<1>4. PICK m \in T : B = 1..m
  BY <1>3 DEF Below
<1>5. ASSUME NEW k \in T, k < m PROVE FALSE
  <2>1. 1..k \in Below
    BY DEF Below
  <2>2. 1..k \subseteq 1..m /\ m \in 1..m /\ m \notin 1..k
    BY <1>5
  <2>3. <<1..k, 1..m>> \in StrictSubsetOrdering(Nat)
    BY <2>2 DEF StrictSubsetOrdering
  <2> QED
    BY <1>3, <1>4, <2>1, <2>3
<1> QED
  BY <1>5

\* Induction over the natural numbers, for a set of them.
LEMMA InductiveSet ==
  ASSUME NEW P \in SUBSET Nat, 0 \in P, \A n \in P : n + 1 \in P
  PROVE  P = Nat
<1> SUFFICES ASSUME Nat \ P # {} PROVE FALSE
  OBVIOUS
<1>1. PICK m \in Nat \ P : \A k \in Nat \ P : m <= k
  BY LeastElement
<1>2. m # 0 /\ m - 1 \in Nat /\ ~(m <= m - 1)
  BY <1>1
<1>3. m - 1 \in P
  BY <1>1, <1>2
<1> QED
  BY <1>1, <1>2, <1>3

\* 2^n counts the subsets of a set of n: with one element more there are as many
\* again.
LEMMA Doubling ==
  ASSUME NEW n \in Nat
  PROVE  2^n \in Nat \ {0} /\ 2^(n + 1) = 2^n + 2^n
<1> DEFINE Old == SUBSET (1..n)
           With(S) == S \cup {n + 1}
           New == {With(S) : S \in Old}
           f == [S \in Old |-> With(S)]
           p == 2^n
           q == 2^(n + 1)
<1>1. IsFiniteSet(1..n) /\ Cardinality(1..n) = n /\ IsFiniteSet(1..(n+1)) /\ Cardinality(1..(n+1)) = n+1
  BY FS_Interval
<1>2. /\ IsFiniteSet(Old) /\ Cardinality(Old) = p
      /\ Cardinality(SUBSET (1..(n+1))) = q
  BY <1>1, FS_SUBSET
<1>3. SUBSET (1..(n+1)) = Old \cup New
  <2>1. \A S : S \in SUBSET (1..(n+1)) => S \in Old \cup New
    <3> SUFFICES ASSUME NEW S \in SUBSET (1..(n+1)), n + 1 \in S PROVE S \in New
      BY 1..(n+1) = 1..n \cup {n+1}
    <3>1. S \ {n + 1} \in Old /\ S = With(S \ {n + 1})
      OBVIOUS
    <3> QED
      BY <3>1
  <2>2. \A S : S \in Old \cup New => S \in SUBSET (1..(n+1))
    OBVIOUS
  <2> QED
    BY <2>1, <2>2
<1>4. Old \cap New = {}
  BY n + 1 \notin 1..n
<1>5. f \in Bijection(Old, New)
  <2>1. f \in [Old -> New] /\ \A T \in New : \E S \in Old : f[S] = T
    OBVIOUS
  <2>2. \A S, T \in Old : f[S] = f[T] => S = T
    <3> SUFFICES ASSUME NEW S \in Old, NEW T \in Old, With(S) = With(T) PROVE S = T
      OBVIOUS
    <3>1. S = With(S) \ {n + 1} /\ T = With(T) \ {n + 1}
      OBVIOUS
    <3> QED
      BY <3>1
  <2> HIDE DEF f, Old, New
  <2> QED
    BY <2>1, <2>2, Fun_IsBij
<1> HIDE DEF f, Old, New, p, q
<1>6. IsFiniteSet(New) /\ Cardinality(New) = p
  BY <1>2, <1>5, FS_Bijection, Fun_ExistsBij
<1>7. p \in Nat /\ Old # {}
  BY <1>2, FS_CardinalityType DEF Old
<1>8. Cardinality(Old \cup New) = p + p
  <2>1. Cardinality(Old \cup New) = Cardinality(Old) + Cardinality(New) - Cardinality(Old \cap New)
    BY <1>2, <1>6, FS_Union
  <2>2. Cardinality(Old \cap New) = 0
    BY <1>4, FS_EmptySet
  <2> QED
    BY <1>2, <1>6, <1>7, <2>1, <2>2
<1>9. p # 0
  BY <1>2, <1>7, FS_EmptySet
<1>10. p \in Nat \ {0} /\ q = p + p
  BY <1>2, <1>3, <1>7, <1>8, <1>9
<1> QED
  BY <1>10 DEF p, q

\* Doubling a product doubles a factor.
LEMMA Distributes ==
  ASSUME NEW a \in Int, NEW b \in Int, NEW c \in Int, a = b * c
  PROVE  a + a = b * (c + c)
OBVIOUS

\* 2^(m + n) is 2^m * 2^n, by induction on n.
LEMMA SumOfPowers ==
  ASSUME NEW m \in Nat, NEW n \in Nat
  PROVE  2^(m + n) = 2^m * 2^n
<1> DEFINE P == {k \in Nat : 2^(m + k) = 2^m * 2^k}
<1>1. 0 \in P
  <2>1. 2^0 = 1 /\ 2^m \in Nat /\ m + 0 = m
    BY Doubling
  <2> QED
    BY <2>1
<1>2. ASSUME NEW k \in P PROVE k + 1 \in P
  <2> DEFINE a == 2^(m + k)  b == 2^m  c == 2^k  e == 2^((m + k) + 1)  f == 2^(k + 1)
  <2>1. k \in Nat /\ k + 1 \in Nat /\ m + k \in Nat /\ (m + k) + 1 = m + (k + 1) /\ a = b * c
    OBVIOUS
  <2>2. a \in Int /\ b \in Int /\ c \in Int /\ e = a + a /\ f = c + c
    BY <2>1, Doubling
  <2>3. e = b * f
    <3> HIDE DEF a, b, c, e, f
    <3>1. a + a = b * (c + c)
      BY <2>1, <2>2, Distributes
    <3> QED
      BY <3>1, <2>2
  <2>4. e = 2^(m + (k + 1))
    BY <2>1
  <2> QED
    BY <2>1, <2>3, <2>4
<1> HIDE DEF P
<1>3. P = Nat
  <2>1. P \in SUBSET Nat
    BY DEF P
  <2> QED
    BY <1>1, <1>2, <2>1, InductiveSet
<1> QED
  BY <1>3 DEF P

\* A number is its place in its block of B numbers, after a whole number of blocks.
LEMMA BlockOf ==
  ASSUME NEW a \in Nat, NEW B \in Nat \ {0}
  PROVE  /\ (a % B) \in 0..(B - 1)
         /\ \E k \in Nat : a - (a % B) = B * k
<1> DEFINE k == a \div B  r == a % B
<1>1. r \in 0..(B - 1) /\ k \in Nat /\ a = B * k + r
  OBVIOUS
<1>2. B * k \in Int
  BY <1>1
<1> HIDE DEF k, r
<1>3. a - r = B * k
  BY <1>1, <1>2
<1> QED
  BY <1>1, <1>3 DEF r

\* Blocks do not overlap.
LEMMA NoBlockBetween ==
  ASSUME NEW j \in Int, NEW k \in Int, NEW B \in Nat \ {0}, B * j <= B * k + (B - 1)
  PROVE  j <= k
<1> SUFFICES ASSUME j - k >= 1 PROVE FALSE
  OBVIOUS
<1>1. B * (j - k) >= B * 1
  OBVIOUS
<1>2. B * (j - k) = B * j - B * k
  OBVIOUS
<1> QED
  BY <1>1, <1>2

\* The numbers below a multiple of B that share the block of a.
LEMMA BlockFacts ==
  ASSUME NEW B \in Nat \ {0}, NEW q \in Nat, NEW top \in Nat, top = B * q, NEW a \in 0..(top - 1)
  PROVE  /\ a - (a % B) \in Nat /\ a \in (a - (a % B))..((a - (a % B)) + B - 1)
         /\ (a - (a % B)) + B <= top
         /\ \A c \in Nat : c - (c % B) = a - (a % B) <=> c \in (a - (a % B))..((a - (a % B)) + B - 1)
<1> DEFINE r == a % B
<1>0. a \in Nat
  OBVIOUS
<1>1. PICK k \in Nat : a - r = B * k
  BY <1>0, BlockOf
<1>2. r \in 0..(B - 1) /\ B * k \in Nat
  BY <1>0, BlockOf
<1> HIDE DEF r
<1>3. B * k + B <= top
  <2>1. ~(B * q <= B * k + (B - 1)) => B * k + B <= top
    BY <1>2
  <2>2. ~(q <= k)
    <3> SUFFICES ASSUME q <= k PROVE FALSE
      OBVIOUS
    <3>1. B * q <= B * k
      OBVIOUS
    <3> QED
      BY <1>1, <1>2, <3>1
  <2>3. ~(B * q <= B * k + (B - 1))
    BY <2>2, NoBlockBetween
  <2> QED
    BY <2>1, <2>3
<1>4. ASSUME NEW c \in Nat
      PROVE  c - (c % B) = B * k <=> c \in (B * k)..(B * k + B - 1)
  <2> DEFINE t == c % B
  <2>1. PICK j \in Nat : c - t = B * j
    BY BlockOf
  <2>2. t \in 0..(B - 1) /\ B * j \in Nat
    BY BlockOf
  <2>5. c = B * j + t
    BY <2>1, <2>2
  <2> HIDE DEF t
  <2>3. c \in (B * k)..(B * k + B - 1) => j = k
    <3> SUFFICES ASSUME c >= B * k, c <= B * k + B - 1 PROVE j = k
      OBVIOUS
    <3>1. B * j <= B * k + (B - 1) /\ B * k <= B * j + (B - 1)
      BY <1>2, <2>2, <2>5
    <3>2. j <= k /\ k <= j
      BY <3>1, NoBlockBetween
    <3> QED
      BY <3>2
  <2>4. c - t = B * k => c \in (B * k)..(B * k + B - 1)
    BY <1>2, <2>1, <2>2
  <2> QED
    BY <2>1, <2>3, <2>4 DEF t
<1>5. /\ a - r \in Nat /\ a \in (a - r)..((a - r) + B - 1) /\ (a - r) + B <= top
      /\ \A c \in Nat : c - (c % B) = a - r <=> c \in (a - r)..((a - r) + B - 1)
  BY <1>1, <1>2, <1>3, <1>4
<1> QED
  BY <1>5 DEF r

-----------------------------------------------------------------------------
(* Networks: the addresses of a network, and which of them are hosts.        *)

Network == [ip : 0..(2^W - 1), ones : 1..W]

\* The first and the last address of a network, and who is between them.
LEMMA NetworkFacts ==
  ASSUME ListingConstants, NEW n \in Network
  PROVE  /\ Listing!Base(n) \in Listing!Addresses /\ Listing!Broadcast(n) \in Listing!Addresses
         /\ n.ip \in Listing!Base(n)..Listing!Broadcast(n)
         /\ n.ones = W <=> Listing!Base(n) = Listing!Broadcast(n)
         /\ Listing!NetworkSize(n) = IF n.ones = W THEN 1
                                     ELSE Listing!Broadcast(n) - Listing!Base(n) - 1
         /\ ~(Listing!Base(n) = 0 /\ Listing!Broadcast(n) = 2^W - 1)
         /\ \A a \in Listing!Addresses :
              Listing!Holds(n, a) <=> a \in Listing!Base(n)..Listing!Broadcast(n)
<1> DEFINE B == 2^(W - n.ones)  q == 2^(n.ones)  top == 2^W  b == n.ip - (n.ip % B)
           r == n.ones - 1  p == 2^r
<1>1. /\ W \in Nat /\ n.ones \in Nat /\ n.ones \in 1..W /\ n.ip \in 0..(top - 1) /\ r \in Nat /\ n.ones = r + 1
      /\ W - n.ones \in Nat /\ W = (W - n.ones) + n.ones
  <2>1. W \in Nat /\ n.ones \in 1..W /\ n.ip \in 0..(top - 1)
    BY DEF ListingConstants, Network
  <2> QED
    BY <2>1
<1>2. B \in Nat \ {0} /\ q \in Nat \ {0} /\ top \in Nat \ {0} /\ p \in Nat \ {0} /\ q = p + p
  BY <1>1, Doubling
<1>3. top = B * q
  <2>1. \A m, k \in Nat : 2^(m + k) = 2^m * 2^k
    BY SumOfPowers
  <2>2. 2^((W - n.ones) + n.ones) = B * q
    BY <1>1, <2>1, Zenon
  <2> QED
    BY <1>1, <2>2, Zenon
<1>4. n.ones = W => B = 1
  BY <1>1
<1>5. n.ones # W => B >= 2
  <2> SUFFICES ASSUME n.ones # W PROVE B >= 2
    OBVIOUS
  <2> DEFINE s == (W - n.ones) - 1  c == 2^s
  <2>1. s \in Nat /\ W - n.ones = s + 1
    BY <1>1
  <2>2. c \in Nat \ {0} /\ B = c + c
    BY <2>1, Doubling
  <2> HIDE DEF c, B
  <2> QED
    BY <2>2
<1>6. /\ Listing!Base(n) = b /\ Listing!Broadcast(n) = b + B - 1
      /\ Listing!Addresses = 0..(top - 1)
      /\ Listing!NetworkSize(n) = IF n.ones = W THEN 1 ELSE B - 2
  BY DEF Listing!Base, Listing!Broadcast, Listing!Addresses, Listing!NetworkSize
<1>7. ASSUME NEW a \in 0..(top - 1)
      PROVE  Listing!Holds(n, a) <=> a - (a % B) = b
  <2>1. [n EXCEPT !.ip = a].ip = a /\ [n EXCEPT !.ip = a].ones = n.ones
    BY DEF Network
  <2> QED
    BY <1>6, <2>1 DEF Listing!Holds, Listing!Base
<1>8. /\ b \in Nat /\ n.ip \in b..(b + B - 1) /\ b + B <= top
      /\ \A c \in Nat : c - (c % B) = b <=> c \in b..(b + B - 1)
  <2> HIDE DEF B, q, top
  <2> QED
    BY <1>1, <1>2, <1>3, BlockFacts
<1>9. B < top
  <2> HIDE DEF B, q, top, p
  <2>1. B * q = B * p + B * p /\ B * p >= B * 1
    BY <1>2
  <2> QED
    BY <1>2, <1>3, <2>1
<1> HIDE DEF B, q, top, b, p, r
<1>10. 2^W = top
  BY DEF top
<1> QED
  BY <1>1, <1>2, <1>4, <1>5, <1>6, <1>7, <1>8, <1>9, <1>10

\* The addresses the loops list of a network: its hosts, but for the one of a
\* single address, which the sweeper's loop takes for the first and the last.
LoopAddresses(n) ==
  {a \in Listing!Addresses :
     /\ Listing!Holds(n, a)
     /\ \/ by = "service" /\ n.ones = W
        \/ a \notin {Listing!Base(n), Listing!Broadcast(n)}}
LoopHosts == {h \in (DOMAIN networks) \X Listing!Addresses : h[2] \in LoopAddresses(networks[h[1]])}

\* How many there are.
LEMMA UsableFacts ==
  ASSUME ListingConstants, NEW n \in Network
  PROVE  /\ LoopAddresses(n) = IF by = "service" /\ n.ones = W THEN {n.ip}
                                ELSE (Listing!Base(n) + 1)..(Listing!Broadcast(n) - 1)
         /\ IsFiniteSet(LoopAddresses(n)) /\ LoopAddresses(n) \subseteq Listing!Addresses
         /\ Cardinality(LoopAddresses(n)) =
              IF n.ones = W THEN (IF by = "service" THEN 1 ELSE 0) ELSE Listing!NetworkSize(n)
<1> DEFINE b == Listing!Base(n)  l == Listing!Broadcast(n)
<1>1. /\ b \in Listing!Addresses /\ l \in Listing!Addresses /\ n.ip \in b..l /\ (n.ones = W <=> b = l)
      /\ Listing!NetworkSize(n) = IF n.ones = W THEN 1 ELSE l - b - 1
      /\ \A a \in Listing!Addresses : Listing!Holds(n, a) <=> a \in b..l
  BY NetworkFacts
<1>2. b \in Nat /\ l \in Nat /\ b <= l /\ \A a \in b..l : a \in Listing!Addresses
  BY <1>1, Doubling DEF Listing!Addresses, ListingConstants
<1>3. LoopAddresses(n) = {a \in Listing!Addresses : /\ Listing!Holds(n, a)
                                                    /\ (by = "service" /\ n.ones = W) \/ a \notin {b, l}}
  BY DEF LoopAddresses
<1> HIDE DEF b, l
<1>4. LoopAddresses(n) = {a \in b..l : (by = "service" /\ n.ones = W) \/ a \notin {b, l}}
  BY <1>1, <1>2, <1>3
<1>5. LoopAddresses(n) = IF by = "service" /\ n.ones = W THEN {n.ip} ELSE (b + 1)..(l - 1)
  BY <1>1, <1>2, <1>4
<1>6. /\ IsFiniteSet({n.ip}) /\ Cardinality({n.ip}) = 1
      /\ IsFiniteSet((b + 1)..(l - 1))
      /\ Cardinality((b + 1)..(l - 1)) = IF b + 1 > l - 1 THEN 0 ELSE (l - 1) - (b + 1) + 1
  <2>1. IsFiniteSet({n.ip}) /\ Cardinality({n.ip}) = 1
    BY FS_Singleton
  <2>2. b + 1 \in Int /\ l - 1 \in Int
    BY <1>2
  <2> QED
    BY <2>1, <2>2, FS_Interval
<1>7. Cardinality((b + 1)..(l - 1)) = IF b = l THEN 0 ELSE l - b - 1
  BY <1>2, <1>6
<1>8. LoopAddresses(n) \subseteq Listing!Addresses
  BY <1>3
<1> QED
  BY <1>1, <1>5, <1>6, <1>7, <1>8 DEF b, l

\* What a list has after another is appended to it.
LEMMA RangeOfJoined ==
  ASSUME NEW S, NEW s \in Seq(S), NEW t \in Seq(S)
  PROVE  /\ s \o t \in Seq(S) /\ Len(s \o t) = Len(s) + Len(t)
         /\ Range(s \o t) = Range(s) \cup Range(t)
<1>1. s \o t \in Seq(S) /\ Len(s \o t) = Len(s) + Len(t) /\ DOMAIN (s \o t) = 1..(Len(s) + Len(t))
      /\ DOMAIN s = 1..Len(s) /\ DOMAIN t = 1..Len(t) /\ Len(s) \in Nat /\ Len(t) \in Nat
  OBVIOUS
<1>2. /\ \A i \in 1..Len(s) : i \in 1..(Len(s) + Len(t)) /\ (s \o t)[i] = s[i]
      /\ \A i \in 1..Len(t) : Len(s) + i \in 1..(Len(s) + Len(t)) /\ (s \o t)[Len(s) + i] = t[i]
  BY <1>1
<1>3. \A i \in 1..(Len(s) + Len(t)) :
        i \in 1..Len(s) \/ (i - Len(s) \in 1..Len(t) /\ i = Len(s) + (i - Len(s)))
  BY <1>1
<1>4. Range(s) \cup Range(t) \subseteq Range(s \o t)
  BY <1>1, <1>2 DEF Range
<1>5. ASSUME NEW i \in 1..(Len(s) + Len(t)) PROVE (s \o t)[i] \in Range(s) \cup Range(t)
  BY <1>1, <1>2, <1>3 DEF Range
<1> QED
  BY <1>1, <1>4, <1>5 DEF Range

\* What buildTargets appends for a host.
Target == [host : Listing!Addresses, mode : {"icmp", "tcp"}, port : Nat]

LEMMA TargetsOfHost ==
  ASSUME ListingConstants, NEW a \in Listing!Addresses
  PROVE  /\ Listing!TargetsOf(a) \in Seq(Target)
         /\ Len(Listing!TargetsOf(a)) = Listing!PerHost /\ Listing!PerHost \in Nat
<1> DEFINE icmp == IF "icmp" \in Modes THEN <<[host |-> a, mode |-> "icmp", port |-> 0]>> ELSE <<>>
           tcp == IF "tcp" \in Modes
                  THEN [i \in DOMAIN PortList |-> [host |-> a, mode |-> "tcp", port |-> PortList[i]]]
                  ELSE <<>>
<1>1. Listing!TargetsOf(a) = icmp \o tcp
  BY DEF Listing!TargetsOf
<1>2. icmp \in Seq(Target) /\ Len(icmp) = IF "icmp" \in Modes THEN 1 ELSE 0
  <2> DEFINE t == [host |-> a, mode |-> "icmp", port |-> 0]
  <2>1. t \in Target
    BY DEF Target
  <2> HIDE DEF t
  <2>2. <<t>> \in Seq(Target) /\ Len(<<t>>) = 1 /\ <<>> \in Seq(Target) /\ Len(<<>>) = 0
    BY <2>1
  <2> QED
    BY <2>2 DEF t
<1>3. tcp \in Seq(Target) /\ Len(tcp) = IF "tcp" \in Modes THEN Len(PortList) ELSE 0
  <2>1. DOMAIN PortList = 1..Len(PortList) /\ Len(PortList) \in Nat /\ \A i \in DOMAIN PortList : PortList[i] \in Nat
    BY DEF ListingConstants
  <2>2. \A i \in DOMAIN PortList : [host |-> a, mode |-> "tcp", port |-> PortList[i]] \in Target
    BY <2>1 DEF Target
  <2> QED
    BY <2>1, <2>2
<1>4. Len(PortList) \in Nat
  BY DEF ListingConstants
<1> HIDE DEF icmp, tcp
<1>5. icmp \o tcp \in Seq(Target) /\ Len(icmp \o tcp) = Len(icmp) + Len(tcp)
  <2>1. icmp \in Seq(Target) /\ tcp \in Seq(Target)
    BY <1>2, <1>3
  <2> QED
    BY <2>1, RangeOfJoined
<1>6. Listing!PerHost = Len(icmp) + Len(tcp) /\ Listing!PerHost \in Nat
  <2> DEFINE i == IF "icmp" \in Modes THEN 1 ELSE 0
             t == IF "tcp" \in Modes THEN Len(PortList) ELSE 0
  <2>1. i \in Nat /\ t \in Nat
    BY <1>4
  <2>2. Listing!PerHost = i + t
    BY DEF Listing!PerHost
  <2>3. Len(icmp) = i /\ Len(tcp) = t
    BY <1>2, <1>3
  <2> HIDE DEF i, t
  <2> QED
    BY <2>1, <2>2, <2>3
<1> QED
  BY <1>1, <1>5, <1>6

-----------------------------------------------------------------------------
(* The listing of a sweep's targets.                                         *)

\* The networks the loop has come to, and the hosts it has listed.
Begun(i) == i < at \/ (i = at /\ addr # Listing!None)
Passed(h) ==
  \/ h[1] < at
  \/ h[1] = at /\ addr # Listing!None /\ (Listing!Holds(networks[at], addr) => h[2] < addr)
BegunHosts == {h \in LoopHosts : Begun(h[1])}
BegunSingle == {i \in Listing!Single : Begun(i)}
Listed == {h \in LoopHosts : Passed(h)}

ListingTyped ==
  /\ by \in {"service", "sweeper"} /\ networks \in Seq(Network)
  /\ at \in 1..(Len(networks) + 1) /\ addr \in 0..2^W
  /\ targets \in Seq(Target) /\ total \in Nat /\ finished \in BOOLEAN

\* Where the loop over the addresses is: in its network, or just behind it.
Where ==
  /\ addr # Listing!None =>
       LET n == networks[at] IN
       /\ at <= Len(networks) /\ (by = "service" => n.ones # W)
       /\ \/ addr \in Listing!Base(n)..Listing!Broadcast(n) /\ (by = "service" => addr # Listing!Base(n))
          \/ addr = Listing!Inc(Listing!Broadcast(n))
  /\ finished => at > Len(networks)

\* The targets are those of the hosts that were listed, and the total counts the
\* hosts of the networks that were begun.
TargetsSoFar ==
  /\ Range(targets) = UNION {Range(Listing!TargetsOf(h[2])) : h \in Listed}
  /\ Len(targets) = Cardinality(Listed) * Listing!PerHost
TotalSoFar ==
  total = IF by = "service" THEN Cardinality(BegunHosts)
          ELSE (Cardinality(BegunHosts) + Cardinality(BegunSingle)) * Listing!PerHost

ListingInv == ListingTyped /\ Where /\ TargetsSoFar /\ TotalSoFar

\* The hosts are finitely many, and each is one of a network.
LEMMA HostsFacts ==
  ASSUME ListingConstants, ListingTyped
  PROVE  /\ DOMAIN networks = 1..Len(networks) /\ Len(networks) \in Nat
         /\ \A i \in DOMAIN networks : networks[i] \in Network
         /\ \A h \in LoopHosts :
              /\ h[1] \in DOMAIN networks /\ h[2] \in LoopAddresses(networks[h[1]])
              /\ h[2] \in Listing!Addresses /\ h = <<h[1], h[2]>>
         /\ IsFiniteSet(LoopHosts) /\ IsFiniteSet(Listing!Single)
         /\ IsFiniteSet(Listed) /\ Cardinality(Listed) \in Nat
         /\ IsFiniteSet(BegunHosts) /\ Cardinality(BegunHosts) \in Nat
         /\ IsFiniteSet(BegunSingle) /\ Cardinality(BegunSingle) \in Nat
<1>1. /\ DOMAIN networks = 1..Len(networks) /\ Len(networks) \in Nat
      /\ \A i \in DOMAIN networks : networks[i] \in Network
  BY DEF ListingTyped
<1>2. \A h \in LoopHosts :
        /\ h[1] \in DOMAIN networks /\ h[2] \in LoopAddresses(networks[h[1]])
        /\ h[2] \in Listing!Addresses /\ h = <<h[1], h[2]>>
  BY DEF LoopHosts
<1>3. IsFiniteSet(DOMAIN networks)
  BY <1>1, FS_Interval
<1>4. IsFiniteSet(Listing!Addresses)
  <2>1. 2^W \in Nat
    BY Doubling DEF ListingConstants
  <2> DEFINE top == 2^W
  <2>2. Listing!Addresses = 0..(top - 1)
    BY DEF Listing!Addresses
  <2> HIDE DEF top
  <2>3. top - 1 \in Int
    BY <2>1 DEF top
  <2> QED
    BY <2>2, <2>3, FS_Interval
<1>5. IsFiniteSet((DOMAIN networks) \X Listing!Addresses)
  BY <1>3, <1>4, FS_Product
<1>6. IsFiniteSet(LoopHosts)
  <2>1. LoopHosts \in SUBSET ((DOMAIN networks) \X Listing!Addresses)
    BY DEF LoopHosts
  <2> QED
    BY <1>5, <2>1, FS_Subset
<1>7. IsFiniteSet(Listing!Single)
  <2>1. Listing!Single \in SUBSET DOMAIN networks
    BY DEF Listing!Single
  <2> QED
    BY <1>3, <2>1, FS_Subset
<1>8. /\ Listed \in SUBSET LoopHosts /\ BegunHosts \in SUBSET LoopHosts
      /\ BegunSingle \in SUBSET Listing!Single
  BY DEF Listed, BegunHosts, BegunSingle
<1>9. IsFiniteSet(Listed) /\ IsFiniteSet(BegunHosts) /\ IsFiniteSet(BegunSingle)
  BY <1>6, <1>7, <1>8, FS_Subset
<1> QED
  BY <1>1, <1>2, <1>6, <1>7, <1>9, FS_CardinalityType

\* A host is listed: its targets are appended.
LEMMA HostListed ==
  ASSUME ListingConstants, ListingTyped, TargetsSoFar,
         NEW h \in LoopHosts, h \notin Listed, Listed' = Listed \cup {h},
         targets' = targets \o Listing!TargetsOf(h[2])
  PROVE  TargetsSoFar' /\ targets' \in Seq(Target)
<1>1. h[2] \in Listing!Addresses /\ IsFiniteSet(Listed) /\ Cardinality(Listed) \in Nat
  BY HostsFacts
<1> DEFINE s == Listing!TargetsOf(h[2])  p == Listing!PerHost  R(a) == Range(Listing!TargetsOf(a))
           c == Cardinality(Listed)
<1>2. s \in Seq(Target) /\ Len(s) = p /\ p \in Nat
  BY <1>1, TargetsOfHost
<1>3. targets \in Seq(Target) /\ Len(targets) = c * p
  BY DEF ListingTyped, TargetsSoFar
<1>4. targets' \in Seq(Target) /\ Len(targets') = Len(targets) + Len(s)
      /\ Range(targets') = Range(targets) \cup R(h[2])
  BY <1>2, <1>3, RangeOfJoined
<1>5. Cardinality(Listed') = c + 1
  BY <1>1, FS_AddElement
<1>6. Len(targets') = Cardinality(Listed') * p
  <2>1. c \in Nat
    BY <1>1
  <2> HIDE DEF c, p, s
  <2>2. (c + 1) * p = c * p + p /\ c * p \in Int
    BY <1>2, <2>1
  <2> QED
    BY <1>2, <1>3, <1>4, <1>5, <2>2
<1>7. Range(targets) = UNION {R(g[2]) : g \in Listed}
  BY DEF TargetsSoFar
<1>8. UNION {R(g[2]) : g \in Listed'} = (UNION {R(g[2]) : g \in Listed}) \cup R(h[2])
  <2> HIDE DEF R
  <2> QED
    OBVIOUS
<1>9. Range(targets') = UNION {R(g[2]) : g \in Listed'}
  BY <1>4, <1>7, <1>8
<1> QED
  BY <1>4, <1>6, <1>9 DEF TargetsSoFar

\* A network is begun: the sets that are counted grow by its hosts, and by itself
\* if it is a single address.
LEMMA NetworkBegun ==
  ASSUME ListingConstants, ListingTyped, at \in DOMAIN networks, addr = Listing!None,
         by' = by, networks' = networks, \A i \in DOMAIN networks : Begun(i)' <=> i <= at
  PROVE  /\ Cardinality(BegunHosts') = Cardinality(BegunHosts) + Cardinality(LoopAddresses(networks[at]))
         /\ Cardinality(BegunSingle') =
              Cardinality(BegunSingle) + (IF networks[at].ones = W THEN 1 ELSE 0)
<1> DEFINE U == LoopAddresses(networks[at])  new == {at} \X U
<1>1. /\ networks[at] \in Network /\ DOMAIN networks = 1..Len(networks) /\ at \in Nat
      /\ Len(networks) \in Nat
      /\ IsFiniteSet(BegunHosts) /\ Cardinality(BegunHosts) \in Nat
      /\ IsFiniteSet(BegunSingle) /\ Cardinality(BegunSingle) \in Nat
  BY HostsFacts DEF ListingTyped
<1>2. IsFiniteSet(U) /\ U \subseteq Listing!Addresses
  BY <1>1, UsableFacts
<1>3. LoopHosts' = LoopHosts /\ Listing!Single' = Listing!Single
  BY DEF LoopHosts, Listing!Single, LoopAddresses
<1>4. \A i \in DOMAIN networks : (Begun(i) <=> i < at) /\ (Begun(i)' <=> i < at \/ i = at)
  BY <1>1 DEF Begun
<1>5. \A h \in LoopHosts : h[1] \in DOMAIN networks /\ h[2] \in LoopAddresses(networks[h[1]])
                               /\ h = <<h[1], h[2]>>
  BY HostsFacts
<1>6. new = {h \in LoopHosts : h[1] = at}
  <2>1. \A h \in new : h \in LoopHosts /\ h[1] = at
    BY <1>2 DEF LoopHosts
  <2>2. \A h \in LoopHosts : h[1] = at => h \in new
    BY <1>5
  <2> HIDE DEF new
  <2> QED
    BY <2>1, <2>2
<1>7. BegunHosts' = BegunHosts \cup new /\ BegunHosts \cap new = {}
  <2>1. BegunHosts' = {h \in LoopHosts : h[1] < at \/ h[1] = at}
    BY <1>3, <1>4, <1>5 DEF BegunHosts
  <2>2. BegunHosts = {h \in LoopHosts : h[1] < at}
    BY <1>4, <1>5 DEF BegunHosts
  <2>3. \A h \in LoopHosts : ~(h[1] < at /\ h[1] = at)
    BY <1>1, <1>5
  <2> HIDE DEF new
  <2> QED
    BY <1>6, <2>1, <2>2, <2>3
<1>8. IsFiniteSet(new) /\ Cardinality(new) = Cardinality(U) /\ Cardinality(U) \in Nat
  <2>1. IsFiniteSet({at}) /\ Cardinality({at}) = 1
    BY FS_Singleton
  <2>2. IsFiniteSet(new) /\ Cardinality(new) = Cardinality({at}) * Cardinality(U) /\ Cardinality(U) \in Nat
    BY <1>2, <2>1, FS_Product, FS_CardinalityType
  <2> HIDE DEF new, U
  <2> QED
    BY <2>1, <2>2
<1>9. Cardinality(BegunHosts') = Cardinality(BegunHosts) + Cardinality(U)
  <2> HIDE DEF new, U
  <2>1. Cardinality(BegunHosts \cup new) =
          Cardinality(BegunHosts) + Cardinality(new) - Cardinality(BegunHosts \cap new)
    BY <1>1, <1>8, FS_Union
  <2>2. Cardinality(BegunHosts \cap new) = 0
    BY <1>7, FS_EmptySet
  <2> QED
    BY <1>1, <1>7, <1>8, <2>1, <2>2
<1>10. Cardinality(BegunSingle') = Cardinality(BegunSingle) + (IF networks[at].ones = W THEN 1 ELSE 0)
  <2>1. at \notin BegunSingle
    BY <1>1, <1>4 DEF BegunSingle, Listing!Single
  <2>2. CASE networks[at].ones = W
    <3>1. BegunSingle' = BegunSingle \cup {at}
      BY <1>3, <1>4, <2>2 DEF BegunSingle, Listing!Single
    <3>2. Cardinality(BegunSingle') = Cardinality(BegunSingle) + 1
      BY <1>1, <2>1, <3>1, FS_AddElement
    <3> QED
      BY <2>2, <3>2
  <2>3. CASE networks[at].ones # W
    <3>1. BegunSingle' = BegunSingle
      BY <1>3, <1>4, <2>3 DEF BegunSingle, Listing!Single
    <3> QED
      BY <1>1, <2>3, <3>1
  <2> QED
    BY <2>2, <2>3
<1> QED
  BY <1>9, <1>10

\* Before the first network nothing is listed or counted.
LEMMA NothingListed ==
  ASSUME ListingConstants, ListingTyped, at = 1, addr = Listing!None, total = 0, targets = <<>>,
         finished = FALSE \/ networks = <<>>
  PROVE  ListingInv
<1>1. \A h \in LoopHosts : h[1] \in 1..Len(networks)
  BY HostsFacts
<1>2. Listing!Single \subseteq 1..Len(networks) /\ Len(networks) \in Nat
  BY HostsFacts DEF Listing!Single
<1>3. Listed = {} /\ BegunHosts = {} /\ BegunSingle = {}
  <2>1. \A i \in 1..Len(networks) : ~(i < at) /\ ~Begun(i)
    BY <1>2 DEF Begun
  <2>2. \A h \in LoopHosts : ~Passed(h) /\ ~Begun(h[1])
    BY <1>1, <2>1 DEF Passed
  <2>3. \A i \in Listing!Single : ~Begun(i)
    BY <1>2, <2>1
  <2> QED
    BY <2>2, <2>3 DEF Listed, BegunHosts, BegunSingle
<1>4. Cardinality({}) = 0 /\ Listing!PerHost \in Nat
  <2>1. 0 \in Listing!Addresses
    <3> DEFINE top == 2^W
    <3>1. top \in Nat \ {0}
      BY Doubling DEF ListingConstants
    <3>2. Listing!Addresses = 0..(top - 1)
      BY DEF Listing!Addresses
    <3> HIDE DEF top
    <3> QED
      BY <3>1, <3>2
  <2> QED
    BY <2>1, FS_EmptySet, TargetsOfHost
<1>5. TargetsSoFar
  <2>1. Range(targets) = {} /\ Len(targets) = 0
    BY DEF Range
  <2>2. 0 * Listing!PerHost = 0
    BY <1>4
  <2> QED
    BY <1>3, <1>4, <2>1, <2>2 DEF TargetsSoFar
<1>6. TotalSoFar
  <2>1. (0 + 0) * Listing!PerHost = 0
    BY <1>4
  <2> QED
    BY <1>3, <1>4, <2>1 DEF TotalSoFar
<1>7. Where
  BY <1>2 DEF Where
<1> QED
  BY <1>5, <1>6, <1>7 DEF ListingInv

LEMMA ListingStarts ==
  ASSUME ListingConstants, Listing!Init \/ ListingRests
  PROVE  ListingInv
<1>1. /\ by \in {"service", "sweeper"} /\ networks \in Seq(Network) /\ at = 1 /\ addr = Listing!None
      /\ total = 0 /\ targets = <<>> /\ finished \in BOOLEAN /\ (finished = FALSE \/ networks = <<>>)
  <2>1. Configs \subseteq Seq(Network)
    BY Zenon DEF ListingConstants, Network
  <2>2. <<>> \in Seq(Network)
    OBVIOUS
  <2> QED
    BY <2>1, <2>2 DEF Listing!Init, ListingRests
<1>2. Listing!None \in 0..2^W
  <2>1. 2^W \in Nat
    BY Doubling DEF ListingConstants
  <2> QED
    BY <2>1 DEF Listing!None
<1>3. ListingTyped
  BY <1>1, <1>2 DEF ListingTyped
<1> QED
  BY <1>1, <1>3, NothingListed

\* The next network is begun: that counts its hosts.
LEMMA TotalGrows ==
  ASSUME ListingConstants, ListingTyped, TotalSoFar, at \in DOMAIN networks, addr = Listing!None,
         by' = by, networks' = networks, \A i \in DOMAIN networks : Begun(i)' <=> i <= at,
         total' = total + (IF by = "service" THEN Listing!NetworkSize(Listing!N)
                           ELSE Listing!NetworkSize(Listing!N) * Listing!PerHost)
  PROVE  TotalSoFar' /\ total' \in Nat
<1> DEFINE n == networks[at]  size == Listing!NetworkSize(n)  p == Listing!PerHost
           b == Cardinality(BegunHosts)  s == Cardinality(BegunSingle)
           u == Cardinality(LoopAddresses(n))  one == IF n.ones = W THEN 1 ELSE 0
<1>1. /\ n \in Network /\ b \in Nat /\ s \in Nat /\ total \in Nat
      /\ by \in {"service", "sweeper"} /\ by' = by
  BY HostsFacts DEF ListingTyped
<1>2. Cardinality(BegunHosts') = b + u /\ Cardinality(BegunSingle') = s + one
  BY NetworkBegun
<1>3. /\ u = IF n.ones = W THEN (IF by = "service" THEN 1 ELSE 0) ELSE size
      /\ (n.ones = W => size = 1) /\ u \in Nat
  <2>1. IsFiniteSet(LoopAddresses(n)) /\ u = IF n.ones = W THEN (IF by = "service" THEN 1 ELSE 0) ELSE size
    BY <1>1, UsableFacts
  <2>2. n.ones = W => size = 1
    BY DEF Listing!NetworkSize
  <2>3. u \in Nat
    BY <2>1, FS_CardinalityType
  <2> QED
    BY <2>1, <2>2, <2>3
<1>4. p \in Nat
  <2>1. n.ip \in Listing!Addresses
    BY <1>1 DEF Network, Listing!Addresses
  <2> QED
    BY <2>1, TargetsOfHost
<1>5. total' = total + (IF by = "service" THEN size ELSE size * p)
  BY DEF Listing!N
<1>6. total = IF by = "service" THEN b ELSE (b + s) * p
  BY DEF TotalSoFar
<1>7. one = IF n.ones = W THEN 1 ELSE 0
  OBVIOUS
<1> HIDE DEF n, size, p, b, s, u, one
<1>8. CASE by = "service"
  BY <1>1, <1>2, <1>3, <1>5, <1>6, <1>8 DEF TotalSoFar
<1>9. CASE by # "service"
  <2>1. size \in Nat /\ one \in Nat /\ u + one = size
    BY <1>3, <1>7, <1>9
  <2>2. (b + s) * p + size * p = ((b + u) + (s + one)) * p /\ (b + s) * p \in Nat /\ size * p \in Nat
    <3>1. (b + u) + (s + one) = (b + s) + size
      BY <1>1, <1>3, <2>1
    <3>2. ((b + s) + size) * p = (b + s) * p + size * p
      BY <1>1, <1>4, <2>1
    <3> QED
      BY <1>1, <1>4, <2>1, <3>1, <3>2
  <2>3. TotalSoFar'
    BY <1>1, <1>2, <1>5, <1>6, <1>9, <2>2 DEF TotalSoFar, p
  <2> QED
    BY <1>1, <1>5, <1>9, <2>2, <2>3
<1> QED
  BY <1>8, <1>9

\* The remainder of what is smaller.
LEMMA SmallRemainder ==
  ASSUME NEW a \in Nat, NEW m \in Nat \ {0}
  PROVE  (a < m => a % m = a) /\ m % m = 0
OBVIOUS

\* incrementIP counts up, and from the last address goes round to 0.
LEMMA IncFacts ==
  ASSUME ListingConstants, NEW a \in Listing!Addresses
  PROVE  /\ Listing!Inc(a) \in Listing!Addresses /\ a \in Nat
         /\ Listing!Inc(a) = IF a = 2^W - 1 THEN 0 ELSE a + 1
         /\ a # Listing!None /\ a \in 0..2^W
<1> DEFINE top == 2^W
<1>1. top \in Nat \ {0}
  BY Doubling DEF ListingConstants
<1>2. /\ Listing!Addresses = 0..(top - 1) /\ Listing!None = top
      /\ Listing!Inc(a) = (a + 1) % top
  BY DEF Listing!Addresses, Listing!None, Listing!Inc
<1> HIDE DEF top
<1>3. a \in Nat /\ a < top /\ (a = top - 1 => (a + 1) % top = 0) /\ (a # top - 1 => (a + 1) % top = a + 1)
  BY <1>1, <1>2, SmallRemainder
<1>4. /\ Listing!Inc(a) \in 0..(top - 1) /\ a \in Nat
      /\ Listing!Inc(a) = IF a = top - 1 THEN 0 ELSE a + 1
      /\ a # top /\ a \in 0..top
  BY <1>1, <1>2, <1>3
<1> QED
  BY <1>2, <1>4 DEF top

\* The loop over a network: where it begins, goes on and is behind.
LEMMA LoopFacts ==
  ASSUME ListingConstants, NEW n \in Network
  PROVE  LET b == Listing!Base(n)
             l == Listing!Broadcast(n)
         IN  /\ b \in Nat /\ l \in Nat /\ b <= l /\ (n.ones = W <=> b = l)
             /\ \A a \in b..l : a \in Listing!Addresses /\ Listing!Holds(n, a)
             /\ \A a \in b..l : a # l => Listing!Inc(a) = a + 1
             /\ \A a \in Listing!Addresses : Listing!Holds(n, a) => a \in b..l
             /\ Listing!Inc(l) \in Listing!Addresses /\ ~Listing!Holds(n, Listing!Inc(l))
<1> DEFINE b == Listing!Base(n)  l == Listing!Broadcast(n)  top == 2^W
<1>1. /\ b \in Listing!Addresses /\ l \in Listing!Addresses /\ n.ip \in b..l
      /\ n.ones = W <=> b = l
      /\ ~(b = 0 /\ l = top - 1)
      /\ \A a \in Listing!Addresses : Listing!Holds(n, a) <=> a \in b..l
  BY NetworkFacts
<1>2. top \in Nat \ {0} /\ Listing!Addresses = 0..(top - 1)
  BY Doubling DEF ListingConstants, Listing!Addresses
<1>3. \A a \in Listing!Addresses : /\ Listing!Inc(a) \in Listing!Addresses
                                   /\ Listing!Inc(a) = IF a = top - 1 THEN 0 ELSE a + 1
  BY IncFacts
<1> HIDE DEF b, l, top
<1>4. b \in Nat /\ l \in Nat /\ b <= l /\ \A a \in b..l : a \in Listing!Addresses
  BY <1>1, <1>2
<1>5. \A a \in b..l : a # l => Listing!Inc(a) = a + 1
  BY <1>1, <1>2, <1>3, <1>4
<1>6. Listing!Inc(l) \notin b..l
  BY <1>1, <1>2, <1>3, <1>4
<1>7. /\ b \in Nat /\ l \in Nat /\ b <= l /\ (n.ones = W <=> b = l)
      /\ \A a \in b..l : a \in Listing!Addresses /\ Listing!Holds(n, a)
      /\ \A a \in b..l : a # l => Listing!Inc(a) = a + 1
      /\ \A a \in Listing!Addresses : Listing!Holds(n, a) => a \in b..l
      /\ Listing!Inc(l) \in Listing!Addresses /\ ~Listing!Holds(n, Listing!Inc(l))
  BY <1>1, <1>3, <1>4, <1>5, <1>6
<1> QED
  BY <1>7 DEF b, l

\* Where the listing is, when it is in a network.
LEMMA InNetwork ==
  ASSUME ListingConstants, ListingTyped, Where, addr # Listing!None
  PROVE  LET n == networks[at]
             b == Listing!Base(n)
             l == Listing!Broadcast(n)
         IN  /\ at \in DOMAIN networks /\ n \in Network /\ Listing!N = n
             /\ (by = "service" => n.ones # W)
             /\ addr \in Listing!Addresses
             /\ Listing!Holds(n, addr) => addr \in b..l /\ (by = "service" => addr # b)
             /\ LoopAddresses(n) = (b + 1)..(l - 1)
<1> DEFINE n == networks[at]
<1>1. /\ at \in DOMAIN networks /\ n \in Network /\ Listing!N = n /\ (by = "service" => n.ones # W)
      /\ \/ addr \in Listing!Base(n)..Listing!Broadcast(n) /\ (by = "service" => addr # Listing!Base(n))
         \/ addr = Listing!Inc(Listing!Broadcast(n))
  BY HostsFacts DEF Where, ListingTyped, Listing!N
<1> HIDE DEF n
<1>2. /\ \A a \in Listing!Base(n)..Listing!Broadcast(n) : a \in Listing!Addresses
      /\ Listing!Inc(Listing!Broadcast(n)) \in Listing!Addresses
      /\ ~Listing!Holds(n, Listing!Inc(Listing!Broadcast(n)))
  BY <1>1, LoopFacts
<1>3. LoopAddresses(n) = (Listing!Base(n) + 1)..(Listing!Broadcast(n) - 1)
  BY <1>1, UsableFacts
<1> QED
  BY <1>1, <1>2, <1>3 DEF n

LEMMA BeginNetworkKeeps ==
  ASSUME ListingConstants, ListingInv, Listing!BeginNetwork
  PROVE  ListingInv'
<1> DEFINE n == networks[at]  b == Listing!Base(n)  l == Listing!Broadcast(n)
<1>1. ListingTyped /\ Where /\ TargetsSoFar /\ TotalSoFar
  BY DEF ListingInv
<1>2. /\ ~finished /\ addr = Listing!None /\ at <= Len(networks) /\ Listing!N = n
      /\ by' = by /\ networks' = networks /\ finished' = finished
      /\ total' = total + (IF by = "service" THEN Listing!NetworkSize(Listing!N)
                           ELSE Listing!NetworkSize(Listing!N) * Listing!PerHost)
  BY DEF Listing!BeginNetwork, Listing!N
<1>3. /\ at \in DOMAIN networks /\ n \in Network /\ DOMAIN networks = 1..Len(networks)
      /\ at \in Nat /\ Len(networks) \in Nat
      /\ \A h \in LoopHosts : h[1] \in DOMAIN networks /\ h[2] \in LoopAddresses(networks[h[1]])
                                  /\ h[2] \in Listing!Addresses /\ h = <<h[1], h[2]>>
  BY <1>1, <1>2, HostsFacts DEF ListingTyped
<1>4. LoopHosts' = LoopHosts
  BY <1>2 DEF LoopHosts, LoopAddresses
<1>5. Listed = {h \in LoopHosts : h[1] < at}
  BY <1>2 DEF Listed, Passed
<1>6. CASE by = "service" /\ n.ones = W
  <2>1. targets' = targets \o Listing!TargetsOf(n.ip) /\ at' = at + 1 /\ addr' = addr
    BY <1>2, <1>6 DEF Listing!BeginNetwork
  <2>2. \A i \in DOMAIN networks : Begun(i)' <=> i <= at
    BY <1>2, <1>3, <2>1 DEF Begun, Listing!None
  <2>3. TotalSoFar' /\ total' \in Nat
    BY <1>1, <1>2, <1>3, <2>2, TotalGrows
  <2>4. LoopAddresses(n) = {n.ip} /\ n.ip \in Listing!Addresses
    BY <1>3, <1>6, UsableFacts
  <2> DEFINE h == <<at, n.ip>>
  <2>5. h \in LoopHosts /\ h \notin Listed /\ h[2] = n.ip
    BY <1>3, <1>5, <2>4 DEF LoopHosts
  <2>6. Listed' = Listed \cup {h}
    <3>1. Listed' = {g \in LoopHosts : g[1] < at + 1}
      BY <1>2, <1>4, <2>1 DEF Listed, Passed, Listing!None
    <3>2. \A g \in LoopHosts : g[1] < at + 1 <=> (g[1] < at \/ g[1] = at)
      BY <1>3
    <3>3. \A g \in LoopHosts : g[1] = at => g = h
      BY <1>3, <2>4
    <3> QED
      BY <1>5, <2>5, <3>1, <3>2, <3>3
  <2>7. TargetsSoFar' /\ targets' \in Seq(Target)
    <3> HIDE DEF h
    <3> QED
      BY <1>1, <2>1, <2>5, <2>6, HostListed
  <2>8. ListingTyped'
    <3>1. at' \in 1..(Len(networks) + 1)
      <4> HIDE DEF n
      <4> QED
        BY <1>2, <1>3, <2>1
    <3>3. at' \in 1..(Len(networks') + 1) /\ by' \in {"service", "sweeper"} /\ networks' \in Seq(Network)
      BY <1>1, <1>2, <3>1, Zenon DEF ListingTyped
    <3>2. addr' \in 0..2^W /\ finished' \in BOOLEAN
      BY <1>1, <1>2, <2>1, Zenon DEF ListingTyped
    <3> QED
      BY <2>3, <2>7, <3>2, <3>3, Zenon DEF ListingTyped
  <2>9. Where'
    BY <1>2, <2>1 DEF Where, Listing!None
  <2> QED
    BY <2>3, <2>7, <2>8, <2>9 DEF ListingInv
<1>7. CASE ~(by = "service" /\ n.ones = W)
  <2>1. /\ addr' = (IF by = "service" THEN Listing!Inc(b) ELSE b)
        /\ targets' = targets /\ at' = at
    BY <1>2, <1>7 DEF Listing!BeginNetwork
  <2>2. /\ b \in Nat /\ l \in Nat /\ b <= l /\ (n.ones = W <=> b = l)
        /\ \A a \in b..l : a \in Listing!Addresses /\ Listing!Holds(n, a)
        /\ \A a \in b..l : a # l => Listing!Inc(a) = a + 1
    BY <1>3, LoopFacts
  <2>3. LoopAddresses(n) = (b + 1)..(l - 1)
    BY <1>3, <1>7, UsableFacts
  <2> HIDE DEF n, b, l
  <2>4. addr' \in b..l /\ addr' <= b + 1 /\ (by = "service" => addr' # b)
    BY <1>7, <2>1, <2>2
  <2>5. addr' # Listing!None /\ addr' \in 0..2^W /\ Listing!Holds(n, addr')
    BY <2>2, <2>4, IncFacts
  <2>6. \A i \in DOMAIN networks : Begun(i)' <=> i <= at
    BY <1>2, <1>3, <2>1, <2>5 DEF Begun, Listing!None
  <2>7. TotalSoFar' /\ total' \in Nat
    BY <1>1, <1>2, <1>3, <2>6, TotalGrows
  <2>8. Listed' = Listed
    <3>1. Listed' = {g \in LoopHosts : g[1] < at \/ (g[1] = at /\ g[2] < addr')}
      BY <1>2, <1>4, <2>1, <2>5 DEF Listed, Passed, Listing!None, n, Listing!Holds, Listing!Base
    <3>2. \A g \in LoopHosts : g[1] = at => g[2] \in (b + 1)..(l - 1)
      BY <1>3, <2>3 DEF n
    <3>3. \A g \in LoopHosts : g[1] = at => ~(g[2] < addr')
      BY <2>2, <2>4, <3>2
    <3> QED
      BY <1>5, <3>1, <3>3
  <2>9. TargetsSoFar'
    BY <1>1, <2>1, <2>8 DEF TargetsSoFar
  <2>10. ListingTyped'
    BY <1>1, <1>2, <2>1, <2>5, <2>7 DEF ListingTyped
  <2>11. Where'
    <3>1. (networks[at])' = n
      BY <1>2, <2>1 DEF n
    <3> QED
      BY <1>2, <1>7, <2>1, <2>4, <3>1 DEF Where, n, b, l
  <2> QED
    BY <2>7, <2>9, <2>10, <2>11 DEF ListingInv
<1> QED
  BY <1>6, <1>7

\* The loop goes on: a host is listed, or an address that is none is passed over.
LEMMA NextAddressKeeps ==
  ASSUME ListingConstants, ListingInv, Listing!NextAddress
  PROVE  ListingInv'
<1> DEFINE n == networks[at]  b == Listing!Base(n)  l == Listing!Broadcast(n)
<1>1. ListingTyped /\ Where /\ TargetsSoFar /\ TotalSoFar
  BY DEF ListingInv
<1>2. /\ addr # Listing!None /\ Listing!Holds(Listing!N, addr)
      /\ targets' = IF Listing!IsFirstOrLast(Listing!N, addr) THEN targets
                    ELSE targets \o Listing!TargetsOf(addr)
      /\ addr' = Listing!Inc(addr)
      /\ by' = by /\ networks' = networks /\ at' = at /\ total' = total /\ finished' = finished
  BY DEF Listing!NextAddress
<1>3. /\ at \in DOMAIN networks /\ n \in Network /\ Listing!N = n
      /\ (by = "service" => n.ones # W) /\ addr \in b..l /\ (by = "service" => addr # b)
      /\ LoopAddresses(n) = (b + 1)..(l - 1)
  BY <1>1, <1>2, InNetwork
<1>4. /\ DOMAIN networks = 1..Len(networks) /\ at \in Nat /\ Len(networks) \in Nat
      /\ \A h \in LoopHosts : h[1] \in DOMAIN networks /\ h[2] \in LoopAddresses(networks[h[1]])
                                  /\ h = <<h[1], h[2]>>
  BY <1>1, HostsFacts DEF ListingTyped
<1>5. /\ b \in Nat /\ l \in Nat /\ b <= l
      /\ \A a \in b..l : a \in Listing!Addresses /\ Listing!Holds(n, a)
      /\ \A a \in b..l : a # l => Listing!Inc(a) = a + 1
      /\ Listing!Inc(l) \in Listing!Addresses /\ ~Listing!Holds(n, Listing!Inc(l))
  BY <1>3, LoopFacts
<1>6. LoopHosts' = LoopHosts /\ Listing!Single' = Listing!Single
  BY <1>2 DEF LoopHosts, LoopAddresses, Listing!Single
<1>7. \A h \in LoopHosts : h[1] = at => h[2] \in (b + 1)..(l - 1)
  BY <1>3, <1>4
<1>8. (networks[at])' = n
  BY <1>2
<1>9. Listing!IsFirstOrLast(n, addr) <=> (addr = b \/ addr = l)
  BY DEF Listing!IsFirstOrLast
<1> HIDE DEF n, b, l
<1>10. /\ addr' = IF addr = l THEN Listing!Inc(l) ELSE addr + 1
       /\ addr # l => addr' \in b..l /\ addr' # b
       /\ addr' \in Listing!Addresses
       /\ Listing!Holds(n, addr') <=> addr # l
  BY <1>2, <1>3, <1>5
<1>11. addr' # Listing!None /\ addr' \in 0..2^W
  BY <1>10, IncFacts
<1>12. Listed = {h \in LoopHosts : h[1] < at \/ (h[1] = at /\ h[2] < addr)}
  BY <1>2, <1>3 DEF Listed, Passed, n
<1>13. Listed' = {h \in LoopHosts : h[1] < at \/ (h[1] = at /\ h[2] < addr + 1)}
  <2>1. \A h \in LoopHosts :
          Passed(h)' <=> (h[1] < at \/ (h[1] = at /\ (Listing!Holds(n, addr') => h[2] < addr')))
    BY <1>2, <1>8, <1>11 DEF Passed, Listing!None, Listing!Holds, Listing!Base
  <2>2. \A h \in LoopHosts :
          h[1] = at => ((Listing!Holds(n, addr') => h[2] < addr') <=> h[2] < addr + 1)
    BY <1>3, <1>5, <1>7, <1>10
  <2> QED
    BY <1>6, <2>1, <2>2 DEF Listed
<1>14. TargetsSoFar' /\ targets' \in Seq(Target)
  <2>1. CASE addr = b \/ addr = l
    <3>1. targets' = targets
      BY <1>2, <1>3, <1>9, <2>1
    <3>2. \A h \in LoopHosts : h[1] = at => (h[2] < addr <=> h[2] < addr + 1)
      BY <1>5, <1>7, <2>1
    <3>3. Listed' = Listed
      BY <1>12, <1>13, <3>2
    <3> QED
      BY <1>1, <1>2, <3>1, <3>3 DEF TargetsSoFar, ListingTyped
  <2>2. CASE addr # b /\ addr # l
    <3> DEFINE h == <<at, addr>>
    <3>1. targets' = targets \o Listing!TargetsOf(h[2])
      BY <1>2, <1>3, <1>9, <2>2
    <3>2. addr \in (b + 1)..(l - 1) /\ addr \in Listing!Addresses
      BY <1>3, <1>5, <2>2
    <3>3. h \in LoopHosts /\ h[1] = at /\ h[2] = addr
      BY <1>3, <3>2 DEF LoopHosts, n
    <3>4. h \notin Listed
      BY <1>4, <1>12, <3>2, <3>3
    <3>5. \A g \in LoopHosts : g[1] = at => (g[2] < addr + 1 <=> (g[2] < addr \/ g[2] = addr))
      BY <1>5, <1>7, <3>2
    <3>6. \A g \in LoopHosts : (g[1] = at /\ g[2] = addr) <=> g = h
      BY <1>4
    <3>7. Listed' = Listed \cup {h}
      <4> HIDE DEF h
      <4> QED
        BY <1>12, <1>13, <3>3, <3>5, <3>6
    <3> HIDE DEF h
    <3> QED
      BY <1>1, <3>1, <3>3, <3>4, <3>7, HostListed
  <2> QED
    BY <2>1, <2>2
<1>15. TotalSoFar'
  <2>1. \A i \in DOMAIN networks : Begun(i)' <=> Begun(i)
    BY <1>2, <1>11 DEF Begun, Listing!None
  <2>2. BegunHosts' = BegunHosts /\ BegunSingle' = BegunSingle
    BY <1>4, <1>6, <2>1 DEF BegunHosts, BegunSingle, Listing!Single
  <2> QED
    BY <1>1, <1>2, <2>2 DEF TotalSoFar, Listing!PerHost
<1>16. ListingTyped'
  BY <1>1, <1>2, <1>11, <1>14, Zenon DEF ListingTyped
<1>17. Where'
  <2>1. addr = l \/ addr # l
    OBVIOUS
  <2> QED
    BY <1>1, <1>2, <1>3, <1>4, <1>8, <1>10, <1>11, <2>1 DEF Where, n, b, l, Listing!None
<1> QED
  BY <1>14, <1>15, <1>16, <1>17 DEF ListingInv

\* The loop over a network is left: all its hosts are listed.
LEMMA EndNetworkKeeps ==
  ASSUME ListingConstants, ListingInv, Listing!EndNetwork
  PROVE  ListingInv'
<1>1. ListingTyped /\ Where /\ TargetsSoFar /\ TotalSoFar
  BY DEF ListingInv
<1>2. /\ addr # Listing!None /\ ~Listing!Holds(networks[at], addr)
      /\ addr' = Listing!None /\ at' = at + 1
      /\ by' = by /\ networks' = networks /\ total' = total /\ finished' = finished /\ targets' = targets
  BY DEF Listing!EndNetwork, Listing!N
<1>3. /\ at \in DOMAIN networks /\ DOMAIN networks = 1..Len(networks) /\ at \in Nat /\ Len(networks) \in Nat
      /\ \A h \in LoopHosts : h[1] \in DOMAIN networks
  BY <1>1, <1>2, HostsFacts, InNetwork DEF ListingTyped
<1>4. LoopHosts' = LoopHosts /\ Listing!Single' = Listing!Single
  BY <1>2 DEF LoopHosts, LoopAddresses, Listing!Single
<1>5. addr' = Listing!None'
  BY <1>2 DEF Listing!None
<1>6. \A i \in DOMAIN networks : /\ Begun(i) <=> i < at \/ i = at
                                 /\ Begun(i)' <=> i < at + 1
                                 /\ i < at + 1 <=> (i < at \/ i = at)
  BY <1>2, <1>3, <1>5 DEF Begun
<1>7. \A h \in LoopHosts : /\ Passed(h) <=> h[1] < at \/ h[1] = at
                           /\ Passed(h)' <=> h[1] < at + 1
                           /\ h[1] < at + 1 <=> (h[1] < at \/ h[1] = at)
  BY <1>2, <1>3, <1>5 DEF Passed
<1>8. Listed' = Listed
  BY <1>4, <1>7 DEF Listed
<1>9. BegunHosts' = BegunHosts /\ BegunSingle' = BegunSingle
  BY <1>3, <1>4, <1>6 DEF BegunHosts, BegunSingle, Listing!Single
<1>10. TargetsSoFar'
  BY <1>1, <1>2, <1>8 DEF TargetsSoFar, Listing!PerHost, Listing!TargetsOf
<1>11. TotalSoFar'
  BY <1>1, <1>2, <1>9 DEF TotalSoFar, Listing!PerHost
<1>12. ListingTyped'
  <2>1. at' \in 1..(Len(networks) + 1)
    BY <1>2, <1>3
  <2>2. addr' \in 0..2^W
    BY <1>2, Doubling DEF Listing!None, ListingConstants
  <2> QED
    BY <1>1, <1>2, <2>1, <2>2, Zenon DEF ListingTyped
<1>13. Where'
  <2>1. finished => at > Len(networks)
    BY <1>1 DEF Where
  <2> QED
    BY <1>2, <1>3, <1>5, <2>1 DEF Where
<1> QED
  BY <1>10, <1>11, <1>12, <1>13 DEF ListingInv

LEMMA ListingKept ==
  ASSUME ListingConstants, ListingInv, [Listing!Next]_(Listing!vars)
  PROVE  ListingInv'
<1>1. CASE Listing!BeginNetwork
  BY <1>1, BeginNetworkKeeps
<1>2. CASE Listing!NextAddress
  BY <1>2, NextAddressKeeps
<1>3. CASE Listing!EndNetwork
  BY <1>3, EndNetworkKeeps
<1>4. CASE Listing!Finish \/ UNCHANGED Listing!vars
  <2>1. /\ by' = by /\ networks' = networks /\ at' = at /\ addr' = addr /\ total' = total /\ targets' = targets
        /\ \/ finished' = finished
           \/ finished' = TRUE /\ at > Len(networks)
    BY <1>4 DEF Listing!Finish, Listing!vars
  <2>2. ListingTyped'
    BY <2>1, Zenon DEF ListingInv, ListingTyped
  <2>3. Where'
    BY <2>1 DEF ListingInv, Where, Listing!None, Listing!Base, Listing!Broadcast, Listing!Inc
  <2>4. LoopHosts' = LoopHosts /\ Listing!Single' = Listing!Single
    BY <2>1 DEF LoopHosts, LoopAddresses, Listing!Single
  <2>5. \A h \in LoopHosts : Passed(h)' <=> Passed(h)
    BY <2>1 DEF Passed, Listing!None, Listing!Holds, Listing!Base
  <2>6. \A i : Begun(i)' <=> Begun(i)
    BY <2>1 DEF Begun, Listing!None
  <2>7. Listed' = Listed /\ BegunHosts' = BegunHosts /\ BegunSingle' = BegunSingle
    BY <2>4, <2>5, <2>6 DEF Listed, BegunHosts, BegunSingle
  <2>8. TargetsSoFar' /\ TotalSoFar'
    BY <2>1, <2>7 DEF ListingInv, TargetsSoFar, TotalSoFar, Listing!TargetsOf, Listing!PerHost
  <2> QED
    BY <2>2, <2>3, <2>8 DEF ListingInv
<1> QED
  BY <1>1, <1>2, <1>3, <1>4 DEF Listing!Next

\* At the end every network was begun and every host listed.
LEMMA ListingExact ==
  ASSUME ListingConstants, ListingInv
  PROVE  Listing!TargetsExact
<1> SUFFICES ASSUME finished, by = "service" \/ Listing!Single = {} PROVE Listing!TargetsExact
  BY DEF Listing!TargetsExact
<1>1. ListingTyped /\ TargetsSoFar /\ TotalSoFar /\ at > Len(networks)
  BY DEF ListingInv, Where
<1>2. /\ DOMAIN networks = 1..Len(networks) /\ Len(networks) \in Nat /\ at \in Nat
      /\ \A h \in LoopHosts : h[1] \in DOMAIN networks
  BY <1>1, HostsFacts DEF ListingTyped
<1>3. \A i \in DOMAIN networks : i < at /\ Begun(i)
  BY <1>1, <1>2 DEF Begun
<1>4. Listed = LoopHosts /\ BegunHosts = LoopHosts
  BY <1>2, <1>3 DEF Listed, Passed, BegunHosts
<1>5. BegunSingle = Listing!Single
  BY <1>3 DEF BegunSingle, Listing!Single
<1>6. \A S : Listing!Cardinality(S) = Cardinality(S)
  BY DEF Listing!Cardinality, Cardinality
<1>7. \A f : Listing!Range(f) = Range(f)
  BY DEF Listing!Range, Range
<1>8. LoopHosts = Listing!Hosts
  <2>1. \A i \in DOMAIN networks : networks[i].ones = W => by = "service"
    BY DEF Listing!Single
  <2>2. \A i \in DOMAIN networks : LoopAddresses(networks[i]) = Listing!Usable(networks[i])
    BY <2>1 DEF LoopAddresses, Listing!Usable
  <2> QED
    BY <2>2 DEF LoopHosts, Listing!Hosts
<1>9. total = Cardinality(Listing!Hosts) * (IF by = "service" THEN 1 ELSE Listing!PerHost)
  <2>1. Cardinality(LoopHosts) \in Nat /\ (by # "service" => Cardinality(BegunSingle) = 0)
    BY <1>1, <1>4, <1>5, HostsFacts, FS_EmptySet
  <2>2. CASE by = "service"
    BY <1>1, <1>4, <1>8, <2>1, <2>2 DEF TotalSoFar
  <2>3. CASE by # "service"
    BY <1>1, <1>4, <1>8, <2>1, <2>3 DEF TotalSoFar
  <2> QED
    BY <2>2, <2>3
<1> QED
  BY <1>1, <1>4, <1>6, <1>7, <1>8, <1>9 DEF Listing!TargetsExact, TargetsSoFar

-----------------------------------------------------------------------------
(* The processes.                                                            *)

\* The agent's part of a behaviour is a behaviour of Agent, from its resting state
\* too.
LEMMA AgentRuns == Spec => []CacheInv
<1>1. Init => CacheInv
  BY CacheStarts, CacheRests, ServerAssumption DEF Init
<1>2. CacheInv /\ [Next]_vars => CacheInv'
  <2> SUFFICES ASSUME CacheInv, [Next]_vars PROVE CacheInv'
    OBVIOUS
  <2>1. [Server!Next]_Server!vars
    BY DEF Next, vars, serverVars, Server!vars, Server!mainVars, Server!startVars, Server!callVars
  <2> QED
    BY <2>1, CacheKept, ServerAssumption
<1> QED
  BY <1>1, <1>2, PTL DEF Spec

LEMMA CheckerRuns == Spec => []CheckerInv
<1>1. Init => CheckerInv
  BY CheckerStarts, CheckerAssumption DEF Init
<1>2. CheckerInv /\ [Next]_vars => CheckerInv'
  <2> SUFFICES ASSUME CheckerInv, [Next]_vars PROVE CheckerInv'
    OBVIOUS
  <2>1. [Checker!Next]_Checker!vars
    BY DEF Next, vars, checkerVars, Checker!vars
  <2> QED
    BY <2>1, CheckerKept, CheckerAssumption
<1> QED
  BY <1>1, <1>2, PTL DEF Spec

LEMMA ListingRuns == Spec => []ListingInv
<1>1. Init => ListingInv
  BY ListingStarts, ListingAssumption DEF Init
<1>2. ListingInv /\ [Next]_vars => ListingInv'
  <2> SUFFICES ASSUME ListingInv, [Next]_vars PROVE ListingInv'
    OBVIOUS
  <2>1. [Listing!Next]_(Listing!vars)
    BY DEF Next, vars, listingVars, Listing!vars
  <2> QED
    BY <2>1, ListingKept, ListingAssumption
<1> QED
  BY <1>1, <1>2, PTL DEF Spec

\* However many calls need the same checker at once, fail to make it, or find
\* it in the cache, Server.getChecker opens one client for each external checker
\* and loses none.
THEOREM OneClientForEachChecker == Spec => []AgentClientsAccounted
<1>1. Spec => []CacheInv
  BY AgentRuns
<1>2. CacheInv => AgentClientsAccounted
  BY DEF CacheInv, AgentClientsAccounted
<1> QED
  BY <1>1, <1>2, PTL

\* GetStatus reports a service as not available only if, while that call was under
\* way, it did not answer, or its connection, broken since the client was opened,
\* was not made again: a failure to make a checker leaves nothing in the cache that
\* speaks for a later call.
THEOREM OnlySeenDownIsAnswered == Spec => []AgentDownWasSeen
<1>1. Spec => []CacheInv
  BY AgentRuns
<1>2. CacheInv => AgentDownWasSeen
  BY DEF CacheInv, CallKnows, AgentDownWasSeen, Server!DownWasSeen
<1> QED
  BY <1>1, <1>2, PTL

\* However many blocks and other messages the Dusk node sends, whenever it hangs
\* up or Stop is called, listenForEvents has kept the last blocks it read, in their
\* order and without a gap, up to the size of the history, and answers with the
\* newest.
THEOREM HistoryIsTheLatest == Spec => []DuskHistoryIsLatest
<1>1. Spec => []CheckerInv
  BY CheckerRuns
<1>2. CheckerInv => DuskHistoryIsLatest
  BY CheckerLatest DEF DuskHistoryIsLatest
<1> QED
  BY <1>1, <1>2, PTL

\* Whatever the width of an address, the networks, the modes and the ports:
\* generateTargets lists exactly the hosts of its networks, at the ends of the
\* address space too, and the total and the capacity it computes from the prefix
\* lengths count them, in the service, and in the sweeper if no network is a
\* single address.
THEOREM SweepsAreExact == Spec => []SweepTargetsExact
<1>1. Spec => []ListingInv
  BY ListingRuns
<1>2. ListingInv => SweepTargetsExact
  BY ListingExact, ListingAssumption DEF SweepTargetsExact
<1> QED
  BY <1>1, <1>2, PTL
=============================================================================
