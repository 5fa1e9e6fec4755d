----------------------------- MODULE SocketPool -----------------------------
(***************************************************************************)
(* The pool of ICMP sockets (pkg/scan/icmp_scanner.go) that the listeners  *)
(* and the pings of all ICMP scans take their sockets from, with its       *)
(* cleaner and its close.  getSocket, cleanup and close run under the      *)
(* pool's lock; a release does not.  Ages are abstract: an entry may pass  *)
(* maxAge, and maxIdle since it was last used, at any time.                *)
(***************************************************************************)
EXTENDS Naturals, Sequences, FiniteSets, Functions, Sublists

CONSTANTS
  Users,        \* goroutines that use a socket: listenForReplies, sendPing
  Entries,      \* socketEntry records: numbers
  Files,        \* connections (icmp.PacketConn): numbers
  MaxSockets    \* socketPool.maxSockets

VARIABLES
  sockets,      \* socketPool.sockets: a sequence of entries
  entry,        \* the fields of each record that somebody can reach
  openFiles,    \* connections not yet closed
  user,         \* what a goroutine holds: an entry and the connection it was given
  poolShut      \* close: no, closed, or stuck (it returned at an error)

vars == <<sockets, entry, openFiles, user, poolShut>>

Nothing == [entry |-> 0, conn |-> 0]
Listed == {sockets[i] : i \in DOMAIN sockets}
Held(e) == {u \in Users : user[u].entry = e}
Busy == {u \in Users : user[u] # Nothing}

New(f) == [conn |-> f, old |-> FALSE, idle |-> FALSE, inUse |-> 1, closed |-> FALSE]

Init ==
  /\ sockets = <<>>
  /\ entry = [e \in {} |-> New(0)]
  /\ openFiles = {}
  /\ user = [u \in Users |-> Nothing]
  /\ poolShut = "no"

\* Which record and which connection is new makes no difference: the first one
\* that nobody has.
First(S) == {x \in S : \A y \in S : x <= y}
SpareEntries == First(Entries \ DOMAIN entry)
SpareFiles == First(Files \ (openFiles \cup {user[u].conn : u \in Busy}))

Give(u, e, f) == user' = [user EXCEPT ![u] = [entry |-> e, conn |-> f]]

-----------------------------------------------------------------------------
(* getSocket.                                                                *)

\* Mutant: a socket in use counts as available.
AvailableInUse(e) == ~entry[e].closed /\ ~entry[e].old /\ ~entry[e].idle

Available(e) == ~entry[e].closed /\ ~entry[e].old /\ ~entry[e].idle /\ entry[e].inUse = 0
Recyclable(e) == entry[e].inUse = 0 /\ ~entry[e].closed

\* The first of the pool's entries that satisfies P.
IsFirst(i, P(_)) == P(sockets[i]) /\ \A j \in 1..(i - 1) : ~P(sockets[j])

TakeAvailable(u) ==
  /\ user[u] = Nothing
  /\ \E i \in DOMAIN sockets :
       /\ IsFirst(i, Available)
       /\ entry' = [entry EXCEPT ![sockets[i]].inUse = @ + 1]
       /\ Give(u, sockets[i], entry[sockets[i]].conn)
  /\ UNCHANGED <<sockets, openFiles, poolShut>>

\* createSocket.  (When ListenPacket fails, nothing changes.)
Create(u) ==
  /\ user[u] = Nothing
  /\ \A e \in Listed : ~Available(e)
  /\ Len(sockets) < MaxSockets
  /\ \E e \in SpareEntries, f \in SpareFiles :
       /\ sockets' = Append(sockets, e)
       /\ entry' = [d \in DOMAIN entry \cup {e} |-> IF d = e THEN New(f) ELSE entry[d]]
       /\ openFiles' = openFiles \cup {f}
       /\ Give(u, e, f)
  /\ UNCHANGED poolShut

\* recycleSocket closes an idle entry's connection and makes it a new one; when
\* that fails the entry stays in the pool, closed.
Recycle(u) ==
  /\ user[u] = Nothing
  /\ \A e \in Listed : ~Available(e)
  /\ Len(sockets) >= MaxSockets
  /\ \E i \in DOMAIN sockets :
       LET e == sockets[i] IN
       /\ IsFirst(i, Recyclable)
       /\ \/ \E f \in SpareFiles :
               /\ entry' = [entry EXCEPT ![e] = New(f)]
               /\ openFiles' = (openFiles \ {entry[e].conn}) \cup {f}
               /\ Give(u, e, f)
          \/ /\ entry' = [entry EXCEPT ![e].closed = TRUE]
             /\ openFiles' = openFiles \ {entry[e].conn}
             /\ UNCHANGED user
  /\ UNCHANGED <<sockets, poolShut>>

\* The release function.
Release(u) ==
  /\ user[u] # Nothing
  /\ LET e == user[u].entry IN
     entry' = IF e \in Listed THEN [entry EXCEPT ![e].inUse = @ - 1, ![e].idle = FALSE]
              ELSE Restrict(entry, DOMAIN entry \ {e})
  /\ user' = [user EXCEPT ![u] = Nothing]
  /\ UNCHANGED <<sockets, openFiles, poolShut>>

-----------------------------------------------------------------------------
(* Time, the cleaner, and close.                                             *)

Grow(e) ==
  /\ e \in Listed
  /\ \/ ~entry[e].old /\ entry' = [entry EXCEPT ![e].old = TRUE]
     \/ ~entry[e].idle /\ entry' = [entry EXCEPT ![e].idle = TRUE]
  /\ UNCHANGED <<sockets, openFiles, user, poolShut>>

TooOld(e) == ~entry[e].closed /\ (entry[e].old \/ entry[e].idle)
Stays(e) == ~entry[e].closed /\ ~TooOld(e)

\* Mutant: stale entries are dropped, their connections left open.
CleanupLeaks ==
  /\ poolShut = "no"
  /\ \E e \in Listed : entry[e].closed \/ TooOld(e)
  /\ entry' = [e \in {d \in DOMAIN entry : Held(d) # {} \/ Stays(d)} |->
                 IF TooOld(e) THEN [entry[e] EXCEPT !.closed = TRUE] ELSE entry[e]]
  /\ sockets' \in Sublists(sockets, {i \in DOMAIN sockets : Stays(sockets[i])})
  /\ UNCHANGED <<openFiles, user, poolShut>>

\* cleanup closes what is too old, in use or not, and drops it with what is
\* closed already.
Cleanup ==
  /\ poolShut = "no"
  /\ \E e \in Listed : entry[e].closed \/ TooOld(e)
  /\ entry' = [e \in {d \in DOMAIN entry : Held(d) # {} \/ Stays(d)} |->
                 IF TooOld(e) THEN [entry[e] EXCEPT !.closed = TRUE] ELSE entry[e]]
  /\ openFiles' = openFiles \ {entry[e].conn : e \in {d \in Listed : TooOld(d)}}
  /\ sockets' \in Sublists(sockets, {i \in DOMAIN sockets : Stays(sockets[i])})
  /\ UNCHANGED <<user, poolShut>>

\* close stops the cleaner and closes every entry in turn, up to an error.  It
\* does not keep getSocket from opening sockets later.
ClosePool ==
  /\ poolShut = "no"
  /\ \E n \in 0..Len(sockets) :
       LET Closing == {sockets[i] : i \in 1..n}
           Closed0 == {entry[e].conn : e \in {d \in Closing : ~entry[d].closed}} IN
       /\ poolShut' = IF n = Len(sockets) THEN "closed" ELSE "stuck"
       /\ sockets' = IF n = Len(sockets) THEN <<>> ELSE sockets
       /\ entry' = [e \in {d \in DOMAIN entry : n < Len(sockets) \/ Held(d) # {}} |->
                      IF e \in Closing THEN [entry[e] EXCEPT !.closed = TRUE] ELSE entry[e]]
       /\ openFiles' = openFiles \ Closed0
  /\ UNCHANGED user

Next ==
  \/ Cleanup \/ ClosePool
  \/ \E u \in Users : TakeAvailable(u) \/ Create(u) \/ Recycle(u) \/ Release(u)
  \/ \E e \in Entries : Grow(e)

Spec == Init /\ [][Next]_vars

-----------------------------------------------------------------------------
(* Properties.                                                               *)

\* No two goroutines share a socket, the counter says whether one uses it, and
\* an entry in use is not given a new connection: an old release, or a recycle,
\* never takes away a socket that was handed out meanwhile.
SocketExclusive ==
  \A e \in DOMAIN entry :
    /\ Cardinality(Held(e)) <= 1
    /\ entry[e].inUse = Cardinality(Held(e))
    /\ \A u \in Held(e) : entry[e].conn = user[u].conn

\* Every open connection belongs to one live entry of the pool: however
\* goroutines, cleaner and close interleave, no more than maxSockets are open
\* and none is lost.
SocketsAccounted ==
  LET Live == {e \in Listed : ~entry[e].closed} IN
  /\ openFiles = {entry[e].conn : e \in Live}
  /\ Cardinality(Live) = Cardinality(openFiles)
  /\ Cardinality(openFiles) <= MaxSockets
=============================================================================
