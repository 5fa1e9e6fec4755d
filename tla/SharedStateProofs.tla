------------------------- MODULE SharedStateProofs --------------------------
(* Theorems about SharedState: what each component promises holds of it, for *)
(* every value of its constants that its assumption allows.                  *)
EXTENDS SharedState, Integers, Sublists, FiniteSetTheorems, SequenceTheorems, TLAPS

-----------------------------------------------------------------------------
(* Lists.                                                                    *)

\* Each element of t is one of s at a place of its own, these places are K.
Keeps(t, s, K) ==
  \E at \in [DOMAIN t -> K] :
    /\ \A i, j \in DOMAIN t : at[i] = at[j] => i = j
    /\ \A k \in K : \E i \in DOMAIN t : at[i] = k
    /\ \A i \in DOMAIN t : t[i] = s[at[i]]

LEMMA SublistFacts ==
  ASSUME NEW R, NEW s \in Seq(R), NEW K \in SUBSET DOMAIN s, NEW t \in Sublists(s, K)
  PROVE  t \in Seq(R) /\ Len(t) <= Len(s) /\ Keeps(t, s, K)
<1>1. PICK n \in 0..Len(s) : \E a \in [1..n -> K] :
        /\ \A i, j \in 1..n : i < j => a[i] < a[j]
        /\ \A k \in K : \E i \in 1..n : a[i] = k
        /\ t = [i \in 1..n |-> s[a[i]]]
  <2>1. PICK n \in 0..Len(s) :
          t \in {[i \in 1..n |-> s[at[i]]] :
                   at \in {a \in [1..n -> K] : /\ \A i, j \in 1..n : i < j => a[i] < a[j]
                                               /\ \A k \in K : \E i \in 1..n : a[i] = k}}
    BY DEF Sublists
  <2> QED
    BY <2>1
<1>2. PICK at \in [1..n -> K] :
        /\ \A i, j \in 1..n : i < j => at[i] < at[j]
        /\ \A k \in K : \E i \in 1..n : at[i] = k
        /\ t = [i \in 1..n |-> s[at[i]]]
  BY <1>1
<1>3. n \in Nat /\ n <= Len(s) /\ \A i \in 1..n : at[i] \in DOMAIN s /\ at[i] \in Nat /\ s[at[i]] \in R
  BY <1>2
<1>4. t \in Seq(R) /\ Len(t) = n /\ DOMAIN t = 1..n
  BY <1>2, <1>3
<1>5. \A i, j \in 1..n : at[i] = at[j] => i = j
  BY <1>2, <1>3
<1> QED
  BY <1>2, <1>3, <1>4, <1>5 DEF Keeps

LEMMA SameSublists ==
  ASSUME NEW s, NEW K
  PROVE  Pool!Sublists(s, K) = Sublists(s, K) /\ Memory!Sublists(s, K) = Sublists(s, K)
BY DEF Pool!Sublists, Memory!Sublists, Sublists

\* The modules of the components have a Cardinality of their own.
LEMMA SameCardinality ==
  ASSUME NEW S
  PROVE  /\ Pool!Cardinality(S) = Cardinality(S)
         /\ Processor!Cardinality(S) = Cardinality(S)
         /\ Memory!Cardinality(S) = Cardinality(S)
<1>1. Pool!Cardinality(S) = Cardinality(S)
  BY DEF Pool!Cardinality, Cardinality
<1>2. Processor!Cardinality(S) = Cardinality(S)
  BY DEF Processor!Cardinality, Cardinality
<1>3. Memory!Cardinality(S) = Cardinality(S)
  BY DEF Memory!Cardinality, Cardinality
<1> QED
  BY <1>1, <1>2, <1>3

-----------------------------------------------------------------------------
(* The pool of ICMP sockets.                                                *)

PoolEntries == [conn : Files, old : BOOLEAN, idle : BOOLEAN, inUse : {0, 1}, closed : BOOLEAN]

PoolTyped ==
  /\ sockets \in Seq(Entries) /\ Len(sockets) <= MaxSockets
  /\ DOMAIN entry \subseteq Entries /\ entry \in [DOMAIN entry -> PoolEntries]
  /\ user \in [Users -> {Pool!Nothing} \cup [entry : Entries, conn : Files]]

\* The slice of the pool lists an entry once.
ListedOnce ==
  /\ Pool!Listed \subseteq DOMAIN entry
  /\ \A i, j \in DOMAIN sockets : sockets[i] = sockets[j] => i = j

\* A goroutine that holds an entry is the one its counter counts, and has the
\* connection the entry still has.
HeldByOne ==
  /\ \A u \in Users : user[u] # Pool!Nothing =>
       /\ user[u].entry \in DOMAIN entry
       /\ entry[user[u].entry].inUse = 1 /\ entry[user[u].entry].conn = user[u].conn
  /\ \A u, v \in Users : user[u] # Pool!Nothing /\ user[u].entry = user[v].entry => u = v
  /\ \A e \in DOMAIN entry : entry[e].inUse = 1 => Pool!Held(e) # {}

Live == {e \in Pool!Listed : ~entry[e].closed}

\* What is open is what the live entries have, each its own.
LiveOpen ==
  /\ openFiles = {entry[e].conn : e \in Live}
  /\ \A d, e \in Live : entry[d].conn = entry[e].conn => d = e

PoolInv == PoolTyped /\ ListedOnce /\ HeldByOne /\ LiveOpen

\* What PoolInv says of a goroutine that holds an entry.
LEMMA HolderFacts ==
  ASSUME PoolInv, NEW u \in Users, user[u] # Pool!Nothing
  PROVE  /\ user[u] \in [entry : Entries, conn : Files]
         /\ user[u].entry \in DOMAIN entry
         /\ entry[user[u].entry] \in PoolEntries
         /\ entry[user[u].entry].inUse = 1 /\ entry[user[u].entry].conn = user[u].conn
BY DEF PoolInv, PoolTyped, HeldByOne

\* A listed entry is a known record.
LEMMA ListedFacts ==
  ASSUME PoolInv, NEW i \in DOMAIN sockets
  PROVE  /\ sockets[i] \in Pool!Listed /\ sockets[i] \in DOMAIN entry /\ sockets[i] \in Entries
         /\ entry[sockets[i]] \in PoolEntries
BY DEF PoolInv, PoolTyped, ListedOnce, Pool!Listed

\* Nobody holds an entry whose counter is zero, or that is not there.
LEMMA NotHeld ==
  ASSUME PoolConstants, PoolInv, NEW e \in Entries, e \in DOMAIN entry => entry[e].inUse = 0
  PROVE  Pool!Held(e) = {}
BY DEF PoolConstants, PoolInv, PoolTyped, HeldByOne, Pool!Held, Pool!Nothing

\* An entry that nobody holds is given to a goroutine.
LEMMA GivenToOne ==
  ASSUME PoolConstants, PoolInv,
         NEW u \in Users, user[u] = Pool!Nothing, NEW e \in Entries, NEW f \in Files, Pool!Held(e) = {},
         Pool!Give(u, e, f), DOMAIN entry' = DOMAIN entry \cup {e},
         entry'[e].inUse = 1, entry'[e].conn = f,
         \A d \in DOMAIN entry : d # e => entry'[d] = entry[d]
  PROVE  HeldByOne'
<1>1. user'[u] = [entry |-> e, conn |-> f] /\ \A v \in Users : v # u => user'[v] = user[v]
  BY DEF Pool!Give, PoolInv, PoolTyped
<1>2. (\A v \in Users : user[v].entry # e) /\ user[u].entry = 0 /\ e # 0
  BY DEF Pool!Held, Pool!Nothing, PoolConstants
<1>3. ASSUME NEW v \in Users, user'[v] # Pool!Nothing
      PROVE  /\ user'[v].entry \in DOMAIN entry'
             /\ entry'[user'[v].entry].inUse = 1 /\ entry'[user'[v].entry].conn = user'[v].conn
  <2>1. CASE v = u
    BY <2>1, <1>1
  <2>2. CASE v # u
    BY <2>2, <1>1, <1>2, <1>3, HolderFacts
  <2> QED
    BY <2>1, <2>2
<1>4. ASSUME NEW v \in Users, NEW w \in Users, user'[v] # Pool!Nothing, user'[v].entry = user'[w].entry PROVE v = w
  <2>1. CASE v = u \/ w = u
    BY <2>1, <1>1, <1>2, <1>4
  <2>2. CASE v # u /\ w # u
    BY <2>2, <1>1, <1>4 DEF PoolInv, HeldByOne
  <2> QED
    BY <2>1, <2>2
<1>5. ASSUME NEW d \in DOMAIN entry', entry'[d].inUse = 1 PROVE \E v \in Users : user'[v].entry = d
  <2>1. CASE d = e
    BY <2>1, <1>1
  <2>2. CASE d # e
    <3>1. PICK v \in Users : user[v].entry = d
      BY <2>2, <1>5 DEF PoolInv, HeldByOne, Pool!Held
    <3>2. v # u
      BY <3>1, <2>2, <1>2, <1>5 DEF PoolConstants, PoolInv, PoolTyped
    <3> QED
      BY <1>1, <3>1, <3>2
  <2> QED
    BY <2>1, <2>2
<1> QED
  BY <1>3, <1>4, <1>5 DEF HeldByOne, Pool!Held

\* The connections and the closed marks of the entries stay.
LEMMA LiveOpenStays ==
  ASSUME PoolInv, UNCHANGED <<sockets, openFiles>>,
         \A e \in Pool!Listed : entry'[e].conn = entry[e].conn /\ entry'[e].closed = entry[e].closed
  PROVE  LiveOpen'
<1>1. Live' = Live /\ Live \subseteq Pool!Listed
  BY DEF Live, Pool!Listed
<1>2. {entry'[d].conn : d \in Live} = {entry[d].conn : d \in Live}
  BY <1>1
<1> QED
  BY <1>1, <1>2 DEF PoolInv, LiveOpen

LEMMA TakeAvailableKeeps ==
  ASSUME PoolConstants, PoolInv, NEW u \in Users, Pool!TakeAvailable(u)
  PROVE  PoolInv'
<1>1. PICK i \in DOMAIN sockets :
        /\ Pool!Available(sockets[i])
        /\ entry' = [entry EXCEPT ![sockets[i]].inUse = @ + 1]
        /\ user' = [user EXCEPT ![u] = [entry |-> sockets[i], conn |-> entry[sockets[i]].conn]]
        /\ sockets' = sockets /\ openFiles' = openFiles /\ user[u] = Pool!Nothing
  BY DEF Pool!TakeAvailable, Pool!IsFirst, Pool!Give
<1> DEFINE e == sockets[i]
<1>2. /\ e \in Pool!Listed /\ e \in DOMAIN entry /\ e \in Entries /\ entry[e] \in PoolEntries
      /\ ~entry[e].closed /\ entry[e].inUse = 0
  BY <1>1, ListedFacts DEF Pool!Available
<1>3. Pool!Held(e) = {}
  BY <1>2, NotHeld
<1> HIDE DEF e
<1>4. /\ DOMAIN entry' = DOMAIN entry
      /\ entry'[e] = [entry[e] EXCEPT !.inUse = 1]
      /\ \A d \in DOMAIN entry : d # e => entry'[d] = entry[d]
  BY <1>1, <1>2 DEF PoolEntries, e
<1>5. /\ \A d \in DOMAIN entry : entry'[d].conn = entry[d].conn /\ entry'[d].closed = entry[d].closed
      /\ entry'[e].inUse = 1
      /\ \A d \in DOMAIN entry : entry'[d] \in PoolEntries
  BY <1>2, <1>4 DEF PoolEntries, PoolInv, PoolTyped
<1>6. PoolTyped'
  BY <1>1, <1>2, <1>4, <1>5 DEF PoolInv, PoolTyped, PoolEntries, e
<1>7. ListedOnce'
  BY <1>1, <1>4 DEF PoolInv, ListedOnce, Pool!Listed
<1>8. HeldByOne'
  <2>1. Pool!Give(u, e, entry[e].conn) /\ entry[e].conn \in Files
    BY <1>1, <1>2 DEF Pool!Give, PoolEntries, e
  <2>2. DOMAIN entry' = DOMAIN entry \cup {e}
    BY <1>2, <1>4
  <2> QED
    BY <1>1, <1>2, <1>3, <1>4, <1>5, <2>1, <2>2, GivenToOne
<1>9. LiveOpen'
  BY <1>1, <1>5, LiveOpenStays DEF PoolInv, ListedOnce
<1> QED
  BY <1>6, <1>7, <1>8, <1>9 DEF PoolInv

LEMMA CreateKeeps ==
  ASSUME PoolConstants, PoolInv, NEW u \in Users, Pool!Create(u)
  PROVE  PoolInv'
<1>1. PICK e \in Entries \ DOMAIN entry, f \in Files \ openFiles :
        /\ sockets' = Append(sockets, e)
        /\ entry' = [d \in DOMAIN entry \cup {e} |-> IF d = e THEN Pool!New(f) ELSE entry[d]]
        /\ openFiles' = openFiles \cup {f} /\ Pool!Give(u, e, f)
        /\ user[u] = Pool!Nothing /\ Len(sockets) < MaxSockets
  BY DEF Pool!Create, Pool!SpareEntries, Pool!SpareFiles, Pool!First
<1>2. /\ DOMAIN entry' = DOMAIN entry \cup {e} /\ entry'[e] = Pool!New(f)
      /\ \A d \in DOMAIN entry : d # e /\ entry'[d] = entry[d]
  BY <1>1
<1>3. Pool!New(f) \in PoolEntries /\ Pool!New(f).inUse = 1 /\ Pool!New(f).conn = f /\ ~Pool!New(f).closed
  BY <1>1 DEF Pool!New, PoolEntries
<1>4. /\ sockets' \in Seq(Entries) /\ Len(sockets') = Len(sockets) + 1
      /\ DOMAIN sockets' = DOMAIN sockets \cup {Len(sockets')} /\ Len(sockets') \notin DOMAIN sockets
      /\ sockets'[Len(sockets')] = e /\ \A i \in DOMAIN sockets : sockets'[i] = sockets[i]
  BY <1>1 DEF PoolInv, PoolTyped
<1>5. PoolTyped'
  <2>1. DOMAIN entry' \subseteq Entries /\ entry' \in [DOMAIN entry' -> PoolEntries]
    BY <1>1, <1>2, <1>3 DEF PoolInv, PoolTyped
  <2>2. user' \in [Users -> {Pool!Nothing} \cup [entry : Entries, conn : Files]]
    BY <1>1 DEF Pool!Give, PoolInv, PoolTyped
  <2>3. Len(sockets') <= MaxSockets
    BY <1>1, <1>4 DEF PoolConstants, PoolInv, PoolTyped
  <2> QED
    BY <1>4, <2>1, <2>2, <2>3 DEF PoolTyped
<1>6. Pool!Listed' = Pool!Listed \cup {e}
  BY <1>4 DEF Pool!Listed
<1>7. ListedOnce'
  <2>1. \A i \in DOMAIN sockets : sockets[i] # e
    BY <1>1, ListedFacts
  <2>2. \A i, j \in DOMAIN sockets' : sockets'[i] = sockets'[j] => i = j
    BY <1>4, <2>1 DEF PoolInv, ListedOnce
  <2> QED
    BY <1>2, <1>6, <2>2 DEF PoolInv, ListedOnce
<1>8. HeldByOne'
  <2>1. Pool!Held(e) = {}
    BY <1>1, NotHeld
  <2> QED
    BY <1>1, <1>2, <1>3, <2>1, GivenToOne
<1>9. LiveOpen'
  <2>1. Live' = Live \cup {e} /\ Live \subseteq DOMAIN entry
    BY <1>2, <1>3, <1>6 DEF Live, PoolInv, ListedOnce
  <2>2. \A d \in Live : entry'[d].conn = entry[d].conn /\ entry[d].conn # f
    BY <1>1, <1>2, <2>1 DEF PoolInv, LiveOpen
  <2>3. openFiles' = {entry'[d].conn : d \in Live'}
    <3>1. {entry'[d].conn : d \in Live} = openFiles
      BY <2>2 DEF PoolInv, LiveOpen
    <3>2. {entry'[d].conn : d \in Live'} = {entry'[d].conn : d \in Live} \cup {f}
      BY <1>2, <1>3, <2>1
    <3> QED
      BY <1>1, <3>1, <3>2
  <2>4. \A c, d \in Live' : entry'[c].conn = entry'[d].conn => c = d
    BY <1>2, <1>3, <2>1, <2>2 DEF PoolInv, LiveOpen
  <2> QED
    BY <2>3, <2>4 DEF LiveOpen
<1> QED
  BY <1>5, <1>7, <1>8, <1>9 DEF PoolInv

\* An entry of the pool is closed, and its connection is: its holder, if it has
\* one, keeps what it holds.
LEMMA ClosedOne ==
  ASSUME PoolConstants, PoolInv, NEW e \in Pool!Listed, ~entry[e].closed,
         entry' = [entry EXCEPT ![e].closed = TRUE],
         openFiles' = openFiles \ {entry[e].conn}, UNCHANGED <<sockets, user>>
  PROVE  PoolInv'
<1>1. e \in DOMAIN entry /\ entry[e] \in PoolEntries
  BY DEF PoolInv, PoolTyped, ListedOnce
<1>2. /\ DOMAIN entry' = DOMAIN entry /\ entry'[e] = [entry[e] EXCEPT !.closed = TRUE]
      /\ \A d \in DOMAIN entry : d # e => entry'[d] = entry[d]
  BY <1>1
<1>3. \A d \in DOMAIN entry :
        /\ entry'[d] \in PoolEntries /\ entry'[d].inUse = entry[d].inUse /\ entry'[d].conn = entry[d].conn
        /\ entry'[d].closed = (d = e \/ entry[d].closed)
  BY <1>1, <1>2 DEF PoolEntries, PoolInv, PoolTyped
<1>4. PoolTyped'
  BY <1>2, <1>3 DEF PoolInv, PoolTyped
<1>5. ListedOnce'
  BY <1>2 DEF PoolInv, ListedOnce, Pool!Listed
<1>6. HeldByOne'
  BY <1>2, <1>3 DEF PoolInv, HeldByOne, Pool!Held
<1>7. LiveOpen'
  <2>1. Live' = Live \ {e} /\ Live \subseteq DOMAIN entry /\ e \in Live
    BY <1>2, <1>3 DEF Live, Pool!Listed, PoolInv, ListedOnce
  <2> QED
    BY <1>3, <2>1 DEF PoolInv, LiveOpen
<1> QED
  BY <1>4, <1>5, <1>6, <1>7 DEF PoolInv

LEMMA RecycleKeeps ==
  ASSUME PoolConstants, PoolInv, NEW u \in Users, Pool!Recycle(u)
  PROVE  PoolInv'
<1>1. PICK i \in DOMAIN sockets :
        /\ Pool!Recyclable(sockets[i]) /\ user[u] = Pool!Nothing /\ sockets' = sockets
        /\ \/ \E f \in Pool!SpareFiles :
                /\ entry' = [entry EXCEPT ![sockets[i]] = Pool!New(f)]
                /\ openFiles' = (openFiles \ {entry[sockets[i]].conn}) \cup {f}
                /\ Pool!Give(u, sockets[i], f)
           \/ /\ entry' = [entry EXCEPT ![sockets[i]].closed = TRUE]
              /\ openFiles' = openFiles \ {entry[sockets[i]].conn}
              /\ UNCHANGED user
  BY DEF Pool!Recycle, Pool!IsFirst
<1> DEFINE e == sockets[i]
<1>2. /\ e \in Pool!Listed /\ e \in DOMAIN entry /\ e \in Entries /\ entry[e] \in PoolEntries
      /\ ~entry[e].closed /\ entry[e].inUse = 0
  BY <1>1, ListedFacts DEF Pool!Recyclable
<1>3. Pool!Held(e) = {}
  BY <1>2, NotHeld
<1>4. ASSUME NEW f \in Pool!SpareFiles, entry' = [entry EXCEPT ![e] = Pool!New(f)],
             openFiles' = (openFiles \ {entry[e].conn}) \cup {f}, Pool!Give(u, e, f)
      PROVE  PoolInv'
  <2> HIDE DEF e
  <2>1. f \in Files /\ f \notin openFiles
    BY DEF Pool!SpareFiles, Pool!First
  <2>2. Pool!New(f) \in PoolEntries /\ Pool!New(f).inUse = 1 /\ Pool!New(f).conn = f /\ ~Pool!New(f).closed
    BY <2>1 DEF Pool!New, PoolEntries
  <2>3. /\ DOMAIN entry' = DOMAIN entry /\ entry'[e] = Pool!New(f)
        /\ \A d \in DOMAIN entry : d # e => entry'[d] = entry[d]
    BY <1>2, <1>4
  <2>4. PoolTyped'
    <3>1. entry' \in [DOMAIN entry' -> PoolEntries]
      BY <1>4, <2>2, <2>3 DEF PoolInv, PoolTyped
    <3>2. user' \in [Users -> {Pool!Nothing} \cup [entry : Entries, conn : Files]]
      BY <1>2, <1>4, <2>1 DEF Pool!Give, PoolInv, PoolTyped
    <3> QED
      BY <1>1, <2>3, <3>1, <3>2 DEF PoolInv, PoolTyped
  <2>5. ListedOnce'
    BY <1>1, <2>3 DEF PoolInv, ListedOnce, Pool!Listed
  <2>6. HeldByOne'
    <3>1. DOMAIN entry' = DOMAIN entry \cup {e}
      BY <1>2, <2>3
    <3> QED
      BY <1>1, <1>2, <1>3, <1>4, <2>1, <2>2, <2>3, <3>1, GivenToOne
  <2>7. LiveOpen'
    <3>1. Live' = Live /\ Live \subseteq DOMAIN entry /\ e \in Live
      BY <1>1, <1>2, <2>2, <2>3 DEF Live, Pool!Listed, PoolInv, ListedOnce
    <3>2. \A d \in Live : d # e => /\ entry'[d].conn = entry[d].conn /\ entry[d].conn # f
                                   /\ entry[d].conn # entry[e].conn
      BY <2>1, <2>3, <3>1 DEF PoolInv, LiveOpen
    <3>3. openFiles' = {entry'[d].conn : d \in Live'}
      BY <1>4, <2>2, <2>3, <3>1, <3>2 DEF PoolInv, LiveOpen
    <3>4. \A c, d \in Live' : entry'[c].conn = entry'[d].conn => c = d
      BY <2>2, <2>3, <3>1, <3>2 DEF PoolInv, LiveOpen
    <3> QED
      BY <3>3, <3>4 DEF LiveOpen
  <2> QED
    BY <2>4, <2>5, <2>6, <2>7 DEF PoolInv
<1> QED
  BY <1>1, <1>2, <1>4, ClosedOne

LEMMA ReleaseKeeps ==
  ASSUME PoolConstants, PoolInv, NEW u \in Users, Pool!Release(u)
  PROVE  PoolInv'
<1> DEFINE e == user[u].entry
<1>1. /\ user[u] # Pool!Nothing /\ user' = [user EXCEPT ![u] = Pool!Nothing]
      /\ sockets' = sockets /\ openFiles' = openFiles
      /\ entry' = IF e \in Pool!Listed THEN [entry EXCEPT ![e].inUse = @ - 1, ![e].idle = FALSE]
                  ELSE Pool!Restrict(entry, DOMAIN entry \ {e})
  BY DEF Pool!Release
<1>2. e \in DOMAIN entry /\ entry[e] \in PoolEntries /\ entry[e].inUse = 1
  BY <1>1, HolderFacts
<1>3. \A v \in Users : v # u => user[v].entry # e
  BY <1>1 DEF PoolInv, HeldByOne
<1>4. user'[u] = Pool!Nothing /\ \A v \in Users : v # u => user'[v] = user[v]
  BY <1>1 DEF PoolInv, PoolTyped
<1> HIDE DEF e
<1> DEFINE r == [entry[e] EXCEPT !.inUse = 0, !.idle = FALSE]
<1>5. /\ r \in PoolEntries /\ r.inUse = 0
      /\ r.conn = entry[e].conn /\ r.closed = entry[e].closed
  BY <1>2 DEF PoolEntries
<1> HIDE DEF r
<1>6. /\ DOMAIN entry' \subseteq DOMAIN entry
      /\ \A d \in DOMAIN entry : d # e => d \in DOMAIN entry' /\ entry'[d] = entry[d]
      /\ e \in Pool!Listed => e \in DOMAIN entry' /\ entry'[e] = r
      /\ e \notin Pool!Listed => e \notin DOMAIN entry'
      /\ entry' = [d \in DOMAIN entry' |-> entry'[d]]
  <2>1. CASE e \in Pool!Listed
    <3>1. entry[e].inUse - 1 = 0
      BY <1>2
    <3>2. entry' = [entry EXCEPT ![e].inUse = 0, ![e].idle = FALSE]
      BY <2>1, <3>1, <1>1
    <3>3. entry' = [entry EXCEPT ![e] = r]
      BY <3>2, <1>2 DEF r
    <3> QED
      BY <2>1, <3>3, <1>2
  <2>2. CASE e \notin Pool!Listed
    BY <2>2, <1>1, <1>2 DEF Pool!Restrict
  <2> QED
    BY <2>1, <2>2
<1>7. \A d \in DOMAIN entry' :
        /\ entry'[d] \in PoolEntries
        /\ entry'[d].conn = entry[d].conn /\ entry'[d].closed = entry[d].closed
  BY <1>5, <1>6 DEF PoolInv, PoolTyped
<1>8. PoolTyped'
  <2>1. DOMAIN entry' \subseteq Entries /\ entry' \in [DOMAIN entry' -> PoolEntries]
    BY <1>6, <1>7 DEF PoolInv, PoolTyped
  <2>2. user' \in [Users -> {Pool!Nothing} \cup [entry : Entries, conn : Files]]
    BY <1>1 DEF PoolInv, PoolTyped
  <2> QED
    BY <1>1, <2>1, <2>2 DEF PoolInv, PoolTyped
<1>9. ListedOnce'
  <2>1. Pool!Listed \subseteq DOMAIN entry'
    BY <1>6 DEF PoolInv, ListedOnce
  <2> QED
    BY <1>1, <2>1 DEF PoolInv, ListedOnce, Pool!Listed
<1>10. HeldByOne'
  <2>1. ASSUME NEW v \in Users, user'[v] # Pool!Nothing
        PROVE  /\ user'[v].entry \in DOMAIN entry'
               /\ entry'[user'[v].entry].inUse = 1 /\ entry'[user'[v].entry].conn = user'[v].conn
    BY <2>1, <1>3, <1>4, <1>6, HolderFacts
  <2>2. ASSUME NEW v \in Users, NEW w \in Users, user'[v] # Pool!Nothing, user'[v].entry = user'[w].entry PROVE v = w
    <3>1. v # u /\ user[v].entry \in Entries
      BY <2>2, <1>4, HolderFacts
    <3>2. w # u
      BY <2>2, <3>1, <1>4 DEF Pool!Nothing, PoolConstants
    <3> QED
      BY <2>2, <3>1, <3>2, <1>4 DEF PoolInv, HeldByOne
  <2>3. ASSUME NEW d \in DOMAIN entry', entry'[d].inUse = 1 PROVE \E v \in Users : user'[v].entry = d
    <3>1. d # e
      BY <2>3, <1>5, <1>6
    <3>2. PICK v \in Users : user[v].entry = d
      BY <2>3, <3>1, <1>6 DEF PoolInv, HeldByOne, Pool!Held
    <3> QED
      BY <3>1, <3>2, <1>4 DEF e
  <2> QED
    BY <2>1, <2>2, <2>3 DEF HeldByOne, Pool!Held
<1>11. LiveOpen'
  <2>1. Pool!Listed \subseteq DOMAIN entry'
    BY <1>6 DEF PoolInv, ListedOnce
  <2> QED
    BY <1>1, <1>7, <2>1, LiveOpenStays
<1> QED
  BY <1>8, <1>9, <1>10, <1>11 DEF PoolInv

LEMMA GrowKeeps ==
  ASSUME PoolInv, NEW e \in Entries, Pool!Grow(e)
  PROVE  PoolInv'
<1>1. /\ e \in Pool!Listed /\ UNCHANGED <<sockets, openFiles, user>>
      /\ entry' = [entry EXCEPT ![e].old = TRUE] \/ entry' = [entry EXCEPT ![e].idle = TRUE]
  BY DEF Pool!Grow
<1>2. e \in DOMAIN entry /\ entry[e] \in PoolEntries
  BY <1>1 DEF PoolInv, PoolTyped, ListedOnce
<1>3. PICK r \in PoolEntries :
        /\ entry' = [entry EXCEPT ![e] = r]
        /\ r.inUse = entry[e].inUse /\ r.conn = entry[e].conn /\ r.closed = entry[e].closed
  <2>1. CASE entry' = [entry EXCEPT ![e].old = TRUE]
    <3> DEFINE r == [entry[e] EXCEPT !.old = TRUE]
    <3>1. r \in PoolEntries /\ r.inUse = entry[e].inUse /\ r.conn = entry[e].conn /\ r.closed = entry[e].closed
      BY <1>2 DEF PoolEntries
    <3> QED
      BY <2>1, <3>1
  <2>2. CASE entry' = [entry EXCEPT ![e].idle = TRUE]
    <3> DEFINE r == [entry[e] EXCEPT !.idle = TRUE]
    <3>1. r \in PoolEntries /\ r.inUse = entry[e].inUse /\ r.conn = entry[e].conn /\ r.closed = entry[e].closed
      BY <1>2 DEF PoolEntries
    <3> QED
      BY <2>2, <3>1
  <2> QED
    BY <1>1, <2>1, <2>2
<1>4. DOMAIN entry' = DOMAIN entry /\ \A d \in DOMAIN entry :
        /\ entry'[d] \in PoolEntries /\ entry'[d].inUse = entry[d].inUse /\ entry'[d].conn = entry[d].conn
        /\ entry'[d].closed = entry[d].closed
  BY <1>2, <1>3 DEF PoolInv, PoolTyped
<1>5. entry' \in [DOMAIN entry' -> PoolEntries]
  BY <1>3, <1>4
<1>6. LiveOpen'
  BY <1>1, <1>4, LiveOpenStays DEF PoolInv, ListedOnce
<1>7. HeldByOne'
  BY <1>1, <1>4 DEF PoolInv, HeldByOne, Pool!Held
<1> QED
  BY <1>1, <1>4, <1>5, <1>6, <1>7 DEF PoolInv, PoolTyped, ListedOnce, Pool!Listed

\* Entries of the pool are closed with their connections, and some of the
\* entries that are closed then are dropped from the slice; a record that is
\* neither listed nor held is gone.
LEMMA ClosingKeeps ==
  ASSUME PoolConstants, PoolInv, UNCHANGED user,
         NEW C \in SUBSET Pool!Listed,
         openFiles' = openFiles \ {entry[e].conn : e \in {d \in C : ~entry[d].closed}},
         DOMAIN entry' \subseteq DOMAIN entry,
         \A d \in DOMAIN entry : Pool!Held(d) # {} => d \in DOMAIN entry',
         entry' \in [DOMAIN entry' -> PoolEntries],
         \A d \in DOMAIN entry' :
           /\ entry'[d].inUse = entry[d].inUse /\ entry'[d].conn = entry[d].conn
           /\ d \in Pool!Listed => entry'[d].closed = (entry[d].closed \/ d \in C),
         sockets' \in Seq(Entries), Len(sockets') <= Len(sockets),
         \A i, j \in DOMAIN sockets' : sockets'[i] = sockets'[j] => i = j,
         Pool!Listed' \subseteq Pool!Listed, Pool!Listed' \subseteq DOMAIN entry',
         \A d \in Pool!Listed : ~entry[d].closed /\ d \notin C => d \in Pool!Listed'
  PROVE  PoolInv'
<1>1. PoolTyped'
  BY DEF PoolInv, PoolTyped, PoolConstants
<1>2. ListedOnce'
  BY DEF ListedOnce
<1>3. HeldByOne'
  <2>1. ASSUME NEW u \in Users, user[u] # Pool!Nothing
        PROVE  /\ user[u].entry \in DOMAIN entry'
               /\ entry'[user[u].entry].inUse = 1 /\ entry'[user[u].entry].conn = user[u].conn
    <3>1. user[u].entry \in DOMAIN entry /\ u \in Pool!Held(user[u].entry)
      BY <2>1, HolderFacts DEF Pool!Held
    <3> QED
      BY <2>1, <3>1, HolderFacts
  <2> QED
    BY <2>1 DEF PoolInv, HeldByOne, Pool!Held
<1>4. LiveOpen'
  <2>1. Live' = Live \ C /\ Live \subseteq DOMAIN entry
    BY DEF Live, PoolInv, ListedOnce
  <2>2. \A d \in Live' : entry'[d].conn = entry[d].conn
    BY DEF Live
  <2>3. {entry'[d].conn : d \in Live'} = {entry[d].conn : d \in Live \ C}
    BY <2>1, <2>2
  <2>4. {d \in C : ~entry[d].closed} = Live \cap C
    BY DEF Live
  <2>5. \A c, d \in Live : entry[c].conn = entry[d].conn => c = d
    BY DEF PoolInv, LiveOpen
  <2>6. {entry[d].conn : d \in Live} \ {entry[d].conn : d \in Live \cap C} = {entry[d].conn : d \in Live \ C}
    BY <2>5
  <2>7. openFiles' = {entry'[d].conn : d \in Live'}
    BY <2>3, <2>4, <2>6 DEF PoolInv, LiveOpen
  <2> QED
    BY <2>1, <2>2, <2>5, <2>7 DEF LiveOpen
<1> QED
  BY <1>1, <1>2, <1>3, <1>4 DEF PoolInv

LEMMA CleanupKeeps ==
  ASSUME PoolConstants, PoolInv, Pool!Cleanup
  PROVE  PoolInv'
<1> DEFINE C == {d \in Pool!Listed : Pool!TooOld(d)}
           K == {i \in DOMAIN sockets : Pool!Stays(sockets[i])}
<1>1. /\ entry' = [e \in {d \in DOMAIN entry : Pool!Held(d) # {} \/ Pool!Stays(d)} |->
                     IF Pool!TooOld(e) THEN [entry[e] EXCEPT !.closed = TRUE] ELSE entry[e]]
      /\ openFiles' = openFiles \ {entry[e].conn : e \in C}
      /\ sockets' \in Pool!Sublists(sockets, K) /\ user' = user
  BY DEF Pool!Cleanup
<1>2. {d \in C : ~entry[d].closed} = C
  BY DEF Pool!TooOld
<1>3. /\ DOMAIN entry' = {d \in DOMAIN entry : Pool!Held(d) # {} \/ Pool!Stays(d)}
      /\ \A d \in DOMAIN entry' :
           /\ entry'[d] \in PoolEntries
           /\ entry'[d].inUse = entry[d].inUse /\ entry'[d].conn = entry[d].conn
           /\ entry'[d].closed = (entry[d].closed \/ Pool!TooOld(d))
  <2>1. \A d \in DOMAIN entry : entry[d] \in PoolEntries
    BY DEF PoolInv, PoolTyped
  <2> QED
    BY <1>1, <2>1 DEF PoolEntries
<1>4. entry' \in [DOMAIN entry' -> PoolEntries]
  BY <1>1, <1>3
<1>5. PICK at \in [DOMAIN sockets' -> K] :
        /\ \A i, j \in DOMAIN sockets' : at[i] = at[j] => i = j
        /\ \A k \in K : \E i \in DOMAIN sockets' : at[i] = k
        /\ \A i \in DOMAIN sockets' : sockets'[i] = sockets[at[i]]
        /\ sockets' \in Seq(Entries) /\ Len(sockets') <= Len(sockets)
  <2>1. K \in SUBSET DOMAIN sockets /\ sockets \in Seq(Entries)
    BY DEF PoolInv, PoolTyped
  <2> HIDE DEF K
  <2>2. sockets' \in Sublists(sockets, K)
    BY <1>1, SameSublists
  <2>3. sockets' \in Seq(Entries) /\ Len(sockets') <= Len(sockets) /\ Keeps(sockets', sockets, K)
    BY <2>1, <2>2, SublistFacts
  <2> QED
    BY <2>3 DEF Keeps
<1>6. Pool!Listed' = {d \in Pool!Listed : Pool!Stays(d)}
  BY <1>5 DEF Pool!Listed
<1>7. \A i, j \in DOMAIN sockets' : sockets'[i] = sockets'[j] => i = j
  BY <1>5 DEF PoolInv, ListedOnce
<1>8. /\ Pool!Listed' \subseteq Pool!Listed /\ Pool!Listed' \subseteq DOMAIN entry'
      /\ \A d \in Pool!Listed : ~entry[d].closed /\ d \notin C => d \in Pool!Listed'
  BY <1>3, <1>6 DEF Pool!Stays, PoolInv, ListedOnce
<1>9. \A d \in DOMAIN entry' : d \in Pool!Listed => entry'[d].closed = (entry[d].closed \/ d \in C)
  BY <1>3
<1>10. C \in SUBSET Pool!Listed
  OBVIOUS
<1> HIDE DEF C, K
<1> QED
  BY <1>1, <1>2, <1>3, <1>4, <1>8, <1>9, <1>10, <1>5, <1>7, ClosingKeeps

LEMMA ClosePoolKeeps ==
  ASSUME PoolConstants, PoolInv, Pool!ClosePool
  PROVE  PoolInv'
<1>1. PICK n \in 0..Len(sockets) :
        /\ sockets' = IF n = Len(sockets) THEN <<>> ELSE sockets
        /\ entry' = [e \in {d \in DOMAIN entry : n < Len(sockets) \/ Pool!Held(d) # {}} |->
                       IF e \in {sockets[i] : i \in 1..n} THEN [entry[e] EXCEPT !.closed = TRUE] ELSE entry[e]]
        /\ openFiles' = openFiles \ {entry[e].conn : e \in {d \in {sockets[i] : i \in 1..n} : ~entry[d].closed}}
        /\ user' = user
  BY DEF Pool!ClosePool
<1> DEFINE C == {sockets[i] : i \in 1..n}
<1>2. sockets \in Seq(Entries)
  BY DEF PoolInv, PoolTyped
<1> DEFINE L == Len(sockets)
<1>3. L \in Nat /\ L = Len(sockets) /\ DOMAIN sockets = 1..L /\ n \in 0..L
  BY <1>2
<1> HIDE DEF L
<1>4. n \in Nat /\ (n = L \/ (n < L /\ n # L)) /\ 1..n \subseteq 1..L
  BY <1>3
<1>5. C \in SUBSET Pool!Listed
  BY <1>3, <1>4 DEF Pool!Listed
<1>6. /\ DOMAIN entry' = {d \in DOMAIN entry : n < Len(sockets) \/ Pool!Held(d) # {}}
      /\ \A d \in DOMAIN entry' :
           /\ entry'[d] \in PoolEntries
           /\ entry'[d].inUse = entry[d].inUse /\ entry'[d].conn = entry[d].conn
           /\ entry'[d].closed = (entry[d].closed \/ d \in C)
  <2>1. \A d \in DOMAIN entry : entry[d] \in PoolEntries
    BY DEF PoolInv, PoolTyped
  <2> HIDE DEF C
  <2>2. entry' = [e \in {d \in DOMAIN entry : n < Len(sockets) \/ Pool!Held(d) # {}} |->
                   IF e \in C THEN [entry[e] EXCEPT !.closed = TRUE] ELSE entry[e]]
    BY <1>1 DEF C
  <2> QED
    BY <2>1, <2>2 DEF PoolEntries
<1>7. entry' \in [DOMAIN entry' -> PoolEntries]
  BY <1>1, <1>6
<1>8. /\ openFiles' = openFiles \ {entry[e].conn : e \in {d \in C : ~entry[d].closed}}
      /\ UNCHANGED user
      /\ \A d \in DOMAIN entry' :
           /\ entry'[d].inUse = entry[d].inUse /\ entry'[d].conn = entry[d].conn
           /\ d \in Pool!Listed => entry'[d].closed = (entry[d].closed \/ d \in C)
  BY <1>1, <1>6
<1>9. CASE n = L
  <2>1. sockets' = <<>> /\ Pool!Listed' = {}
    BY <1>1, <1>3, <1>9 DEF Pool!Listed
  <2>2. /\ sockets' \in Seq(Entries) /\ Len(sockets') <= Len(sockets)
        /\ \A i, j \in DOMAIN sockets' : sockets'[i] = sockets'[j] => i = j
    BY <1>2, <2>1
  <2>3. \A d \in Pool!Listed : ~entry[d].closed /\ d \notin C => d \in Pool!Listed'
    BY <1>3, <1>9 DEF Pool!Listed
  <2>4. /\ DOMAIN entry' \subseteq DOMAIN entry
        /\ \A d \in DOMAIN entry : Pool!Held(d) # {} => d \in DOMAIN entry'
        /\ Pool!Listed' \subseteq Pool!Listed /\ Pool!Listed' \subseteq DOMAIN entry'
    BY <1>6, <2>1
  <2> HIDE DEF C
  <2> QED
    BY <1>5, <1>7, <1>8, <2>2, <2>3, <2>4, ClosingKeeps
<1>10. CASE n < L /\ n # L
  <2>1. sockets' = sockets /\ Pool!Listed' = Pool!Listed /\ DOMAIN entry' = DOMAIN entry
    <3>1. sockets' = sockets
      BY <1>1, <1>3, <1>10
    <3>2. DOMAIN entry' = DOMAIN entry
      BY <1>3, <1>6, <1>10
    <3> QED
      BY <3>1, <3>2 DEF Pool!Listed
  <2>2. \A i, j \in DOMAIN sockets' : sockets'[i] = sockets'[j] => i = j
    BY <2>1 DEF PoolInv, ListedOnce
  <2>3. /\ Pool!Listed' \subseteq Pool!Listed /\ Pool!Listed' \subseteq DOMAIN entry'
        /\ \A d \in Pool!Listed : ~entry[d].closed /\ d \notin C => d \in Pool!Listed'
        /\ DOMAIN entry' \subseteq DOMAIN entry
        /\ \A d \in DOMAIN entry : Pool!Held(d) # {} => d \in DOMAIN entry'
    BY <2>1 DEF PoolInv, ListedOnce
  <2>4. sockets' \in Seq(Entries) /\ Len(sockets') <= Len(sockets)
    BY <1>2, <2>1
  <2> HIDE DEF C
  <2> QED
    BY <1>5, <1>7, <1>8, <2>2, <2>3, <2>4, ClosingKeeps
<1> QED
  BY <1>9, <1>10, <1>4

LEMMA PoolStarts ==
  ASSUME PoolConstants, Pool!Init
  PROVE  PoolInv
BY DEF PoolConstants, Pool!Init, PoolInv, PoolTyped, ListedOnce, Pool!Listed, HeldByOne, LiveOpen, Live

LEMMA PoolKept ==
  ASSUME PoolConstants, PoolInv, [Pool!Next]_Pool!vars
  PROVE  PoolInv'
<1>1. CASE UNCHANGED Pool!vars
  BY <1>1 DEF Pool!vars, PoolInv, PoolTyped, ListedOnce, Pool!Listed, HeldByOne, Pool!Held, LiveOpen, Live
<1>2. CASE \E u \in Users : Pool!TakeAvailable(u) \/ Pool!Create(u) \/ Pool!Recycle(u) \/ Pool!Release(u)
  BY <1>2, TakeAvailableKeeps, CreateKeeps, RecycleKeeps, ReleaseKeeps
<1> QED
  BY <1>1, <1>2, CleanupKeeps, ClosePoolKeeps, GrowKeeps DEF Pool!Next

\* No two goroutines share an ICMP socket.
LEMMA PoolExclusive ==
  ASSUME PoolConstants, PoolInv
  PROVE  Pool!SocketExclusive
<1> SUFFICES ASSUME NEW e \in DOMAIN entry
             PROVE  /\ Cardinality(Pool!Held(e)) <= 1
                    /\ entry[e].inUse = Cardinality(Pool!Held(e))
                    /\ \A u \in Pool!Held(e) : entry[e].conn = user[u].conn
  BY SameCardinality DEF Pool!SocketExclusive
<1>1. e # 0 /\ entry[e].inUse \in {0, 1}
  BY DEF PoolConstants, PoolInv, PoolTyped, PoolEntries
<1>2. ASSUME NEW u \in Pool!Held(e)
      PROVE  user[u] # Pool!Nothing /\ entry[e].inUse = 1 /\ entry[e].conn = user[u].conn
  <2>1. u \in Users /\ user[u].entry = e
    BY DEF Pool!Held
  <2>2. user[u] # Pool!Nothing
    BY <1>1, <2>1 DEF Pool!Nothing
  <2> QED
    BY <2>1, <2>2, HolderFacts
<1>3. CASE Pool!Held(e) = {}
  BY <1>1, <1>3, FS_EmptySet DEF PoolInv, HeldByOne
<1>4. CASE Pool!Held(e) # {}
  <2>1. PICK u \in Pool!Held(e) : Pool!Held(e) = {u}
    BY <1>2, <1>4 DEF Pool!Held, PoolInv, HeldByOne
  <2>2. Cardinality({u}) = 1
    BY FS_Singleton
  <2> QED
    BY <1>2, <2>1, <2>2
<1> QED
  BY <1>3, <1>4

\* Each open socket is in the pool, and there are no more than MaxSockets.
LEMMA PoolAccounted ==
  ASSUME PoolConstants, PoolInv
  PROVE  Pool!SocketsAccounted
<1>1. Len(sockets) \in Nat /\ DOMAIN sockets = 1..Len(sockets) /\ Len(sockets) <= MaxSockets
  BY DEF PoolInv, PoolTyped
<1>2. IsFiniteSet(1..Len(sockets)) /\ Cardinality(1..Len(sockets)) = Len(sockets)
  <2>1. ASSUME NEW n \in Nat PROVE IsFiniteSet(1..n) /\ Cardinality(1..n) = n
    BY FS_Interval
  <2> QED
    BY <1>1, <2>1
<1>3. IsFiniteSet(Pool!Listed) /\ Cardinality(Pool!Listed) <= Len(sockets)
  <2> DEFINE g == [i \in 1..Len(sockets) |-> sockets[i]]
  <2>1. g \in Surjection(1..Len(sockets), Pool!Listed)
    BY <1>1 DEF Pool!Listed, Surjection
  <2> QED
    BY <1>2, <2>1, FS_Surjection
<1>4. IsFiniteSet(Live) /\ Cardinality(Live) <= Cardinality(Pool!Listed)
  BY <1>3, FS_Subset DEF Live
<1>5. Cardinality(openFiles) = Cardinality(Live) /\ IsFiniteSet(openFiles)
  <2> DEFINE f == [e \in Live |-> entry[e].conn]
  <2>1. f \in Bijection(Live, openFiles)
    BY DEF PoolInv, LiveOpen, Bijection, Injection, Surjection, IsInjective
  <2> QED
    BY <2>1, <1>4, FS_Bijection DEF ExistsBijection
<1>6. Cardinality(Live) \in Nat /\ Cardinality(Pool!Listed) \in Nat
  BY <1>3, <1>4, FS_CardinalityType
<1> QED
  BY <1>1, <1>3, <1>4, <1>5, <1>6, SameCardinality DEF Pool!SocketsAccounted, Live, PoolInv, LiveOpen, PoolConstants

-----------------------------------------------------------------------------
(* The sweep's processor.                                                    *)

HostResults == [available : BOOLEAN, icmp : {"none", "up", "down"}, ports : SUBSET Processor!Ports]

ProcessorTyped ==
  /\ IsFiniteSet(DOMAIN hostMap) /\ hostMap \in [DOMAIN hostMap -> HostResults]
  /\ portCounts \in [Processor!Ports -> Nat]
  /\ inHand \in {Processor!NoResult} \cup [target : Targets, available : BOOLEAN]
  /\ DOMAIN known \subseteq Targets

\* The hosts of a map with a port open.
With(hosts, p) == {h \in DOMAIN hosts : p \in hosts[h].ports}

\* The counts are of these hosts, and one that is available has an ICMP status.
Consistent(hosts, counts) ==
  /\ \A p \in Processor!Ports : counts[p] = Cardinality(With(hosts, p))
  /\ \A h \in DOMAIN hosts : hosts[h].available => hosts[h].icmp # "none"

\* A host that is reported is still in the map, with its status.
ReportWithinMap ==
  \A h \in DOMAIN report.hosts :
    h \in DOMAIN hostMap /\ (report.hosts[h].icmp # "none" => hostMap[h].icmp # "none")

\* The processor has taken in that t has been found available, or not.
Reported(t, b) ==
  /\ t.host \in DOMAIN hostMap
  /\ b => IF t.mode = "icmp" THEN hostMap[t.host].available ELSE t.port \in hostMap[t.host].ports

\* The result in hand and those of the store have been processed.
AllReported ==
  /\ inHand # Processor!NoResult => Reported(inHand.target, inHand.available)
  /\ \A t \in DOMAIN known : Reported(t, known[t].available)

ProcessorInv ==
  /\ ProcessorTyped
  /\ Consistent(hostMap, portCounts) /\ Consistent(report.hosts, report.ports)
  /\ ReportWithinMap
  /\ AllReported

\* What Process does to the map: the result is in, and nothing is lost.
Grown(t, b) ==
  /\ DOMAIN hostMap' = DOMAIN hostMap \cup {t.host}
  /\ hostMap' \in [DOMAIN hostMap' -> HostResults]
  /\ \A h \in DOMAIN hostMap :
       /\ h # t.host => hostMap'[h] = hostMap[h]
       /\ hostMap[h].available => hostMap'[h].available
       /\ hostMap[h].icmp # "none" => hostMap'[h].icmp # "none"
       /\ hostMap[h].ports \subseteq hostMap'[h].ports
  /\ \A p : p \in hostMap'[t.host].ports <=> p \in Processor!HostOf(t.host).ports \/ (t.mode = "tcp" /\ b /\ p = t.port)
  /\ t.mode = "icmp" => hostMap'[t.host].icmp # "none" /\ (b => hostMap'[t.host].available)
  /\ hostMap'[t.host].available => hostMap'[t.host].icmp # "none"

LEMMA ProcessGrows ==
  ASSUME ProcessorConstants, ProcessorInv, NEW t \in Targets, NEW b \in BOOLEAN, Processor!Processed(t, b)
  PROVE  Grown(t, b)
<1> DEFINE host == Processor!HostOf(t.host)
           host2 == IF t.mode = "icmp" THEN Processor!ICMPResult(host, b) ELSE Processor!TCPResult(host, t.port, b)
<1>1. hostMap' = [h \in DOMAIN hostMap \cup {t.host} |-> IF h = t.host THEN host2 ELSE hostMap[h]]
  BY DEF Processor!Processed
<1>2. /\ host \in HostResults /\ (t.host \in DOMAIN hostMap => host = hostMap[t.host])
      /\ host.available => host.icmp # "none"
  BY DEF Processor!HostOf, Processor!NewHost, HostResults, ProcessorInv, ProcessorTyped, Consistent
<1>3. t.mode = "tcp" => t.port \in Processor!Ports
  BY DEF Processor!Ports
<1>4. t.mode \in {"icmp", "tcp"}
  BY DEF ProcessorConstants
<1> HIDE DEF host
<1>5. /\ host2 \in HostResults
      /\ host.available => host2.available
      /\ host.icmp # "none" => host2.icmp # "none"
      /\ \A p : p \in host2.ports <=> p \in host.ports \/ (t.mode = "tcp" /\ b /\ p = t.port)
      /\ t.mode = "icmp" => host2.icmp # "none" /\ (b => host2.available)
      /\ host2.available => host2.icmp # "none"
  <2>1. CASE t.mode = "icmp"
    BY <2>1, <1>2 DEF Processor!ICMPResult, HostResults
  <2>2. CASE t.mode = "tcp" /\ b
    BY <2>2, <1>2, <1>3 DEF Processor!TCPResult, HostResults
  <2>3. CASE t.mode = "tcp" /\ ~b
    BY <2>3, <1>2 DEF Processor!TCPResult
  <2> QED
    BY <1>4, <2>1, <2>2, <2>3
<1> HIDE DEF host2
<1>6. \A h \in DOMAIN hostMap : hostMap[h] \in HostResults
  BY DEF ProcessorInv, ProcessorTyped
<1> QED
  BY <1>1, <1>2, <1>5, <1>6 DEF host, Grown

\* The counts follow.
LEMMA ProcessCounts ==
  ASSUME ProcessorConstants, ProcessorInv, NEW t \in Targets, NEW b \in BOOLEAN,
         Processor!Processed(t, b), NEW p \in Processor!Ports
  PROVE  portCounts'[p] = Cardinality(With(hostMap', p))
<1> DEFINE S == With(hostMap, p)
<1>1. IsFiniteSet(S) /\ Cardinality(S) \in Nat /\ portCounts[p] = Cardinality(S)
  <2>1. IsFiniteSet(S)
    BY FS_Subset DEF ProcessorInv, ProcessorTyped, With
  <2> QED
    BY <2>1, FS_CardinalityType DEF ProcessorInv, Consistent
<1>2. portCounts'[p] = portCounts[p] + IF Processor!Counts(t, b) /\ p = t.port THEN 1 ELSE 0
  BY DEF Processor!Processed
<1>3. Grown(t, b)
  BY ProcessGrows
<1>4. t.host \in S <=> p \in Processor!HostOf(t.host).ports
  BY DEF With, Processor!HostOf, Processor!NewHost
<1>5. ASSUME NEW h PROVE h \in With(hostMap', p) <=> h \in S \/ (h = t.host /\ t.mode = "tcp" /\ b /\ p = t.port)
  <2>1. CASE h = t.host
    <3>1. h \in With(hostMap', p) <=> p \in hostMap'[t.host].ports
      BY <2>1, <1>3 DEF Grown, With
    <3>2. p \in hostMap'[t.host].ports <=> p \in Processor!HostOf(t.host).ports \/ (t.mode = "tcp" /\ b /\ p = t.port)
      BY <1>3 DEF Grown
    <3> QED
      BY <2>1, <3>1, <3>2, <1>4
  <2>2. CASE h # t.host
    BY <2>2, <1>3 DEF Grown, With
  <2> QED
    BY <2>1, <2>2
<1> HIDE DEF S
<1>6. CASE Processor!Counts(t, b) /\ p = t.port
  <2>1. t.host \notin S /\ With(hostMap', p) = S \cup {t.host}
    BY <1>6, <1>4, <1>5 DEF Processor!Counts
  <2>2. Cardinality(S \cup {t.host}) = Cardinality(S) + 1
    BY <1>1, <2>1, FS_AddElement
  <2> QED
    BY <1>1, <1>2, <1>6, <2>1, <2>2
<1>7. CASE ~(Processor!Counts(t, b) /\ p = t.port)
  <2>1. With(hostMap', p) = S
    BY <1>7, <1>4, <1>5 DEF Processor!Counts
  <2> QED
    BY <1>1, <1>2, <1>7, <2>1
<1> QED
  BY <1>6, <1>7

LEMMA ProcessKeeps ==
  ASSUME ProcessorConstants, ProcessorInv, NEW t \in Targets, NEW b \in BOOLEAN, Processor!Process(t, b)
  PROVE  ProcessorInv'
<1>1. /\ Processor!Processed(t, b) /\ inHand' = [target |-> t, available |-> b]
      /\ known' = known /\ report' = report
  BY DEF Processor!Process
<1>2. Grown(t, b)
  BY <1>1, ProcessGrows
<1>3. ProcessorTyped'
  <2>1. IsFiniteSet(DOMAIN hostMap')
    <3>1. IsFiniteSet(DOMAIN hostMap \cup {t.host})
      BY FS_AddElement DEF ProcessorInv, ProcessorTyped
    <3> QED
      BY <1>2, <3>1 DEF Grown
  <2>2. portCounts' \in [Processor!Ports -> Nat]
    BY <1>1 DEF Processor!Processed, ProcessorInv, ProcessorTyped
  <2> QED
    BY <1>1, <2>1, <2>2, <1>2 DEF Grown, ProcessorInv, ProcessorTyped
<1>4. Consistent(hostMap, portCounts)'
  <2>1. \A p \in Processor!Ports : portCounts'[p] = Cardinality(With(hostMap', p))
    BY <1>1, ProcessCounts
  <2>2. ASSUME NEW h \in DOMAIN hostMap', hostMap'[h].available PROVE hostMap'[h].icmp # "none"
    <3>1. CASE h = t.host
      BY <2>2, <3>1, <1>2 DEF Grown
    <3>2. CASE h # t.host
      BY <2>2, <3>2, <1>2 DEF Grown, ProcessorInv, Consistent
    <3> QED
      BY <3>1, <3>2
  <2> QED
    BY <2>1, <2>2 DEF Consistent
<1>5. Consistent(report.hosts, report.ports)'
  BY <1>1 DEF ProcessorInv, Consistent, With
<1>6. ReportWithinMap'
  BY <1>1, <1>2 DEF Grown, ProcessorInv, ReportWithinMap
<1>7. \A u, a : Reported(u, a) => Reported(u, a)'
  <2> SUFFICES ASSUME NEW u, NEW a, Reported(u, a) PROVE Reported(u, a)'
    OBVIOUS
  <2>1. u.host \in DOMAIN hostMap
    BY DEF Reported
  <2>2. u.host \in DOMAIN hostMap' /\ (hostMap[u.host].available => hostMap'[u.host].available)
        /\ hostMap[u.host].ports \subseteq hostMap'[u.host].ports
    BY <1>1, <2>1, <1>2 DEF Grown
  <2> QED
    BY <2>2 DEF Reported
<1>8. Reported(t, b)'
  <2>1. t.host \in DOMAIN hostMap' /\ t.mode \in {"icmp", "tcp"}
    BY <1>1, <1>2 DEF Grown, ProcessorConstants
  <2>2. CASE t.mode = "icmp"
    BY <1>1, <2>1, <2>2, <1>2 DEF Grown, Reported
  <2>3. CASE t.mode = "tcp"
    <3>1. b => t.port \in hostMap'[t.host].ports
      BY <1>1, <2>3, <1>2 DEF Grown
    <3> QED
      BY <2>1, <2>3, <3>1 DEF Reported
  <2> QED
    BY <2>1, <2>2, <2>3
<1>9. AllReported'
  BY <1>1, <1>7, <1>8 DEF ProcessorInv, AllReported
<1> QED
  BY <1>3, <1>4, <1>5, <1>6, <1>9 DEF ProcessorInv

LEMMA ProcessorStarts ==
  ASSUME Processor!Init
  PROVE  ProcessorInv
<1>1. DOMAIN hostMap = {} /\ DOMAIN report.hosts = {} /\ DOMAIN known = {}
      /\ portCounts = [p \in Processor!Ports |-> 0]
      /\ report.ports = [p \in Processor!Ports |-> 0] /\ inHand = Processor!NoResult
  BY DEF Processor!Init, Processor!NoReport, Processor!Store!StoreInit
<1>2. \A p \in Processor!Ports : With(hostMap, p) = {} /\ With(report.hosts, p) = {}
  BY <1>1 DEF With
<1>3. Consistent(hostMap, portCounts) /\ Consistent(report.hosts, report.ports)
  BY <1>1, <1>2, FS_EmptySet DEF Consistent
<1>4. ProcessorTyped
  <2>1. hostMap \in [DOMAIN hostMap -> HostResults]
    BY <1>1 DEF Processor!Init
  <2> QED
    BY <1>1, <2>1, FS_EmptySet DEF ProcessorTyped
<1> QED
  BY <1>1, <1>3, <1>4 DEF ProcessorInv, ReportWithinMap, AllReported

LEMMA ProcessorKept ==
  ASSUME ProcessorConstants, ProcessorInv, [Processor!Next]_Processor!vars
  PROVE  ProcessorInv'
<1>1. CASE UNCHANGED Processor!vars
  BY <1>1 DEF Processor!vars, ProcessorInv, ProcessorTyped, Consistent, With, ReportWithinMap, AllReported, Reported
<1>2. CASE \E t \in Targets, b \in BOOLEAN : Processor!Process(t, b)
  BY <1>2, ProcessKeeps
<1>3. CASE Processor!SaveResult
  <2> DEFINE t == inHand.target
  <2>1. /\ inHand # Processor!NoResult /\ inHand' = Processor!NoResult /\ UNCHANGED <<hostMap, portCounts, report>>
        /\ known' = [u \in DOMAIN known \cup {t} |->
                       IF u = t THEN [available |-> inHand.available, seen |-> 1] ELSE known[u]]
    BY <1>3 DEF Processor!SaveResult, Processor!Store!Save
  <2>2. t \in Targets /\ Reported(t, inHand.available)
    BY <2>1 DEF ProcessorInv, ProcessorTyped, AllReported
  <2>3. AllReported'
    <3>1. ASSUME NEW u \in DOMAIN known' PROVE Reported(u, known'[u].available)
      BY <2>1, <2>2 DEF ProcessorInv, AllReported
    <3> QED
      BY <2>1, <3>1 DEF AllReported, Reported
  <2>4. ProcessorTyped'
    BY <2>1, <2>2 DEF ProcessorInv, ProcessorTyped
  <2> QED
    BY <2>1, <2>3, <2>4 DEF ProcessorInv, Consistent, With, ReportWithinMap
<1>4. CASE Processor!Trim
  <2>1. PICK S \in SUBSET DOMAIN known :
          /\ known' = [u \in DOMAIN known \ S |-> known[u]]
          /\ UNCHANGED <<hostMap, portCounts, inHand, report>>
    BY <1>4 DEF Processor!Trim, Processor!Store!Trim, Processor!Store!Without
  <2> QED
    BY <2>1 DEF ProcessorInv, ProcessorTyped, Consistent, With, ReportWithinMap, AllReported, Reported
<1>5. CASE Processor!GetSummary
  <2>1. /\ report' = [hosts |-> hostMap, ports |-> portCounts]
        /\ UNCHANGED <<hostMap, portCounts, inHand, known>>
    BY <1>5 DEF Processor!GetSummary
  <2> QED
    BY <2>1 DEF ProcessorInv, ProcessorTyped, Consistent, With, ReportWithinMap, AllReported, Reported
<1> QED
  BY <1>1, <1>2, <1>3, <1>4, <1>5 DEF Processor!Next

LEMMA AnswersConsistent ==
  ASSUME ProcessorInv
  PROVE  Processor!AnswerConsistent
<1>1. \A h \in DOMAIN report.hosts : Processor!Written(h).ports = report.hosts[h].ports
  BY DEF Processor!Written
<1>2. \A h \in DOMAIN report.hosts : Processor!Written(h).available => Processor!Written(h).icmp # "none"
  BY DEF Processor!Written, ProcessorInv, Consistent, ReportWithinMap
<1>3. \A p \in Processor!Ports : {h \in DOMAIN report.hosts : p \in Processor!Written(h).ports} = With(report.hosts, p)
  BY <1>1 DEF With
<1> QED
  BY <1>2, <1>3, SameCardinality DEF Processor!AnswerConsistent, ProcessorInv, Consistent

LEMMA StoreIsWithinProcessor ==
  ASSUME ProcessorInv
  PROVE  Processor!StoreWithinProcessor
BY DEF ProcessorInv, AllReported, Reported, Processor!StoreWithinProcessor

-----------------------------------------------------------------------------
(* The in-memory store.                                                      *)

MemoryResults == [target : Targets, available : BOOLEAN, seen : 1..MaxTime]

\* A list of results, of each target at most one, and the store it is: each
\* target with its result.
OneEach(s) ==
  /\ s \in Seq(MemoryResults)
  /\ \A i, j \in DOMAIN s : s[i].target = s[j].target => i = j
TargetsIn(s) == {r.target : r \in Memory!Range(s)}
ResultOf(s, t) == CHOOSE r \in Memory!Range(s) : r.target = t
StoreOf(s) == [t \in TargetsIn(s) |-> Memory!Result(ResultOf(s, t))]

MemoryInv == OneEach(results) /\ clockM \in 1..MaxTime

\* The result of a target is the one at its place in the list.
LEMMA PlaceOfTarget ==
  ASSUME NEW s, OneEach(s)
  PROVE  /\ TargetsIn(s) = {s[i].target : i \in DOMAIN s} /\ DOMAIN StoreOf(s) = TargetsIn(s)
         /\ TargetsIn(s) \subseteq Targets
         /\ \A i \in DOMAIN s : StoreOf(s)[s[i].target] = Memory!Result(s[i])
<1>1. Memory!Range(s) = {s[i] : i \in DOMAIN s}
  BY DEF Memory!Range
<1>2. TargetsIn(s) = {s[i].target : i \in DOMAIN s}
  BY <1>1 DEF TargetsIn
<1>3. ASSUME NEW i \in DOMAIN s PROVE ResultOf(s, s[i].target) = s[i]
  <2> DEFINE t == s[i].target
  <2>1. \E r \in Memory!Range(s) : r.target = t
    BY <1>1
  <2> HIDE DEF t
  <2>2. ResultOf(s, t) \in Memory!Range(s) /\ ResultOf(s, t).target = t
    BY <2>1, Zenon DEF ResultOf
  <2>3. PICK j \in DOMAIN s : ResultOf(s, t) = s[j]
    BY <1>1, <2>2
  <2> QED
    BY <2>2, <2>3 DEF t, OneEach
<1>4. TargetsIn(s) \subseteq Targets
  <2>1. \A i \in DOMAIN s : s[i] \in MemoryResults
    BY DEF OneEach
  <2> QED
    BY <1>2, <2>1 DEF MemoryResults
<1> QED
  BY <1>2, <1>3, <1>4 DEF StoreOf

\* A result is put at the place n of its target, or at a new one.
IsPut(s, q, n) ==
  /\ q \in Seq(MemoryResults) /\ DOMAIN q = DOMAIN s \cup {n}
  /\ \A i \in DOMAIN s : i # n => q[i] = s[i] /\ s[i].target # q[n].target
  /\ n \in DOMAIN s => s[n].target = q[n].target

\* The store with the result.
Saved(s, q, n) ==
  StoreOf(q) = [u \in DOMAIN StoreOf(s) \cup {q[n].target} |->
                  IF u = q[n].target THEN Memory!Result(q[n]) ELSE StoreOf(s)[u]]

LEMMA PutKeeps ==
  ASSUME NEW s, OneEach(s), NEW q, NEW n, IsPut(s, q, n)
  PROVE  OneEach(q) /\ Saved(s, q, n)
<1> USE DEF IsPut
<1>1. OneEach(q)
  BY DEF OneEach
<1>2. TargetsIn(q) = TargetsIn(s) \cup {q[n].target}
  <2>1. TargetsIn(q) = {q[i].target : i \in DOMAIN q} /\ TargetsIn(s) = {s[i].target : i \in DOMAIN s}
    BY <1>1, PlaceOfTarget
  <2> QED
    BY <2>1
<1>3. ASSUME NEW u \in TargetsIn(q)
      PROVE  StoreOf(q)[u] = IF u = q[n].target THEN Memory!Result(q[n]) ELSE StoreOf(s)[u]
  <2>1. PICK i \in DOMAIN q : u = q[i].target
    BY <1>1, PlaceOfTarget
  <2>2. StoreOf(q)[u] = Memory!Result(q[i])
    BY <1>1, <2>1, PlaceOfTarget
  <2>3. CASE i = n
    BY <2>1, <2>2, <2>3
  <2>4. CASE i # n
    <3>1. StoreOf(s)[s[i].target] = Memory!Result(s[i])
      BY <2>4, PlaceOfTarget
    <3> QED
      BY <2>1, <2>2, <2>4, <3>1
  <2> QED
    BY <2>3, <2>4
<1>4. DOMAIN StoreOf(s) = TargetsIn(s) /\ StoreOf(q) = [u \in TargetsIn(q) |-> StoreOf(q)[u]]
  BY PlaceOfTarget DEF StoreOf
<1> QED
  BY <1>1, <1>2, <1>3, <1>4 DEF Saved

\* A list that keeps the places K of another forgets the targets of the others.
LEMMA PartKeeps ==
  ASSUME NEW s, OneEach(s), NEW K \in SUBSET DOMAIN s, NEW q \in Seq(MemoryResults), Keeps(q, s, K)
  PROVE  /\ OneEach(q) /\ DOMAIN StoreOf(q) = {s[k].target : k \in K}
         /\ DOMAIN StoreOf(q) \subseteq DOMAIN StoreOf(s)
         /\ \A u \in DOMAIN StoreOf(q) : StoreOf(q)[u] = StoreOf(s)[u]
<1>1. PICK at \in [DOMAIN q -> K] :
        /\ \A i, j \in DOMAIN q : at[i] = at[j] => i = j
        /\ \A k \in K : \E i \in DOMAIN q : at[i] = k
        /\ \A i \in DOMAIN q : q[i] = s[at[i]]
  BY DEF Keeps
<1>2. OneEach(q)
  BY <1>1 DEF OneEach
<1>3. /\ TargetsIn(q) = {q[i].target : i \in DOMAIN q} /\ TargetsIn(s) = {s[i].target : i \in DOMAIN s}
      /\ DOMAIN StoreOf(q) = TargetsIn(q) /\ DOMAIN StoreOf(s) = TargetsIn(s)
  BY <1>2, PlaceOfTarget
<1>4. TargetsIn(q) = {s[k].target : k \in K} /\ TargetsIn(q) \subseteq TargetsIn(s)
  BY <1>1, <1>3
<1>5. ASSUME NEW i \in DOMAIN q PROVE StoreOf(q)[q[i].target] = StoreOf(s)[q[i].target]
  <2>1. StoreOf(q)[q[i].target] = Memory!Result(q[i])
    BY <1>2, PlaceOfTarget
  <2>2. StoreOf(s)[s[at[i]].target] = Memory!Result(s[at[i]])
    BY <1>1, PlaceOfTarget
  <2> QED
    BY <1>1, <2>1, <2>2
<1>6. \A u \in TargetsIn(q) : StoreOf(q)[u] = StoreOf(s)[u]
  BY <1>3, <1>5
<1> HIDE DEF StoreOf
<1> QED
  BY <1>2, <1>3, <1>4, <1>6

\* There are as many targets as places.
LEMMA AsManyTargets ==
  ASSUME NEW s, OneEach(s)
  PROVE  Cardinality(DOMAIN StoreOf(s)) = Len(s)
<1> DEFINE f == [i \in 1..Len(s) |-> s[i].target]
<1>1. Len(s) \in Nat /\ DOMAIN s = 1..Len(s)
  BY DEF OneEach
<1>2. DOMAIN StoreOf(s) = {s[i].target : i \in 1..Len(s)}
  BY <1>1, PlaceOfTarget
<1> HIDE DEF StoreOf
<1>3. f \in Bijection(1..Len(s), DOMAIN StoreOf(s))
  <2>1. \A i, j \in 1..Len(s) : f[i] = f[j] => i = j
    BY <1>1 DEF OneEach
  <2> QED
    BY <1>2, <2>1 DEF Bijection, Injection, Surjection, IsInjective
<1>4. IsFiniteSet(1..Len(s)) /\ Cardinality(1..Len(s)) = Len(s)
  <2>1. ASSUME NEW n \in Nat PROVE IsFiniteSet(1..n) /\ Cardinality(1..n) = n
    BY FS_Interval
  <2> QED
    BY <1>1, <2>1
<1> HIDE DEF f
<1> QED
  BY <1>3, <1>4, FS_Bijection DEF ExistsBijection

\* What the changes do to the list does to the store what they promise.
LEMMA PutSaves ==
  ASSUME MemoryInv, NEW n, IsPut(results, results', n), UNCHANGED clockM
  PROVE  /\ MemoryInv'
         /\ StoreOf(results)' = [u \in DOMAIN StoreOf(results) \cup {results'[n].target} |->
                IF u = results'[n].target THEN Memory!Result(results'[n]) ELSE StoreOf(results)[u]]
<1>1. OneEach(results) /\ clockM \in 1..MaxTime
  BY DEF MemoryInv
<1>2. PICK s, q : s = results /\ q = results'
  OBVIOUS
<1>3. OneEach(s) /\ IsPut(s, q, n)
  BY <1>1, <1>2
<1>4. OneEach(q) /\ Saved(s, q, n)
  BY <1>3, PutKeeps
<1>5. MemoryInv'
  BY <1>1, <1>2, <1>4 DEF MemoryInv, OneEach
<1>6. StoreOf(results)' = StoreOf(q)
  BY <1>2 DEF StoreOf, TargetsIn, ResultOf
<1> QED
  BY <1>2, <1>4, <1>5, <1>6 DEF Saved

LEMMA PartForgets ==
  ASSUME MemoryInv, NEW K \in SUBSET DOMAIN results, results' \in Seq(MemoryResults),
         Keeps(results', results, K), UNCHANGED clockM
  PROVE  /\ MemoryInv' /\ (DOMAIN StoreOf(results))' = {results[k].target : k \in K}
         /\ (DOMAIN StoreOf(results))' \subseteq DOMAIN StoreOf(results)
         /\ (Cardinality(DOMAIN StoreOf(results)))' = Len(results')
         /\ \A S : (DOMAIN StoreOf(results))' = DOMAIN StoreOf(results) \ S
              => StoreOf(results)' = [u \in DOMAIN StoreOf(results) \ S |-> StoreOf(results)[u]]
<1>1. OneEach(results) /\ clockM \in 1..MaxTime
  BY DEF MemoryInv
<1>2. PICK s, q : s = results /\ q = results'
  OBVIOUS
<1>3. OneEach(s) /\ K \in SUBSET DOMAIN s /\ q \in Seq(MemoryResults) /\ Keeps(q, s, K)
  BY <1>1, <1>2
<1>4. /\ OneEach(q) /\ DOMAIN StoreOf(q) = {s[k].target : k \in K}
      /\ DOMAIN StoreOf(q) \subseteq DOMAIN StoreOf(s)
      /\ \A u \in DOMAIN StoreOf(q) : StoreOf(q)[u] = StoreOf(s)[u]
  BY <1>3, PartKeeps
<1>5. Cardinality(DOMAIN StoreOf(q)) = Len(q)
  BY <1>4, AsManyTargets
<1>6. MemoryInv'
  BY <1>1, <1>2, <1>4 DEF MemoryInv, OneEach
<1>7. StoreOf(results)' = StoreOf(q)
  BY <1>2 DEF StoreOf, TargetsIn, ResultOf
<1>8. StoreOf(q) = [u \in DOMAIN StoreOf(q) |-> StoreOf(q)[u]]
  BY PlaceOfTarget, <1>4 DEF StoreOf
<1>9. (Cardinality(DOMAIN StoreOf(results)))' = Cardinality(DOMAIN StoreOf(q))
  BY <1>7
<1> HIDE DEF StoreOf
<1>10. ASSUME NEW S, DOMAIN StoreOf(q) = DOMAIN StoreOf(s) \ S
       PROVE  StoreOf(q) = [u \in DOMAIN StoreOf(s) \ S |-> StoreOf(s)[u]]
  BY <1>4, <1>8, <1>10
<1> QED
  BY <1>2, <1>4, <1>5, <1>6, <1>7, <1>9, <1>10

LEMMA MemorySteps ==
  ASSUME MemoryConstants, MemoryInv, [Memory!Next]_Memory!vars
  PROVE  MemoryInv' /\ [Memory!Abstract!StoreNext]_Memory!Abstract!storeVars
<1> DEFINE L == Len(results)
<1>1. /\ results \in Seq(MemoryResults) /\ L \in Nat /\ DOMAIN results = 1..L
      /\ clockM \in 1..MaxTime /\ MaxTime \in Nat /\ MaxResults \in Nat
      /\ \A i \in 1..L : results[i] \in MemoryResults
  BY DEF MemoryInv, OneEach, MemoryConstants
<1> HIDE DEF L
<1>2. ASSUME NEW t \in Targets, NEW b \in BOOLEAN, Memory!SaveResult(t, b)
      PROVE  \E n : IsPut(results, results', n) /\ results'[n] = [target |-> t, available |-> b, seen |-> clockM]
  <2> DEFINE r == [target |-> t, available |-> b, seen |-> clockM]
  <2>1. r \in MemoryResults /\ r.target = t /\ r.seen = clockM
    BY <1>1 DEF MemoryResults
  <2>2. results' = IF Memory!IndexOf(t) = {} THEN Append(results, r)
                   ELSE [results EXCEPT ![Memory!FirstOf(t)] = r]
    BY <1>2 DEF Memory!SaveResult
  <2> SUFFICES \E n : IsPut(results, results', n) /\ results'[n] = r
    OBVIOUS
  <2> HIDE DEF r
  <2>3. CASE Memory!IndexOf(t) = {}
    <3>1. results' = Append(results, r) /\ \A i \in 1..L : results[i].target # t
      BY <1>1, <2>2, <2>3 DEF Memory!IndexOf
    <3>2. /\ results' \in Seq(MemoryResults) /\ DOMAIN results' = 1..L \cup {L + 1} /\ results'[L + 1] = r
          /\ \A i \in 1..L : results'[i] = results[i]
      BY <1>1, <2>1, <3>1 DEF L
    <3> QED
      BY <1>1, <2>1, <3>1, <3>2 DEF IsPut
  <2>4. CASE Memory!IndexOf(t) # {}
    <3>1. PICK n : n = Memory!FirstOf(t)
      OBVIOUS
    <3>2. PICK m \in Memory!IndexOf(t) : Memory!IndexOf(t) = {m}
      BY <2>4 DEF Memory!IndexOf, MemoryInv, OneEach
    <3>3. n = m
      <4>1. \A j \in Memory!IndexOf(t) : m <= j
        BY <1>1, <3>2 DEF Memory!IndexOf
      <4>2. n \in Memory!IndexOf(t)
        BY <3>1, <3>2, <4>1, Zenon DEF Memory!FirstOf
      <4> QED
        BY <3>2, <4>2
    <3>4. results' = [results EXCEPT ![n] = r]
      BY <2>2, <2>4, <3>1
    <3>5. n \in 1..L /\ results[n].target = t /\ \A i \in 1..L : i # n => results[i].target # t
      BY <1>1, <3>2, <3>3 DEF Memory!IndexOf
    <3>6. results' \in Seq(MemoryResults) /\ DOMAIN results' = 1..L
      BY <1>1, <2>1, <3>4, <3>5 DEF L
    <3> QED
      BY <1>1, <2>1, <3>4, <3>5, <3>6 DEF IsPut
  <2> QED
    BY <2>3, <2>4
<1>3. ASSUME NEW h \in Memory!Hosts, NEW b \in BOOLEAN, Memory!SaveHostResult(h, b)
      PROVE  \E n \in DOMAIN results :
               /\ IsPut(results, results', n) /\ results[n].target.host = h
               /\ results'[n] = [target |-> results[n].target, available |-> results[n].available \/ b, seen |-> clockM]
  <2>1. PICK n \in DOMAIN results :
          /\ results[n].target.host = h
          /\ results' = [results EXCEPT ![n] =
               [target |-> results[n].target, available |-> results[n].available \/ b, seen |-> clockM]]
    BY <1>3, Zenon DEF Memory!SaveHostResult
  <2> DEFINE r == [target |-> results[n].target, available |-> results[n].available \/ b, seen |-> clockM]
  <2>2. r \in MemoryResults /\ r.target = results[n].target
    BY <1>1, <2>1 DEF MemoryResults
  <2>3. results' = [results EXCEPT ![n] = r]
    BY <2>1
  <2> SUFFICES IsPut(results, results', n) /\ results'[n] = r
    BY <2>1
  <2> HIDE DEF r
  <2>4. results' \in Seq(MemoryResults) /\ DOMAIN results' = 1..L /\ n \in 1..L
    BY <1>1, <2>2, <2>3 DEF L
  <2>5. \A i \in 1..L : i # n => results[i].target # results[n].target
    BY <1>1, <2>4 DEF MemoryInv, OneEach
  <2> QED
    BY <1>1, <2>2, <2>3, <2>4, <2>5 DEF IsPut
<1>4. ASSUME Memory!CleanOldResults
      PROVE  /\ results' \in Seq(MemoryResults) /\ Len(results') = MaxResults
             /\ \E K \in SUBSET DOMAIN results : Keeps(results', results, K)
  <2> DEFINE d == L - MaxResults
             K == (d + 1)..L
             at == [i \in 1..MaxResults |-> i + d]
  <2>1. L > MaxResults /\ results' = SubSeq(results, d + 1, L)
    BY <1>4 DEF Memory!CleanOldResults, L
  <2>2. d \in Nat /\ d + MaxResults = L
    BY <1>1, <2>1
  <2> HIDE DEF d
  <2>3. /\ results' \in Seq(MemoryResults) /\ DOMAIN results' = 1..MaxResults
        /\ \A i \in 1..MaxResults : results'[i] = results[i + d]
    <3>1. d + 1 \in Nat /\ L \in Nat /\ L - (d + 1) + 1 = MaxResults
      BY <1>1, <2>2
    <3>2. \A i \in 1..MaxResults : (d + 1) + i - 1 = i + d /\ i + d \in 1..L
      BY <1>1, <2>2
    <3>3. \A i \in (d + 1)..L : results[i] \in MemoryResults
      BY <1>1, <2>2
    <3>4. /\ results' \in Seq(MemoryResults)
          /\ Len(results') = MaxResults
          /\ \A i \in 1..MaxResults : results'[i] = results[i + d]
      <4>1. d + 1 \in Int /\ L \in Int /\ (d + 1 <= L \/ MaxResults = 0)
        BY <1>1, <2>2
      <4>2. /\ SubSeq(results, d + 1, L) \in Seq(MemoryResults)
            /\ Len(SubSeq(results, d + 1, L)) = IF d + 1 <= L THEN L - (d + 1) + 1 ELSE 0
            /\ \A i \in 1..(L - (d + 1) + 1) : SubSeq(results, d + 1, L)[i] = results[(d + 1) + i - 1]
        BY <3>3, <4>1, SubSeqProperties
      <4> QED
        BY <2>1, <3>1, <3>2, <4>1, <4>2
    <3> QED
      BY <1>1, <3>4
  <2>4. at \in [DOMAIN results' -> K] /\ K \in SUBSET DOMAIN results
    BY <1>1, <2>2, <2>3
  <2>5. \A i, j \in DOMAIN results' : at[i] = at[j] => i = j
    BY <1>1, <2>2, <2>3
  <2>6. \A i \in DOMAIN results' : results'[i] = results[at[i]]
    BY <2>3
  <2>7. ASSUME NEW k \in K PROVE \E i \in DOMAIN results' : at[i] = k
    <3>1. k - d \in 1..MaxResults /\ (k - d) + d = k
      BY <1>1, <2>2
    <3> QED
      BY <2>3, <3>1
  <2> HIDE DEF at, K
  <2>8. Keeps(results', results, K)
    BY <2>4, <2>5, <2>6, <2>7 DEF Keeps
  <2>9. Len(results') = MaxResults
    BY <1>1, <2>3
  <2> QED
    BY <2>3, <2>4, <2>8, <2>9
<1>5. ASSUME NEW age \in 0..MaxTime, Memory!PruneResults(age)
      PROVE  LET K == {i \in DOMAIN results : results[i].seen > clockM - age} IN
             results' \in Seq(MemoryResults) /\ Keeps(results', results, K)
  <2> DEFINE K == {i \in DOMAIN results : results[i].seen > clockM - age}
  <2>1. results' \in Memory!Sublists(results, K)
    BY <1>5 DEF Memory!PruneResults
  <2>2. K \in SUBSET DOMAIN results
    OBVIOUS
  <2> SUFFICES results' \in Seq(MemoryResults) /\ Keeps(results', results, K)
    OBVIOUS
  <2> HIDE DEF K
  <2>3. results' \in Sublists(results, K)
    BY <2>1, SameSublists
  <2> QED
    BY <1>1, <2>2, <2>3, SublistFacts
<1>6. ASSUME NEW f \in Filters, Memory!GetResults(f) PROVE MemoryInv' /\ Memory!Abstract!StoreNext
  <2>1. results' = results /\ clockM' = clockM
        /\ lastM' = [op |-> "query", filter |-> f,
                      found |-> {[target |-> r.target, result |-> Memory!Result(r)] :
                                   r \in {q \in Memory!Range(results) : Memory!MatchesFilter(q, f)}}]
    BY <1>6 DEF Memory!GetResults
  <2>2. f.from \in Nat /\ f.to \in Nat
    BY DEF MemoryConstants
  <2> DEFINE found == {[target |-> t, result |-> StoreOf(results)[t]] :
                         t \in {u \in DOMAIN StoreOf(results) : Memory!Abstract!Matches(f, u, StoreOf(results)[u])}}
  <2>3. OneEach(results)
    BY DEF MemoryInv
  <2>4. ASSUME NEW r \in Memory!Range(results)
        PROVE  /\ r.target \in DOMAIN StoreOf(results) /\ StoreOf(results)[r.target] = Memory!Result(r)
               /\ Memory!MatchesFilter(r, f) <=> Memory!Abstract!Matches(f, r.target, Memory!Result(r))
    <3>1. PICK i \in DOMAIN results : r = results[i]
      BY DEF Memory!Range
    <3>2. r.target \in DOMAIN StoreOf(results) /\ StoreOf(results)[r.target] = Memory!Result(r)
      BY <2>3, <3>1, PlaceOfTarget
    <3>3. r \in MemoryResults /\ r.seen \in Nat /\ r.seen >= 1
      BY <1>1, <3>1 DEF MemoryResults
    <3> QED
      BY <2>2, <3>2, <3>3 DEF Memory!MatchesFilter, Memory!CheckTimeRange, Memory!Abstract!Matches, Memory!Result
  <2>5. \A t \in DOMAIN StoreOf(results) : \E r \in Memory!Range(results) : r.target = t
    BY DEF StoreOf, TargetsIn
  <2>6. lastM' = [op |-> "query", filter |-> f, found |-> found]
    BY <2>1, <2>4, <2>5
  <2>7. Memory!Abstract!Query(f)
    <3>1. StoreOf(results)' = StoreOf(results)
      BY <2>1 DEF StoreOf, TargetsIn, ResultOf
    <3>2. found \ found = {}
      OBVIOUS
    <3> QED
      BY <2>1, <2>6, <3>1, <3>2 DEF Memory!Abstract!Query, StoreOf, TargetsIn, ResultOf, Memory!Kept
  <2>8. Memory!Abstract!StoreNext
    BY <2>7 DEF Memory!Abstract!StoreNext
  <2> QED
    BY <2>1, <2>8 DEF MemoryInv
<1>7. CASE UNCHANGED Memory!vars \/ Memory!Close
  <2>1. results' = results /\ lastM' = lastM /\ clockM' = clockM
    BY <1>7 DEF Memory!vars, Memory!Close
  <2>2. MemoryInv'
    BY <2>1 DEF MemoryInv
  <2>3. UNCHANGED Memory!Abstract!storeVars
    BY <2>1 DEF Memory!Abstract!storeVars, Memory!Kept
  <2> QED
    BY <2>2, <2>3
<1>8. ASSUME NEW t \in Targets, NEW b \in BOOLEAN, Memory!SaveResult(t, b)
      PROVE  MemoryInv' /\ Memory!Abstract!StoreNext
  <2>1. lastM' = [op |-> "save", target |-> t, available |-> b] /\ clockM' = clockM
    BY <1>8 DEF Memory!SaveResult
  <2>2. PICK n : IsPut(results, results', n) /\ results'[n] = [target |-> t, available |-> b, seen |-> clockM]
    BY <1>2, <1>8
  <2>3. /\ MemoryInv'
        /\ StoreOf(results)' = [u \in DOMAIN StoreOf(results) \cup {results'[n].target} |->
               IF u = results'[n].target THEN Memory!Result(results'[n]) ELSE StoreOf(results)[u]]
    BY <2>1, <2>2, PutSaves
  <2>4. results'[n].target = t /\ Memory!Result(results'[n]) = [available |-> b, seen |-> clockM]
    BY <2>2 DEF Memory!Result
  <2>5. StoreOf(results)' = [u \in DOMAIN StoreOf(results) \cup {t} |->
               IF u = t THEN [available |-> b, seen |-> clockM] ELSE StoreOf(results)[u]]
    BY <2>3, <2>4
  <2>6. Memory!Abstract!Save(t, b)
    BY <2>1, <2>5 DEF Memory!Abstract!Save, StoreOf, TargetsIn, ResultOf, Memory!Kept
  <2> QED
    BY <2>3, <2>6 DEF Memory!Abstract!StoreNext
<1>9. ASSUME NEW h \in Memory!Hosts, NEW b \in BOOLEAN, Memory!SaveHostResult(h, b)
      PROVE  MemoryInv' /\ Memory!Abstract!StoreNext
  <2>1. lastM' = [op |-> "renew", host |-> h, available |-> b] /\ clockM' = clockM
    BY <1>9 DEF Memory!SaveHostResult
  <2>2. PICK n \in DOMAIN results :
          /\ IsPut(results, results', n) /\ results[n].target.host = h
          /\ results'[n] = [target |-> results[n].target, available |-> results[n].available \/ b, seen |-> clockM]
    BY <1>3, <1>9
  <2> DEFINE t == results[n].target
  <2>3. /\ MemoryInv'
        /\ StoreOf(results)' = [u \in DOMAIN StoreOf(results) \cup {results'[n].target} |->
               IF u = results'[n].target THEN Memory!Result(results'[n]) ELSE StoreOf(results)[u]]
    BY <2>1, <2>2, PutSaves
  <2>4. t \in DOMAIN StoreOf(results) /\ StoreOf(results)[t] = Memory!Result(results[n])
    BY PlaceOfTarget DEF MemoryInv
  <2>5. /\ results'[n].target = t
        /\ Memory!Result(results'[n]) = [available |-> StoreOf(results)[t].available \/ b, seen |-> clockM]
    BY <2>2, <2>4 DEF Memory!Result
  <2> DEFINE r == [available |-> StoreOf(results)[t].available \/ b, seen |-> clockM]
  <2>6. StoreOf(results)' = [u \in DOMAIN StoreOf(results) |-> IF u = t THEN r ELSE StoreOf(results)[u]]
    BY <2>3, <2>4, <2>5
  <2> HIDE DEF r
  <2>7. StoreOf(results)' = [StoreOf(results) EXCEPT ![t] = r]
    BY <2>6 DEF StoreOf
  <2>8. \E u \in DOMAIN StoreOf(results) :
          /\ u.host = h
          /\ StoreOf(results)' =
               [StoreOf(results) EXCEPT ![u] = [available |-> StoreOf(results)[u].available \/ b, seen |-> clockM]]
    BY <2>2, <2>4, <2>7 DEF r
  <2> HIDE DEF t
  <2>9. Memory!Abstract!Renew(h, b)
    BY <2>1, <2>8 DEF Memory!Abstract!Renew, StoreOf, TargetsIn, ResultOf, Memory!Kept
  <2> QED
    BY <2>3, <2>9 DEF Memory!Abstract!StoreNext, Memory!Hosts
<1>10. ASSUME Memory!CleanOldResults PROVE MemoryInv' /\ Memory!Abstract!StoreNext
  <2>1. lastM' = [op |-> "trim"] /\ clockM' = clockM /\ Len(results) > MaxResults
    BY <1>10 DEF Memory!CleanOldResults
  <2>2. PICK K \in SUBSET DOMAIN results : Keeps(results', results, K)
    BY <1>4, <1>10
  <2>3. results' \in Seq(MemoryResults) /\ Len(results') = MaxResults
    BY <1>4, <1>10
  <2> DEFINE known1 == StoreOf(results)
             S == DOMAIN known1 \ DOMAIN known1'
  <2>4. /\ MemoryInv' /\ DOMAIN known1' \subseteq DOMAIN known1
        /\ Cardinality(DOMAIN known1') = MaxResults
        /\ DOMAIN known1' = DOMAIN known1 \ S => known1' = [u \in DOMAIN known1 \ S |-> known1[u]]
    BY <2>1, <2>2, <2>3, PartForgets
  <2>5. Cardinality(DOMAIN known1) > MaxResults
    BY <2>1, AsManyTargets DEF MemoryInv
  <2>6. S \in SUBSET DOMAIN known1 /\ Cardinality(DOMAIN known1 \ S) = MaxResults
        /\ known1' = [u \in DOMAIN known1 \ S |-> known1[u]]
    <3>1. DOMAIN known1' = DOMAIN known1 \ S
      BY <2>4
    <3> QED
      BY <2>4, <3>1
  <2> HIDE DEF S
  <2>7. \A T : Memory!Abstract!Cardinality(T) = Cardinality(T)
    BY DEF Memory!Abstract!Cardinality, Cardinality
  <2>8. Memory!Abstract!Trim
    BY <2>1, <2>5, <2>6, <2>7
       DEF Memory!Abstract!Trim, Memory!Abstract!Without, StoreOf, TargetsIn, ResultOf, Memory!Kept
  <2> QED
    BY <2>4, <2>8 DEF Memory!Abstract!StoreNext
<1>11. ASSUME NEW age \in 0..MaxTime, Memory!PruneResults(age) PROVE MemoryInv' /\ Memory!Abstract!StoreNext
  <2>1. PICK c \in 0..clockM : c = clockM - age
    BY <1>1, <1>11 DEF Memory!PruneResults
  <2> DEFINE K == {i \in DOMAIN results : results[i].seen > c}
             known1 == StoreOf(results)
             S == {t \in DOMAIN known1 : known1[t].seen <= c}
  <2>2. lastM' = [op |-> "prune", cutoff |-> c] /\ clockM' = clockM
    BY <1>11, <2>1 DEF Memory!PruneResults
  <2>3. results' \in Seq(MemoryResults) /\ Keeps(results', results, K) /\ K \in SUBSET DOMAIN results
    BY <1>5, <1>11, <2>1
  <2>4. OneEach(results) /\ c \in Int
    BY <1>1 DEF MemoryInv
  <2>5. DOMAIN known1 = {results[i].target : i \in DOMAIN results}
    BY <2>4, PlaceOfTarget
  <2>6. ASSUME NEW i \in DOMAIN results
        PROVE  known1[results[i].target].seen = results[i].seen /\ results[i].seen \in Int
    <3>1. known1[results[i].target] = Memory!Result(results[i])
      BY <2>4, PlaceOfTarget
    <3>2. Memory!Result(results[i]).seen = results[i].seen
      BY DEF Memory!Result
    <3> QED
      BY <1>1, <3>1, <3>2 DEF MemoryResults
  <2> HIDE DEF known1
  <2>7. {results[k].target : k \in K} = DOMAIN known1 \ S
    <3>1. \A i \in DOMAIN results : i \in K <=> results[i].target \notin S
      BY <2>4, <2>5, <2>6
    <3> QED
      BY <2>5, <3>1
  <2> HIDE DEF K
  <2>8. \A t \in DOMAIN known1 : known1[t].seen < c => known1[t].seen <= c
    BY <2>4, <2>5, <2>6
  <2>9. /\ MemoryInv' /\ DOMAIN known1' = DOMAIN known1 \ S
        /\ DOMAIN known1' = DOMAIN known1 \ S => known1' = [u \in DOMAIN known1 \ S |-> known1[u]]
    BY <2>2, <2>3, <2>7, PartForgets DEF known1
  <2>10. /\ S \in SUBSET {t \in DOMAIN known1 : known1[t].seen <= c}
         /\ {t \in DOMAIN known1 : known1[t].seen < c} \subseteq S
         /\ known1' = [u \in DOMAIN known1 \ S |-> known1[u]]
    BY <2>8, <2>9
  <2> HIDE DEF S
  <2>11. Memory!Abstract!Prune(c)
    BY <2>2, <2>10
       DEF known1, Memory!Abstract!Prune, Memory!Abstract!Without, StoreOf, TargetsIn, ResultOf, Memory!Kept
  <2>12. Memory!Abstract!StoreNext
    BY <2>11 DEF Memory!Abstract!StoreNext
  <2> QED
    BY <2>9, <2>12
<1>12. CASE Memory!Tick
  <2>1. results' = results /\ lastM' = [op |-> "tick"] /\ clockM' = clockM + 1 /\ clockM' \in 1..MaxTime
    BY <1>1, <1>12 DEF Memory!Tick
  <2>2. MemoryInv'
    BY <2>1 DEF MemoryInv
  <2>3. Memory!Abstract!Tick
    BY <2>1 DEF Memory!Abstract!Tick, Memory!Kept
  <2> QED
    BY <2>2, <2>3 DEF Memory!Abstract!StoreNext
<1> QED
  BY <1>6, <1>7, <1>8, <1>9, <1>10, <1>11, <1>12 DEF Memory!Next

LEMMA MemoryStarts ==
  ASSUME MemoryConstants, Memory!Init
  PROVE  MemoryInv /\ Memory!Abstract!StoreInit
<1>1. results = <<>> /\ Memory!Range(results) = {} /\ clockM = 1 /\ lastM = [op |-> "none"]
  BY DEF Memory!Init, Memory!Range
<1> QED
  BY <1>1 DEF MemoryInv, OneEach, MemoryConstants, Memory!Abstract!StoreInit

\* The places that count a port are as many as the hosts listed with it: the
\* host of a place is a bijection.
LEMMA MemoryCounts ==
  ASSUME MemoryConstants, MemoryInv
  PROVE  Memory!SummaryAgrees
<1> SUFFICES ASSUME NEW p \in Memory!Ports
             PROVE  Memory!Summary.ports[p]
                      = Cardinality({h \in DOMAIN Memory!Summary.hosts : p \in Memory!Summary.hosts[h].ports})
  BY SameCardinality DEF Memory!SummaryAgrees
<1> DEFINE Is(r) == r.available /\ r.target.mode = "tcp" /\ r.target.port = p
           P == {i \in DOMAIN results : Is(results[i])}
           H == {h \in DOMAIN Memory!Summary.hosts : p \in Memory!Summary.hosts[h].ports}
           f == [i \in P |-> results[i].target.host]
<1>1. /\ DOMAIN results = 1..Len(results) /\ Len(results) \in Nat
      /\ \A i \in DOMAIN results : results[i] \in MemoryResults
      /\ Memory!Range(results) = {results[i] : i \in DOMAIN results}
  BY DEF MemoryInv, OneEach, Memory!Range
<1>2. Memory!Summary.ports[p] = Cardinality(P)
  <2>1. Memory!Summary.ports[p] = Memory!Cardinality(P)
    BY DEF Memory!Summary
  <2> QED
    BY <2>1, SameCardinality
<1>3. H = {r.target.host : r \in {q \in Memory!Range(results) : Is(q)}}
  <2>1. DOMAIN Memory!Summary.hosts = {r.target.host : r \in Memory!Range(results)}
    BY DEF Memory!Summary
  <2>2. \A h \in DOMAIN Memory!Summary.hosts :
          Memory!Summary.hosts[h].ports = {r.target.port : r \in {q \in Memory!Range(results) :
            q.target.host = h /\ q.available /\ q.target.mode = "tcp"}}
    BY DEF Memory!Summary, Memory!Host
  <2> QED
    BY <2>1, <2>2
<1>4. H = {results[i].target.host : i \in P}
  BY <1>1, <1>3
<1>5. \A i, j \in P : f[i] = f[j] => i = j
  <2> SUFFICES ASSUME NEW i \in P, NEW j \in P, results[i].target.host = results[j].target.host PROVE i = j
    OBVIOUS
  <2>1. results[i].target \in Targets /\ results[j].target \in Targets
    BY <1>1 DEF MemoryResults
  <2>2. results[i].target = results[j].target
    BY <2>1 DEF MemoryConstants
  <2> QED
    BY <2>2 DEF MemoryInv, OneEach
<1> HIDE DEF H
<1>6. f \in Bijection(P, H)
  <2>1. f \in [P -> H] /\ \A h \in H : \E i \in P : f[i] = h
    BY <1>4
  <2> QED
    BY <1>5, <2>1 DEF Bijection, Injection, Surjection, IsInjective
<1>7. IsFiniteSet(P)
  <2>1. IsFiniteSet(1..Len(results))
    BY <1>1, FS_Interval
  <2> QED
    BY <1>1, <2>1, FS_Subset
<1> HIDE DEF P, f
<1>8. Cardinality(H) = Cardinality(P)
  BY <1>6, <1>7, FS_Bijection DEF ExistsBijection
<1> QED
  BY <1>2, <1>8 DEF H

-----------------------------------------------------------------------------
(* The SQLite store.                                                         *)

SqliteTyped ==
  /\ rows \in [DOMAIN rows -> [available : BOOLEAN, seen : 1..MaxTime]]
  /\ \A k \in DOMAIN rows : \E t \in Targets : Sqlite!Key(t) = k
  /\ clockQ \in 1..MaxTime
  /\ pruning \in {"none", "begun", "deleted"} /\ cutoff \in 0..clockQ
  /\ pruning = "deleted" => deleted = {k \in DOMAIN rows : rows[k].seen < cutoff}

\* The targets with a row, and their results: the store.
InRows == {t \in Targets : Sqlite!Key(t) \in DOMAIN rows}
Stored == [t \in InRows |-> rows[Sqlite!Key(t)]]

LEMMA RowTarget ==
  ASSUME SqliteConstants, NEW t \in Targets
  PROVE  Sqlite!TargetOf(Sqlite!Key(t)) = t
<1>1. Sqlite!TargetOf(Sqlite!Key(t)) \in Targets /\ Sqlite!Key(Sqlite!TargetOf(Sqlite!Key(t))) = Sqlite!Key(t)
  BY Zenon DEF Sqlite!TargetOf
<1> QED
  BY <1>1 DEF SqliteConstants

\* What a prune will delete is still all that is too old when it commits.
LEMMA SqliteKept ==
  ASSUME SqliteConstants, SqliteTyped, [Sqlite!Next]_Sqlite!vars
  PROVE  SqliteTyped'
<1>1. CASE \E t \in Targets, b \in BOOLEAN : Sqlite!SaveResult(t, b)
  <2>1. PICK t \in Targets, b \in BOOLEAN :
          /\ rows' = [k \in DOMAIN rows \cup {Sqlite!Key(t)} |->
                       IF k = Sqlite!Key(t) THEN [available |-> b, seen |-> clockQ] ELSE rows[k]]
          /\ pruning # "deleted" /\ UNCHANGED <<clockQ, pruning, cutoff>>
    BY <1>1 DEF Sqlite!SaveResult
  <2> DEFINE r == [available |-> b, seen |-> clockQ]
  <2>2. r \in [available : BOOLEAN, seen : 1..MaxTime]
    BY DEF SqliteTyped
  <2> HIDE DEF r
  <2>3. rows' = [k \in DOMAIN rows \cup {Sqlite!Key(t)} |-> IF k = Sqlite!Key(t) THEN r ELSE rows[k]]
    BY <2>1 DEF r
  <2> QED
    BY <2>1, <2>2, <2>3 DEF SqliteTyped
<1>2. CASE Sqlite!EndPrune
  <2>1. /\ pruning' = "none" /\ cutoff' = 0 /\ clockQ' = clockQ
        /\ rows' = rows \/ rows' = [k \in DOMAIN rows \ deleted |-> rows[k]]
    BY <1>2 DEF Sqlite!EndPrune
  <2>2. cutoff' \in 0..clockQ'
    BY <2>1 DEF SqliteTyped
  <2> QED
    BY <2>1, <2>2 DEF SqliteTyped
<1>3. CASE Sqlite!Tick
  <2>1. clockQ' = clockQ + 1 /\ clockQ < MaxTime /\ UNCHANGED <<rows, pruning, deleted, cutoff>>
    BY <1>3 DEF Sqlite!Tick
  <2>2. clockQ' \in 1..MaxTime /\ cutoff' \in 0..clockQ'
    BY <2>1 DEF SqliteTyped, SqliteConstants
  <2> QED
    BY <2>1, <2>2 DEF SqliteTyped
<1>4. CASE \E age \in 0..MaxTime : Sqlite!BeginPrune(age)
  <2>1. PICK age \in 0..MaxTime : cutoff' = clockQ - age /\ age <= clockQ
    BY <1>4 DEF Sqlite!BeginPrune
  <2>2. pruning' = "begun" /\ rows' = rows /\ clockQ' = clockQ
    BY <1>4 DEF Sqlite!BeginPrune
  <2>3. cutoff' \in 0..clockQ'
    BY <2>1, <2>2 DEF SqliteTyped, SqliteConstants
  <2> QED
    BY <2>2, <2>3 DEF SqliteTyped
<1>5. CASE Sqlite!DeleteOld
  BY <1>5 DEF Sqlite!DeleteOld, SqliteTyped
<1>6. CASE UNCHANGED Sqlite!vars \/ \E f \in Filters : Sqlite!GetResults(f)
  BY <1>6 DEF Sqlite!vars, Sqlite!GetResults, SqliteTyped
<1> QED
  BY <1>1, <1>2, <1>3, <1>4, <1>5, <1>6 DEF Sqlite!Next

\* A condition of the query that is left out and a field of the filter that is
\* empty are the same.
LEMMA SelectedMatch ==
  ASSUME SqliteConstants, SqliteTyped, NEW f \in Filters, NEW t \in InRows
  PROVE  Sqlite!Key(t) \in Sqlite!Selected(f) <=> Sqlite!Abstract!Matches(f, t, Stored[t])
<1>1. Sqlite!Key(t) \in DOMAIN rows /\ Stored[t] = rows[Sqlite!Key(t)] /\ rows[Sqlite!Key(t)].seen \in Nat
  BY DEF InRows, Stored, SqliteTyped
<1>2. Sqlite!Key(t)[1] = t.host /\ Sqlite!Key(t)[2] = t.port
  BY DEF Sqlite!Key
<1>3. f.from \in Nat /\ f.to \in Nat
  BY DEF SqliteConstants
<1> QED
  BY <1>1, <1>2, <1>3 DEF Sqlite!Selected, Sqlite!Abstract!Matches

LEMMA SqliteSteps ==
  ASSUME SqliteConstants, SqliteTyped, [Sqlite!Next]_Sqlite!vars
  PROVE  [Sqlite!Abstract!StoreNext]_Sqlite!Abstract!storeVars
<1> USE DEF Sqlite!Abstract!storeVars
<1>1. ASSUME NEW t \in Targets, NEW b \in BOOLEAN, Sqlite!SaveResult(t, b) PROVE Sqlite!Abstract!StoreNext
  <2> DEFINE r == [available |-> b, seen |-> clockQ]
  <2>1. /\ rows' = [k \in DOMAIN rows \cup {Sqlite!Key(t)} |-> IF k = Sqlite!Key(t) THEN r ELSE rows[k]]
        /\ lastQ' = [op |-> "save", target |-> t, available |-> b] /\ clockQ' = clockQ
    BY <1>1 DEF Sqlite!SaveResult
  <2> HIDE DEF r
  <2>2. InRows' = InRows \cup {t}
    BY <2>1 DEF InRows, SqliteConstants
  <2>3. \A u \in InRows' : Stored'[u] = IF u = t THEN r ELSE Stored[u]
    BY <2>1, <2>2 DEF Stored, InRows, SqliteConstants
  <2>4. Stored' = [u \in InRows \cup {t} |-> IF u = t THEN r ELSE Stored[u]]
    BY <2>2, <2>3 DEF Stored
  <2>5. Sqlite!Abstract!Save(t, b)
    BY <2>1, <2>4 DEF Sqlite!Abstract!Save, Stored, InRows, r
  <2> QED
    BY <2>5 DEF Sqlite!Abstract!StoreNext
<1>2. ASSUME Sqlite!EndPrune, pruning = "deleted", rows' = [k \in DOMAIN rows \ deleted |-> rows[k]],
             lastQ' = [op |-> "prune", cutoff |-> cutoff]
      PROVE  Sqlite!Abstract!StoreNext
  <2> DEFINE S == {t \in InRows : Stored[t].seen < cutoff}
  <2>1. clockQ' = clockQ /\ cutoff \in 0..clockQ
    BY <1>2 DEF Sqlite!EndPrune, SqliteTyped
  <2>2. \A t \in InRows : Stored[t].seen < cutoff <=> Sqlite!Key(t) \in deleted
    BY <1>2 DEF SqliteTyped, InRows, Stored
  <2>3. Stored' = [u \in InRows \ S |-> Stored[u]]
    BY <1>2, <2>2 DEF Stored, InRows
  <2>4. \A t \in InRows : Stored[t].seen < cutoff => Stored[t].seen <= cutoff
    BY <2>1 DEF SqliteTyped, InRows, Stored
  <2>5. /\ S \in SUBSET {t \in DOMAIN Stored : Stored[t].seen <= cutoff}
        /\ {t \in DOMAIN Stored : Stored[t].seen < cutoff} \subseteq S
        /\ Stored' = [u \in DOMAIN Stored \ S |-> Stored[u]]
    BY <2>3, <2>4 DEF Stored
  <2> HIDE DEF S
  <2>6. Sqlite!Abstract!Prune(cutoff)
    BY <1>2, <2>1, <2>5 DEF Sqlite!Abstract!Prune, Sqlite!Abstract!Without, Stored, InRows
  <2> QED
    BY <2>1, <2>6 DEF Sqlite!Abstract!StoreNext
<1>3. ASSUME NEW f \in Filters, Sqlite!GetResults(f) PROVE Sqlite!Abstract!StoreNext
  <2>1. PICK read \in Sqlite!NewestFirst(Sqlite!Selected(f)) :
          /\ lastQ' = [op |-> "query", filter |-> f,
                       found |-> {[target |-> Sqlite!TargetOf(k), result |-> rows[k]] : k \in read}]
          /\ rows' = rows /\ clockQ' = clockQ
    BY <1>3 DEF Sqlite!GetResults
  <2> DEFINE found == {[target |-> t, result |-> Stored[t]] :
                         t \in {u \in InRows : Sqlite!Abstract!Matches(f, u, Stored[u])}}
             answer == {[target |-> Sqlite!TargetOf(k), result |-> rows[k]] : k \in read}
  <2>2. read \subseteq Sqlite!Selected(f) /\ Sqlite!Selected(f) \subseteq DOMAIN rows
        /\ \A x \in read, y \in Sqlite!Selected(f) \ read : rows[y].seen <= rows[x].seen
    BY DEF Sqlite!NewestFirst, Sqlite!Selected
  <2>3. \A k \in Sqlite!Selected(f) :
          /\ Sqlite!TargetOf(k) \in InRows /\ Sqlite!Key(Sqlite!TargetOf(k)) = k
          /\ rows[k] = Stored[Sqlite!TargetOf(k)]
    BY <2>2, RowTarget DEF SqliteTyped, InRows, Stored
  <2>4. answer \in SUBSET found
    BY <2>1, <2>2, <2>3, SelectedMatch
  <2>5. ASSUME NEW x \in answer, NEW y \in found \ answer PROVE y.result.seen <= x.result.seen
    <3>1. PICK k \in read : x = [target |-> Sqlite!TargetOf(k), result |-> rows[k]]
      BY <2>1
    <3>2. PICK t \in InRows : Sqlite!Abstract!Matches(f, t, Stored[t]) /\ y = [target |-> t, result |-> Stored[t]]
      BY <2>5
    <3>3. Sqlite!Key(t) \in Sqlite!Selected(f) /\ Sqlite!TargetOf(Sqlite!Key(t)) = t /\ rows[Sqlite!Key(t)] = Stored[t]
      BY <3>2, SelectedMatch, RowTarget DEF InRows, Stored
    <3>4. Sqlite!Key(t) \notin read
      BY <2>1, <2>5, <3>2, <3>3
    <3> QED
      BY <2>2, <3>1, <3>2, <3>3, <3>4
  <2>6. Stored' = Stored
    BY <2>1 DEF Stored, InRows
  <2>7. lastQ' = [op |-> "query", filter |-> f, found |-> answer]
    BY <2>1
  <2> HIDE DEF answer
  <2>8. Sqlite!Abstract!Query(f)
    BY <2>1, <2>4, <2>5, <2>6, <2>7 DEF Sqlite!Abstract!Query, Stored, InRows
  <2> QED
    BY <2>8 DEF Sqlite!Abstract!StoreNext
<1>4. CASE UNCHANGED <<rows, lastQ, clockQ>>
  BY <1>4
<1>5. CASE UNCHANGED Sqlite!vars \/ Sqlite!DeleteOld \/ \E age \in 0..MaxTime : Sqlite!BeginPrune(age)
  BY <1>4, <1>5 DEF Sqlite!vars, Sqlite!DeleteOld, Sqlite!BeginPrune
<1>6. CASE Sqlite!EndPrune
  BY <1>2, <1>4, <1>6 DEF Sqlite!EndPrune
<1>7. CASE Sqlite!Tick
  <2>1. rows' = rows /\ lastQ' = [op |-> "tick"] /\ clockQ' = clockQ + 1
    BY <1>7 DEF Sqlite!Tick
  <2>2. Sqlite!Abstract!Tick
    BY <2>1 DEF Sqlite!Abstract!Tick
  <2> QED
    BY <2>2 DEF Sqlite!Abstract!StoreNext
<1> QED
  BY <1>1, <1>3, <1>5, <1>6, <1>7 DEF Sqlite!Next

-----------------------------------------------------------------------------
(* The points of a node's metrics.                                           *)

\* Numbers with one remainder are a multiple of Size apart.
LEMMA SameRemainder ==
  ASSUME RingConstants, NEW a \in Nat, NEW b \in Nat, a % Size = b % Size, a < b
  PROVE  a + Size <= b
<1> DEFINE j == a \div Size  k == b \div Size  t == a % Size
<1>1. /\ Size \in Nat \ {0} /\ j \in Nat /\ k \in Nat /\ t \in 0..(Size - 1)
      /\ a = Size * j + t /\ b = Size * k + t
  BY DEF RingConstants
<1> HIDE DEF j, k, t
<1>2. Size * j \in Int /\ Size * k \in Int
  BY <1>1
<1>3. Size * j < Size * k
  BY <1>1, <1>2
<1>4. k - j >= 1
  <2> SUFFICES ASSUME j - k >= 0 PROVE FALSE
    BY <1>1
  <2>1. Size * (j - k) >= 0 /\ Size * (j - k) = Size * j - Size * k
    BY <1>1
  <2> QED
    BY <1>2, <1>3, <2>1
<1>5. Size * (k - j) >= Size * 1 /\ Size * (k - j) = Size * k - Size * j
  BY <1>1, <1>4
<1> QED
  BY <1>1, <1>2, <1>5

LEMMA ShiftedRemainder ==
  ASSUME RingConstants, NEW a \in Nat
  PROVE  (a + Size) % Size = a % Size
<1> DEFINE j == a \div Size  t == a % Size  k == (a + Size) \div Size  u == (a + Size) % Size
<1>1. /\ Size \in Nat \ {0} /\ j \in Nat /\ k \in Nat /\ t \in 0..(Size - 1) /\ u \in 0..(Size - 1)
      /\ a = Size * j + t /\ a + Size = Size * k + u
  BY DEF RingConstants
<1> HIDE DEF j, k, t, u
<1>2. /\ Size * j \in Int /\ Size * k \in Int
      /\ Size * (k - j - 1) = Size * k - Size * j - Size
  BY <1>1
<1>3. Size * (k - j - 1) = t - u
  BY <1>1, <1>2
<1>4. ~(k - j - 1 >= 1)
  <2> SUFFICES ASSUME k - j - 1 >= 1 PROVE FALSE
    OBVIOUS
  <2>1. Size * (k - j - 1) >= Size * 1
    BY <1>1
  <2> QED
    BY <1>1, <1>3, <2>1
<1>5. ~(k - j - 1 <= -1)
  <2> SUFFICES ASSUME (j + 1) - k >= 1 PROVE FALSE
    BY <1>1
  <2>1. Size * ((j + 1) - k) >= Size * 1 /\ Size * ((j + 1) - k) = Size * j + Size - Size * k
    BY <1>1
  <2> QED
    BY <1>1, <1>2, <1>3, <2>1
<1>6. k - j - 1 = 0 /\ Size * 0 = 0
  BY <1>1, <1>4, <1>5
<1>7. t = u
  BY <1>1, <1>3, <1>6
<1> QED
  BY <1>7 DEF t, u

\* Slots, and what a reader finds i points behind position p if it is of that slot.
LEMMA SlotFacts ==
  ASSUME RingConstants
  PROVE  \A k \in Nat : Ring!Slot(k) \in Ring!Places
<1>1. \A k \in Nat : (k % Size) \in 0..(Size - 1)
  BY DEF RingConstants
<1> QED
  BY <1>1 DEF Ring!Slot, Ring!Places

LEMMA BehindFacts ==
  ASSUME RingConstants, NEW p \in Nat, NEW i \in 0..(Size - 1)
  PROVE  /\ Ring!Behind(p, i) \in Ring!Places
         /\ p - i - 1 >= 0 => Ring!Behind(p, i) = Ring!Slot(p - i - 1)
         /\ \A v \in Nat : Ring!Slot(v) = Ring!Behind(p, i) /\ v > p - i - 1 => v >= p
<1> DEFINE w == p - i - 1 + Size
<1>1. Size \in Nat \ {0} /\ i \in Nat /\ w \in Nat /\ w >= p /\ w = (p - i - 1) + Size
  BY DEF RingConstants
<1>2. Ring!Behind(p, i) = w % Size /\ \A v \in Nat : Ring!Slot(v) = v % Size
  BY DEF Ring!Behind, Ring!Slot
<1>3. Ring!Behind(p, i) = Ring!Slot(w)
  BY <1>1, <1>2
<1> HIDE DEF w
<1>4. ASSUME p - i - 1 >= 0 PROVE Ring!Behind(p, i) = Ring!Slot(p - i - 1)
  <2>1. p - i - 1 \in Nat
    BY <1>1, <1>4
  <2>2. ((p - i - 1) + Size) % Size = (p - i - 1) % Size
    BY <2>1, ShiftedRemainder
  <2> QED
    BY <1>1, <1>2, <2>1, <2>2
<1>5. ASSUME NEW v \in Nat, Ring!Slot(v) = Ring!Behind(p, i), v > p - i - 1, v < p PROVE FALSE
  <2>1. v < w /\ v % Size = w % Size
    BY <1>1, <1>2, <1>5
  <2>2. v + Size <= w
    BY <1>1, <2>1, SameRemainder
  <2> QED
    BY <1>1, <1>5, <2>2
<1>6. Ring!Behind(p, i) \in Ring!Places
  BY <1>1, <1>3, SlotFacts
<1> QED
  BY <1>4, <1>5, <1>6

RingCall == [pos : Nat, count : Nat, next : Nat, inFlight : SUBSET Int, answer : [Ring!Places -> Int]]

RingTyped ==
  /\ pos \in Nat /\ adding \in [Adders -> Nat \cup {-1}]
  /\ \A a \in Adders : adding[a] < pos
  /\ ring \in [Ring!Places -> Nat \cup {-1}]
  /\ reading \in [Readers -> RingCall]

\* A slot has a point of its own, unless it has none: no older one than those
\* that were stored, but for a point that was stored when its slot was no longer
\* its own.
SlotsHaveTheirs == \A s \in Ring!Places : ring[s] = -1 \/ Ring!Slot(ring[s]) = s
SlotsHaveLatest ==
  \A k \in 0..(pos - 1) :
    ring[Ring!Slot(k)] >= k \/ k \in Ring!InFlight \/ ring[Ring!Slot(k)] \in overtaken
LateOvertaken ==
  \A v \in Ring!InFlight : \A k \in 0..(pos - 1) :
    Ring!Slot(k) = Ring!Slot(v) /\ k > v => v \in overtaken

\* A reader knows which points of before it are still to come.
ReadersKnow ==
  \A r \in Readers :
    /\ reading[r].pos <= pos /\ reading[r].next <= reading[r].count /\ reading[r].count <= Size
    /\ \A k \in Ring!InFlight : k < reading[r].pos => k \in reading[r].inFlight

RingInv ==
  RingTyped /\ SlotsHaveTheirs /\ SlotsHaveLatest /\ LateOvertaken /\ ReadersKnow /\ Ring!ReadsLatest

LEMMA RingStarts ==
  ASSUME RingConstants, Ring!Init
  PROVE  RingInv
<1>1. Size \in Nat \ {0} /\ Ring!InFlight = {}
  BY DEF RingConstants, Ring!Init, Ring!InFlight, Ring!NoPoint
<1>2. Ring!NoCall \in RingCall /\ Ring!NoCall.next = 0 /\ Ring!NoCall.pos = 0 /\ Ring!NoCall.count = 0
  BY DEF Ring!NoCall, RingCall, Ring!Zero
<1>3. /\ pos = 0 /\ adding = [a \in Adders |-> -1] /\ ring = [s \in Ring!Places |-> -1]
      /\ reading = [r \in Readers |-> Ring!NoCall]
  BY DEF Ring!Init, Ring!NoPoint, Ring!Zero
<1>4. \A r \in Readers : reading[r] = Ring!NoCall
  BY <1>3
<1>5. RingTyped
  BY <1>2, <1>3 DEF RingTyped
<1>6. SlotsHaveTheirs /\ SlotsHaveLatest /\ LateOvertaken
  BY <1>1, <1>3 DEF SlotsHaveTheirs, SlotsHaveLatest, LateOvertaken
<1>7. ReadersKnow /\ Ring!ReadsLatest
  BY <1>1, <1>2, <1>3, <1>4 DEF ReadersKnow, Ring!ReadsLatest
<1> QED
  BY <1>5, <1>6, <1>7 DEF RingInv

\* What was read stays explained.
LEMMA AnswersStay ==
  ASSUME Ring!ReadsLatest, reading' = reading, overtaken \subseteq overtaken'
  PROVE  Ring!ReadsLatest'
BY DEF Ring!ReadsLatest

\* An Add takes the next position: whoever still has a point for its slot is
\* overtaken.
LEMMA ClaimKeeps ==
  ASSUME RingConstants, RingInv, NEW a \in Adders, Ring!Claim(a)
  PROVE  RingInv'
<1>1. /\ adding[a] = -1 /\ adding' = [adding EXCEPT ![a] = pos] /\ pos' = pos + 1
      /\ overtaken' = overtaken \cup {k \in Ring!InFlight : Ring!Slot(k) = Ring!Slot(pos)}
      /\ ring' = ring /\ reading' = reading
  BY DEF Ring!Claim, Ring!NoPoint
<1>2. RingTyped /\ SlotsHaveTheirs /\ SlotsHaveLatest /\ LateOvertaken /\ ReadersKnow /\ Ring!ReadsLatest
  BY DEF RingInv
<1>3. pos \in Nat /\ \A v \in Ring!InFlight : v \in Nat /\ v < pos
  BY <1>2 DEF RingTyped, Ring!InFlight, Ring!NoPoint
<1>4. Ring!InFlight' = Ring!InFlight \cup {pos}
  <2>1. \A b \in Adders : adding'[b] = IF b = a THEN pos ELSE adding[b]
    BY <1>1, <1>2 DEF RingTyped
  <2>2. pos # -1
    BY <1>3
  <2> QED
    BY <1>1, <2>1, <2>2 DEF Ring!InFlight, Ring!NoPoint
<1>5. \A k \in 0..(pos' - 1) : k \in 0..(pos - 1) \/ k = pos
  BY <1>1, <1>3
<1>6. RingTyped'
  BY <1>1, <1>2, <1>3 DEF RingTyped, RingCall, Ring!Places
<1>7. SlotsHaveTheirs'
  BY <1>1, <1>2 DEF SlotsHaveTheirs, Ring!Places, Ring!Slot
<1>8. SlotsHaveLatest'
  <2> SUFFICES ASSUME NEW k \in 0..(pos' - 1)
               PROVE  \/ ring[Ring!Slot(k)] >= k \/ k \in Ring!InFlight'
                      \/ ring[Ring!Slot(k)] \in overtaken'
    BY <1>1 DEF SlotsHaveLatest, Ring!Slot
  <2>1. CASE k = pos
    BY <1>4, <2>1
  <2>2. CASE k \in 0..(pos - 1)
    BY <1>1, <1>2, <1>4, <2>2 DEF SlotsHaveLatest
  <2> QED
    BY <1>5, <2>1, <2>2
<1>9. LateOvertaken'
  <2> SUFFICES ASSUME NEW v \in Ring!InFlight', NEW k \in 0..(pos' - 1), Ring!Slot(k) = Ring!Slot(v), k > v
               PROVE  v \in overtaken'
    BY DEF LateOvertaken, Ring!Slot
  <2>1. v \in Ring!InFlight
    BY <1>1, <1>3, <1>4
  <2>2. CASE k = pos
    BY <1>1, <2>1, <2>2
  <2>3. CASE k \in 0..(pos - 1)
    BY <1>1, <1>2, <2>1, <2>3 DEF LateOvertaken
  <2> QED
    BY <1>5, <2>2, <2>3
<1>10. ReadersKnow'
  <2> SUFFICES ASSUME NEW r \in Readers
               PROVE  /\ reading[r].pos <= pos' /\ reading[r].next <= reading[r].count /\ reading[r].count <= Size
                      /\ \A k \in Ring!InFlight' : k < reading[r].pos => k \in reading[r].inFlight
    BY <1>1 DEF ReadersKnow
  <2>1. reading[r].pos \in Nat /\ reading[r].pos <= pos
    BY <1>2 DEF RingTyped, RingCall, ReadersKnow
  <2>2. ~(pos < reading[r].pos) /\ reading[r].pos <= pos'
    BY <1>1, <1>3, <2>1
  <2> QED
    BY <1>2, <1>4, <2>2 DEF ReadersKnow
<1>11. Ring!ReadsLatest'
  BY <1>1, <1>2, AnswersStay
<1> QED
  BY <1>6, <1>7, <1>8, <1>9, <1>10, <1>11 DEF RingInv

\* Its point is stored: it is the latest of its slot, or it was overtaken.
LEMMA StoreKeeps ==
  ASSUME RingConstants, RingInv, NEW a \in Adders, Ring!Store(a)
  PROVE  RingInv'
<1> DEFINE v == adding[a]
<1>1. /\ v # -1 /\ ring' = [ring EXCEPT ![Ring!Slot(v)] = v] /\ adding' = [adding EXCEPT ![a] = -1]
      /\ pos' = pos /\ reading' = reading /\ overtaken' = overtaken
  BY DEF Ring!Store, Ring!NoPoint
<1>2. RingTyped /\ SlotsHaveTheirs /\ SlotsHaveLatest /\ LateOvertaken /\ ReadersKnow /\ Ring!ReadsLatest
  BY DEF RingInv
<1>3. pos \in Nat /\ v \in Nat /\ v < pos /\ v \in Ring!InFlight /\ Ring!Slot(v) \in Ring!Places
  BY <1>1, <1>2, SlotFacts DEF RingTyped, Ring!InFlight, Ring!NoPoint
<1>4. Ring!InFlight' \subseteq Ring!InFlight /\ \A k \in Ring!InFlight : k # v => k \in Ring!InFlight'
  <2>1. \A b \in Adders : adding'[b] = IF b = a THEN -1 ELSE adding[b]
    BY <1>1, <1>2 DEF RingTyped
  <2> HIDE DEF v
  <2>2. v = adding[a]
    BY DEF v
  <2> QED
    BY <2>1, <2>2 DEF Ring!InFlight, Ring!NoPoint
<1>5. \A s \in Ring!Places : ring'[s] = IF s = Ring!Slot(v) THEN v ELSE ring[s]
  BY <1>1, <1>2 DEF RingTyped
<1> HIDE DEF v
<1>6. RingTyped'
  <2>1. adding' \in [Adders -> Nat \cup {-1}] /\ \A b \in Adders : adding'[b] < pos'
    BY <1>1, <1>2, <1>3 DEF RingTyped
  <2>2. ring' \in [Ring!Places -> Nat \cup {-1}]
    BY <1>1, <1>2, <1>3 DEF RingTyped
  <2> QED
    BY <1>1, <1>2, <2>1, <2>2 DEF RingTyped, RingCall, Ring!Places
<1>7. SlotsHaveTheirs'
  BY <1>2, <1>5 DEF SlotsHaveTheirs, Ring!Places, Ring!Slot
<1>8. SlotsHaveLatest'
  <2> SUFFICES ASSUME NEW k \in 0..(pos - 1)
               PROVE  \/ ring'[Ring!Slot(k)] >= k \/ k \in Ring!InFlight'
                      \/ ring'[Ring!Slot(k)] \in overtaken
    BY <1>1 DEF SlotsHaveLatest, Ring!Slot
  <2>1. k \in Nat /\ Ring!Slot(k) \in Ring!Places
    BY <1>3, SlotFacts
  <2>2. CASE Ring!Slot(k) = Ring!Slot(v)
    <3>1. ring'[Ring!Slot(k)] = v
      BY <1>5, <2>1, <2>2
    <3>2. v >= k \/ v \in overtaken
      BY <1>2, <1>3, <2>1, <2>2 DEF LateOvertaken
    <3> QED
      BY <3>1, <3>2
  <2>3. CASE Ring!Slot(k) # Ring!Slot(v)
    <3>1. ring'[Ring!Slot(k)] = ring[Ring!Slot(k)] /\ k # v
      BY <1>5, <2>1, <2>3
    <3> QED
      BY <1>2, <1>4, <3>1 DEF SlotsHaveLatest
  <2> QED
    BY <2>2, <2>3
<1>9. LateOvertaken'
  BY <1>1, <1>2, <1>4 DEF LateOvertaken, Ring!Slot
<1>10. ReadersKnow'
  BY <1>1, <1>2, <1>4 DEF ReadersKnow
<1>11. Ring!ReadsLatest'
  BY <1>1, <1>2, AnswersStay
<1> QED
  BY <1>6, <1>7, <1>8, <1>9, <1>10, <1>11 DEF RingInv

\* A call begins: it knows what is still to come.
LEMMA LoadPositionKeeps ==
  ASSUME RingConstants, RingInv, NEW r \in Readers, Ring!LoadPosition(r)
  PROVE  RingInv'
<1>1. PICK asked \in {1, Size} :
        reading' = [reading EXCEPT ![r] =
          [Ring!NoCall EXCEPT !.pos = pos, !.count = asked, !.inFlight = Ring!InFlight]]
  BY DEF Ring!LoadPosition
<1>2. ring' = ring /\ pos' = pos /\ adding' = adding /\ overtaken' = overtaken
  BY DEF Ring!LoadPosition
<1>3. RingTyped /\ SlotsHaveTheirs /\ SlotsHaveLatest /\ LateOvertaken /\ ReadersKnow /\ Ring!ReadsLatest
  BY DEF RingInv
<1> DEFINE new == [Ring!NoCall EXCEPT !.pos = pos, !.count = asked, !.inFlight = Ring!InFlight]
<1>4. /\ new.pos = pos /\ new.count = asked /\ new.next = 0 /\ new.inFlight = Ring!InFlight
      /\ new \in RingCall
  <2>1. Ring!NoCall \in RingCall /\ Ring!NoCall.next = 0
    BY DEF Ring!NoCall, RingCall, Ring!Zero
  <2>2. pos \in Nat /\ asked \in Nat /\ Ring!InFlight \subseteq Int
    BY <1>3 DEF RingTyped, RingConstants, Ring!InFlight
  <2> QED
    BY <2>1, <2>2 DEF RingCall
<1>5. reading' \in [Readers -> RingCall] /\ \A q \in Readers : reading'[q] = IF q = r THEN new ELSE reading[q]
  <2> HIDE DEF new
  <2>1. reading' = [reading EXCEPT ![r] = new]
    BY <1>1 DEF new
  <2> QED
    BY <1>3, <1>4, <2>1 DEF RingTyped
<1> HIDE DEF new
<1>6. Ring!InFlight' = Ring!InFlight
  BY <1>2 DEF Ring!InFlight
<1>7. RingTyped'
  BY <1>2, <1>3, <1>5 DEF RingTyped, RingCall, Ring!Places
<1>8. SlotsHaveTheirs' /\ SlotsHaveLatest' /\ LateOvertaken'
  BY <1>2, <1>3, <1>6 DEF SlotsHaveTheirs, SlotsHaveLatest, LateOvertaken, Ring!Places, Ring!Slot
<1>9. ReadersKnow'
  <2>1. asked \in 1..Size /\ pos \in Nat
    BY <1>3 DEF RingConstants, RingTyped
  <2> QED
    BY <1>2, <1>3, <1>4, <1>5, <1>6, <2>1 DEF ReadersKnow
<1>10. Ring!ReadsLatest'
  <2> SUFFICES ASSUME NEW q \in Readers, NEW i \in 0..(reading'[q].next - 1)
               PROVE  LET call_ == reading'[q]
                          wanted == call_.pos - i - 1
                          got == call_.answer[i]
                      IN  /\ got < wanted => wanted \in call_.inFlight \/ got \in overtaken
                          /\ got > wanted /\ got # Ring!Zero => got >= call_.pos
    BY <1>2 DEF Ring!ReadsLatest, Ring!Zero
  <2>1. q # r
    BY <1>4, <1>5
  <2> QED
    BY <1>3, <1>5, <2>1 DEF Ring!ReadsLatest
<1> QED
  BY <1>7, <1>8, <1>9, <1>10 DEF RingInv

\* A point is read: the slot has the wanted one, or there is a reason.
LEMMA LoadPointKeeps ==
  ASSUME RingConstants, RingInv, NEW r \in Readers, Ring!LoadPoint(r)
  PROVE  RingInv'
<1> DEFINE c == reading[r]  i == c.next  got == ring[Ring!Behind(c.pos, i)]
<1>1. /\ c.next < c.count
      /\ reading' = [reading EXCEPT ![r].answer[i] = got, ![r].next = @ + 1]
      /\ ring' = ring /\ pos' = pos /\ adding' = adding /\ overtaken' = overtaken
  BY DEF Ring!LoadPoint
<1>2. RingTyped /\ SlotsHaveTheirs /\ SlotsHaveLatest /\ LateOvertaken /\ ReadersKnow /\ Ring!ReadsLatest
  BY DEF RingInv
<1>3. /\ c \in RingCall /\ c.pos \in Nat /\ i \in Nat /\ c.count \in Nat /\ Size \in Nat /\ pos \in Nat
      /\ c.pos <= pos /\ c.count <= Size /\ i < Size /\ i \in Ring!Places
  <2>1. c \in RingCall /\ Size \in Nat /\ pos \in Nat /\ c.pos <= pos /\ c.count <= Size
    BY <1>2 DEF RingTyped, ReadersKnow, RingConstants
  <2>2. c.pos \in Nat /\ i \in Nat /\ c.count \in Nat
    BY <2>1 DEF RingCall
  <2> QED
    BY <1>1, <2>1, <2>2 DEF Ring!Places
<1> DEFINE wanted == c.pos - i - 1
<1>4. /\ Ring!Behind(c.pos, i) \in Ring!Places
      /\ wanted >= 0 => Ring!Behind(c.pos, i) = Ring!Slot(wanted)
      /\ \A v \in Nat : Ring!Slot(v) = Ring!Behind(c.pos, i) /\ v > wanted => v >= c.pos
  BY <1>3, BehindFacts DEF Ring!Places
<1>5. got \in Nat \cup {-1} /\ (got # -1 => Ring!Slot(got) = Ring!Behind(c.pos, i))
  BY <1>2, <1>4 DEF RingTyped, SlotsHaveTheirs
<1>6. got > wanted /\ got # -1 => got >= c.pos
  BY <1>4, <1>5
<1>7. got < wanted => wanted \in c.inFlight \/ got \in overtaken
  <2> SUFFICES ASSUME got < wanted PROVE wanted \in c.inFlight \/ got \in overtaken
    OBVIOUS
  <2>1. wanted \in 0..(pos - 1) /\ wanted < c.pos
    BY <1>3, <1>5
  <2>2. got = ring[Ring!Slot(wanted)]
    BY <1>4, <2>1
  <2> HIDE DEF got, wanted
  <2>3. ~(got >= wanted)
    BY <1>5, <2>1
  <2>4. wanted \in Ring!InFlight \/ got \in overtaken
    BY <1>2, <2>1, <2>2, <2>3 DEF SlotsHaveLatest
  <2> QED
    BY <1>2, <2>1, <2>4 DEF ReadersKnow
<1> DEFINE new == reading'[r]
<1>8. /\ new \in RingCall /\ new.pos = c.pos /\ new.count = c.count /\ new.inFlight = c.inFlight
      /\ new.next = i + 1 /\ new.answer[i] = got
      /\ \A j \in Ring!Places : j # i => new.answer[j] = c.answer[j]
      /\ \A q \in Readers : q # r => reading'[q] = reading[q]
      /\ reading' \in [Readers -> RingCall]
  <2> HIDE DEF got
  <2>1. got \in Int
    BY <1>5
  <2>2. new = [c EXCEPT !.answer[i] = got, !.next = @ + 1]
    BY <1>1, <1>2 DEF RingTyped
  <2>3. /\ new \in RingCall /\ new.pos = c.pos /\ new.count = c.count /\ new.inFlight = c.inFlight
        /\ new.next = i + 1 /\ new.answer = [c.answer EXCEPT ![i] = got]
    <3> HIDE DEF new, c, i
    <3>1. c \in RingCall /\ i + 1 \in Nat /\ i \in Ring!Places
      BY <1>3
    <3>2. new = [c EXCEPT !.answer[i] = got, !.next = i + 1]
      BY <2>2 DEF i
    <3> QED
      BY <2>1, <3>1, <3>2 DEF RingCall
  <2>4. c.answer \in [Ring!Places -> Int]
    BY <1>3 DEF RingCall
  <2>5. DOMAIN reading' = Readers /\ reading' = [q \in Readers |-> reading'[q]]
        /\ \A q \in Readers : q # r => reading'[q] = reading[q]
    BY <1>1, <1>2 DEF RingTyped
  <2>6. \A q \in Readers : reading'[q] \in RingCall
    BY <1>2, <2>3, <2>5 DEF RingTyped
  <2> QED
    BY <1>3, <2>3, <2>4, <2>5, <2>6
<1> HIDE DEF new
<1>9. Ring!InFlight' = Ring!InFlight
  BY <1>1 DEF Ring!InFlight
<1>10. RingTyped'
  BY <1>1, <1>2, <1>8 DEF RingTyped, RingCall, Ring!Places
<1>11. SlotsHaveTheirs' /\ SlotsHaveLatest' /\ LateOvertaken'
  BY <1>1, <1>2, <1>9 DEF SlotsHaveTheirs, SlotsHaveLatest, LateOvertaken, Ring!Places, Ring!Slot
<1>12. new = reading'[r]
  BY DEF new
<1> HIDE DEF c, i, got, wanted
<1>13. ReadersKnow'
  <2> SUFFICES ASSUME NEW q \in Readers
               PROVE  /\ reading'[q].pos <= pos /\ reading'[q].next <= reading'[q].count
                      /\ reading'[q].count <= Size
                      /\ \A k \in Ring!InFlight : k < reading'[q].pos => k \in reading'[q].inFlight
    BY <1>1, <1>9 DEF ReadersKnow
  <2>1. CASE q # r
    BY <1>2, <1>8, <2>1 DEF ReadersKnow
  <2>2. CASE q = r
    <3>1. i + 1 <= c.count
      BY <1>1, <1>3 DEF i
    <3>2. \A k \in Ring!InFlight : k < c.pos => k \in c.inFlight
      BY <1>2 DEF ReadersKnow, c
    <3> QED
      BY <1>3, <1>8, <1>12, <2>2, <3>1, <3>2
  <2> QED
    BY <2>1, <2>2
<1>14. Ring!ReadsLatest'
  <2> SUFFICES ASSUME NEW q \in Readers, NEW j \in 0..(reading'[q].next - 1)
               PROVE  LET call_ == reading'[q]
                          wanted_ == call_.pos - j - 1
                          got_ == call_.answer[j]
                      IN  /\ got_ < wanted_ => wanted_ \in call_.inFlight \/ got_ \in overtaken
                          /\ got_ > wanted_ /\ got_ # Ring!Zero => got_ >= call_.pos
    BY <1>1 DEF Ring!ReadsLatest, Ring!Zero
  <2>1. CASE q # r
    BY <1>2, <1>8, <2>1 DEF Ring!ReadsLatest
  <2>2. CASE q = r /\ j = i
    BY <1>6, <1>7, <1>8, <1>12, <2>2 DEF Ring!Zero, wanted
  <2>3. CASE q = r /\ j # i
    <3>1. j \in 0..(c.next - 1) /\ j \in Ring!Places
      BY <1>3, <1>8, <1>12, <2>3 DEF i, Ring!Places
    <3>2. new.answer[j] = c.answer[j]
      BY <1>8, <2>3, <3>1
    <3> QED
      BY <1>2, <1>8, <1>12, <2>3, <3>1, <3>2 DEF Ring!ReadsLatest, c
  <2> QED
    BY <2>1, <2>2, <2>3
<1> QED
  BY <1>10, <1>11, <1>13, <1>14 DEF RingInv

LEMMA RingKept ==
  ASSUME RingConstants, RingInv, [Ring!Next]_(Ring!vars)
  PROVE  RingInv'
<1>1. ASSUME UNCHANGED Ring!vars PROVE RingInv'
  <2>1. ring' = ring /\ pos' = pos /\ adding' = adding /\ reading' = reading /\ overtaken' = overtaken
    BY <1>1 DEF Ring!vars
  <2>2. Ring!InFlight' = Ring!InFlight /\ Ring!ReadsLatest'
    BY <2>1, AnswersStay DEF RingInv, Ring!InFlight
  <2> QED
    BY <2>1, <2>2 DEF RingInv, RingTyped, SlotsHaveTheirs, SlotsHaveLatest, LateOvertaken, ReadersKnow,
                      RingCall, Ring!Places, Ring!Slot
<1> QED
  BY <1>1, ClaimKeeps, StoreKeeps, LoadPositionKeeps, LoadPointKeeps DEF Ring!Next

-----------------------------------------------------------------------------
(* A behaviour is one of each component.                                     *)

LEMMA PoolRuns == Spec => Pool!Spec
<1>1. Init => Pool!Init
  BY DEF Init
<1>2. [Next]_vars => [Pool!Next]_Pool!vars
  BY DEF Next, vars, poolVars, Pool!vars
<1> QED
  BY <1>1, <1>2, PTL DEF Spec, Pool!Spec

LEMMA ProcessorRuns == Spec => Processor!Spec
<1>1. Init => Processor!Init
  BY DEF Init
<1>2. [Next]_vars => [Processor!Next]_Processor!vars
  BY DEF Next, vars, processorVars, Processor!vars
<1> QED
  BY <1>1, <1>2, PTL DEF Spec, Processor!Spec

LEMMA MemoryRuns == Spec => Memory!Spec
<1>1. Init => Memory!Init
  BY DEF Init
<1>2. [Next]_vars => [Memory!Next]_Memory!vars
  BY DEF Next, vars, memoryVars, Memory!vars
<1> QED
  BY <1>1, <1>2, PTL DEF Spec, Memory!Spec

LEMMA SqliteRuns == Spec => Sqlite!Spec
<1>1. Init => Sqlite!Init
  BY DEF Init
<1>2. [Next]_vars => [Sqlite!Next]_Sqlite!vars
  BY DEF Next, vars, sqliteVars, Sqlite!vars
<1> QED
  BY <1>1, <1>2, PTL DEF Spec, Sqlite!Spec

LEMMA DatabaseRuns == Spec => Database!Spec
<1>1. Init => Database!Init
  BY DEF Init
<1>2. [Next]_vars => [Database!Next]_Database!vars
  BY DEF Next, vars, databaseVars, Database!vars, Database!reader
<1> QED
  BY <1>1, <1>2, PTL DEF Spec, Database!Spec

LEMMA AlerterRuns == Spec => Alerter!Spec
<1>1. Init => Alerter!Init
  BY DEF Init
<1>2. [Next]_vars => [Alerter!Next]_Alerter!vars
  BY DEF Next, vars, alerterVars, Alerter!vars
<1> QED
  BY <1>1, <1>2, PTL DEF Spec, Alerter!Spec

LEMMA RingRuns == Spec => Ring!Spec
<1>1. Init => Ring!Init
  BY DEF Init
<1>2. [Next]_vars => [Ring!Next]_(Ring!vars)
  BY DEF Next, vars, ringVars, Ring!vars
<1> QED
  BY <1>1, <1>2, PTL DEF Spec, Ring!Spec

LEMMA MetricsRuns == Spec => Metrics!Spec
<1>1. Init => Metrics!Init
  BY DEF Init
<1>2. [Next]_vars => [Metrics!Next]_(Metrics!vars)
  BY DEF Next, vars, metricsVars, Metrics!vars
<1> QED
  BY <1>1, <1>2, PTL DEF Spec, Metrics!Spec

-----------------------------------------------------------------------------
(* The node database, the alerter and the buffers of the metrics: their      *)
(* theorems are those of NodeStoreProofs, WebhookAlerterProofs and           *)
(* MetricsManagerProofs.                                                     *)

D == INSTANCE NodeStoreProofs WITH clock <- clockN
A == INSTANCE WebhookAlerterProofs WITH MaxTime <- MaxAlertTime, clock <- clockW
M == INSTANCE MetricsManagerProofs WITH Nodes <- MetricNodes, nodes <- buffers

LEMMA SameDatabase ==
  /\ Database!Spec => D!Spec
  /\ Database!HistoryShowsStatus <=> D!HistoryShowsStatus
  /\ Database!ImplementsTables <=> D!ImplementsTables
<1>0. /\ Database!NoOne = D!NoOne
      /\ Database!Lost = D!Lost
      /\ Database!Idle = D!Idle
      /\ Database!NoRow = D!NoRow
      /\ Database!NoPoints = D!NoPoints
      /\ Database!Unstaged = D!Unstaged
  BY DEF Database!NoOne, D!NoOne, Database!Lost, D!Lost, Database!Idle, D!Idle,
         Database!NoRow, D!NoRow, Database!NoPoints, D!NoPoints, Database!Unstaged, D!Unstaged
<1> USE DEF Database!KeepTables, D!KeepTables, Database!reader, D!reader
<1>1. Database!Init => D!Init
  BY <1>0 DEF Database!Init, D!Init
<1>2. [Database!Next]_Database!vars => [D!Next]_D!vars
  <2>1. /\ Database!Tick => D!Tick
        /\ Database!Restart => D!Restart
    BY <1>0 DEF Database!Tick, D!Tick, Database!Restart, D!Restart
  <2>2. ASSUME NEW n \in Nodes
        PROVE  /\ Database!WriteService(n) => D!WriteService(n)
               /\ Database!GetNodeStatus(n) => D!GetNodeStatus(n)
    BY <1>0 DEF Database!WriteService, D!WriteService, Database!GetNodeStatus, D!GetNodeStatus
  <2>3. ASSUME NEW w \in Writers
        PROVE  /\ Database!BeginStatus(w) => D!BeginStatus(w)
               /\ Database!BeginClean(w) => D!BeginClean(w)
    BY <1>0 DEF Database!BeginStatus, D!BeginStatus, Database!BeginClean, D!BeginClean
  <2>4. ASSUME NEW T, NEW x, NEW n, NEW s, NEW t
        PROVE  /\ Database!PutNode(T, n, s) = D!PutNode(T, n, s)
               /\ Database!AddHistory(T, n, s) = D!AddHistory(T, n, s)
               /\ Database!DeleteHistory(T, t) = D!DeleteHistory(T, t)
               /\ Database!DeleteServices(T, t) = D!DeleteServices(T, t)
    BY <1>0 DEF Database!PutNode, D!PutNode, Database!AddHistory, D!AddHistory,
           Database!DeleteHistory, D!DeleteHistory, Database!DeleteServices, D!DeleteServices
  <2>5. ASSUME NEW x PROVE Database!First(x) = D!First(x) /\ Database!Second(x) = D!Second(x)
    BY <2>4 DEF Database!First, D!First, Database!Second, D!Second, Database!Committed, D!Committed
  <2>6. ASSUME NEW w \in Writers
        PROVE  /\ Database!FirstStatement(w) => D!FirstStatement(w)
               /\ Database!SecondStatement(w) => D!SecondStatement(w)
    BY <1>0, <2>5 DEF Database!FirstStatement, D!FirstStatement, Database!SecondStatement, D!SecondStatement
  <2>7. ASSUME NEW w \in Writers
        PROVE  /\ Database!Fails(w) => D!Fails(w)
               /\ Database!Commit(w) => D!Commit(w)
    BY <1>0 DEF Database!Fails, D!Fails, Database!Commit, D!Commit, Database!Commits, D!Commits,
           Database!SetTables, D!SetTables, Database!Committed, D!Committed, Database!RollsBack, D!RollsBack,
           Database!Ends, D!Ends, Database!Leaks, D!Leaks, Database!LeavesLock, D!LeavesLock
  <2>8. Database!GetNodeHistoryPoints => D!GetNodeHistoryPoints
    <3>1. ASSUME NEW S PROVE Database!Newest(S, Limit) = D!Newest(S, Limit)
      BY <1>0 DEF Database!Newest, D!Newest, Database!Cardinality, D!Cardinality, Database!Min, D!Min
    <3> QED
      BY <1>0, <3>1 DEF Database!GetNodeHistoryPoints, D!GetNodeHistoryPoints
  <2> QED
    BY <1>0, <2>1, <2>2, <2>3, <2>6, <2>7, <2>8 DEF Database!Next, D!Next, Database!vars, D!vars
<1>3. Database!HistoryShowsStatus <=> D!HistoryShowsStatus
  BY <1>0 DEF Database!HistoryShowsStatus, D!HistoryShowsStatus, Database!Cardinality, D!Cardinality
<1>4. Database!ImplementsTables <=> D!ImplementsTables
  <2>1. Database!Tables!TablesInit <=> D!Tables!TablesInit
    BY <1>0 DEF Database!Tables!TablesInit, D!Tables!TablesInit
  <2>2. [Database!Tables!TablesNext]_Database!Tables!tables <=> [D!Tables!TablesNext]_D!Tables!tables
    BY DEF Database!Tables!TablesNext, D!Tables!TablesNext, Database!Tables!tables, D!Tables!tables,
           Database!Tables!WriteStatus, D!Tables!WriteStatus, Database!Tables!WriteService, D!Tables!WriteService,
           Database!Tables!Clean, D!Tables!Clean, Database!Tables!Younger, D!Tables!Younger
  <2> QED
    BY <2>1, <2>2, PTL DEF Database!ImplementsTables, D!ImplementsTables,
                           Database!Tables!TablesSpec, D!Tables!TablesSpec
<1> QED
  BY <1>1, <1>2, <1>3, <1>4, PTL DEF Database!Spec, D!Spec

LEMMA SameAlerter == Alerter!Spec => A!Spec
<1>1. Alerter!Init => A!Init
  BY DEF Alerter!Init, A!Init, Alerter!Off, A!Off
<1>2. [Alerter!Next]_Alerter!vars => [A!Next]_A!vars
  <2> USE DEF Alerter!AfterAlert, Alerter!InCooldown, A!AfterAlert, A!InCooldown
  <2>1. Alerter!Tick => A!Tick
    BY DEF Alerter!Tick, A!Tick
  <2>2. ASSUME NEW c \in Calls
        PROVE  /\ Alerter!SendAlert(c) => A!SendAlert(c)
               /\ Alerter!Disabled(c) => A!Disabled(c)
               /\ Alerter!PreparePayload(c) => A!PreparePayload(c)
               /\ Alerter!SendRequest(c) => A!SendRequest(c)
               /\ Alerter!Return(c) => A!Return(c)
    BY DEF Alerter!SendAlert, A!SendAlert, Alerter!Disabled, A!Disabled,
       Alerter!PreparePayload, A!PreparePayload, Alerter!SendRequest, A!SendRequest, Alerter!Return, A!Return
  <2>3. ASSUME NEW c \in Calls
        PROVE  Alerter!CheckCooldown(c) => A!CheckCooldown(c)
    BY DEF Alerter!CheckCooldown, A!CheckCooldown
  <2> QED
    BY <2>1, <2>2, <2>3 DEF Alerter!Next, A!Next, Alerter!vars, A!vars
<1> QED
  BY <1>1, <1>2, PTL DEF Alerter!Spec, A!Spec

LEMMA SameMetrics ==
  /\ Metrics!Spec => M!Spec
  /\ Metrics!CountAccurate <=> M!CountAccurate
  /\ Metrics!NoGhostEntries <=> M!NoGhostEntries
<1>0. /\ Metrics!Idle = M!Idle /\ Metrics!Off = M!Off /\ Metrics!Stored = M!Stored
      /\ \A s : Metrics!ToSet(s) = M!ToSet(s)
      /\ \A S : Metrics!Cardinality(S) = M!Cardinality(S)
      /\ \A pc : Metrics!At(pc) = M!At(pc)
  BY DEF Metrics!Idle, M!Idle, Metrics!Off, M!Off, Metrics!Stored, M!Stored, Metrics!ToSet, M!ToSet,
         Metrics!Cardinality, M!Cardinality, Metrics!At, M!At
<1>1. Metrics!Init => M!Init
  BY <1>0 DEF Metrics!Init, M!Init
<1>2. [Metrics!Next]_(Metrics!vars) => [M!Next]_(M!vars)
  <2>1. \A s, n : Metrics!Without(s, n) = M!Without(s, n)
    BY <1>0 DEF Metrics!Without, M!Without, Metrics!Position, M!Position, Metrics!RemoveAt, M!RemoveAt
  <2>2. \A n : Metrics!Detached(n) = M!Detached(n)
    BY <1>0 DEF Metrics!Detached, M!Detached
  <2>3. \A n : Metrics!RemoveNode(n) <=> M!RemoveNode(n)
    BY <1>0 DEF Metrics!RemoveNode, M!RemoveNode
  <2>4. Metrics!Front(lru) = M!Front(lru) /\ Metrics!Last(lru) = M!Last(lru)
    BY DEF Metrics!Front, M!Front, Metrics!Last, M!Last
  <2>5. ASSUME NEW r \in Reporters, NEW n \in MetricNodes
        PROVE  Metrics!UpdateNodeLRU(r, n) => M!UpdateNodeLRU(r, n)
    BY <1>0, <2>1 DEF Metrics!UpdateNodeLRU, M!UpdateNodeLRU
  <2>6. ASSUME NEW r \in Reporters
        PROVE  Metrics!EvictOldest(r) => M!EvictOldest(r)
    BY <1>0, <2>2, <2>3, <2>4 DEF Metrics!EvictOldest, M!EvictOldest
  <2>7. ASSUME NEW r \in Reporters
        PROVE  /\ Metrics!CheckLimit(r) => M!CheckLimit(r)
               /\ Metrics!NothingToEvict(r) => M!NothingToEvict(r)
               /\ Metrics!CountEvicted(r) => M!CountEvicted(r)
               /\ Metrics!CountStored(r) => M!CountStored(r)
    BY DEF Metrics!CheckLimit, M!CheckLimit, Metrics!NothingToEvict, M!NothingToEvict,
           Metrics!CountEvicted, M!CountEvicted, Metrics!CountStored, M!CountStored
  <2>8. ASSUME NEW r \in Reporters
        PROVE  /\ Metrics!LoadOrStore(r) => M!LoadOrStore(r)
               /\ Metrics!StorePoint(r) => M!StorePoint(r)
    BY <1>0 DEF Metrics!LoadOrStore, M!LoadOrStore, Metrics!StorePoint, M!StorePoint
  <2>9. ASSUME NEW r \in Reporters
        PROVE  Metrics!ClaimSlot(r) => M!ClaimSlot(r)
    BY <1>0 DEF Metrics!ClaimSlot, M!ClaimSlot
  <2>10. /\ Metrics!BeginCleanup => M!BeginCleanup
         /\ Metrics!CountDropped => M!CountDropped
         /\ Metrics!EndCleanup => M!EndCleanup
    BY <1>0 DEF Metrics!BeginCleanup, M!BeginCleanup, Metrics!CountDropped, M!CountDropped,
                Metrics!EndCleanup, M!EndCleanup
  <2>11. Metrics!DropNode => M!DropNode
    BY <2>1, <2>2, <2>3 DEF Metrics!DropNode, M!DropNode
  <2>12. ASSUME NEW n \in MetricNodes
         PROVE  /\ Metrics!VisitNode(n) => M!VisitNode(n)
                /\ Metrics!GrowStale(n) => M!GrowStale(n)
    BY <1>0 DEF Metrics!VisitNode, M!VisitNode, Metrics!GrowStale, M!GrowStale
  <2>13. ASSUME NEW r \in Reporters PROVE Metrics!AddMetric(r) => M!AddMetric(r)
    BY <2>6, <2>7, <2>8, <2>9 DEF Metrics!AddMetric, M!AddMetric
  <2>14. Metrics!CleanupStaleNodes => M!CleanupStaleNodes
    BY <2>10, <2>11, <2>12 DEF Metrics!CleanupStaleNodes, M!CleanupStaleNodes
  <2> QED
    BY <2>5, <2>12, <2>13, <2>14 DEF Metrics!Next, M!Next, Metrics!vars, M!vars
<1>3. Metrics!CountAccurate <=> M!CountAccurate
  BY <1>0 DEF Metrics!CountAccurate, M!CountAccurate
<1>4. Metrics!NoGhostEntries <=> M!NoGhostEntries
  BY <1>0 DEF Metrics!NoGhostEntries, M!NoGhostEntries
<1> QED
  BY <1>1, <1>2, <1>3, <1>4, PTL DEF Metrics!Spec, M!Spec

LEMMA BufferConstants == M!ConstantsOK
<1>1. \A S : Metrics!IsFiniteSet(S) <=> M!IsFiniteSet(S)
  BY DEF Metrics!IsFiniteSet, M!IsFiniteSet
<1> QED
  BY <1>1, MetricsAssumption DEF MetricsConstants, Metrics!ConstantsOK, M!ConstantsOK

LEMMA TableConstants == D!ConstantsOK /\ D!LimitOK
<1>1. Database!ConstantsOK /\ Database!LimitOK
  BY DatabaseAssumption DEF DatabaseConstants
<1>2. D!NoOne \notin Writers /\ D!Lost \notin Writers
  <2>1. D!NoOne = Database!NoOne /\ D!Lost = Database!Lost
    BY DEF Database!NoOne, Database!Lost, D!NoOne, D!Lost
  <2> QED
    BY <1>1, <2>1 DEF Database!ConstantsOK
<1>3. Health \subseteq BOOLEAN
  BY <1>1 DEF Database!ConstantsOK
<1>4. MaxTime \in Nat \ {0} /\ Limit \in Nat
  BY <1>1 DEF Database!ConstantsOK, Database!LimitOK
<1> QED
  BY <1>2, <1>3, <1>4 DEF D!ConstantsOK, D!LimitOK

LEMMA WebhookConstants == A!ConstantsOK
<1>1. Cardinality(Webhooks) \in Nat /\ Webhooks = 1..Cardinality(Webhooks)
  BY AlerterAssumption, FS_CardinalityType DEF AlerterConstants
<1>2. \E n \in Nat : Webhooks = 1..n
  BY <1>1
<1>3. A!IsFiniteSet(Calls)
  BY AlerterAssumption DEF AlerterConstants, A!IsFiniteSet, IsFiniteSet
<1> QED
  BY AlerterAssumption, <1>2, <1>3 DEF AlerterConstants, A!ConstantsOK

-----------------------------------------------------------------------------
(* The theorems.                                                             *)

\* No two goroutines are handed the same ICMP socket, and an entry's counter
\* says whether one has it: for any number of goroutines and sockets.
THEOREM PoolSocketsAreExclusive == Spec => []PoolSocketExclusive
<1>1. Pool!Init => PoolInv
  BY PoolStarts, PoolAssumption
<1>2. PoolInv /\ [Pool!Next]_Pool!vars => PoolInv'
  BY PoolKept, PoolAssumption
<1>3. PoolInv => PoolSocketExclusive
  BY PoolExclusive, PoolAssumption DEF PoolSocketExclusive
<1> QED
  BY PoolRuns, <1>1, <1>2, <1>3, PTL DEF Pool!Spec

\* The open sockets are those of the pool's live entries, each entry its own,
\* and never more than maxSockets.
THEOREM PoolSocketsAreAccounted == Spec => []PoolSocketsAccounted
<1>1. Pool!Init => PoolInv
  BY PoolStarts, PoolAssumption
<1>2. PoolInv /\ [Pool!Next]_Pool!vars => PoolInv'
  BY PoolKept, PoolAssumption
<1>3. PoolInv => PoolSocketsAccounted
  BY PoolAccounted, PoolAssumption DEF PoolSocketsAccounted
<1> QED
  BY PoolRuns, <1>1, <1>2, <1>3, PTL DEF Pool!Spec

\* In what GetSummary answers, a port's count is the number of hosts with the
\* port open, and a host that is available has its ICMP status.
THEOREM SweepAnswersAreConsistent == Spec => []SweepAnswerConsistent
<1>1. Processor!Init => ProcessorInv
  BY ProcessorStarts, ProcessorAssumption
<1>2. ProcessorInv /\ [Processor!Next]_Processor!vars => ProcessorInv'
  BY ProcessorKept, ProcessorAssumption
<1>3. ProcessorInv => SweepAnswerConsistent
  BY AnswersConsistent DEF SweepAnswerConsistent
<1> QED
  BY ProcessorRuns, <1>1, <1>2, <1>3, PTL DEF Processor!Spec

\* A result that is in the store has been through the processor: its host is in
\* the map, and what was available is.
THEOREM SweepStoreIsWithinProcessor == Spec => []SweepStoreWithinProcessor
<1>1. Processor!Init => ProcessorInv
  BY ProcessorStarts, ProcessorAssumption
<1>2. ProcessorInv /\ [Processor!Next]_Processor!vars => ProcessorInv'
  BY ProcessorKept, ProcessorAssumption
<1>3. ProcessorInv => SweepStoreWithinProcessor
  BY StoreIsWithinProcessor DEF SweepStoreWithinProcessor
<1> QED
  BY ProcessorRuns, <1>1, <1>2, <1>3, PTL DEF Processor!Spec

\* The list of InMemoryStore is a store: each target has the result that was saved
\* last, a prune forgets what is too old and nothing else, the cleaner leaves
\* MaxResults targets, and a query returns the results its filter matches.
THEOREM MemoryIsStore == Spec => MemoryImplementsStore
<1>1. Memory!Init => MemoryInv /\ Memory!Abstract!StoreInit
  BY MemoryStarts, MemoryAssumption
<1>2. MemoryInv /\ [Memory!Next]_Memory!vars
        => MemoryInv' /\ [Memory!Abstract!StoreNext]_Memory!Abstract!storeVars
  BY MemorySteps, MemoryAssumption
<1> QED
  BY MemoryRuns, <1>1, <1>2, PTL
     DEF Memory!Spec, MemoryImplementsStore, Memory!ImplementsStore, Memory!Abstract!StoreSpec

\* Its summary counts a port once for each host it lists with the port open.
THEOREM MemorySummariesAgree == Spec => []MemorySummaryAgrees
<1>1. Memory!Init => MemoryInv
  BY MemoryStarts, MemoryAssumption
<1>2. MemoryInv /\ [Memory!Next]_Memory!vars => MemoryInv'
  BY MemorySteps, MemoryAssumption
<1>3. MemoryInv => MemorySummaryAgrees
  BY MemoryCounts, MemoryAssumption DEF MemorySummaryAgrees
<1> QED
  BY MemoryRuns, <1>1, <1>2, <1>3, PTL DEF Memory!Spec

\* The rows of SQLiteStore are a store: the key of a row tells its target, the
\* result that was saved last is there until a prune commits that finds it too old,
\* though other calls come between the steps of the prune, the generated WHERE
\* clause selects what the filter matches, and an answer that is cut short has the
\* newest.
THEOREM SqliteIsStore == Spec => SqliteImplementsStore
<1>1. Sqlite!Init => SqliteTyped /\ Sqlite!Abstract!StoreInit
  BY SqliteAssumption DEF Sqlite!Init, SqliteTyped, Sqlite!Abstract!StoreInit, SqliteConstants
<1>2. SqliteTyped /\ [Sqlite!Next]_Sqlite!vars => SqliteTyped'
  BY SqliteKept, SqliteAssumption
<1>3. SqliteTyped /\ [Sqlite!Next]_Sqlite!vars => [Sqlite!Abstract!StoreNext]_Sqlite!Abstract!storeVars
  BY SqliteSteps, SqliteAssumption
<1> QED
  BY SqliteRuns, <1>1, <1>2, <1>3, PTL
     DEF Sqlite!Spec, SqliteImplementsStore, Sqlite!ImplementsStore, Sqlite!Abstract!StoreSpec

\* The committed tables of the node database change as NodeTables says, whichever
\* statement fails, whoever overlaps and wherever the process ends.
THEOREM DatabaseIsTables == Spec => DatabaseImplementsTables
<1>1. D!Spec => D!ImplementsTables
  BY D!StoreImplementsTables, TableConstants
<1> QED
  BY DatabaseRuns, SameDatabase, <1>1, PTL DEF DatabaseImplementsTables

\* A reader that has a node's row finds its status in the history it asks for
\* next, or a reason why it is not there.
THEOREM DatabaseReadersFindStatus == Spec => []DatabaseHistoryShowsStatus
<1>1. D!Spec => []D!HistoryShowsStatus
  BY D!ReaderFindsStatus, TableConstants
<1>2. D!HistoryShowsStatus => DatabaseHistoryShowsStatus
  BY SameDatabase DEF DatabaseHistoryShowsStatus
<1> QED
  BY DatabaseRuns, SameDatabase, <1>1, <1>2, PTL

\* However calls of SendAlert overlap, a webhook delivers at most one request
\* for each title and cooldown that has begun.
THEOREM CooldownsHold == Spec => []OneRequestForEachCooldown
<1>1. A!Spec => []A!OneForEachCooldown
  BY A!OneRequestForEachCooldown, WebhookConstants
<1>2. A!OneForEachCooldown => OneRequestForEachCooldown
  BY DEF A!OneForEachCooldown, OneRequestForEachCooldown, Alerter!OneForEachCooldown
<1> QED
  BY AlerterRuns, SameAlerter, <1>1, <1>2, PTL

\* An alert that has returned has tried each enabled webhook, or another alert
\* of its title did so less than a cooldown earlier.
THEOREM WebhooksAreTried == Spec => []AlertTriesAllWebhooks
<1>1. A!Spec => []A!AllWebhooksTried
  BY A!AllWebhooksAreTried, WebhookConstants
<1>2. A!AllWebhooksTried => AlertTriesAllWebhooks
  BY DEF A!AllWebhooksTried, AlertTriesAllWebhooks, Alerter!AllWebhooksTried
<1> QED
  BY AlerterRuns, SameAlerter, <1>1, <1>2, PTL

\* GetPoints and GetLastPoint answer with the last points, in their order: an
\* older one is found only where an Add was between its two steps, for any number
\* of goroutines and points and any retention.
THEOREM MetricsReadersFindLatest == Spec => []MetricsReadLatest
<1>1. Ring!Init => RingInv
  BY RingStarts, RingAssumption
<1>2. RingInv /\ [Ring!Next]_(Ring!vars) => RingInv'
  BY RingKept, RingAssumption
<1>3. RingInv => MetricsReadLatest
  BY DEF RingInv, MetricsReadLatest
<1> QED
  BY RingRuns, <1>1, <1>2, <1>3, PTL DEF Ring!Spec

\* Whatever insertions, evictions and clean-up interleave, nodeCount is the number
\* of buffers but for the stores and removals in progress (AddMetric, evictOldest
\* and CleanupStaleNodes of manager.go), for any number of nodes and goroutines.
THEOREM MetricsCounted == Spec => []MetricsCountAccurate
<1>1. M!Spec => []M!CountAccurate
  BY M!CountIsAccurate, BufferConstants
<1>2. M!CountAccurate => MetricsCountAccurate
  BY SameMetrics DEF MetricsCountAccurate
<1> QED
  BY MetricsRuns, SameMetrics, <1>1, <1>2, PTL

\* Evicting a node of the list frees a buffer, unless a running call is about to
\* store it: updateNodeLRU, removeNode and CleanupStaleNodes keep list and map
\* together.
THEOREM MetricsEvictBuffers == Spec => []MetricsNoGhostEntries
<1>1. M!Spec => []M!NoGhostEntries
  BY M!NoGhosts, BufferConstants
<1>2. M!NoGhostEntries => MetricsNoGhostEntries
  BY SameMetrics DEF MetricsNoGhostEntries
<1> QED
  BY MetricsRuns, SameMetrics, <1>1, <1>2, PTL
=============================================================================
