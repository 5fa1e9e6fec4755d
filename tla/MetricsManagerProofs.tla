------------------------ MODULE MetricsManagerProofs ------------------------
(* Theorems about MetricsManager, for every set of nodes, every number of   *)
(* goroutines and every limit.                                              *)
EXTENDS MetricsManager, FiniteSetTheorems, SequenceTheorems, TLAPS

-----------------------------------------------------------------------------
(* The eviction list.                                                        *)

Distinct(s) == \A i, j \in 1..Len(s) : s[i] = s[j] => i = j

\* Position finds an entry.
LEMMA PositionFacts ==
  ASSUME NEW s \in Seq(Nodes), NEW n \in ToSet(s)
  PROVE  Position(s, n) \in 1..Len(s) /\ s[Position(s, n)] = n
BY DEF Position, ToSet

\* Without takes the entry out of a list without duplicates and keeps the rest.
LEMMA WithoutFacts ==
  ASSUME NEW s \in Seq(Nodes), NEW n, Distinct(s)
  PROVE  /\ Without(s, n) \in Seq(Nodes)
         /\ Distinct(Without(s, n))
         /\ ToSet(Without(s, n)) = ToSet(s) \ {n}
<1>1. CASE n \notin ToSet(s)
  BY <1>1 DEF Without
<1>2. CASE n \in ToSet(s)
  <2> DEFINE p == Position(s, n)
             t == Without(s, n)
  <2>1. p \in 1..Len(s) /\ s[p] = n
    BY <1>2, PositionFacts
  <2> HIDE DEF p
  <2>2. t = SubSeq(s, 1, p - 1) \o SubSeq(s, p + 1, Len(s))
    BY <1>2 DEF Without, RemoveAt, p
  <2> HIDE DEF t
  <2>3. /\ t \in Seq(Nodes) /\ Len(t) = Len(s) - 1
        /\ \A i \in 1..Len(t) : t[i] = IF i < p THEN s[i] ELSE s[i + 1]
    <3> DEFINE u == SubSeq(s, 1, p - 1)
               v == SubSeq(s, p + 1, Len(s))
    <3>1. u \in Seq(Nodes) /\ Len(u) = p - 1 /\ \A i \in 1..(p - 1) : u[i] = s[i]
      BY <2>1
    <3>2. v \in Seq(Nodes) /\ Len(v) = Len(s) - p /\ \A i \in 1..(Len(s) - p) : v[i] = s[p + i]
      BY <2>1
    <3>3. t = u \o v
      BY <2>2
    <3> HIDE DEF u, v
    <3>4. /\ t \in Seq(Nodes) /\ Len(t) = Len(u) + Len(v)
          /\ \A i \in 1..Len(t) : t[i] = IF i <= Len(u) THEN u[i] ELSE v[i - Len(u)]
      <4>1. u \in Seq(Nodes) /\ v \in Seq(Nodes)
        BY <3>1, <3>2
      <4> QED
        BY <4>1, <3>3, ConcatProperties
    <3>5. ASSUME NEW i \in 1..Len(t) PROVE t[i] = IF i < p THEN s[i] ELSE s[i + 1]
      <4>1. CASE i < p
        BY <4>1, <3>1, <3>2, <3>4, <2>1
      <4>2. CASE i >= p
        <5>1. i - Len(u) \in 1..(Len(s) - p) /\ ~(i <= Len(u))
          BY <4>2, <3>1, <3>2, <3>4, <2>1
        <5>2. t[i] = v[i - Len(u)]
          BY <5>1, <3>4
        <5> QED
          BY <5>1, <5>2, <4>2, <3>1, <3>2, <2>1
      <4> QED
        BY <4>1, <4>2, <3>4, <2>1, <3>1
    <3> QED
      BY <3>1, <3>2, <3>4, <3>5, <2>1
  <2>4. Distinct(t)
    BY <2>1, <2>3 DEF Distinct
  <2>5. ASSUME NEW m \in ToSet(t) PROVE m \in ToSet(s) \ {n}
    <3>1. PICK i \in 1..Len(t) : m = t[i]
      BY <2>3 DEF ToSet
    <3> QED
      BY <3>1, <2>1, <2>3 DEF ToSet, Distinct
  <2>6. ASSUME NEW m \in ToSet(s) \ {n} PROVE m \in ToSet(t)
    <3>1. PICK i \in 1..Len(s) : m = s[i] /\ i # p
      BY <2>1 DEF ToSet
    <3>2. CASE i < p
      BY <3>1, <3>2, <2>1, <2>3 DEF ToSet
    <3>3. CASE i > p
      <4>1. i - 1 \in 1..Len(t) /\ t[i - 1] = m
        BY <3>1, <3>3, <2>1, <2>3
      <4> QED
        BY <4>1, <2>3 DEF ToSet
    <3> QED
      BY <3>1, <3>2, <3>3, <2>1
  <2> QED
    BY <2>3, <2>4, <2>5, <2>6 DEF t
<1> QED
  BY <1>1, <1>2

\* PushFront of an entry that is not in the list.
LEMMA PushFrontFacts ==
  ASSUME NEW s \in Seq(Nodes), NEW n \in Nodes, Distinct(s), n \notin ToSet(s)
  PROVE  /\ <<n>> \o s \in Seq(Nodes)
         /\ Distinct(<<n>> \o s)
         /\ ToSet(<<n>> \o s) = ToSet(s) \cup {n}
<1> DEFINE t == <<n>> \o s
<1>1. /\ t \in Seq(Nodes) /\ Len(t) = Len(s) + 1 /\ t[1] = n
      /\ \A i \in 1..Len(s) : t[i + 1] = s[i]
      /\ \A i \in 2..Len(t) : t[i] = s[i - 1]
  OBVIOUS
<1> HIDE DEF t
<1> DEFINE m == Len(s)
<1>0. m \in Nat /\ \A i \in 1..m : s[i] # n
  BY DEF ToSet
<1>2. Distinct(t)
  <2> SUFFICES ASSUME NEW i \in 1..(m + 1), NEW j \in 1..(m + 1), t[i] = t[j]
               PROVE  i = j
    BY <1>1 DEF Distinct
  <2> HIDE DEF m
  <2>1. ASSUME NEW k \in 1..(m + 1), k # 1 PROVE k - 1 \in 1..m /\ t[k] = s[k - 1]
    BY <1>0, <1>1, <2>1 DEF m
  <2>2. CASE i = 1 /\ j = 1
    BY <2>2
  <2>3. CASE i = 1 /\ j # 1
    BY <2>3, <2>1, <1>0, <1>1
  <2>4. CASE i # 1 /\ j = 1
    BY <2>4, <2>1, <1>0, <1>1
  <2>5. CASE i # 1 /\ j # 1
    <3>1. i - 1 = j - 1
      BY <2>5, <2>1 DEF Distinct, m
    <3> QED
      BY <3>1, <1>0
  <2> QED
    BY <2>2, <2>3, <2>4, <2>5
<1>3. ToSet(t) = ToSet(s) \cup {n}
  <2>1. ToSet(t) \subseteq ToSet(s) \cup {n}
    <3> SUFFICES ASSUME NEW i \in 1..(m + 1) PROVE t[i] \in ToSet(s) \cup {n}
      BY <1>1 DEF ToSet
    <3>1. CASE i = 1
      BY <3>1, <1>1
    <3>2. CASE i # 1
      <4>1. i - 1 \in 1..m /\ t[i] = s[i - 1]
        BY <3>2, <1>0, <1>1
      <4> QED
        BY <4>1 DEF ToSet
    <3> QED
      BY <3>1, <3>2
  <2>2. n \in ToSet(t)
    BY <1>1 DEF ToSet
  <2>3. ToSet(s) \subseteq ToSet(t)
    <3> SUFFICES ASSUME NEW i \in 1..Len(s) PROVE s[i] \in ToSet(t)
      BY DEF ToSet
    <3>1. i + 1 \in 1..Len(t) /\ t[i + 1] = s[i]
      BY <1>1
    <3>2. i + 1 \in DOMAIN t
      BY <3>1, <1>1
    <3> QED
      BY <3>1, <3>2 DEF ToSet
  <2> QED
    BY <2>1, <2>2, <2>3
<1> QED
  BY <1>1, <1>2, <1>3 DEF t

\* Removing the back of the list.
LEMMA BackFacts ==
  ASSUME NEW s \in Seq(Nodes), Distinct(s), s # <<>>
  PROVE  /\ Last(s) \in Nodes
         /\ Front(s) \in Seq(Nodes)
         /\ Distinct(Front(s))
         /\ ToSet(Front(s)) = ToSet(s) \ {Last(s)}
<1>1. /\ Len(s) \in Nat /\ Len(s) >= 1
      /\ Front(s) \in Seq(Nodes) /\ Len(Front(s)) = Len(s) - 1
      /\ \A i \in 1..(Len(s) - 1) : Front(s)[i] = s[i]
      /\ Last(s) = s[Len(s)]
  <2>1. Len(s) \in Nat /\ Len(s) >= 1
    OBVIOUS
  <2>2. Front(s) = SubSeq(s, 1, Len(s) - 1) /\ Last(s) = s[Len(s)]
    BY DEF Front, Last
  <2>3. Len(s) - 1 \in Int /\ \A i \in 1..(Len(s) - 1) : s[i] \in Nodes
    BY <2>1
  <2> DEFINE t == SubSeq(s, 1, Len(s) - 1)
  <2>4. /\ t \in Seq(Nodes)
        /\ Len(t) = IF 1 <= Len(s) - 1 THEN Len(s) - 1 - 1 + 1 ELSE 0
        /\ \A i \in 1..(Len(s) - 1 - 1 + 1) : t[i] = s[1 + i - 1]
    <3> HIDE DEF t
    <3> QED
      BY <2>3, SubSeqProperties DEF t
  <2> HIDE DEF t
  <2>5. Len(t) = Len(s) - 1
    <3>1. CASE 1 <= Len(s) - 1
      BY <3>1, <2>1, <2>4
    <3>2. CASE Len(s) = 1
      BY <3>2, <2>4
    <3>3. PICK k \in Nat : k = Len(s) /\ k >= 1
      BY <2>1
    <3>4. k = 1 \/ 1 <= k - 1
      BY <3>3
    <3> QED
      BY <3>1, <3>2, <3>3, <3>4
  <2>6. ASSUME NEW i \in 1..(Len(s) - 1) PROVE t[i] = s[i]
    <3>1. i \in 1..(Len(s) - 1 - 1 + 1) /\ 1 + i - 1 = i
      BY <2>1
    <3> QED
      BY <3>1, <2>4
  <2> QED
    BY <2>1, <2>2, <2>4, <2>5, <2>6 DEF t
<1> DEFINE t == Front(s)
<1> HIDE DEF t
<1>2. t = Front(s)
  BY DEF t
<1>3. ToSet(t) \subseteq ToSet(s) \ {s[Len(s)]}
  BY <1>1, <1>2 DEF ToSet, Distinct
<1>4. ASSUME NEW m \in ToSet(s) \ {s[Len(s)]} PROVE m \in ToSet(t)
  <2>1. PICK i \in 1..Len(s) : m = s[i] /\ i # Len(s)
    BY <1>1 DEF ToSet
  <2>2. i \in 1..Len(t) /\ t[i] = m
    BY <1>1, <1>2, <2>1
  <2> QED
    BY <1>1, <1>2, <2>2 DEF ToSet
<1>5. ToSet(Front(s)) = ToSet(s) \ {Last(s)}
  BY <1>1, <1>2, <1>3, <1>4
<1> QED
  BY <1>1, <1>5 DEF Distinct

-----------------------------------------------------------------------------
USE DEF ConstantsOK

(* The inductive invariant.                                                  *)

\* The list has no duplicates, the lock is held by whoever is inside, at most
\* one call has an eviction to count, and a call that has yet to count its
\* buffer did not find its node in the map.
ListOK == Distinct(lru)

LockOK ==
  /\ \A r \in Reporters : add[r].pc = "evicted" <=> mu = r
  /\ cleaner # Off <=> mu = "cleaner"

\* A node that the clean-up is about to drop is in the map: all removals are
\* made under the lock.
DropOK == cleaner.pc = "drop" => cleaner.node \in Stored

IInv == TypeOK /\ ListOK /\ LockOK /\ DropOK /\ NoGhostEntries /\ CountAccurate

\* The parts but the count.
TInv == TypeOK /\ ListOK /\ LockOK /\ DropOK

LEMMA InitInv ==
  ASSUME ConstantsOK
  PROVE  Init => IInv
<1> SUFFICES ASSUME Init PROVE IInv
  OBVIOUS
<1>1. Stored = {} /\ Cardinality(Stored) = 0
  BY FS_EmptySet DEF Init, Stored
<1>2. At("count") = {} /\ At("evicted") = {} /\ Cardinality(At("count")) = 0
  BY FS_EmptySet DEF Init, At, Idle
<1>3. TypeOK
  BY <1>1 DEF Init, TypeOK, Idle, Off, Stored
<1>4. ListOK /\ LockOK /\ DropOK
  BY DEF Init, ListOK, LockOK, DropOK, Distinct, Idle, Off
<1>5. NoGhostEntries
  BY DEF Init, NoGhostEntries, ToSet
<1>6. CountAccurate
  BY <1>1, <1>2 DEF Init, CountAccurate, Off
<1> QED
  BY <1>3, <1>4, <1>5, <1>6 DEF IInv

-----------------------------------------------------------------------------
(* Every step keeps the types, the list and the lock.                        *)

\* Detaching the calls of a node changes nothing but `held`.
LEMMA DetachedFacts ==
  ASSUME ConstantsOK, NEW n, TypeOK
  PROVE  /\ Detached(n) \in [Reporters -> Call \cup {Idle}]
         /\ \A r \in Reporters :
              /\ Detached(n)[r].pc = add[r].pc
              /\ add[r] # Idle => Detached(n)[r].node = add[r].node
              /\ Detached(n)[r] = Idle <=> add[r] = Idle
BY DEF TypeOK, Detached, Call, Idle

LEMMA CallFacts ==
  ASSUME ConstantsOK, TypeOK, NEW r \in Reporters
  PROVE  /\ add[r] = Idle <=> add[r].pc = "idle"
         /\ add[r] # Idle => add[r] \in Call
BY DEF TypeOK, Call, Idle

\* A call moves on.
LEMMA MoveType ==
  ASSUME ConstantsOK, TypeOK, NEW r \in Reporters, add[r].pc # "idle",
         NEW pc \in {"limit", "evict", "evicted", "load", "count", "claim", "store"}
  PROVE  [add EXCEPT ![r].pc = pc] \in [Reporters -> Call \cup {Idle}]
BY CallFacts DEF TypeOK, Call

LEMMA UpdateNodeLRUStep ==
  ASSUME ConstantsOK, TInv, NEW r \in Reporters, NEW n \in Nodes, UpdateNodeLRU(r, n)
  PROVE  TInv'
<1> USE DEF TInv, UpdateNodeLRU
<1>1. /\ Without(lru, n) \in Seq(Nodes) /\ Distinct(Without(lru, n))
      /\ n \notin ToSet(Without(lru, n))
  BY WithoutFacts DEF TypeOK, ListOK
<1>2. lru' \in Seq(Nodes) /\ Distinct(lru')
  BY <1>1, PushFrontFacts
<1>3. TypeOK'
  BY <1>2 DEF TypeOK, Call, Stored
<1>4. LockOK' /\ DropOK'
  BY DEF LockOK, DropOK, TypeOK, Idle, Stored
<1> QED
  BY <1>2, <1>3, <1>4 DEF ListOK

LEMMA EvictStep ==
  ASSUME ConstantsOK, TInv, NEW r \in Reporters, EvictOldest(r)
  PROVE  TInv'
<1> USE DEF TInv, EvictOldest
<1> DEFINE x == Last(lru)
<1>1. x \in Nodes /\ lru' \in Seq(Nodes) /\ Distinct(lru')
  BY BackFacts DEF TypeOK, ListOK
<1>2. add[r].pc = "evict" /\ mu = Free /\ cleaner = Off
  BY DEF LockOK
<1>3. CASE x \in Stored
  <2>1. Stored' = Stored \ {x} /\ nodes' \in [Stored' -> Points]
    BY <1>3 DEF RemoveNode, Stored, TypeOK
  <2>2. add' \in [Reporters -> Call \cup {Idle}]
    BY <1>2, <1>3, DetachedFacts, CallFacts DEF Call, Idle
  <2>3. \A q \in Reporters : add'[q].pc = IF q = r THEN "evicted" ELSE add[q].pc
    BY <1>2, <1>3, DetachedFacts, CallFacts DEF Call, Idle
  <2>4. TypeOK'
    BY <1>1, <1>3, <2>1, <2>2 DEF TypeOK, Stored
  <2>5. LockOK'
    BY <1>2, <1>3, <2>3 DEF LockOK
  <2>6. DropOK'
    BY <1>2 DEF DropOK, Off
  <2> QED
    BY <1>1, <2>4, <2>5, <2>6 DEF ListOK
<1>4. CASE x \notin Stored
  <2>1. add' = [add EXCEPT ![r].pc = "load"] /\ UNCHANGED <<nodes, count, mu, cleaner>>
    BY <1>4
  <2>2. add' \in [Reporters -> Call \cup {Idle}]
    BY <1>2, <2>1, MoveType
  <2>3. \A q \in Reporters : add'[q].pc = IF q = r THEN "load" ELSE add[q].pc
    BY <1>2, <2>1 DEF TypeOK
  <2>4. TypeOK'
    BY <1>1, <2>1, <2>2 DEF TypeOK, Stored
  <2>5. LockOK' /\ DropOK'
    BY <1>2, <2>1, <2>3 DEF LockOK, DropOK, Off
  <2> QED
    BY <1>1, <2>4, <2>5 DEF ListOK
<1> QED
  BY <1>3, <1>4

LEMMA AddMetricStep ==
  ASSUME ConstantsOK, TInv, NEW r \in Reporters, AddMetric(r)
  PROVE  TInv'
<1> USE DEF TInv
<1>1. CASE CheckLimit(r)
  <2>1. TypeOK'
    BY <1>1, MoveType DEF CheckLimit, TypeOK, Stored
  <2> QED
    BY <1>1, <2>1 DEF CheckLimit, TypeOK, ListOK, LockOK, DropOK, Stored
<1>2. CASE EvictOldest(r)
  BY <1>2, EvictStep
<1>3. CASE NothingToEvict(r)
  <2>1. TypeOK'
    BY <1>3, MoveType DEF NothingToEvict, TypeOK, Stored
  <2> QED
    BY <1>3, <2>1 DEF NothingToEvict, TypeOK, ListOK, LockOK, DropOK, Stored
<1>4. CASE CountEvicted(r)
  <2>1. TypeOK'
    <3>1. add' \in [Reporters -> Call \cup {Idle}]
      BY <1>4, MoveType DEF CountEvicted
    <3>2. count' \in Int
      BY <1>4 DEF CountEvicted, TypeOK
    <3> QED
      BY <1>4, <3>1, <3>2 DEF CountEvicted, TypeOK, Stored
  <2>2. mu = r /\ cleaner = Off /\ mu' = Free /\ UNCHANGED <<nodes, lru, cleaner>>
    BY <1>4 DEF CountEvicted, LockOK
  <2>3. \A q \in Reporters : add'[q].pc = IF q = r THEN "load" ELSE add[q].pc
    BY <1>4 DEF CountEvicted, TypeOK
  <2>4. LockOK'
    BY <2>2, <2>3 DEF LockOK
  <2>5. ListOK' /\ DropOK'
    BY <2>2 DEF ListOK, DropOK, Off
  <2> QED
    BY <2>1, <2>4, <2>5
<1>5. CASE LoadOrStore(r)
  <2>1. add[r] \in Call
    BY <1>5, CallFacts DEF LoadOrStore, Idle
  <2>2. add' \in [Reporters -> Call \cup {Idle}]
    BY <1>5, <2>1 DEF LoadOrStore, TypeOK, Call
  <2>3. Stored \subseteq Stored' /\ Stored' \subseteq Nodes /\ nodes' \in [Stored' -> Points]
    BY <1>5, <2>1 DEF LoadOrStore, TypeOK, Call, Stored, Points
  <2>4. \A q \in Reporters : add'[q].pc = "evicted" <=> add[q].pc = "evicted"
    <3>1. \A q \in Reporters \ {r} : add'[q] = add[q]
      BY <1>5 DEF LoadOrStore, TypeOK
    <3>2. CASE add[r].node \in Stored
      BY <1>5, <2>1, <3>1, <3>2 DEF LoadOrStore, TypeOK, Call
    <3>3. CASE add[r].node \notin Stored
      BY <1>5, <2>1, <3>1, <3>3 DEF LoadOrStore, TypeOK, Call
    <3> QED
      BY <3>2, <3>3
  <2>5. UNCHANGED <<count, lru, mu, cleaner>>
    BY <1>5 DEF LoadOrStore
  <2>6. TypeOK'
    BY <2>2, <2>3, <2>5 DEF TypeOK
  <2> QED
    BY <2>3, <2>4, <2>5, <2>6 DEF ListOK, LockOK, DropOK
<1>6. CASE CountStored(r)
  <2>1. TypeOK'
    <3>1. add' \in [Reporters -> Call \cup {Idle}]
      BY <1>6, MoveType DEF CountStored
    <3>2. count' \in Int
      BY <1>6 DEF CountStored, TypeOK
    <3> QED
      BY <1>6, <3>1, <3>2 DEF CountStored, TypeOK, Stored
  <2> QED
    BY <1>6, <2>1 DEF CountStored, TypeOK, ListOK, LockOK, DropOK, Stored
<1>7. CASE ClaimSlot(r)
  <2>1. add[r] \in Call
    BY <1>7, CallFacts DEF ClaimSlot, Idle
  <2>2. ASSUME NEW q \in Reporters
        PROVE  /\ add'[q] \in Call \cup {Idle}
               /\ add'[q].pc = IF q = r THEN "store" ELSE add[q].pc
    <3>1. add[q] = Idle \/ add[q] \in Call
      BY DEF TypeOK
    <3>2. CASE add[r].held
      <4>1. add'[q] = IF q = r THEN [add[r] EXCEPT !.pc = "store", !.newest = TRUE]
                      ELSE IF add[q] # Idle /\ add[q].node = add[r].node
                           THEN [add[q] EXCEPT !.newest = FALSE] ELSE add[q]
        BY <1>7, <3>2 DEF ClaimSlot
      <4> QED
        BY <4>1, <3>1, <2>1 DEF Call
    <3>3. CASE ~add[r].held
      BY <1>7, <3>1, <3>3, <2>1 DEF ClaimSlot, TypeOK, Call
    <3> QED
      BY <3>2, <3>3
  <2>3. add' \in [Reporters -> Call \cup {Idle}]
    <3>1. add' = [q \in Reporters |-> add'[q]]
      BY <1>7 DEF ClaimSlot, TypeOK
    <3> QED
      BY <3>1, <2>2
  <2>4. Stored' = Stored /\ nodes' \in [Stored' -> Points]
    BY <1>7 DEF ClaimSlot, TypeOK, Stored, Points
  <2> QED
    BY <1>7, <2>2, <2>3, <2>4 DEF ClaimSlot, TypeOK, ListOK, LockOK, DropOK
<1>8. CASE StorePoint(r)
  <2>1. Stored' = Stored /\ nodes' \in [Stored' -> Points]
    BY <1>8 DEF StorePoint, TypeOK, Stored, Points
  <2>2. add' \in [Reporters -> Call \cup {Idle}]
    BY <1>8 DEF StorePoint, TypeOK
  <2> QED
    BY <1>8, <2>1, <2>2 DEF StorePoint, TypeOK, ListOK, LockOK, DropOK, Idle
<1> QED
  BY <1>1, <1>2, <1>3, <1>4, <1>5, <1>6, <1>7, <1>8 DEF AddMetric

LEMMA CleanupStep ==
  ASSUME ConstantsOK, TInv, CleanupStaleNodes
  PROVE  TInv'
<1> USE DEF TInv
<1>1. CASE BeginCleanup
  BY <1>1 DEF BeginCleanup, TypeOK, ListOK, LockOK, DropOK, Stored, Cleaning, Off
<1>2. CASE DropNode
  <2>1. cleaner \in Cleaning /\ mu = "cleaner" /\ cleaner.pc = "drop" /\ cleaner.node \in Stored
    BY <1>2 DEF DropNode, TypeOK, LockOK, DropOK, Off
  <2>2. lru' \in Seq(Nodes) /\ Distinct(lru')
    BY <1>2, WithoutFacts DEF DropNode, TypeOK, ListOK
  <2>3. Stored' \subseteq Stored /\ nodes' \in [Stored' -> Points]
    BY <1>2 DEF DropNode, RemoveNode, TypeOK, Stored
  <2>4. TypeOK'
    <3>1. add' \in [Reporters -> Call \cup {Idle}]
      BY <1>2, DetachedFacts DEF DropNode
    <3>2. cleaner' \in Cleaning
      BY <1>2, <2>1 DEF DropNode, Cleaning
    <3> QED
      BY <1>2, <2>2, <2>3, <3>1, <3>2 DEF DropNode, TypeOK
  <2>5. LockOK' /\ DropOK'
    BY <1>2, <2>1, DetachedFacts DEF DropNode, TypeOK, LockOK, DropOK, Cleaning, Off
  <2> QED
    BY <2>2, <2>4, <2>5 DEF ListOK
<1>3. CASE CountDropped
  BY <1>3 DEF CountDropped, TypeOK, ListOK, LockOK, DropOK, Stored, Cleaning, Off
<1>4. CASE EndCleanup
  <2>1. mu = "cleaner" /\ cleaner' = Off /\ mu' = Free /\ UNCHANGED <<nodes, count, lru, add>>
    BY <1>4 DEF EndCleanup, LockOK, Off
  <2>2. TypeOK'
    BY <2>1 DEF TypeOK, Stored
  <2>3. LockOK'
    BY <2>1 DEF LockOK
  <2> QED
    BY <2>1, <2>2, <2>3 DEF ListOK, DropOK, Off
<1>5. ASSUME NEW n \in Nodes, VisitNode(n) PROVE TInv'
  <2>1. cleaner \in Cleaning /\ UNCHANGED <<nodes, count, lru, mu, add>>
    BY <1>5 DEF VisitNode, TypeOK, Off
  <2>2. cleaner' \in Cleaning /\ cleaner'.node \in Stored
    BY <1>5, <2>1 DEF VisitNode, Cleaning
  <2>3. TypeOK'
    BY <2>1, <2>2 DEF TypeOK, Stored
  <2>4. cleaner # Off /\ cleaner' # Off
    BY <2>1, <2>2 DEF Cleaning, Off
  <2>5. LockOK' /\ DropOK'
    BY <2>1, <2>2, <2>4 DEF LockOK, DropOK, Stored
  <2> QED
    BY <2>1, <2>3, <2>5 DEF ListOK
<1> QED
  BY <1>1, <1>2, <1>3, <1>4, <1>5 DEF CleanupStaleNodes

LEMMA TInvStep ==
  ASSUME ConstantsOK
  PROVE  TInv /\ [Next]_vars => TInv'
<1> SUFFICES ASSUME TInv, [Next]_vars PROVE TInv'
  OBVIOUS
<1>1. ASSUME NEW n \in Nodes, GrowStale(n) PROVE TInv'
  BY <1>1 DEF GrowStale, TInv, TypeOK, ListOK, LockOK, DropOK, Stored, Points
<1>2. CASE UNCHANGED vars
  BY <1>2 DEF vars, TInv, TypeOK, ListOK, LockOK, DropOK, Stored
<1> QED
  BY <1>1, <1>2, UpdateNodeLRUStep, AddMetricStep, CleanupStep DEF Next

-----------------------------------------------------------------------------
(* Every step keeps the eviction list free of ghosts.                        *)

Storing(r, n) == add[r].pc \in {"limit", "evict", "evicted", "load"} /\ add[r].node = n

\* It is enough that no node leaves the map but stays in the list, that none
\* but those of calls about to store enters the list, and that a call goes on
\* to its buffer with its node in the map.
LEMMA NoGhostFrame ==
  ASSUME ConstantsOK, NoGhostEntries,
         \A n \in ToSet(lru)' \ ToSet(lru) : \E r \in Reporters : Storing(r, n)',
         \A n \in Stored \ Stored' : n \notin ToSet(lru)',
         \A r \in Reporters, n \in Nodes : Storing(r, n) => Storing(r, n)' \/ n \in Stored',
         ToSet(lru) \subseteq Nodes
  PROVE  NoGhostEntries'
<1> SUFFICES ASSUME NEW n \in ToSet(lru)' \ Stored'
             PROVE  \E r \in Reporters : Storing(r, n)'
  BY DEF NoGhostEntries, Storing
<1>1. CASE n \notin ToSet(lru)
  BY <1>1
<1>2. CASE n \in ToSet(lru)
  <2>1. n \notin Stored
    OBVIOUS
  <2>2. PICK r \in Reporters : Storing(r, n)
    BY <1>2, <2>1 DEF NoGhostEntries, Storing
  <2> QED
    BY <1>2, <2>2
<1> QED
  BY <1>1, <1>2

LEMMA NoGhostStep ==
  ASSUME ConstantsOK
  PROVE  TInv /\ NoGhostEntries /\ [Next]_vars => NoGhostEntries'
<1> SUFFICES ASSUME TInv, NoGhostEntries, [Next]_vars PROVE NoGhostEntries'
  OBVIOUS
<1>0. ToSet(lru) \subseteq Nodes
  BY DEF TInv, TypeOK, ToSet
<1>1. ASSUME NEW r \in Reporters, NEW n \in Nodes, UpdateNodeLRU(r, n) PROVE NoGhostEntries'
  <2>1. ToSet(lru)' = (ToSet(lru) \ {n}) \cup {n}
    BY <1>1, WithoutFacts, PushFrontFacts DEF UpdateNodeLRU, TInv, TypeOK, ListOK
  <2>2. Storing(r, n)' /\ Stored' = Stored
    BY <1>1 DEF UpdateNodeLRU, TInv, TypeOK, Storing, Stored
  <2>3. \A q \in Reporters, m \in Nodes : Storing(q, m) => Storing(q, m)'
    BY <1>1 DEF UpdateNodeLRU, TInv, TypeOK, Storing, Idle
  <2> QED
    BY <1>0, <2>1, <2>2, <2>3, NoGhostFrame
<1>2. ASSUME NEW r \in Reporters, EvictOldest(r) PROVE NoGhostEntries'
  <2>1. ToSet(lru)' = ToSet(lru) \ {Last(lru)}
    BY <1>2, BackFacts DEF EvictOldest, TInv, TypeOK, ListOK
  <2>2. Stored \ Stored' \subseteq {Last(lru)}
    BY <1>2 DEF EvictOldest, RemoveNode, Stored
  <2>3. \A q \in Reporters, m \in Nodes : Storing(q, m) => Storing(q, m)'
    <3>1. CASE Last(lru) \in Stored
      <4>1. TypeOK /\ add[r].pc = "evict" /\ add' = [Detached(Last(lru)) EXCEPT ![r].pc = "evicted"]
        BY <1>2, <3>1 DEF EvictOldest, TInv
      <4>2. /\ Detached(Last(lru)) \in [Reporters -> Call \cup {Idle}]
            /\ \A q \in Reporters :
                 /\ Detached(Last(lru))[q].pc = add[q].pc
                 /\ add[q] # Idle => Detached(Last(lru))[q].node = add[q].node
        BY <4>1, DetachedFacts
      <4>3. ASSUME NEW q \in Reporters, NEW m \in Nodes, Storing(q, m) PROVE Storing(q, m)'
        <5>1. add[q] # Idle /\ Detached(Last(lru))[q].node = m
          BY <4>2, <4>3 DEF Storing, Idle
        <5>2. CASE q = r
          <6>1. Detached(Last(lru))[r] \in Call
            BY <4>1, <4>2, <5>2 DEF Call, Idle
          <6>2. add'[r].pc = "evicted" /\ add'[r].node = Detached(Last(lru))[r].node
            BY <4>1, <4>2, <6>1 DEF Call
          <6> QED
            BY <5>1, <5>2, <6>2 DEF Storing
        <5>3. CASE q # r
          <6>1. add'[q] = Detached(Last(lru))[q]
            BY <4>1, <4>2, <5>3
          <6> QED
            BY <4>2, <4>3, <5>1, <6>1 DEF Storing
        <5> QED
          BY <5>2, <5>3
      <4> QED
        BY <4>3
    <3>2. CASE Last(lru) \notin Stored
      <4>1. add[r].pc = "evict" /\ add' = [add EXCEPT ![r].pc = "load"]
        BY <1>2, <3>2 DEF EvictOldest
      <4> QED
        BY <4>1, CallFacts DEF TInv, TypeOK, Storing, Call, Idle
    <3> QED
      BY <3>1, <3>2
  <2> QED
    BY <1>0, <2>1, <2>2, <2>3, NoGhostFrame
<1>3. ASSUME NEW r \in Reporters, LoadOrStore(r) PROVE NoGhostEntries'
  <2>1. lru' = lru /\ Stored' = Stored \cup {add[r].node}
    BY <1>3 DEF LoadOrStore, Stored
  <2>2. \A q \in Reporters \ {r} : add'[q] = add[q]
    BY <1>3 DEF LoadOrStore, TInv, TypeOK
  <2>3. \A q \in Reporters, m \in Nodes : Storing(q, m) => Storing(q, m)' \/ m \in Stored'
    BY <2>1, <2>2 DEF Storing
  <2> QED
    BY <1>0, <2>1, <2>3, NoGhostFrame
<1>4. CASE DropNode
  <2>1. ToSet(lru)' = ToSet(lru) \ {cleaner.node}
    BY <1>4, WithoutFacts DEF DropNode, TInv, TypeOK, ListOK
  <2>2. Stored \ Stored' \subseteq {cleaner.node}
    BY <1>4 DEF DropNode, RemoveNode, Stored
  <2>3. \A q \in Reporters, m \in Nodes : Storing(q, m) => Storing(q, m)'
    <3>1. TypeOK /\ add' = Detached(cleaner.node)
      BY <1>4 DEF DropNode, TInv
    <3>2. \A q \in Reporters : add'[q].pc = add[q].pc /\ (add[q] # Idle => add'[q].node = add[q].node)
      BY <3>1, DetachedFacts
    <3> QED
      BY <3>2 DEF Storing, Idle
  <2> QED
    BY <1>0, <2>1, <2>2, <2>3, NoGhostFrame
<1>5. ASSUME NEW r \in Reporters,
             CheckLimit(r) \/ NothingToEvict(r) \/ CountEvicted(r)
               \/ CountStored(r) \/ ClaimSlot(r) \/ StorePoint(r)
      PROVE  NoGhostEntries'
  <2>1. lru' = lru /\ Stored' = Stored
    BY <1>5 DEF CheckLimit, NothingToEvict, CountEvicted, CountStored, ClaimSlot, StorePoint, Stored
  <2>2. \A q \in Reporters, m \in Nodes : Storing(q, m) => Storing(q, m)'
    <3>1. CASE CheckLimit(r) \/ NothingToEvict(r) \/ CountEvicted(r)
      BY <3>1, CallFacts DEF CheckLimit, NothingToEvict, CountEvicted, TInv, TypeOK, Storing, Call, Idle
    <3>2. CASE CountStored(r) \/ StorePoint(r)
      BY <3>2 DEF CountStored, StorePoint, TInv, TypeOK, Storing
    <3>3. CASE ClaimSlot(r)
      BY <3>3, CallFacts DEF ClaimSlot, TInv, TypeOK, Storing, Call, Idle
    <3> QED
      BY <1>5, <3>1, <3>2, <3>3
  <2> QED
    BY <1>0, <2>1, <2>2, NoGhostFrame
<1>6. CASE \/ BeginCleanup \/ CountDropped \/ EndCleanup \/ UNCHANGED vars
           \/ \E n \in Nodes : VisitNode(n) \/ GrowStale(n)
  <2>1. lru' = lru /\ Stored' = Stored /\ add' = add
    BY <1>6 DEF BeginCleanup, CountDropped, EndCleanup, VisitNode, GrowStale, vars, Stored
  <2>2. \A q \in Reporters, m \in Nodes : Storing(q, m) => Storing(q, m)'
    BY <2>1 DEF Storing
  <2> QED
    BY <1>0, <2>1, <2>2, NoGhostFrame
<1> QED
  BY <1>1, <1>2, <1>3, <1>4, <1>5, <1>6 DEF Next, AddMetric, CleanupStaleNodes

-----------------------------------------------------------------------------
(* Every step keeps the count.                                               *)

\* An eviction or a drop that is still to be counted.
Uncounted == At("evicted") # {} \/ cleaner.pc = "dropped"

\* CountAccurate speaks of finite sets.
LEMMA Finite ==
  ASSUME ConstantsOK, TypeOK, NEW pc
  PROVE  /\ IsFiniteSet(Stored) /\ IsFiniteSet(At(pc))
         /\ Cardinality(Stored) \in Nat /\ Cardinality(At(pc)) \in Nat
<1>1. Stored \subseteq Nodes /\ At(pc) \subseteq Reporters
  BY DEF TypeOK, At
<1>2. IsFiniteSet(Stored) /\ IsFiniteSet(At(pc))
  BY <1>1, FS_Subset
<1> QED
  BY <1>2, FS_CardinalityType

\* A step that stores and removes nothing and counts nothing.
LEMMA CountFrame ==
  ASSUME ConstantsOK, CountAccurate, Stored' = Stored, At("count")' = At("count"),
         Uncounted' <=> Uncounted, count' = count
  PROVE  CountAccurate'
BY DEF CountAccurate, Uncounted

LEMMA CountStep ==
  ASSUME ConstantsOK
  PROVE  TInv /\ CountAccurate /\ [Next]_vars => CountAccurate'
<1> SUFFICES ASSUME TInv, CountAccurate, [Next]_vars PROVE CountAccurate'
  OBVIOUS
<1>0. /\ TypeOK /\ LockOK
      /\ IsFiniteSet(Stored) /\ Cardinality(Stored) \in Nat
      /\ IsFiniteSet(At("count")) /\ Cardinality(At("count")) \in Nat
      /\ count = Cardinality(Stored) - Cardinality(At("count")) + (IF Uncounted THEN 1 ELSE 0)
  BY Finite DEF TInv, CountAccurate, Uncounted
<1>1. ASSUME NEW r \in Reporters, NEW n \in Nodes, UpdateNodeLRU(r, n) PROVE CountAccurate'
  <2>1. UNCHANGED <<nodes, count, cleaner>>
    BY <1>1 DEF UpdateNodeLRU
  <2>2. \A q \in Reporters : add'[q].pc = IF q = r THEN "limit" ELSE add[q].pc
    BY <1>0, <1>1 DEF UpdateNodeLRU, TypeOK
  <2>3. add[r].pc = "idle"
    BY <1>1 DEF UpdateNodeLRU, Idle
  <2>4. At("count")' = At("count") /\ At("evicted")' = At("evicted") /\ Stored' = Stored
    BY <2>1, <2>2, <2>3 DEF At, Stored
  <2> QED
    BY <2>1, <2>4, CountFrame DEF Uncounted
<1>2. ASSUME NEW r \in Reporters, EvictOldest(r) PROVE CountAccurate'
  <2> DEFINE x == Last(lru)
  <2>1. add[r].pc = "evict" /\ mu = Free /\ cleaner = Off /\ count' = count /\ cleaner' = cleaner
    BY <1>0, <1>2 DEF EvictOldest, LockOK
  <2>2. At("evicted") = {} /\ ~Uncounted
    BY <1>0, <2>1 DEF LockOK, At, Uncounted, Off
  <2>3. CASE x \in Stored
    <3>1. Stored' = Stored \ {x}
      BY <1>2, <2>3 DEF EvictOldest, RemoveNode, Stored
    <3>2. Cardinality(Stored') = Cardinality(Stored) - 1
      BY <1>0, <2>3, <3>1, FS_RemoveElement
    <3>3. \A q \in Reporters : add'[q].pc = IF q = r THEN "evicted" ELSE add[q].pc
      <4>1. /\ add' = [Detached(x) EXCEPT ![r].pc = "evicted"]
            /\ Detached(x) \in [Reporters -> Call \cup {Idle}]
            /\ \A q \in Reporters : Detached(x)[q].pc = add[q].pc
        BY <1>0, <1>2, <2>3, DetachedFacts DEF EvictOldest
      <4>2. Detached(x)[r] \in Call
        BY <2>1, <4>1 DEF Call, Idle
      <4> QED
        BY <4>1, <4>2 DEF Call
    <3>4. At("count")' = At("count") /\ r \in At("evicted")'
      BY <2>1, <3>3 DEF At
    <3> QED
      BY <1>0, <2>1, <2>2, <3>2, <3>4 DEF CountAccurate
  <2>4. CASE x \notin Stored
    <3>1. Stored' = Stored
      BY <1>2, <2>4 DEF EvictOldest, Stored
    <3>2. \A q \in Reporters : add'[q].pc = IF q = r THEN "load" ELSE add[q].pc
      <4>1. add' = [add EXCEPT ![r].pc = "load"] /\ add \in [Reporters -> Call \cup {Idle}]
        BY <1>0, <1>2, <2>4 DEF EvictOldest, TypeOK
      <4>2. add[r] \in Call
        BY <1>0, <2>1, CallFacts
      <4> QED
        BY <4>1, <4>2 DEF Call
    <3>3. At("count")' = At("count") /\ At("evicted")' = At("evicted")
      BY <2>1, <3>2 DEF At
    <3> QED
      BY <2>1, <3>1, <3>3, CountFrame DEF Uncounted
  <2> QED
    BY <2>3, <2>4
<1>3. ASSUME NEW r \in Reporters, CountEvicted(r) PROVE CountAccurate'
  <2>1. /\ add[r].pc = "evicted" /\ mu = r /\ cleaner = Off /\ Uncounted
        /\ count' = count - 1 /\ cleaner' = cleaner /\ Stored' = Stored
    BY <1>0, <1>3 DEF CountEvicted, LockOK, Uncounted, At, Stored
  <2>2. \A q \in Reporters : add'[q].pc = IF q = r THEN "load" ELSE add[q].pc
    BY <1>0, <1>3 DEF CountEvicted, TypeOK
  <2>3. At("count")' = At("count")
    BY <2>1, <2>2 DEF At
  <2>4. At("evicted")' = {} /\ cleaner'.pc # "dropped"
    BY <1>0, <2>1, <2>2 DEF At, LockOK, Off
  <2> QED
    BY <1>0, <2>1, <2>3, <2>4 DEF CountAccurate
<1>4. ASSUME NEW r \in Reporters, LoadOrStore(r) PROVE CountAccurate'
  <2> DEFINE n == add[r].node
  <2>1. add[r].pc = "load" /\ add[r] \in Call /\ count' = count /\ cleaner' = cleaner
    BY <1>0, <1>4, CallFacts DEF LoadOrStore, Idle
  <2>2. CASE n \in Stored
    <3>1. Stored' = Stored
      BY <1>4, <2>2 DEF LoadOrStore, Stored
    <3>2. \A q \in Reporters : add'[q].pc = IF q = r THEN "claim" ELSE add[q].pc
      BY <1>0, <1>4, <2>1, <2>2 DEF LoadOrStore, TypeOK, Call
    <3>3. At("count")' = At("count") /\ At("evicted")' = At("evicted")
      BY <2>1, <3>2 DEF At
    <3> QED
      BY <2>1, <3>1, <3>3, CountFrame DEF Uncounted
  <2>3. CASE n \notin Stored
    <3>1. Stored' = Stored \cup {n}
      BY <1>4, <2>3 DEF LoadOrStore, Stored
    <3>2. \A q \in Reporters : add'[q].pc = IF q = r THEN "count" ELSE add[q].pc
      BY <1>0, <1>4, <2>1, <2>3 DEF LoadOrStore, TypeOK, Call
    <3>3. At("count")' = At("count") \cup {r} /\ r \notin At("count") /\ At("evicted")' = At("evicted")
      BY <2>1, <3>2 DEF At
    <3>4. /\ Cardinality(Stored') = Cardinality(Stored) + 1
          /\ Cardinality(At("count")') = Cardinality(At("count")) + 1
      BY <1>0, <2>3, <3>1, <3>3, FS_AddElement
    <3>5. Uncounted' <=> Uncounted
      BY <2>1, <3>3 DEF Uncounted
    <3> QED
      BY <1>0, <2>1, <3>4, <3>5 DEF CountAccurate, Uncounted
  <2> QED
    BY <2>2, <2>3
<1>5. ASSUME NEW r \in Reporters, CountStored(r) PROVE CountAccurate'
  <2>1. /\ add[r].pc = "count" /\ count' = count + 1 /\ cleaner' = cleaner /\ Stored' = Stored
    BY <1>5 DEF CountStored, Stored
  <2>2. \A q \in Reporters : add'[q].pc = IF q = r THEN "claim" ELSE add[q].pc
    BY <1>0, <1>5 DEF CountStored, TypeOK
  <2>3. At("count")' = At("count") \ {r} /\ r \in At("count") /\ At("evicted")' = At("evicted")
    BY <2>1, <2>2 DEF At
  <2>4. Cardinality(At("count")') = Cardinality(At("count")) - 1
    BY <1>0, <2>3, FS_RemoveElement
  <2>5. Uncounted' <=> Uncounted
    BY <2>1, <2>3 DEF Uncounted
  <2> QED
    BY <1>0, <2>1, <2>4, <2>5 DEF CountAccurate, Uncounted
<1>6. CASE DropNode
  <2>1. /\ cleaner.pc = "drop" /\ cleaner \in Cleaning /\ cleaner.node \in Stored /\ mu = "cleaner"
        /\ Stored' = Stored \ {cleaner.node} /\ count' = count
        /\ cleaner'.pc = "dropped"
    BY <1>0, <1>6 DEF DropNode, RemoveNode, TInv, TypeOK, DropOK, LockOK, Off, Cleaning, Stored
  <2>2. ~Uncounted
    BY <1>0, <2>1 DEF Uncounted, At, LockOK
  <2>3. \A q \in Reporters : add'[q].pc = add[q].pc
    BY <1>0, <1>6, DetachedFacts DEF DropNode
  <2>4. At("count")' = At("count")
    BY <2>3 DEF At
  <2>5. Cardinality(Stored') = Cardinality(Stored) - 1
    BY <1>0, <2>1, FS_RemoveElement
  <2> QED
    BY <1>0, <2>1, <2>2, <2>4, <2>5 DEF CountAccurate
<1>7. CASE CountDropped
  <2>1. /\ cleaner.pc = "dropped" /\ cleaner \in Cleaning /\ mu = "cleaner" /\ Uncounted
        /\ count' = count - 1 /\ cleaner'.pc = "range" /\ Stored' = Stored /\ add' = add
    BY <1>0, <1>7 DEF CountDropped, TypeOK, LockOK, Uncounted, Off, Cleaning, Stored
  <2>2. At("count")' = At("count") /\ At("evicted")' = {}
    BY <1>0, <2>1 DEF At, LockOK
  <2> QED
    BY <1>0, <2>1, <2>2 DEF CountAccurate
<1>8. ASSUME NEW r \in Reporters,
             CheckLimit(r) \/ NothingToEvict(r) \/ ClaimSlot(r) \/ StorePoint(r)
      PROVE  CountAccurate'
  <2>1. count' = count /\ cleaner' = cleaner /\ Stored' = Stored
    BY <1>8 DEF CheckLimit, NothingToEvict, ClaimSlot, StorePoint, Stored
  <2>2. \A q \in Reporters :
          \/ add'[q].pc = add[q].pc
          \/ /\ add[q].pc \in {"limit", "evict", "claim", "store"}
             /\ add'[q].pc \in {"evict", "load", "store", "idle"}
    <3>1. CASE CheckLimit(r) \/ NothingToEvict(r)
      <4>1. add[r].pc \in {"limit", "evict"}
        BY <3>1 DEF CheckLimit, NothingToEvict
      <4>2. \/ add' = [add EXCEPT ![r].pc = "evict"]
            \/ add' = [add EXCEPT ![r].pc = "load"]
        BY <3>1 DEF CheckLimit, NothingToEvict
      <4>3. add[r] \in Call /\ add \in [Reporters -> Call \cup {Idle}]
        BY <1>0, <4>1, CallFacts DEF TypeOK
      <4> QED
        BY <4>1, <4>2, <4>3 DEF Call
    <3>2. CASE ClaimSlot(r)
      <4>1. add[r].pc = "claim" /\ add[r] \in Call /\ \A q \in Reporters : add[q] \in Call \cup {Idle}
        BY <1>0, <3>2, CallFacts DEF ClaimSlot, TypeOK
      <4>2. ASSUME NEW q \in Reporters PROVE add'[q].pc = IF q = r THEN "store" ELSE add[q].pc
        <5>1. CASE add[r].held
          <6>1. add'[q] = IF q = r THEN [add[r] EXCEPT !.pc = "store", !.newest = TRUE]
                          ELSE IF add[q] # Idle /\ add[q].node = add[r].node
                               THEN [add[q] EXCEPT !.newest = FALSE] ELSE add[q]
            BY <3>2, <5>1 DEF ClaimSlot
          <6> QED
            BY <4>1, <6>1 DEF Call
        <5>2. CASE ~add[r].held
          BY <1>0, <3>2, <4>1, <5>2 DEF ClaimSlot, TypeOK, Call
        <5> QED
          BY <5>1, <5>2
      <4> QED
        BY <4>1, <4>2
    <3>3. CASE StorePoint(r)
      BY <1>0, <3>3 DEF StorePoint, TypeOK, Idle
    <3> QED
      BY <1>8, <3>1, <3>2, <3>3
  <2>3. At("count")' = At("count") /\ At("evicted")' = At("evicted")
    BY <2>2 DEF At
  <2> QED
    BY <2>1, <2>3, CountFrame DEF Uncounted
<1>9. CASE \/ BeginCleanup \/ EndCleanup \/ UNCHANGED vars
           \/ \E n \in Nodes : VisitNode(n) \/ GrowStale(n)
  <2>1. count' = count /\ Stored' = Stored /\ add' = add
    BY <1>9 DEF BeginCleanup, EndCleanup, VisitNode, GrowStale, vars, Stored
  <2>2. cleaner.pc = "dropped" <=> cleaner'.pc = "dropped"
    <3>1. CASE BeginCleanup \/ EndCleanup
      BY <3>1 DEF BeginCleanup, EndCleanup, Off
    <3>2. ASSUME NEW n \in Nodes, VisitNode(n) PROVE cleaner.pc # "dropped" /\ cleaner'.pc # "dropped"
      <4>1. cleaner \in Cleaning /\ cleaner.pc = "range"
        BY <1>0, <3>2 DEF VisitNode, TypeOK, Off
      <4>2. cleaner'.pc \in {"drop", "range"}
        BY <3>2, <4>1 DEF VisitNode, Cleaning
      <4> QED
        BY <4>1, <4>2
    <3>3. CASE UNCHANGED vars \/ \E n \in Nodes : GrowStale(n)
      BY <3>3 DEF vars, GrowStale
    <3> QED
      BY <1>9, <3>1, <3>2, <3>3
  <2>3. At("count")' = At("count") /\ At("evicted")' = At("evicted")
    BY <2>1 DEF At
  <2> QED
    BY <2>1, <2>2, <2>3, CountFrame DEF Uncounted
<1> QED
  BY <1>1, <1>2, <1>3, <1>4, <1>5, <1>6, <1>7, <1>8, <1>9 DEF Next, AddMetric, CleanupStaleNodes

-----------------------------------------------------------------------------
(* The theorems.                                                             *)

LEMMA Invariance ==
  ASSUME ConstantsOK
  PROVE  Spec => []IInv
<1>1. IInv /\ [Next]_vars => IInv'
  BY TInvStep, NoGhostStep, CountStep DEF IInv, TInv
<1> QED
  BY InitInv, <1>1, PTL DEF Spec

\* Whatever insertions, evictions and clean-up interleave, nodeCount is the
\* number of buffers but for the stores and removals in progress
\* (AddMetric, evictOldest and CleanupStaleNodes of manager.go).
THEOREM CountIsAccurate ==
  ASSUME ConstantsOK
  PROVE  Spec => []CountAccurate
BY Invariance, PTL DEF IInv

\* Evicting a node of the list frees a buffer, unless a running call is about
\* to store it (updateNodeLRU, removeNode and the deletions of
\* CleanupStaleNodes keep list and map together).
THEOREM NoGhosts ==
  ASSUME ConstantsOK
  PROVE  Spec => []NoGhostEntries
BY Invariance, PTL DEF IInv
=============================================================================
