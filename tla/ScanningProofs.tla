--------------------------- MODULE ScanningProofs ---------------------------
(* Theorems about Scanning: each scanner keeps the promise of ScanChannel,   *)
(* and the TCP scanner accounts for its connections, for all sets of calls,  *)
(* targets and connections, any number of slots and any size of the pool.    *)
EXTENDS Scanning, Integers, FiniteSetTheorems, SequenceTheorems, WellFoundedInduction, TLAPS

-----------------------------------------------------------------------------
(* The TCP scanner: its connections.                                        *)

PoolEntries == [conn : Conns, stale : BOOLEAN]
Workers ==
  {Tcp!Resting, Tcp!Ended, [pc |-> "sem"], [pc |-> "dial"]}
  \cup [pc : {"check", "decide", "put"}, conn : Conns, ok : BOOLEAN]
  \cup [pc : {"send"}, conn : Conns \cup {Tcp!NoConn}, ok : BOOLEAN]

\* One worker for each call and target, one list for each address.
Crew == [Scans -> [Targets -> Workers]]
Pools == [Targets -> Seq(PoolEntries)]

TcpTyped ==
  /\ wanted \in [Scans -> SUBSET Targets] /\ sent \in [Scans -> SUBSET Targets]
  /\ cancelled \in [Scans -> BOOLEAN] /\ over \in [Scans -> BOOLEAN]
  /\ feeder \in [Scans -> {"off", "loop", "returned"}]
  /\ closer \in [Scans -> {"off", "wait", "drain", "closed"}]
  /\ worker \in Crew
  /\ pool \in Pools
  /\ shut \in {"no", "done", "closed", "stuck"}

\* The connections of the workers w and of the pool p, and whether no two of them
\* are the same.
Holding(r) == r.pc \in {"check", "send", "decide", "put"} /\ r.conn # Tcp!NoConn
Holds(r, c) == Holding(r) /\ r.conn = c
HoldsAt(w, s, t, c) == Holding(w[s][t]) /\ w[s][t].conn = c
HeldIn(w) == UNION {{w[s][t].conn : t \in {u \in Targets : Holding(w[s][u])}} : s \in Scans}
HeldApart(w) ==
  \A s, r \in Scans, t, u \in Targets :
    Holding(w[s][t]) /\ Holding(w[r][u]) /\ w[s][t].conn = w[r][u].conn => s = r /\ t = u

PooledIn(p) == UNION {{p[a][i].conn : i \in DOMAIN p[a]} : a \in Targets}
PooledAt(p, K) == UNION {{p[a][i].conn : i \in K[a]} : a \in Targets}
PooledApart(p) ==
  \A a, b \in Targets : \A i \in DOMAIN p[a], j \in DOMAIN p[b] :
    p[a][i].conn = p[b][j].conn => a = b /\ i = j

\* The connections o are open, h says how far Stop is.
ConnsOK(w, p, o, h) ==
  /\ \A a \in Targets : Len(p[a]) <= MaxIdle
  /\ HeldApart(w) /\ PooledApart(p)
  /\ HeldIn(w) \cap PooledIn(p) = {}
  /\ o \subseteq HeldIn(w) \cup PooledIn(p)
  /\ h # "stuck" => HeldIn(w) \cup PooledIn(p) \subseteq o
  /\ h = "closed" => PooledIn(p) = {}

ConnsInv == ConnsOK(worker, pool, open, shut)

\* A worker that changes: what the others hold stays.
Put(w, s, t, r) == [w EXCEPT ![s][t] = r]

LEMMA PutFacts ==
  ASSUME NEW w \in Crew, NEW s \in Scans, NEW t \in Targets, NEW r \in Workers
  PROVE  /\ Put(w, s, t, r) \in Crew
         /\ \A x \in Scans, y \in Targets :
              Put(w, s, t, r)[x][y] = IF x = s /\ y = t THEN r ELSE w[x][y]
BY DEF Put, Crew

LEMMA HeldMember ==
  ASSUME NEW w, NEW c
  PROVE  c \in HeldIn(w) <=> \E s \in Scans, t \in Targets : Holding(w[s][t]) /\ w[s][t].conn = c
BY DEF HeldIn

LEMMA PooledMember ==
  ASSUME NEW p, NEW c
  PROVE  c \in PooledIn(p) <=> \E a \in Targets : \E i \in DOMAIN p[a] : p[a][i].conn = c
BY DEF PooledIn

LEMMA PooledAtMember ==
  ASSUME NEW p, NEW K, NEW c
  PROVE  c \in PooledAt(p, K) <=> \E a \in Targets : \E i \in K[a] : p[a][i].conn = c
BY DEF PooledAt

\* It keeps what it holds.
LEMMA HeldKept ==
  ASSUME NEW w \in Crew, NEW s \in Scans, NEW t \in Targets, NEW r \in Workers,
         HeldApart(w), Holding(r) <=> Holding(w[s][t]), Holding(r) => r.conn = w[s][t].conn
  PROVE  HeldApart(Put(w, s, t, r)) /\ HeldIn(Put(w, s, t, r)) = HeldIn(w)
<1> USE DEF Crew
<1> DEFINE v == Put(w, s, t, r)
<1>1. /\ v[s][t] = r
      /\ \A x \in Scans, y \in Targets : ~(x = s /\ y = t) => v[x][y] = w[x][y]
  BY PutFacts
<1> HIDE DEF v
<1>2. ASSUME NEW x \in Scans, NEW y \in Targets
      PROVE  /\ Holding(v[x][y]) <=> Holding(w[x][y])
             /\ Holding(v[x][y]) => v[x][y].conn = w[x][y].conn
  <2>1. CASE x = s /\ y = t
    BY <1>1, <2>1
  <2>2. CASE ~(x = s /\ y = t)
    BY <1>1, <2>2
  <2> QED
    BY <2>1, <2>2
<1>3. HeldApart(v)
  BY <1>2 DEF HeldApart
<1>4. \A c : c \in HeldIn(v) <=> c \in HeldIn(w)
  BY <1>2, HeldMember
<1> QED
  BY <1>3, <1>4 DEF v

\* It takes a connection that no other holds.
LEMMA HeldTaken ==
  ASSUME NEW w \in Crew, NEW s \in Scans, NEW t \in Targets, NEW r \in Workers,
         HeldApart(w), ~Holding(w[s][t]), NEW d, Holds(r, d), d \notin HeldIn(w)
  PROVE  HeldApart(Put(w, s, t, r)) /\ HeldIn(Put(w, s, t, r)) = HeldIn(w) \cup {d}
<1> USE DEF Crew
<1> USE DEF Holds
<1> DEFINE v == Put(w, s, t, r)
<1>1. /\ v[s][t] = r
      /\ \A x \in Scans, y \in Targets : ~(x = s /\ y = t) => v[x][y] = w[x][y]
  BY PutFacts
<1> HIDE DEF v
<1>2. \A x \in Scans, y \in Targets : Holding(w[x][y]) => w[x][y].conn # d
  BY HeldMember
<1>3. HeldApart(v)
  BY <1>1, <1>2 DEF HeldApart
<1>4. ASSUME NEW c PROVE c \in HeldIn(v) <=> c \in HeldIn(w) \cup {d}
  <2>1. CASE c = d
    BY <1>1, <2>1, HeldMember
  <2>2. CASE c # d
    <3>1. ASSUME NEW x \in Scans, NEW y \in Targets
          PROVE  Holding(v[x][y]) /\ v[x][y].conn = c <=> Holding(w[x][y]) /\ w[x][y].conn = c
      BY <1>1, <2>2
    <3> QED
      BY <2>2, <3>1, HeldMember
  <2> QED
    BY <2>1, <2>2
<1> QED
  BY <1>3, <1>4 DEF v

\* It gives its connection away.
LEMMA HeldGiven ==
  ASSUME NEW w \in Crew, NEW s \in Scans, NEW t \in Targets, NEW r \in Workers,
         HeldApart(w), NEW d, HoldsAt(w, s, t, d), ~Holding(r)
  PROVE  HeldApart(Put(w, s, t, r)) /\ HeldIn(Put(w, s, t, r)) = HeldIn(w) \ {d}
<1> USE DEF Crew
<1> USE DEF HoldsAt
<1> DEFINE v == Put(w, s, t, r)
<1>1. /\ v[s][t] = r
      /\ \A x \in Scans, y \in Targets : ~(x = s /\ y = t) => v[x][y] = w[x][y]
  BY PutFacts
<1> HIDE DEF v
<1>2. HeldApart(v)
  BY <1>1 DEF HeldApart
<1>3. ASSUME NEW c PROVE c \in HeldIn(v) <=> c \in HeldIn(w) \ {d}
  <2>1. CASE c = d
    <3>1. \A x \in Scans, y \in Targets : Holding(v[x][y]) => v[x][y].conn # c
      BY <1>1, <2>1 DEF HeldApart
    <3> QED
      BY <2>1, <3>1, HeldMember
  <2>2. CASE c # d
    <3>1. ASSUME NEW x \in Scans, NEW y \in Targets
          PROVE  Holding(v[x][y]) /\ v[x][y].conn = c <=> Holding(w[x][y]) /\ w[x][y].conn = c
      BY <1>1, <2>2
    <3> QED
      BY <2>2, <3>1, HeldMember
  <2> QED
    BY <2>1, <2>2
<1> QED
  BY <1>2, <1>3 DEF v

\* The entries of the list t are those of s at the places K, each at a place of
\* its own.
SameConns(t, s, K) ==
  \E at \in [DOMAIN t -> K] :
    /\ \A i, j \in DOMAIN t : at[i] = at[j] => i = j
    /\ \A k \in K : \E i \in DOMAIN t : at[i] = k
    /\ \A i \in DOMAIN t : t[i].conn = s[at[i]].conn

\* A pool of which some entries are left.
LEMMA PoolLeft ==
  ASSUME NEW p \in Pools, NEW q \in Pools,
         NEW K, \A a \in Targets : K[a] \subseteq DOMAIN p[a] /\ SameConns(q[a], p[a], K[a]),
         PooledApart(p)
  PROVE  /\ PooledApart(q)
         /\ PooledIn(q) = PooledAt(p, K)
<1> USE DEF Pools
<1>1. ASSUME NEW a \in Targets, NEW b \in Targets, NEW i \in DOMAIN q[a], NEW j \in DOMAIN q[b],
             q[a][i].conn = q[b][j].conn
      PROVE  a = b /\ i = j
  <2>1. PICK f \in [DOMAIN q[a] -> K[a]] :
          /\ \A k, l \in DOMAIN q[a] : f[k] = f[l] => k = l
          /\ \A k \in DOMAIN q[a] : q[a][k].conn = p[a][f[k]].conn
    BY DEF SameConns
  <2>2. PICK g \in [DOMAIN q[b] -> K[b]] : \A k \in DOMAIN q[b] : q[b][k].conn = p[b][g[k]].conn
    BY DEF SameConns
  <2>3. a = b /\ f[i] = g[j]
    BY <1>1, <2>1, <2>2 DEF PooledApart
  <2>4. f[i] = f[j]
    <3>1. j \in DOMAIN q[a] /\ q[a][j].conn = p[a][f[j]].conn /\ q[a][i].conn = p[a][f[i]].conn
      BY <2>1, <2>3
    <3> QED
      BY <1>1, <2>1, <2>3, <3>1 DEF PooledApart
  <2> QED
    BY <2>1, <2>3, <2>4
<1>2. PooledApart(q)
  BY <1>1 DEF PooledApart
<1>3. ASSUME NEW c, NEW a \in Targets
      PROVE  (\E i \in DOMAIN q[a] : q[a][i].conn = c) <=> (\E i \in K[a] : p[a][i].conn = c)
  <2>1. PICK f \in [DOMAIN q[a] -> K[a]] :
          /\ \A k \in K[a] : \E i \in DOMAIN q[a] : f[i] = k
          /\ \A k \in DOMAIN q[a] : q[a][k].conn = p[a][f[k]].conn
    BY DEF SameConns
  <2>2. ASSUME NEW i \in DOMAIN q[a], q[a][i].conn = c PROVE \E k \in K[a] : p[a][k].conn = c
    <3>1. f[i] \in K[a] /\ p[a][f[i]].conn = c
      BY <2>1, <2>2
    <3> QED
      BY <3>1
  <2>3. ASSUME NEW k \in K[a], p[a][k].conn = c PROVE \E i \in DOMAIN q[a] : q[a][i].conn = c
    <3>1. PICK i \in DOMAIN q[a] : f[i] = k
      BY <2>1
    <3>2. q[a][i].conn = c
      BY <2>1, <2>3, <3>1
    <3> QED
      BY <3>2
  <2> QED
    BY <2>2, <2>3
<1>4. ASSUME NEW c
      PROVE  c \in PooledIn(q) <=> c \in PooledAt(p, K)
  <2>1. c \in PooledIn(q) <=> \E a \in Targets : \E i \in DOMAIN q[a] : q[a][i].conn = c
    BY PooledMember
  <2>2. c \in PooledIn(q) <=> \E a \in Targets : \E i \in K[a] : p[a][i].conn = c
    BY <2>1, <1>3
  <2> QED
    BY <2>2, PooledAtMember
<1> QED
  BY <1>2, <1>4

LEMMA SameList ==
  ASSUME NEW s \in Seq(PoolEntries)
  PROVE  SameConns(s, s, DOMAIN s)
<1> USE DEF Pools
<1> DEFINE f == [i \in DOMAIN s |-> i]
<1>1. f \in [DOMAIN s -> DOMAIN s] /\ \A i \in DOMAIN s : f[i] = i
  OBVIOUS
<1> HIDE DEF f
<1> QED
  BY <1>1 DEF SameConns

\* An entry is appended.
Appended(p, a, e, q) ==
  /\ q \in Pools
  /\ q[a] = Append(p[a], e) /\ \A b \in Targets \ {a} : q[b] = p[b]

LEMMA PoolAppended ==
  ASSUME NEW p \in Pools, NEW a \in Targets, NEW e \in PoolEntries,
         PooledApart(p), e.conn \notin PooledIn(p),
         NEW q, Appended(p, a, e, q)
  PROVE  /\ PooledApart(q) /\ PooledIn(q) = PooledIn(p) \cup {e.conn}
         /\ Len(q[a]) = Len(p[a]) + 1
<1> USE DEF Pools
<1> USE DEF Appended
<1> DEFINE n == Len(p[a]) + 1
<1>1. /\ n \in Nat /\ Len(q[a]) = n /\ DOMAIN p[a] = 1..(n - 1) /\ DOMAIN q[a] = 1..n
      /\ q[a][n] = e /\ \A i \in 1..(n - 1) : q[a][i] = p[a][i]
  OBVIOUS
<1> HIDE DEF n
<1>2. \A b \in Targets : \A i \in DOMAIN q[b] :
        \/ b = a /\ i = n /\ q[b][i] = e
        \/ i \in DOMAIN p[b] /\ q[b][i] = p[b][i] /\ ~(b = a /\ i = n)
  <2>1. ASSUME NEW i \in DOMAIN q[a] PROVE i = n \/ i \in DOMAIN p[a]
    BY <1>1
  <2>2. \A i \in DOMAIN p[a] : q[a][i] = p[a][i] /\ i # n
    BY <1>1
  <2>3. ASSUME NEW b \in Targets, b # a PROVE q[b] = p[b]
    BY <2>3
  <2> QED
    BY <1>1, <2>1, <2>2, <2>3
<1>3. \A b \in Targets : \A i \in DOMAIN p[b] :
        i \in DOMAIN q[b] /\ q[b][i] = p[b][i] /\ p[b][i].conn # e.conn
  <2>1. \A i \in DOMAIN p[a] : i \in DOMAIN q[a] /\ q[a][i] = p[a][i]
    BY <1>1
  <2>2. ASSUME NEW b \in Targets, b # a PROVE q[b] = p[b]
    BY <2>2
  <2>3. \A b \in Targets : \A i \in DOMAIN p[b] : p[b][i].conn # e.conn
    BY PooledMember
  <2> QED
    BY <2>1, <2>2, <2>3
<1>4. PooledApart(q)
  BY <1>2, <1>3 DEF PooledApart
<1>5. n \in DOMAIN q[a] /\ q[a][n].conn = e.conn
  BY <1>1
<1>6. ASSUME NEW c PROVE c \in PooledIn(q) <=> c \in PooledIn(p) \cup {e.conn}
  <2>1. CASE c = e.conn
    BY <1>5, <2>1, PooledMember
  <2>2. CASE c # e.conn
    <3>1. ASSUME NEW b \in Targets
          PROVE  (\E i \in DOMAIN q[b] : q[b][i].conn = c) <=> (\E i \in DOMAIN p[b] : p[b][i].conn = c)
      <4>1. ASSUME NEW i \in DOMAIN q[b], q[b][i].conn = c PROVE i \in DOMAIN p[b] /\ p[b][i].conn = c
        BY <1>2, <2>2, <4>1
      <4> QED
        BY <1>3, <4>1
    <3>2. c \in PooledIn(q) <=> \E b \in Targets : \E i \in DOMAIN q[b] : q[b][i].conn = c
      BY PooledMember
    <3>3. c \in PooledIn(p) <=> \E b \in Targets : \E i \in DOMAIN p[b] : p[b][i].conn = c
      BY PooledMember
    <3>4. c \in PooledIn(q) <=> c \in PooledIn(p)
      BY <3>1, <3>2, <3>3
    <3> QED
      BY <2>2, <3>4
  <2> QED
    BY <2>1, <2>2
<1> QED
  BY <1>1, <1>4, <1>6 DEF n

\* An entry is removed.
Removed(p, a, i, q) ==
  /\ q \in Pools
  /\ q[a] = Tcp!RemoveAt(p[a], i) /\ \A b \in Targets \ {a} : q[b] = p[b]

LEMMA RemovedFrom ==
  ASSUME NEW s \in Seq(PoolEntries), NEW i \in DOMAIN s
  PROVE  /\ Tcp!RemoveAt(s, i) \in Seq(PoolEntries) /\ Len(Tcp!RemoveAt(s, i)) = Len(s) - 1
         /\ SameConns(Tcp!RemoveAt(s, i), s, DOMAIN s \ {i})
<1> DEFINE x == SubSeq(s, 1, i - 1)
           y == SubSeq(s, i + 1, Len(s))
           t == Tcp!RemoveAt(s, i)
           f == [j \in DOMAIN t |-> IF j < i THEN j ELSE j + 1]
<1>1. i \in Nat /\ Len(s) \in Nat /\ 1 <= i /\ i <= Len(s) /\ DOMAIN s = 1..Len(s)
  OBVIOUS
<1>2. /\ x \in Seq(PoolEntries) /\ Len(x) = i - 1
      /\ \A j \in 1..(i - 1) : x[j] = s[j]
  <2>1. 1 \in Int /\ i - 1 \in Int /\ \A j \in 1..(i - 1) : s[j] \in PoolEntries
    BY <1>1
  <2>2. /\ x \in Seq(PoolEntries) /\ Len(x) = IF 1 <= i - 1 THEN (i - 1) - 1 + 1 ELSE 0
        /\ \A j \in 1..((i - 1) - 1 + 1) : x[j] = s[1 + j - 1]
    BY <2>1, SubSeqProperties
  <2> HIDE DEF x
  <2> QED
    BY <1>1, <2>2
<1>3. /\ y \in Seq(PoolEntries) /\ Len(y) = Len(s) - i
      /\ \A j \in 1..(Len(s) - i) : y[j] = s[i + j]
  <2>1. i + 1 \in Int /\ Len(s) \in Int /\ \A j \in (i + 1)..Len(s) : s[j] \in PoolEntries
    BY <1>1
  <2>2. /\ y \in Seq(PoolEntries) /\ Len(y) = IF i + 1 <= Len(s) THEN Len(s) - (i + 1) + 1 ELSE 0
        /\ \A j \in 1..(Len(s) - (i + 1) + 1) : y[j] = s[(i + 1) + j - 1]
    BY <2>1, SubSeqProperties
  <2> HIDE DEF y
  <2>3. \A j \in 1..(Len(s) - i) : (i + 1) + j - 1 = i + j /\ j \in 1..(Len(s) - (i + 1) + 1)
    BY <1>1
  <2> QED
    BY <1>1, <2>2, <2>3
<1>4. t = x \o y
  BY DEF Tcp!RemoveAt
<1> HIDE DEF x, y, t
<1>5. /\ t \in Seq(PoolEntries) /\ Len(t) = Len(s) - 1 /\ DOMAIN t = 1..(Len(s) - 1)
      /\ \A j \in 1..(Len(s) - 1) : t[j] = IF j <= i - 1 THEN x[j] ELSE y[j - (i - 1)]
  <2>1. /\ t \in Seq(PoolEntries) /\ Len(t) = Len(x) + Len(y)
        /\ \A j \in 1..(Len(x) + Len(y)) : t[j] = IF j <= Len(x) THEN x[j] ELSE y[j - Len(x)]
    BY <1>2, <1>3, <1>4, ConcatProperties
  <2>2. Len(x) + Len(y) = Len(s) - 1 /\ Len(x) = i - 1
    BY <1>1, <1>2, <1>3
  <2>3. DOMAIN t = 1..Len(t)
    BY <2>1
  <2> QED
    BY <2>1, <2>2, <2>3
<1>6. ASSUME NEW j \in DOMAIN t PROVE t[j] = s[IF j < i THEN j ELSE j + 1]
  <2>1. CASE j < i
    <3>1. j \in 1..(i - 1) /\ j <= i - 1 /\ j \in 1..(Len(s) - 1)
      BY <1>1, <1>5, <2>1
    <3> QED
      BY <1>2, <1>5, <2>1, <3>1
  <2>2. CASE j >= i
    <3>1. j \in 1..(Len(s) - 1)
      BY <1>5
    <3>2. j - (i - 1) \in 1..(Len(s) - i) /\ i + (j - (i - 1)) = j + 1 /\ ~(j <= i - 1)
      BY <1>1, <2>2, <3>1
    <3> QED
      BY <1>3, <1>5, <3>1, <3>2
  <2> QED
    BY <1>1, <1>5, <2>1, <2>2
<1>7. /\ f \in [DOMAIN t -> DOMAIN s \ {i}]
      /\ \A j, k \in DOMAIN t : f[j] = f[k] => j = k
      /\ \A j \in DOMAIN t : t[j].conn = s[f[j]].conn
  BY <1>1, <1>5, <1>6
<1>8. ASSUME NEW k \in DOMAIN s \ {i} PROVE \E j \in DOMAIN t : f[j] = k
  <2>1. CASE k < i
    BY <1>1, <1>5, <2>1
  <2>2. CASE k > i
    <3>1. k - 1 \in DOMAIN t /\ f[k - 1] = k
      BY <1>1, <1>5, <2>2
    <3> QED
      BY <3>1
  <2> QED
    BY <1>1, <2>1, <2>2
<1> HIDE DEF f
<1>9. SameConns(t, s, DOMAIN s \ {i})
  BY <1>7, <1>8 DEF SameConns
<1> QED
  BY <1>5, <1>9 DEF t

LEMMA PoolRemoved ==
  ASSUME NEW p \in Pools, NEW a \in Targets, NEW i \in DOMAIN p[a],
         PooledApart(p), NEW q, Removed(p, a, i, q)
  PROVE  /\ PooledApart(q) /\ PooledIn(q) = PooledIn(p) \ {p[a][i].conn}
         /\ \A b \in Targets : Len(q[b]) <= Len(p[b])
<1> USE DEF Pools
<1> USE DEF Removed
<1> DEFINE K == [b \in Targets |-> IF b = a THEN DOMAIN p[a] \ {i} ELSE DOMAIN p[b]]
           r == Tcp!RemoveAt(p[a], i)
<1>1. r \in Seq(PoolEntries) /\ Len(r) = Len(p[a]) - 1 /\ SameConns(r, p[a], DOMAIN p[a] \ {i})
  BY RemovedFrom
<1> HIDE DEF r
<1>2. q[a] = r
  BY DEF r
<1>3. ASSUME NEW b \in Targets PROVE Len(q[b]) <= Len(p[b])
  <2>1. Len(p[a]) \in Nat /\ Len(p[b]) \in Nat
    OBVIOUS
  <2>2. CASE b = a
    BY <1>1, <1>2, <2>1, <2>2
  <2>3. CASE b # a
    <3>1. q[b] = p[b]
      BY <2>3
    <3> QED
      BY <2>1, <3>1
  <2> QED
    BY <2>2, <2>3
<1>4. /\ \A b \in Targets \ {a} : K[b] = DOMAIN p[b]
      /\ K[a] = DOMAIN p[a] \ {i}
  OBVIOUS
<1> HIDE DEF K
<1>5. ASSUME NEW b \in Targets PROVE K[b] \subseteq DOMAIN p[b] /\ SameConns(q[b], p[b], K[b])
  <2>1. CASE b = a
    BY <1>1, <1>2, <1>4, <2>1
  <2>2. CASE b # a
    <3>1. SameConns(p[b], p[b], DOMAIN p[b])
      BY SameList
    <3> QED
      BY <1>4, <2>2, <3>1
  <2> QED
    BY <2>1, <2>2
<1>6. PooledApart(q) /\ PooledIn(q) = PooledAt(p, K)
  BY <1>5, PoolLeft
<1>7. ASSUME NEW c, NEW b \in Targets
      PROVE  (\E j \in K[b] : p[b][j].conn = c)
               <=> (\E j \in DOMAIN p[b] : p[b][j].conn = c) /\ c # p[a][i].conn
  BY <1>4 DEF PooledApart
<1>8. ASSUME NEW c PROVE c \in PooledIn(q) <=> c \in PooledIn(p) \ {p[a][i].conn}
  <2>1. c \in PooledIn(q) <=> \E b \in Targets : \E j \in K[b] : p[b][j].conn = c
    BY <1>6, PooledAtMember
  <2>2. c \in PooledIn(p) <=> \E b \in Targets : \E j \in DOMAIN p[b] : p[b][j].conn = c
    BY PooledMember
  <2>3. CASE c = p[a][i].conn
    BY <1>7, <2>1, <2>3
  <2>4. CASE c # p[a][i].conn
    <3>1. c \in PooledIn(q) <=> c \in PooledIn(p)
      BY <1>7, <2>1, <2>2, <2>4
    <3> QED
      BY <2>4, <3>1
  <2> QED
    BY <2>3, <2>4
<1> QED
  BY <1>3, <1>6, <1>8

\* What a sublist is.
LEMMA SublistConns ==
  ASSUME NEW R, NEW s \in Seq(R), NEW K \in SUBSET DOMAIN s, NEW t \in Tcp!Sublists(s, K)
  PROVE  t \in Seq(R) /\ Len(t) <= Len(s) /\ SameConns(t, s, K)
<1> DEFINE Places(n) == {a \in [1..n -> K] : /\ \A i, j \in 1..n : i < j => a[i] < a[j]
                                           /\ \A k \in K : \E i \in 1..n : a[i] = k}
           Lists(n) == {[i \in 1..n |-> s[at[i]]] : at \in Places(n)}
<1>1. Tcp!Sublists(s, K) = UNION {Lists(n) : n \in 0..Len(s)}
  BY DEF Tcp!Sublists
<1> HIDE DEF Lists
<1>2. PICK n \in 0..Len(s) : t \in Lists(n)
  BY <1>1
<1>3. \E a \in [1..n -> K] :
        /\ \A i, j \in 1..n : i < j => a[i] < a[j]
        /\ \A k \in K : \E i \in 1..n : a[i] = k
        /\ t = [i \in 1..n |-> s[a[i]]]
  BY <1>2 DEF Lists
<1> HIDE DEF Places
<1>4. PICK at \in [1..n -> K] :
        /\ \A i, j \in 1..n : i < j => at[i] < at[j]
        /\ \A k \in K : \E i \in 1..n : at[i] = k
        /\ t = [i \in 1..n |-> s[at[i]]]
  BY <1>3
<1>5. n \in Nat /\ n <= Len(s) /\ \A i \in 1..n : at[i] \in DOMAIN s /\ at[i] \in Nat /\ s[at[i]] \in R
  BY <1>4
<1>6. t \in Seq(R) /\ Len(t) = n /\ DOMAIN t = 1..n
  BY <1>4, <1>5
<1>7. \A i, j \in 1..n : at[i] = at[j] => i = j
  BY <1>4, <1>5
<1>8. /\ at \in [DOMAIN t -> K]
      /\ \A i, j \in DOMAIN t : at[i] = at[j] => i = j
      /\ \A k \in K : \E i \in DOMAIN t : at[i] = k
      /\ \A i \in DOMAIN t : t[i].conn = s[at[i]].conn
  BY <1>4, <1>6, <1>7
<1>9. SameConns(t, s, K)
  BY <1>8 DEF SameConns
<1> QED
  BY <1>5, <1>6, <1>9

LEMMA ConnsKept ==
  ASSUME NEW w \in Crew, NEW s \in Scans, NEW t \in Targets, NEW r \in Workers,
         NEW p, NEW o, NEW h, ConnsOK(w, p, o, h),
         Holding(r) <=> Holding(w[s][t]), Holding(r) => r.conn = w[s][t].conn
  PROVE  ConnsOK(Put(w, s, t, r), p, o, h)
<1>1. HeldApart(Put(w, s, t, r)) /\ HeldIn(Put(w, s, t, r)) = HeldIn(w)
  BY HeldKept DEF ConnsOK
<1> QED
  BY <1>1 DEF ConnsOK

LEMMA PooledTaken ==
  ASSUME NEW w \in Crew, NEW s \in Scans, NEW t \in Targets, NEW r \in Workers,
         NEW p \in Pools, NEW i \in DOMAIN p[t],
         NEW q, Removed(p, t, i, q),
         NEW o, NEW h, ConnsOK(w, p, o, h), MaxIdle \in Nat,
         ~Holding(w[s][t]), Holds(r, p[t][i].conn)
  PROVE  ConnsOK(Put(w, s, t, r), q, o, h)
<1>1. HeldApart(w) /\ PooledApart(p)
  BY DEF ConnsOK
<1>2. p[t][i].conn \in PooledIn(p)
  BY PooledMember
<1>3. p[t][i].conn \notin HeldIn(w)
  BY <1>2 DEF ConnsOK
<1>4. HeldApart(Put(w, s, t, r)) /\ HeldIn(Put(w, s, t, r)) = HeldIn(w) \cup {p[t][i].conn}
  BY <1>1, <1>3, HeldTaken
<1>5. /\ PooledApart(q) /\ PooledIn(q) = PooledIn(p) \ {p[t][i].conn}
      /\ \A b \in Targets : Len(q[b]) <= Len(p[b])
  BY <1>1, PoolRemoved
<1>6. \A a \in Targets : Len(q[a]) <= MaxIdle
  <2>1. \A a \in Targets : Len(q[a]) \in Nat /\ Len(p[a]) \in Nat
    BY DEF Removed
  <2> QED
    BY <1>5, <2>1 DEF ConnsOK
<1> QED
  BY <1>2, <1>4, <1>5, <1>6 DEF ConnsOK

LEMMA NewTaken ==
  ASSUME NEW w \in Crew, NEW s \in Scans, NEW t \in Targets, NEW r \in Workers,
         NEW p, NEW o, NEW h, ConnsOK(w, p, o, h),
         ~Holding(w[s][t]), NEW d, Holds(r, d), d \notin HeldIn(w) \cup PooledIn(p)
  PROVE  ConnsOK(Put(w, s, t, r), p, o \cup {d}, h)
<1>1. HeldApart(Put(w, s, t, r)) /\ HeldIn(Put(w, s, t, r)) = HeldIn(w) \cup {d}
  BY HeldTaken DEF ConnsOK
<1> QED
  BY <1>1 DEF ConnsOK

LEMMA HeldClosed ==
  ASSUME NEW w \in Crew, NEW s \in Scans, NEW t \in Targets, NEW r \in Workers,
         NEW p, NEW o, NEW h, ConnsOK(w, p, o, h), NEW d, HoldsAt(w, s, t, d), ~Holding(r)
  PROVE  ConnsOK(Put(w, s, t, r), p, o \ {d}, h)
<1>1. HeldApart(Put(w, s, t, r)) /\ HeldIn(Put(w, s, t, r)) = HeldIn(w) \ {d}
  BY HeldGiven DEF ConnsOK
<1>2. d \in HeldIn(w)
  BY HeldMember DEF HoldsAt
<1> QED
  BY <1>1, <1>2 DEF ConnsOK

LEMMA HeldPooled ==
  ASSUME NEW w \in Crew, NEW s \in Scans, NEW t \in Targets, NEW r \in Workers,
         NEW p \in Pools, NEW e \in PoolEntries,
         NEW q, Appended(p, t, e, q),
         NEW o, NEW h, h # "closed", ConnsOK(w, p, o, h), MaxIdle \in Nat, Len(p[t]) < MaxIdle,
         HoldsAt(w, s, t, e.conn), ~Holding(r)
  PROVE  ConnsOK(Put(w, s, t, r), q, o, h)
<1>1. HeldApart(w) /\ PooledApart(p)
  BY DEF ConnsOK
<1>2. e.conn \in HeldIn(w)
  BY HeldMember DEF HoldsAt
<1>3. e.conn \notin PooledIn(p)
  BY <1>2 DEF ConnsOK
<1>4. HeldApart(Put(w, s, t, r)) /\ HeldIn(Put(w, s, t, r)) = HeldIn(w) \ {e.conn}
  BY <1>1, HeldGiven
<1>5. PooledApart(q) /\ PooledIn(q) = PooledIn(p) \cup {e.conn} /\ Len(q[t]) = Len(p[t]) + 1
  BY <1>1, <1>3, PoolAppended
<1>6. ASSUME NEW a \in Targets PROVE Len(q[a]) <= MaxIdle
  <2>1. Len(p[t]) \in Nat
    OBVIOUS
  <2>2. CASE a = t
    BY <1>5, <2>1, <2>2
  <2>3. CASE a # t
    <3>1. q[a] = p[a]
      BY <2>3 DEF Appended
    <3> QED
      BY <3>1 DEF ConnsOK
  <2> QED
    BY <2>2, <2>3
<1> QED
  BY <1>2, <1>4, <1>5, <1>6 DEF ConnsOK

\* The entries at the places K are left.
LEMMA SomePooledClosed ==
  ASSUME NEW w, NEW p \in Pools, NEW q \in Pools,
         NEW K, \A a \in Targets : K[a] \subseteq DOMAIN p[a] /\ SameConns(q[a], p[a], K[a]),
         NEW L, \A a \in Targets : L[a] = DOMAIN p[a] \ K[a],
         \A a \in Targets : Len(q[a]) <= Len(p[a]),
         NEW o, NEW h, ConnsOK(w, p, o, h), MaxIdle \in Nat
  PROVE  ConnsOK(w, q, o \ PooledAt(p, L), h)
<1>1. PooledApart(q) /\ PooledIn(q) = PooledAt(p, K)
  BY PoolLeft DEF ConnsOK
<1>2. PooledAt(p, K) \cup PooledAt(p, L) = PooledIn(p)
  <2>1. ASSUME NEW c PROVE c \in PooledIn(p) <=> c \in PooledAt(p, K) \/ c \in PooledAt(p, L)
    BY PooledMember, PooledAtMember
  <2> QED
    BY <2>1
<1>3. PooledAt(p, K) \cap PooledAt(p, L) = {}
  <2>1. ASSUME NEW c, c \in PooledAt(p, K), c \in PooledAt(p, L) PROVE FALSE
    <3>1. PICK a \in Targets : \E i \in K[a] : p[a][i].conn = c
      BY <2>1, PooledAtMember
    <3>2. PICK b \in Targets : \E j \in L[b] : p[b][j].conn = c
      BY <2>1, PooledAtMember
    <3>3. PICK i \in K[a] : p[a][i].conn = c
      BY <3>1
    <3>4. PICK j \in L[b] : p[b][j].conn = c
      BY <3>2
    <3>5. i \in DOMAIN p[a] /\ j \in DOMAIN p[b] /\ j \notin K[b]
      OBVIOUS
    <3> QED
      BY <3>3, <3>4, <3>5 DEF ConnsOK, PooledApart
  <2> QED
    BY <2>1
<1>4. \A a \in Targets : Len(q[a]) <= MaxIdle
  <2>1. \A a \in Targets : Len(q[a]) \in Nat /\ Len(p[a]) \in Nat
    OBVIOUS
  <2> QED
    BY <2>1 DEF ConnsOK
<1> QED
  BY <1>1, <1>2, <1>3, <1>4 DEF ConnsOK

LEMMA AllPooledClosed ==
  ASSUME NEW w, NEW p, NEW o, ConnsOK(w, p, o, "done"), MaxIdle \in Nat
  PROVE  ConnsOK(w, [a \in Targets |-> <<>>], o \ PooledIn(p), "closed")
<1> DEFINE q == [a \in Targets |-> <<>>]
<1>1. \A a \in Targets : q[a] = <<>> /\ DOMAIN q[a] = {} /\ Len(q[a]) = 0
  OBVIOUS
<1> HIDE DEF q
<1>2. PooledApart(q)
  BY <1>1 DEF PooledApart
<1>3. PooledIn(q) = {}
  BY <1>1, PooledMember
<1>4. ConnsOK(w, q, o \ PooledIn(p), "closed")
  BY <1>1, <1>2, <1>3 DEF ConnsOK
<1> QED
  BY <1>4 DEF q

\* What the component calls them.
LEMMA HeldIs == Tcp!Held = HeldIn(worker)
<1>1. ASSUME NEW c
      PROVE  c \in Tcp!Held
               <=> \E s \in Scans, t \in Targets : Holding(worker[s][t]) /\ worker[s][t].conn = c
  <2>1. ASSUME NEW s \in Scans, NEW t \in Targets, Holding(worker[s][t]), worker[s][t].conn = c
        PROVE  c \in Tcp!Held
    <3>1. <<s, t>> \in Tcp!Holders
      BY <2>1 DEF Tcp!Holders, Holding
    <3> QED
      BY <2>1, <3>1 DEF Tcp!Held
  <2>2. ASSUME c \in Tcp!Held
        PROVE  \E s \in Scans, t \in Targets : Holding(worker[s][t]) /\ worker[s][t].conn = c
    <3>1. PICK x \in Tcp!Holders : worker[x[1]][x[2]].conn = c
      BY <2>2 DEF Tcp!Held
    <3>2. x[1] \in Scans /\ x[2] \in Targets /\ Holding(worker[x[1]][x[2]])
      BY DEF Tcp!Holders, Holding
    <3> QED
      BY <3>1, <3>2
  <2> QED
    BY <2>1, <2>2
<1> QED
  BY <1>1, HeldMember

StalePlaces == [a \in Targets |-> DOMAIN pool[a] \ Tcp!Fresh(a)]

LEMMA PooledIs ==
  ASSUME TcpTyped, MaxIdle \in Nat, \A a \in Targets : Len(pool[a]) <= MaxIdle
  PROVE  Tcp!Pooled = PooledIn(pool) /\ Tcp!StaleConns = PooledAt(pool, StalePlaces)
<1>1. ASSUME NEW e PROVE e \in Tcp!Entries <=> \E a \in Targets : \E i \in DOMAIN pool[a] : e = <<a, i>>
  <2>1. ASSUME NEW a \in Targets, NEW i \in DOMAIN pool[a] PROVE i \in 1..MaxIdle
    BY DEF TcpTyped
  <2> QED
    BY <2>1 DEF Tcp!Entries
<1>2. ASSUME NEW c
      PROVE  c \in Tcp!Pooled <=> \E a \in Targets : \E i \in DOMAIN pool[a] : pool[a][i].conn = c
  <2>1. c \in Tcp!Pooled <=> \E e \in Tcp!Entries : pool[e[1]][e[2]].conn = c
    BY DEF Tcp!Pooled
  <2>2. ASSUME NEW a \in Targets, NEW i \in DOMAIN pool[a], pool[a][i].conn = c PROVE c \in Tcp!Pooled
    <3>1. <<a, i>> \in Tcp!Entries
      BY <1>1
    <3> QED
      BY <2>1, <2>2, <3>1
  <2>3. ASSUME NEW e \in Tcp!Entries, pool[e[1]][e[2]].conn = c
        PROVE  \E a \in Targets : \E i \in DOMAIN pool[a] : pool[a][i].conn = c
    <3>1. PICK a \in Targets : \E i \in DOMAIN pool[a] : e = <<a, i>>
      BY <1>1
    <3> QED
      BY <2>3, <3>1
  <2> QED
    BY <2>1, <2>2, <2>3
<1>3. ASSUME NEW c
      PROVE  c \in Tcp!StaleConns <=> \E a \in Targets : \E i \in StalePlaces[a] : pool[a][i].conn = c
  <2>1. c \in Tcp!StaleConns
          <=> \E e \in Tcp!Entries : pool[e[1]][e[2]].stale /\ pool[e[1]][e[2]].conn = c
    BY DEF Tcp!StaleConns
  <2>2. \A a \in Targets : \A i \in DOMAIN pool[a] : i \in StalePlaces[a] <=> pool[a][i].stale
    BY DEF StalePlaces, Tcp!Fresh
  <2>3. \A a \in Targets : StalePlaces[a] \subseteq DOMAIN pool[a]
    BY DEF StalePlaces
  <2>4. ASSUME NEW a \in Targets, NEW i \in StalePlaces[a], pool[a][i].conn = c
        PROVE  c \in Tcp!StaleConns
    <3>1. <<a, i>> \in Tcp!Entries /\ pool[a][i].stale
      BY <1>1, <2>2, <2>3
    <3> QED
      BY <2>1, <2>4, <3>1
  <2>5. ASSUME NEW e \in Tcp!Entries, pool[e[1]][e[2]].stale, pool[e[1]][e[2]].conn = c
        PROVE  \E a \in Targets : \E i \in StalePlaces[a] : pool[a][i].conn = c
    <3>1. PICK a \in Targets : \E i \in DOMAIN pool[a] : e = <<a, i>>
      BY <1>1
    <3>2. PICK i \in DOMAIN pool[a] : e = <<a, i>>
      BY <3>1
    <3>3. i \in StalePlaces[a] /\ pool[a][i].conn = c
      BY <2>2, <2>5, <3>2
    <3> QED
      BY <3>3
  <2> QED
    BY <2>1, <2>4, <2>5
<1>4. Tcp!Pooled = PooledIn(pool)
  BY <1>2, PooledMember
<1>5. ASSUME NEW c PROVE c \in Tcp!StaleConns <=> c \in PooledAt(pool, StalePlaces)
  BY <1>3, PooledAtMember
<1> QED
  BY <1>4, <1>5

\* What a step of a worker does to it.
LEMMA Becomes ==
  ASSUME NEW s, NEW t, NEW r, Tcp!Become(s, t, r)
  PROVE  worker' = Put(worker, s, t, r)
BY DEF Tcp!Become, Put

LEMMA WorkerHas ==
  ASSUME TcpTyped, NEW s \in Scans, NEW t \in Targets
  PROVE  worker[s][t] \in Workers
BY DEF TcpTyped, Crew

LEMMA WorkerValues ==
  ASSUME NEW r \in Workers
  PROVE  /\ r.pc \in {"check", "decide", "put"} => r.conn \in Conns /\ r.ok \in BOOLEAN
         /\ r.pc = "send" => r.conn \in Conns \cup {Tcp!NoConn} /\ r.ok \in BOOLEAN
         /\ r.pc \in {"off", "sem", "dial", "done", "check", "send", "decide", "put"}
BY DEF Workers, Tcp!Resting, Tcp!Ended

\* The values a worker takes.
LEMMA PlainWorkers ==
  /\ Tcp!Resting \in Workers /\ Tcp!Ended \in Workers
  /\ [pc |-> "sem"] \in Workers /\ [pc |-> "dial"] \in Workers
  /\ ~Holding(Tcp!Resting) /\ ~Holding(Tcp!Ended)
  /\ ~Holding([pc |-> "sem"]) /\ ~Holding([pc |-> "dial"])
BY DEF Workers, Holding, Tcp!Resting, Tcp!Ended

LEMMA ConnWorkers ==
  ASSUME NEW c \in Conns, NEW b \in BOOLEAN, Tcp!NoConn \notin Conns,
         NEW pc \in {"check", "send", "decide", "put"}
  PROVE  /\ [pc |-> pc, conn |-> c, ok |-> b] \in Workers
         /\ Holds([pc |-> pc, conn |-> c, ok |-> b], c)
BY DEF Workers, Holds, Holding

LEMMA NoConnWorkers ==
  /\ [pc |-> "send", conn |-> Tcp!NoConn, ok |-> FALSE] \in Workers
  /\ ~Holding([pc |-> "send", conn |-> Tcp!NoConn, ok |-> FALSE])
BY DEF Workers, Holding

\* A worker goes on with the connection it has.
Connected == [pc : {"check", "send", "decide", "put"}, conn : Conns, ok : BOOLEAN]

LEMMA HoldersConnected ==
  ASSUME NEW r \in Workers, Holding(r)
  PROVE  r \in Connected
<1>1. CASE r \in {Tcp!Resting, Tcp!Ended, [pc |-> "sem"], [pc |-> "dial"]}
  BY <1>1 DEF Tcp!Resting, Tcp!Ended, Holding
<1>2. CASE r \in [pc : {"check", "decide", "put"}, conn : Conns, ok : BOOLEAN]
  BY <1>2 DEF Connected
<1>3. CASE r \in [pc : {"send"}, conn : Conns \cup {Tcp!NoConn}, ok : BOOLEAN]
  BY <1>3 DEF Connected, Holding
<1> QED
  BY <1>1, <1>2, <1>3 DEF Workers

Moved(r, pc) == [r EXCEPT !.pc = pc]
Checked(r, ok) == [r EXCEPT !.pc = "send", !.ok = ok]

LEMMA GoesOn ==
  ASSUME NEW r \in Connected, Tcp!NoConn \notin Conns, NEW pc \in {"check", "send", "decide", "put"}
  PROVE  Moved(r, pc) \in Workers /\ Holds(Moved(r, pc), r.conn) /\ Moved(r, pc).pc = pc
<1>1. Moved(r, pc) \in Connected /\ Moved(r, pc).conn = r.conn /\ Moved(r, pc).pc = pc
  BY DEF Connected, Moved
<1>2. ASSUME NEW x \in Connected PROVE x \in Workers /\ Holding(x)
  BY DEF Connected, Workers, Holding
<1> QED
  BY <1>1, <1>2 DEF Holds

LEMMA IsChecked ==
  ASSUME NEW r \in Connected, Tcp!NoConn \notin Conns, NEW ok, ok = TRUE \/ ok = FALSE
  PROVE  Checked(r, ok) \in Workers /\ Holds(Checked(r, ok), r.conn) /\ Checked(r, ok).pc = "send"
<1>1. Checked(r, ok) \in Connected /\ Checked(r, ok).conn = r.conn /\ Checked(r, ok).pc = "send"
  <2>1. CASE ok = TRUE
    BY <2>1 DEF Connected, Checked
  <2>2. CASE ok = FALSE
    BY <2>2 DEF Connected, Checked
  <2> QED
    BY <2>1, <2>2
<1>2. ASSUME NEW x \in Connected PROVE x \in Workers /\ Holding(x)
  BY DEF Connected, Workers, Holding
<1> QED
  BY <1>1, <1>2 DEF Holds

\* What a step must show of the connections.
ConnsNext == ConnsInv' /\ worker' \in Crew /\ pool' \in Pools

LEMMA ConnsNextFrom ==
  ASSUME worker' \in Crew, pool' \in Pools, ConnsOK(worker', pool', open', shut')
  PROVE  ConnsNext
BY DEF ConnsNext, ConnsInv

LEMMA AcquireKeeps ==
  ASSUME TcpTyped, ConnsInv, NEW s \in Scans, NEW t \in Targets, Tcp!AcquireSlot(s, t)
  PROVE  ConnsNext
<1>1. /\ worker[s][t].pc = "sem" /\ UNCHANGED <<pool, open, shut>>
      /\ Tcp!Become(s, t, [pc |-> "dial"]) \/ Tcp!Become(s, t, Tcp!Ended)
  BY DEF Tcp!AcquireSlot, Tcp!poolVars
<1>2. PICK r \in Workers : worker' = Put(worker, s, t, r) /\ ~Holding(r)
  BY <1>1, Becomes, PlainWorkers
<1>3. ~Holding(worker[s][t])
  BY <1>1 DEF Holding
<1>4. worker \in Crew /\ pool \in Pools /\ ConnsOK(worker, pool, open, shut)
  BY DEF TcpTyped, ConnsInv
<1>5. Put(worker, s, t, r) \in Crew
  BY <1>4, PutFacts
<1>6. ConnsOK(Put(worker, s, t, r), pool, open, shut)
  BY <1>2, <1>3, <1>4, ConnsKept
<1> QED
  BY <1>1, <1>2, <1>4, <1>5, <1>6, ConnsNextFrom

LEMMA CheckKeepsConns ==
  ASSUME TcpConstants, TcpTyped, ConnsInv, NEW s \in Scans, NEW t \in Targets, Tcp!CheckConn(s, t)
  PROVE  ConnsNext
<1> DEFINE w == worker[s][t]
<1>1. w \in Workers
  BY WorkerHas
<1>2. w.pc = "check" /\ UNCHANGED <<pool, open, shut>>
  BY DEF Tcp!CheckConn, Tcp!poolVars
<1>3. \E ok \in {FALSE, w.conn \in open} : Tcp!Become(s, t, Checked(w, ok))
  BY DEF Tcp!CheckConn, Checked
<1>4. w.conn \in Conns
  BY <1>1, <1>2, WorkerValues
<1> HIDE DEF w
<1>5. Holding(w) /\ Tcp!NoConn \notin Conns
  BY <1>2, <1>4 DEF Holding, TcpConstants
<1>6. w \in Connected
  BY <1>1, <1>5, HoldersConnected
<1>7. PICK ok : (ok = TRUE \/ ok = FALSE) /\ Tcp!Become(s, t, Checked(w, ok))
  BY <1>3
<1>8. PICK r \in Workers : worker' = Put(worker, s, t, r) /\ Holds(r, w.conn)
  BY <1>5, <1>6, <1>7, Becomes, IsChecked
<1>9. worker \in Crew /\ pool \in Pools /\ ConnsOK(worker, pool, open, shut)
  BY DEF TcpTyped, ConnsInv
<1>10. Put(worker, s, t, r) \in Crew
  BY <1>9, PutFacts
<1>11. /\ Holding(r) <=> Holding(worker[s][t])
       /\ Holding(r) => r.conn = worker[s][t].conn
  BY <1>5, <1>8 DEF w, Holds
<1>12. ConnsOK(Put(worker, s, t, r), pool, open, shut)
  BY <1>9, <1>11, ConnsKept
<1> QED
  BY <1>2, <1>8, <1>9, <1>10, <1>12, ConnsNextFrom

\* After the send a worker holds what it held.
LEMMA AfterSendHolds ==
  ASSUME TcpConstants, TcpTyped, NEW s \in Scans, NEW t \in Targets, worker[s][t].pc = "send"
  PROVE  /\ Tcp!AfterSend(s, t) \in Workers /\ Tcp!AfterSend(s, t).pc \in {"decide", "done"}
         /\ Holding(Tcp!AfterSend(s, t)) <=> Holding(worker[s][t])
         /\ Holding(Tcp!AfterSend(s, t)) => Tcp!AfterSend(s, t).conn = worker[s][t].conn
<1> DEFINE w == worker[s][t]
<1>1. w \in Workers
  BY WorkerHas
<1>2. Tcp!AfterSend(s, t) = IF w.conn = Tcp!NoConn THEN Tcp!Ended ELSE Moved(w, "decide")
  BY DEF Tcp!AfterSend, Moved
<1>3. w.pc = "send"
  OBVIOUS
<1> HIDE DEF w
<1>4. CASE w.conn = Tcp!NoConn
  <2>1. ~Holding(w) /\ Tcp!AfterSend(s, t) = Tcp!Ended
    BY <1>2, <1>4 DEF Holding
  <2> QED
    BY <2>1, PlainWorkers DEF w, Tcp!Ended
<1>5. CASE w.conn # Tcp!NoConn
  <2>1. Holding(w) /\ Tcp!AfterSend(s, t) = Moved(w, "decide")
    BY <1>2, <1>3, <1>5 DEF Holding
  <2>2. w \in Connected /\ Tcp!NoConn \notin Conns
    BY <1>1, <2>1, HoldersConnected DEF TcpConstants
  <2>3. /\ Moved(w, "decide") \in Workers /\ Holds(Moved(w, "decide"), w.conn)
        /\ Moved(w, "decide").pc = "decide"
    BY <2>2, GoesOn
  <2> QED
    BY <2>1, <2>3 DEF w, Holds
<1> QED
  BY <1>4, <1>5

LEMMA SendKeepsConns ==
  ASSUME TcpConstants, TcpTyped, ConnsInv, NEW s \in Scans, NEW t \in Targets, Tcp!SendResult(s, t)
  PROVE  ConnsNext
<1>1. /\ worker[s][t].pc = "send" /\ UNCHANGED <<pool, open, shut>>
      /\ Tcp!Become(s, t, Tcp!AfterSend(s, t)) \/ UNCHANGED worker
  BY DEF Tcp!SendResult, Tcp!poolVars
<1>2. worker \in Crew /\ pool \in Pools /\ ConnsOK(worker, pool, open, shut)
  BY DEF TcpTyped, ConnsInv
<1>3. CASE UNCHANGED worker
  BY <1>1, <1>2, <1>3, ConnsNextFrom
<1>4. CASE Tcp!Become(s, t, Tcp!AfterSend(s, t))
  <2>1. PICK r \in Workers : /\ worker' = Put(worker, s, t, r)
                             /\ Holding(r) <=> Holding(worker[s][t])
                             /\ Holding(r) => r.conn = worker[s][t].conn
    BY <1>1, <1>4, Becomes, AfterSendHolds
  <2>2. Put(worker, s, t, r) \in Crew
    BY <1>2, PutFacts
  <2>3. ConnsOK(Put(worker, s, t, r), pool, open, shut)
    BY <1>2, <2>1, ConnsKept
  <2> QED
    BY <1>1, <1>2, <2>1, <2>2, <2>3, ConnsNextFrom
<1> QED
  BY <1>1, <1>3, <1>4

\* A set of places has a last one.
LEMMA LastPlace ==
  ASSUME NEW n \in Nat, NEW S \in SUBSET (1..n), S # {}
  PROVE  \E i \in S : \A k \in S : k <= i
<1> DEFINE R == {x \in Nat \X Nat : x[1] < x[2]}
           T == {n - i : i \in S}
<1>1. IsWellFoundedOn(R, Nat)
  BY NatLessThanWellFounded DEF OpToRel
<1>2. \A x, y \in Nat : <<x, y>> \in R <=> x < y
  OBVIOUS
<1> HIDE DEF R
<1>3. T \subseteq Nat /\ T # {}
  <2>1. ASSUME NEW i \in S PROVE n - i \in Nat
    OBVIOUS
  <2>2. PICK i : i \in S
    OBVIOUS
  <2>3. n - i \in T
    BY <2>2
  <2> QED
    BY <2>1, <2>3
<1>4. PICK x \in T : \A y \in T : ~(<<y, x>> \in R)
  BY <1>1, <1>3, WFMin
<1>5. PICK i \in S : x = n - i
  BY <1>4
<1>6. ASSUME NEW k \in S PROVE k <= i
  <2>1. n - k \in T /\ n - k \in Nat /\ x \in Nat
    BY <1>3
  <2>2. ~(n - k < x)
    BY <1>2, <1>4, <2>1
  <2> QED
    BY <1>5, <2>2
<1> QED
  BY <1>6

LEMMA GetKeeps ==
  ASSUME TcpConstants, TcpTyped, ConnsInv, NEW s \in Scans, NEW t \in Targets, Tcp!GetConn(s, t)
  PROVE  ConnsNext
<1>1. worker[s][t].pc = "dial" /\ UNCHANGED shut
  BY DEF Tcp!GetConn
<1>2. ~Holding(worker[s][t])
  BY <1>1 DEF Holding
<1>3. /\ worker \in Crew /\ pool \in Pools /\ ConnsOK(worker, pool, open, shut)
      /\ Tcp!NoConn \notin Conns /\ MaxIdle \in Nat
  BY DEF TcpTyped, ConnsInv, TcpConstants
<1>4. ASSUME Tcp!Fresh(t) # {} PROVE ConnsNext
  <2>1. /\ Tcp!Fresh(t) \in SUBSET (1..Len(pool[t]))
        /\ Len(pool[t]) \in Nat /\ DOMAIN pool[t] = 1..Len(pool[t])
    BY <1>3 DEF Tcp!Fresh, Pools
  <2>2. \E i \in Tcp!Fresh(t) : \A k \in Tcp!Fresh(t) : k <= i
    BY <1>4, <2>1, LastPlace
  <2>3. PICK i : i = CHOOSE j \in Tcp!Fresh(t) : \A k \in Tcp!Fresh(t) : k <= j
    OBVIOUS
  <2>4. i \in DOMAIN pool[t]
    BY <2>1, <2>2, <2>3
  <2>5. /\ Tcp!Become(s, t, [pc |-> "check", conn |-> pool[t][i].conn, ok |-> FALSE])
        /\ pool' = Tcp!TakenFrom(t, i) /\ UNCHANGED open
    BY <1>4, <2>3 DEF Tcp!GetConn
  <2>6. pool[t][i] \in PoolEntries
    BY <1>3, <2>4 DEF Pools
  <2>7. pool[t][i].conn \in Conns
    BY <2>6 DEF PoolEntries
  <2>8. PICK r \in Workers : worker' = Put(worker, s, t, r) /\ Holds(r, pool[t][i].conn)
    BY <1>3, <2>5, <2>7, Becomes, ConnWorkers
  <2>9. Removed(pool, t, i, pool')
    <3>1. Tcp!RemoveAt(pool[t], i) \in Seq(PoolEntries)
      BY <1>3, <2>4, RemovedFrom DEF Pools
    <3> QED
      BY <1>3, <2>5, <3>1 DEF Tcp!TakenFrom, Removed, Pools
  <2>10. PICK q : q = pool'
    OBVIOUS
  <2>11. Removed(pool, t, i, q)
    BY <2>9, <2>10
  <2>12. ConnsOK(Put(worker, s, t, r), q, open, shut)
    BY <1>2, <1>3, <2>4, <2>8, <2>11, PooledTaken
  <2>13. Put(worker, s, t, r) \in Crew
    BY <1>3, PutFacts
  <2>14. q \in Pools
    BY <2>11 DEF Removed
  <2> QED
    BY <1>1, <2>5, <2>8, <2>10, <2>12, <2>13, <2>14, ConnsNextFrom
<1>5. ASSUME NEW c \in Conns \ (Tcp!Held \cup Tcp!Pooled), open' = open \cup {c}, UNCHANGED pool,
             Tcp!Become(s, t, [pc |-> "check", conn |-> c, ok |-> FALSE])
      PROVE  ConnsNext
  <2>1. c \notin HeldIn(worker) \cup PooledIn(pool)
    <3>1. \A a \in Targets : Len(pool[a]) <= MaxIdle
      BY DEF ConnsInv, ConnsOK
    <3> QED
      BY <1>3, <3>1, HeldIs, PooledIs
  <2>2. PICK r \in Workers : worker' = Put(worker, s, t, r) /\ Holds(r, c)
    BY <1>3, <1>5, Becomes, ConnWorkers
  <2>3. ConnsOK(Put(worker, s, t, r), pool, open \cup {c}, shut)
    BY <1>2, <1>3, <2>1, <2>2, NewTaken
  <2>4. Put(worker, s, t, r) \in Crew
    BY <1>3, PutFacts
  <2> QED
    BY <1>1, <1>3, <1>5, <2>2, <2>3, <2>4, ConnsNextFrom
<1>6. ASSUME Tcp!Become(s, t, [pc |-> "send", conn |-> Tcp!NoConn, ok |-> FALSE]), UNCHANGED <<open, pool>>
      PROVE  ConnsNext
  <2>1. PICK r \in Workers : worker' = Put(worker, s, t, r) /\ ~Holding(r)
    BY <1>6, Becomes, NoConnWorkers
  <2>2. ConnsOK(Put(worker, s, t, r), pool, open, shut)
    BY <1>2, <1>3, <2>1, ConnsKept
  <2>3. Put(worker, s, t, r) \in Crew
    BY <1>3, PutFacts
  <2> QED
    BY <1>1, <1>3, <1>6, <2>1, <2>2, <2>3, ConnsNextFrom
<1>7. Tcp!Fresh(t) = {} => \/ \E c \in Conns \ (Tcp!Held \cup Tcp!Pooled) :
                            /\ Tcp!Become(s, t, [pc |-> "check", conn |-> c, ok |-> FALSE])
                            /\ open' = open \cup {c} /\ UNCHANGED pool
                       \/ /\ Tcp!Become(s, t, [pc |-> "send", conn |-> Tcp!NoConn, ok |-> FALSE])
                          /\ UNCHANGED <<open, pool>>
  BY DEF Tcp!GetConn
<1> QED
  BY <1>4, <1>5, <1>6, <1>7

LEMMA DecideKeeps ==
  ASSUME TcpConstants, TcpTyped, ConnsInv, NEW s \in Scans, NEW t \in Targets, Tcp!DecideConn(s, t)
  PROVE  ConnsNext
<1> DEFINE w == worker[s][t]
<1>1. w \in Workers
  BY WorkerHas
<1>2. /\ w.pc = "decide" /\ UNCHANGED <<pool, shut>>
      /\ \/ Tcp!Become(s, t, Moved(w, "put")) /\ UNCHANGED open
         \/ Tcp!Become(s, t, Tcp!Ended) /\ open' = open \ {w.conn}
  BY DEF Tcp!DecideConn, Moved
<1>3. w.conn \in Conns /\ Tcp!NoConn \notin Conns
  BY <1>1, <1>2, WorkerValues DEF TcpConstants
<1>4. HoldsAt(worker, s, t, w.conn)
  BY <1>2, <1>3 DEF HoldsAt, Holding
<1>5. w \in Connected
  BY <1>1, <1>4, HoldersConnected DEF HoldsAt
<1>6. worker \in Crew /\ pool \in Pools /\ ConnsOK(worker, pool, open, shut)
  BY DEF TcpTyped, ConnsInv
<1>7. PICK d : d = w.conn
  OBVIOUS
<1>8. HoldsAt(worker, s, t, d)
  BY <1>4, <1>7
<1>9. CASE Tcp!Become(s, t, Moved(w, "put")) /\ UNCHANGED open
  <2>1. PICK r \in Workers : worker' = Put(worker, s, t, r) /\ Holds(r, d)
    BY <1>3, <1>5, <1>7, <1>9, Becomes, GoesOn
  <2>2. /\ Holding(r) <=> Holding(worker[s][t])
        /\ Holding(r) => r.conn = worker[s][t].conn
    BY <1>8, <2>1 DEF Holds, HoldsAt
  <2>3. ConnsOK(Put(worker, s, t, r), pool, open, shut)
    BY <1>6, <2>2, ConnsKept
  <2>4. Put(worker, s, t, r) \in Crew
    BY <1>6, PutFacts
  <2> QED
    BY <1>2, <1>6, <1>9, <2>1, <2>3, <2>4, ConnsNextFrom
<1>10. CASE Tcp!Become(s, t, Tcp!Ended) /\ open' = open \ {w.conn}
  <2>1. PICK r \in Workers : worker' = Put(worker, s, t, r) /\ ~Holding(r)
    BY <1>10, Becomes, PlainWorkers
  <2>2. ConnsOK(Put(worker, s, t, r), pool, open \ {d}, shut)
    BY <1>6, <1>8, <2>1, HeldClosed
  <2>3. Put(worker, s, t, r) \in Crew
    BY <1>6, PutFacts
  <2> QED
    BY <1>2, <1>6, <1>7, <1>10, <2>1, <2>2, <2>3, ConnsNextFrom
<1> QED
  BY <1>2, <1>9, <1>10

LEMMA PutKeeps ==
  ASSUME TcpConstants, TcpTyped, ConnsInv, NEW s \in Scans, NEW t \in Targets, Tcp!PutConn(s, t)
  PROVE  ConnsNext
<1> DEFINE w == worker[s][t]
           e == [conn |-> w.conn, stale |-> FALSE]
<1>1. w \in Workers
  BY WorkerHas
<1>2. w.pc = "put" /\ UNCHANGED shut
  BY DEF Tcp!PutConn
<1>3. w.conn \in Conns /\ Tcp!NoConn \notin Conns /\ MaxIdle \in Nat
  BY <1>1, <1>2, WorkerValues DEF TcpConstants
<1>4. HoldsAt(worker, s, t, w.conn)
  BY <1>2, <1>3 DEF HoldsAt, Holding
<1>5. worker \in Crew /\ pool \in Pools /\ ConnsOK(worker, pool, open, shut)
  BY DEF TcpTyped, ConnsInv
<1>6. CASE Tcp!Become(s, t, Tcp!Ended) /\ open' = open \ {w.conn} /\ UNCHANGED pool
  <2>1. PICK r \in Workers : worker' = Put(worker, s, t, r) /\ ~Holding(r)
    BY <1>6, Becomes, PlainWorkers
  <2>2. PICK d : d = w.conn
    OBVIOUS
  <2>3. HoldsAt(worker, s, t, d)
    BY <1>4, <2>2
  <2>4. ConnsOK(Put(worker, s, t, r), pool, open \ {d}, shut)
    BY <1>5, <2>1, <2>3, HeldClosed
  <2>5. Put(worker, s, t, r) \in Crew
    BY <1>5, PutFacts
  <2> QED
    BY <1>2, <1>5, <1>6, <2>1, <2>2, <2>4, <2>5, ConnsNextFrom
<1>7. CASE UNCHANGED <<worker, pool, open>>
  BY <1>2, <1>5, <1>7, ConnsNextFrom
<1>8. ASSUME ~(Len(pool[t]) >= MaxIdle), shut # "closed", Tcp!Become(s, t, Tcp!Ended), UNCHANGED open,
             pool' = [pool EXCEPT ![t] = Append(@, e)]
      PROVE  ConnsNext
  <2>1. PICK r \in Workers : worker' = Put(worker, s, t, r) /\ ~Holding(r)
    BY <1>8, Becomes, PlainWorkers
  <2>2. e \in PoolEntries /\ e.conn = w.conn
    BY <1>3 DEF PoolEntries
  <2> HIDE DEF e
  <2>3. Appended(pool, t, e, pool')
    BY <1>5, <1>8, <2>2 DEF Appended, Pools
  <2>4. PICK q : q = pool'
    OBVIOUS
  <2>5. Appended(pool, t, e, q)
    BY <2>3, <2>4
  <2>6. Len(pool[t]) < MaxIdle
    BY <1>3, <1>5, <1>8 DEF Pools
  <2>7. HoldsAt(worker, s, t, e.conn)
    BY <1>4, <2>2
  <2>8. ConnsOK(Put(worker, s, t, r), q, open, shut)
    BY <1>3, <1>5, <1>8, <2>1, <2>2, <2>5, <2>6, <2>7, HeldPooled
  <2>9. Put(worker, s, t, r) \in Crew
    BY <1>5, PutFacts
  <2>10. q \in Pools
    BY <2>5 DEF Appended
  <2> QED
    BY <1>2, <1>8, <2>1, <2>4, <2>8, <2>9, <2>10, ConnsNextFrom
<1>9. \/ Tcp!Become(s, t, Tcp!Ended) /\ open' = open \ {w.conn} /\ UNCHANGED pool
      \/ UNCHANGED <<worker, pool, open>>
      \/ /\ ~(Len(pool[t]) >= MaxIdle) /\ shut # "closed" /\ Tcp!Become(s, t, Tcp!Ended) /\ UNCHANGED open
         /\ pool' = [pool EXCEPT ![t] = Append(@, e)]
  BY DEF Tcp!PutConn, Tcp!poolVars
<1> QED
  BY <1>6, <1>7, <1>8, <1>9

LEMMA StaleKeeps ==
  ASSUME TcpConstants, TcpTyped, ConnsInv, NEW a \in Targets, Tcp!GoStale(a)
  PROVE  ConnsNext
<1>1. PICK i \in Tcp!Fresh(a) : pool' = [pool EXCEPT ![a][i].stale = TRUE]
  BY DEF Tcp!GoStale
<1>2. UNCHANGED <<worker, open, shut>> /\ i \in DOMAIN pool[a]
  BY DEF Tcp!GoStale, Tcp!scanVars, Tcp!Fresh
<1>3. worker \in Crew /\ pool \in Pools /\ ConnsOK(worker, pool, open, shut)
  BY DEF TcpTyped, ConnsInv
<1>4. /\ pool' \in Pools
      /\ \A b \in Targets : DOMAIN pool'[b] = DOMAIN pool[b] /\ Len(pool'[b]) = Len(pool[b])
      /\ \A b \in Targets : \A j \in DOMAIN pool[b] : pool'[b][j].conn = pool[b][j].conn
  <2> DEFINE e == [pool[a][i] EXCEPT !.stale = TRUE]
             l == [pool[a] EXCEPT ![i] = e]
  <2>1. e \in PoolEntries /\ e.conn = pool[a][i].conn
    <3>1. pool[a][i] \in PoolEntries
      BY <1>2, <1>3 DEF Pools
    <3>2. PICK x \in PoolEntries : x = pool[a][i]
      BY <3>1
    <3>3. [x EXCEPT !.stale = TRUE] \in PoolEntries /\ [x EXCEPT !.stale = TRUE].conn = x.conn
      BY DEF PoolEntries
    <3> QED
      BY <3>2, <3>3
  <2>2. pool' = [pool EXCEPT ![a] = l]
    BY <1>1
  <2> HIDE DEF e
  <2>3. /\ l \in Seq(PoolEntries) /\ DOMAIN l = DOMAIN pool[a] /\ Len(l) = Len(pool[a])
        /\ \A j \in DOMAIN pool[a] : l[j].conn = pool[a][j].conn
    BY <1>2, <1>3, <2>1 DEF Pools
  <2> HIDE DEF l
  <2> QED
    BY <1>3, <2>2, <2>3 DEF Pools
<1>5. PICK q : q = pool'
  OBVIOUS
<1>6. PooledIn(q) = PooledIn(pool)
  <2>1. ASSUME NEW c PROVE c \in PooledIn(q) <=> c \in PooledIn(pool)
    <3>1. \A b \in Targets :
            DOMAIN q[b] = DOMAIN pool[b] /\ \A j \in DOMAIN pool[b] : q[b][j].conn = pool[b][j].conn
      BY <1>4, <1>5
    <3> QED
      BY <3>1, PooledMember
  <2> QED
    BY <2>1
<1>7. PooledApart(q)
  BY <1>3, <1>4, <1>5 DEF PooledApart, ConnsOK
<1>8. ConnsOK(worker, q, open, shut)
  BY <1>3, <1>4, <1>5, <1>6, <1>7 DEF ConnsOK
<1> QED
  BY <1>2, <1>3, <1>4, <1>5, <1>8, ConnsNextFrom

LEMMA CleanKeeps ==
  ASSUME TcpConstants, TcpTyped, ConnsInv, Tcp!CleanPool
  PROVE  ConnsNext
<1>1. /\ pool' \in [Targets -> UNION {Tcp!Sublists(pool[a], Tcp!Fresh(a)) : a \in Targets}]
      /\ \A a \in Targets : pool'[a] \in Tcp!Sublists(pool[a], Tcp!Fresh(a))
      /\ open' = open \ Tcp!StaleConns /\ UNCHANGED <<worker, shut>>
  BY DEF Tcp!CleanPool, Tcp!scanVars
<1>2. worker \in Crew /\ pool \in Pools /\ ConnsOK(worker, pool, open, shut) /\ MaxIdle \in Nat
  BY DEF TcpTyped, ConnsInv, TcpConstants
<1>3. PICK q : q = pool'
  OBVIOUS
<1> DEFINE K == [a \in Targets |-> Tcp!Fresh(a)]
<1>4. ASSUME NEW a \in Targets
      PROVE  /\ q[a] \in Seq(PoolEntries) /\ Len(q[a]) <= Len(pool[a])
             /\ K[a] \subseteq DOMAIN pool[a] /\ SameConns(q[a], pool[a], K[a])
             /\ StalePlaces[a] = DOMAIN pool[a] \ K[a]
  <2>1. pool[a] \in Seq(PoolEntries) /\ K[a] = Tcp!Fresh(a) /\ Tcp!Fresh(a) \in SUBSET DOMAIN pool[a]
    BY <1>2 DEF Pools, Tcp!Fresh
  <2>2. q[a] \in Tcp!Sublists(pool[a], Tcp!Fresh(a))
    BY <1>1, <1>3
  <2>3. q[a] \in Seq(PoolEntries) /\ Len(q[a]) <= Len(pool[a]) /\ SameConns(q[a], pool[a], Tcp!Fresh(a))
    BY <2>1, <2>2, SublistConns
  <2> QED
    BY <2>1, <2>3 DEF StalePlaces
<1> HIDE DEF K
<1>5. q \in Pools
  BY <1>1, <1>3, <1>4 DEF Pools
<1>6. ConnsOK(worker, q, open \ PooledAt(pool, StalePlaces), shut)
  BY <1>2, <1>4, <1>5, SomePooledClosed
<1>7. Tcp!StaleConns = PooledAt(pool, StalePlaces)
  BY <1>2, PooledIs DEF ConnsOK
<1> QED
  BY <1>1, <1>2, <1>3, <1>5, <1>6, <1>7, ConnsNextFrom

LEMMA ShutKeeps ==
  ASSUME TcpConstants, TcpTyped, ConnsInv, Tcp!Stop \/ Tcp!ClosePool
  PROVE  ConnsNext
<1>1. worker \in Crew /\ pool \in Pools /\ ConnsOK(worker, pool, open, shut) /\ MaxIdle \in Nat
  BY DEF TcpTyped, ConnsInv, TcpConstants
<1>2. Tcp!Pooled = PooledIn(pool)
  BY <1>1, PooledIs DEF ConnsOK
<1>3. CASE Tcp!Stop
  <2>1. UNCHANGED <<worker, pool, open>> /\ shut = "no" /\ shut' = "done"
    BY <1>3 DEF Tcp!Stop, Tcp!scanVars, Tcp!poolVars
  <2>2. ConnsOK(worker, pool, open, "done")
    BY <1>1, <2>1 DEF ConnsOK
  <2> QED
    BY <1>1, <2>1, <2>2, ConnsNextFrom
<1>4. CASE Tcp!ClosePool
  <2>1. UNCHANGED worker /\ shut = "done"
    BY <1>4 DEF Tcp!ClosePool, Tcp!scanVars
  <2>2. ASSUME shut' = "closed", open' = open \ Tcp!Pooled, pool' = [a \in Targets |-> <<>>]
        PROVE  ConnsNext
    <3>1. ConnsOK(worker, [a \in Targets |-> <<>>], open \ PooledIn(pool), "closed")
      BY <1>1, <2>1, AllPooledClosed
    <3>2. pool' \in Pools
      BY <2>2 DEF Pools
    <3> QED
      BY <1>1, <1>2, <2>1, <2>2, <3>1, <3>2, ConnsNextFrom
  <2>3. ASSUME shut' = "stuck", UNCHANGED pool, NEW C \in SUBSET Tcp!Pooled, open' = open \ C
        PROVE  ConnsNext
    <3>1. ConnsOK(worker, pool, open \ C, "stuck")
      BY <1>1, <2>1 DEF ConnsOK
    <3> QED
      BY <1>1, <2>1, <2>3, <3>1, ConnsNextFrom
  <2> QED
    BY <1>4, <2>2, <2>3 DEF Tcp!ClosePool
<1> QED
  BY <1>3, <1>4

LEMMA StartKeeps ==
  ASSUME TcpTyped, ConnsInv, NEW s \in Scans, NEW t \in Targets, Tcp!StartWorker(s, t)
  PROVE  ConnsNext
<1>1. worker[s][t] = Tcp!Resting /\ Tcp!Become(s, t, [pc |-> "sem"]) /\ UNCHANGED <<pool, open, shut>>
  BY DEF Tcp!StartWorker, Tcp!poolVars
<1>2. PICK r \in Workers : worker' = Put(worker, s, t, r) /\ ~Holding(r)
  BY <1>1, Becomes, PlainWorkers
<1>3. ~Holding(worker[s][t])
  BY <1>1, PlainWorkers
<1>4. worker \in Crew /\ pool \in Pools /\ ConnsOK(worker, pool, open, shut)
  BY DEF TcpTyped, ConnsInv
<1>5. Put(worker, s, t, r) \in Crew
  BY <1>4, PutFacts
<1>6. ConnsOK(Put(worker, s, t, r), pool, open, shut)
  BY <1>2, <1>3, <1>4, ConnsKept
<1> QED
  BY <1>1, <1>2, <1>4, <1>5, <1>6, ConnsNextFrom

\* Steps of a call that leave the workers alone.
CallStep(s) ==
  \/ Tcp!BeginScan(s) \/ Tcp!Cancel(s) \/ Tcp!FeederReturns(s)
  \/ Tcp!CloserWakes(s) \/ Tcp!CloseResults(s)

LEMMA ConnsStep ==
  ASSUME TcpConstants, TcpTyped, ConnsInv, Tcp!Next
  PROVE  ConnsNext
<1>1. ASSUME NEW s \in Scans, CallStep(s) PROVE ConnsNext
  <2>1. UNCHANGED <<worker, pool, open, shut>>
    BY <1>1 DEF CallStep, Tcp!BeginScan, Tcp!Cancel, Tcp!FeederReturns, Tcp!CloserWakes,
       Tcp!CloseResults, Tcp!poolVars
  <2>2. worker \in Crew /\ pool \in Pools /\ ConnsOK(worker, pool, open, shut)
    BY DEF TcpTyped, ConnsInv
  <2> QED
    BY <2>1, <2>2, ConnsNextFrom
<1>2. ASSUME NEW s \in Scans, NEW t \in Targets, Tcp!WorkerStep(s, t) PROVE ConnsNext
  BY <1>2, AcquireKeeps, GetKeeps, CheckKeepsConns, SendKeepsConns, DecideKeeps, PutKeeps DEF
     Tcp!WorkerStep
<1>3. CASE Tcp!Stop \/ Tcp!ClosePool \/ Tcp!CleanPool
  BY <1>3, ShutKeeps, CleanKeeps
<1> QED
  BY <1>1, <1>2, <1>3, StaleKeeps, StartKeeps DEF Tcp!Next, Tcp!Step, Tcp!ScanStep, CallStep

LEMMA TypedKept ==
  ASSUME TcpConstants, TcpTyped, Tcp!Next, worker' \in Crew, pool' \in Pools
  PROVE  TcpTyped'
<1>1. ASSUME UNCHANGED <<wanted, cancelled, over, feeder, closer>>, sent' \in [Scans -> SUBSET Targets],
             shut' \in {"no", "done", "closed", "stuck"}
      PROVE  TcpTyped'
  BY <1>1 DEF TcpTyped
<1>2. CASE Tcp!Stop \/ Tcp!ClosePool \/ Tcp!CleanPool \/ \E a \in Targets : Tcp!GoStale(a)
  BY <1>1, <1>2 DEF Tcp!Stop, Tcp!ClosePool, Tcp!CleanPool, Tcp!GoStale, Tcp!scanVars, TcpTyped
<1>3. ASSUME NEW s \in Scans, NEW t \in Targets, Tcp!WorkerStep(s, t) \/ Tcp!StartWorker(s, t)
      PROVE  TcpTyped'
  <2>1. UNCHANGED <<wanted, cancelled, over, feeder, closer, shut>>
    BY <1>3 DEF Tcp!WorkerStep, Tcp!StartWorker, Tcp!AcquireSlot, Tcp!GetConn, Tcp!CheckConn,
       Tcp!SendResult, Tcp!DecideConn, Tcp!PutConn
  <2>2. sent' = sent \/ sent' = [sent EXCEPT ![s] = @ \cup {t}]
    BY <1>3 DEF Tcp!WorkerStep, Tcp!StartWorker, Tcp!AcquireSlot, Tcp!GetConn, Tcp!CheckConn,
       Tcp!SendResult, Tcp!DecideConn, Tcp!PutConn
  <2> QED
    BY <1>1, <2>1, <2>2 DEF TcpTyped
<1>4. ASSUME NEW s \in Scans, Tcp!BeginScan(s) PROVE TcpTyped'
  <2>1. PICK load \in Loads :
          /\ wanted' = [wanted EXCEPT ![s] = load[s]]
          /\ feeder' = [feeder EXCEPT ![s] = IF load[s] = {} THEN "returned" ELSE "loop"]
          /\ closer' = [closer EXCEPT ![s] = IF load[s] = {} THEN "closed" ELSE "wait"]
    BY <1>4 DEF Tcp!BeginScan
  <2>2. load[s] \in SUBSET Targets /\ UNCHANGED <<cancelled, over, sent, shut>>
    BY <1>4 DEF Tcp!BeginScan, TcpConstants
  <2> QED
    BY <2>1, <2>2 DEF TcpTyped
<1>5. ASSUME NEW s \in Scans,
             \/ Tcp!Cancel(s) \/ Tcp!FeederReturns(s)
             \/ Tcp!CloserWakes(s) \/ Tcp!CloseResults(s)
      PROVE  TcpTyped'
  BY <1>5 DEF Tcp!Cancel, Tcp!FeederReturns, Tcp!CloserWakes, Tcp!CloseResults, TcpTyped
<1> QED
  BY <1>2, <1>3, <1>4, <1>5 DEF Tcp!Next, Tcp!Step, Tcp!ScanStep

LEMMA TcpStarts ==
  ASSUME TcpConstants, Tcp!Init
  PROVE  TcpTyped /\ ConnsInv
<1>1. worker \in Crew /\ pool \in Pools
  BY DEF Tcp!Init, Crew, Pools, Workers
<1>2. TcpTyped
  BY <1>1 DEF Tcp!Init, TcpTyped
<1>3. /\ \A s \in Scans, t \in Targets : worker[s][t] = Tcp!Resting
      /\ \A a \in Targets : pool[a] = <<>> /\ DOMAIN pool[a] = {} /\ Len(pool[a]) = 0
      /\ open = {} /\ shut = "no" /\ MaxIdle \in Nat
  BY DEF Tcp!Init, TcpConstants
<1>4. HeldIn(worker) = {} /\ PooledIn(pool) = {}
  BY <1>3, HeldMember, PooledMember, PlainWorkers
<1>5. HeldApart(worker) /\ PooledApart(pool)
  BY <1>3, PlainWorkers DEF HeldApart, PooledApart
<1> QED
  BY <1>2, <1>3, <1>4, <1>5 DEF ConnsInv, ConnsOK

\* The entries are as many as the connections in them.
LEMMA EntriesCount ==
  ASSUME TcpConstants, TcpTyped, ConnsInv
  PROVE  Cardinality(Tcp!Pooled) = Cardinality(Tcp!Entries)
<1> DEFINE f == [e \in Tcp!Entries |-> pool[e[1]][e[2]].conn]
<1>1. \A e \in Tcp!Entries : f[e] \in Tcp!Pooled
  BY DEF Tcp!Pooled
<1>2. \A c \in Tcp!Pooled : \E e \in Tcp!Entries : f[e] = c
  BY DEF Tcp!Pooled
<1>3. ASSUME NEW d \in Tcp!Entries, NEW e \in Tcp!Entries, f[d] = f[e] PROVE d = e
  <2>1. /\ d[1] \in Targets /\ d[2] \in DOMAIN pool[d[1]] /\ d = <<d[1], d[2]>>
        /\ e[1] \in Targets /\ e[2] \in DOMAIN pool[e[1]] /\ e = <<e[1], e[2]>>
    BY DEF Tcp!Entries
  <2>2. d[1] = e[1] /\ d[2] = e[2]
    BY <1>3, <2>1 DEF ConnsInv, ConnsOK, PooledApart
  <2> QED
    BY <2>1, <2>2
<1>4. f \in [Tcp!Entries -> Tcp!Pooled]
  BY <1>1
<1> HIDE DEF f
<1>5. f \in Bijection(Tcp!Entries, Tcp!Pooled)
  BY <1>2, <1>3, <1>4 DEF Bijection, Injection, Surjection, IsInjective
<1>6. IsFiniteSet(Tcp!Entries)
  <2>1. IsFiniteSet(1..MaxIdle)
    BY FS_Interval DEF TcpConstants
  <2>2. IsFiniteSet(Targets \X (1..MaxIdle))
    BY <2>1, FS_Product DEF TcpConstants
  <2>3. Tcp!Entries \subseteq Targets \X (1..MaxIdle)
    BY DEF Tcp!Entries
  <2> QED
    BY <2>2, <2>3, FS_Subset
<1> QED
  BY <1>5, <1>6, FS_Bijection DEF ExistsBijection

LEMMA ConnsAccounted ==
  ASSUME TcpConstants, TcpTyped, ConnsInv
  PROVE  Tcp!ConnectionsAccounted
<1>1. ConnsOK(worker, pool, open, shut) /\ MaxIdle \in Nat
  BY DEF ConnsInv, TcpConstants
<1>2. Tcp!Held = HeldIn(worker) /\ Tcp!Pooled = PooledIn(pool)
  BY <1>1, HeldIs, PooledIs DEF ConnsOK
<1>3. ASSUME NEW x \in Tcp!Holders, NEW y \in Tcp!Holders,
             worker[x[1]][x[2]].conn = worker[y[1]][y[2]].conn
      PROVE  x = y
  <2>1. /\ x[1] \in Scans /\ x[2] \in Targets /\ x = <<x[1], x[2]>> /\ Holding(worker[x[1]][x[2]])
        /\ y[1] \in Scans /\ y[2] \in Targets /\ y = <<y[1], y[2]>> /\ Holding(worker[y[1]][y[2]])
    BY DEF Tcp!Holders, Holding
  <2>2. x[1] = y[1] /\ x[2] = y[2]
    BY <1>1, <1>3, <2>1 DEF ConnsOK, HeldApart
  <2> QED
    BY <2>1, <2>2
<1>4. Cardinality(Tcp!Pooled) = Cardinality(Tcp!Entries)
  BY EntriesCount
<1>5. ASSUME NEW S PROVE Cardinality(S) = Tcp!Cardinality(S)
  BY DEF Tcp!Cardinality, Cardinality
<1>6. Tcp!Cardinality(Tcp!Pooled) = Tcp!Cardinality(Tcp!Entries)
  BY <1>4, <1>5
<1> QED
  BY <1>1, <1>2, <1>3, <1>6 DEF ConnsOK, Tcp!ConnectionsAccounted

\* The call s was cancelled, or the scanner stopped.
Abandoned(s) == cancelled[s] \/ shut # "no"

\* The workers of s are done.
AllEnded(s) == \A t \in wanted[s] : worker[s][t] = Tcp!Ended

CallOK(s) ==
  /\ feeder[s] = "off" <=> closer[s] = "off"
  /\ feeder[s] = "off" => wanted[s] = {}
  /\ sent[s] \subseteq wanted[s] /\ \A t \in Targets \ wanted[s] : worker[s][t] = Tcp!Resting
  /\ over[s] => closer[s] \in {"drain", "closed"}
  /\ ~Abandoned(s) =>
       /\ \A t \in wanted[s] : worker[s][t].pc \in {"decide", "put", "done"} => t \in sent[s]
       /\ feeder[s] = "returned" \/ closer[s] \in {"drain", "closed"} => AllEnded(s)

TcpInv == TcpTyped /\ ConnsInv /\ \A s \in Scans : CallOK(s)

\* A call whose own state a step leaves alone.
LEMMA OtherCall ==
  ASSUME NEW s, CallOK(s),
         wanted'[s] = wanted[s], feeder'[s] = feeder[s], worker'[s] = worker[s],
         closer'[s] = closer[s], sent'[s] = sent[s], over'[s] = over[s],
         Abandoned(s) => Abandoned(s)'
  PROVE  CallOK(s)'
BY DEF CallOK, AllEnded

\* A call of which one worker moves.
LEMMA OneMoves ==
  ASSUME TcpTyped, NEW s \in Scans, NEW t \in Targets, CallOK(s), NEW r, worker' = Put(worker, s, t, r),
         UNCHANGED <<wanted, feeder, closer, over, cancelled, shut>>,
         worker[s][t] # Tcp!Ended, t \in wanted[s],
         sent'[s] = sent[s] \/ sent'[s] = sent[s] \cup {t},
         ~Abandoned(s) => r.pc \notin {"decide", "put", "done"} \/ t \in sent'[s]
  PROVE  CallOK(s)'
<1>1. /\ worker'[s][t] = r
      /\ \A u \in Targets \ {t} : worker'[s][u] = worker[s][u]
  BY DEF TcpTyped, Crew, Put
<1>2. Abandoned(s)' = Abandoned(s)
  BY DEF Abandoned
<1>3. wanted'[s] = wanted[s] /\ feeder'[s] = feeder[s] /\ closer'[s] = closer[s] /\ over'[s] = over[s]
  OBVIOUS
<1>4. ~Abandoned(s) => ~(feeder[s] = "returned" \/ closer[s] \in {"drain", "closed"})
  BY DEF CallOK, AllEnded
<1>5. sent'[s] \subseteq wanted[s] /\ sent[s] \subseteq sent'[s]
  BY DEF CallOK
<1>6. \A u \in Targets \ wanted[s] : worker'[s][u] = Tcp!Resting
  BY <1>1 DEF CallOK
<1>7. ASSUME ~Abandoned(s), NEW u \in wanted[s], worker'[s][u].pc \in {"decide", "put", "done"}
      PROVE  u \in sent'[s]
  <2>1. CASE u = t
    BY <1>1, <1>7, <2>1
  <2>2. CASE u # t
    <3>1. worker'[s][u] = worker[s][u]
      BY <1>1, <2>2 DEF TcpTyped
    <3> QED
      BY <1>5, <1>7, <3>1 DEF CallOK
  <2> QED
    BY <2>1, <2>2
<1> QED
  BY <1>2, <1>3, <1>4, <1>5, <1>6, <1>7 DEF CallOK

\* The other calls do not notice what a worker of s does.
LEMMA OthersKept ==
  ASSUME TcpTyped, NEW s, NEW t, NEW q \in Scans, q # s, CallOK(q),
         worker' = worker \/ \E r : worker' = Put(worker, s, t, r),
         UNCHANGED <<wanted, feeder, closer, over, cancelled, shut>>, sent'[q] = sent[q]
  PROVE  CallOK(q)'
<1>1. worker'[q] = worker[q]
  BY DEF TcpTyped, Crew, Put
<1> QED
  BY <1>1, OtherCall DEF Abandoned

\* What the steps of a worker have in common.
LEMMA WorkerStepMoves ==
  ASSUME TcpTyped, NEW s \in Scans, NEW t \in Targets, Tcp!WorkerStep(s, t) \/ Tcp!StartWorker(s, t)
  PROVE  /\ worker' = worker \/ \E r : worker' = Put(worker, s, t, r)
         /\ UNCHANGED <<wanted, feeder, closer, over, cancelled, shut>>
         /\ \A q \in Scans \ {s} : sent'[q] = sent[q]
         /\ sent'[s] = sent[s] \/ sent'[s] = sent[s] \cup {t}
<1>1. UNCHANGED <<wanted, feeder, closer, over, cancelled, shut>>
  BY DEF Tcp!WorkerStep, Tcp!StartWorker, Tcp!AcquireSlot, Tcp!GetConn, Tcp!CheckConn, Tcp!SendResult,
     Tcp!DecideConn, Tcp!PutConn
<1>2. sent' = sent \/ sent' = [sent EXCEPT ![s] = @ \cup {t}]
  BY DEF Tcp!WorkerStep, Tcp!StartWorker, Tcp!AcquireSlot, Tcp!GetConn, Tcp!CheckConn, Tcp!SendResult,
     Tcp!DecideConn, Tcp!PutConn
<1>3. worker' = worker \/ \E r : Tcp!Become(s, t, r)
  BY DEF Tcp!WorkerStep, Tcp!StartWorker, Tcp!AcquireSlot, Tcp!GetConn, Tcp!CheckConn, Tcp!SendResult,
     Tcp!DecideConn, Tcp!PutConn
<1> QED
  BY <1>1, <1>2, <1>3, Becomes DEF TcpTyped

\* Whoever still works is waited for.
LEMMA StillWorking ==
  ASSUME TcpTyped, NEW s \in Scans, CallOK(s), NEW t \in Targets, worker[s][t].pc \notin {"off", "done"}
  PROVE  /\ t \in wanted[s] /\ worker[s][t] # Tcp!Ended
         /\ ~Abandoned(s) => closer[s] \notin {"drain", "closed"} /\ ~Tcp!CtxDone(s)
<1>1. t \in wanted[s] /\ worker[s][t] # Tcp!Ended
  BY DEF CallOK, Tcp!Resting, Tcp!Ended
<1>2. ~Abandoned(s) => closer[s] \notin {"drain", "closed"}
  BY <1>1 DEF CallOK, AllEnded
<1>3. ~Abandoned(s) => ~Tcp!CtxDone(s)
  BY <1>2 DEF CallOK, Tcp!CtxDone, Abandoned
<1> QED
  BY <1>1, <1>2, <1>3

LEMMA WorkerCalls ==
  ASSUME TcpConstants, TcpInv, NEW s \in Scans, NEW t \in Targets,
         Tcp!WorkerStep(s, t) \/ Tcp!StartWorker(s, t)
  PROVE  CallOK(s)'
<1>1. /\ TcpTyped /\ CallOK(s) /\ worker[s][t] \in Workers
      /\ UNCHANGED <<wanted, feeder, closer, over, cancelled, shut>>
      /\ sent'[s] = sent[s] \/ sent'[s] = sent[s] \cup {t}
  BY WorkerStepMoves, WorkerHas DEF TcpInv
<1>2. ASSUME worker[s][t].pc \notin {"off", "done"}, NEW r, Tcp!Become(s, t, r),
             ~Abandoned(s) => r.pc \notin {"decide", "put", "done"} \/ t \in sent'[s]
      PROVE  CallOK(s)'
  <2>1. t \in wanted[s] /\ worker[s][t] # Tcp!Ended
    BY <1>1, <1>2, StillWorking
  <2>2. worker' = Put(worker, s, t, r)
    BY <1>2, Becomes
  <2> QED
    BY <1>1, <1>2, <2>1, <2>2, OneMoves
<1>3. ASSUME worker[s][t].pc \notin {"off", "done"} PROVE ~Abandoned(s) => ~Tcp!CtxDone(s)
  BY <1>1, <1>3, StillWorking
<1>4. ASSUME worker[s][t].pc \in {"decide", "put"} PROVE ~Abandoned(s) => t \in sent[s]
  <2>1. t \in wanted[s]
    BY <1>1, <1>4, StillWorking
  <2> QED
    BY <1>1, <1>4, <2>1 DEF CallOK
<1>5. ASSUME UNCHANGED <<worker, sent>> PROVE CallOK(s)'
  <2>1. wanted'[s] = wanted[s] /\ feeder'[s] = feeder[s] /\ closer'[s] = closer[s] /\ over'[s] = over[s]
        /\ worker'[s] = worker[s] /\ sent'[s] = sent[s] /\ (Abandoned(s) => Abandoned(s)')
    BY <1>1, <1>5 DEF Abandoned
  <2> QED
    BY <1>1, <2>1, OtherCall
<1>6. CASE Tcp!StartWorker(s, t)
  <2>1. /\ t \in wanted[s] /\ worker[s][t] # Tcp!Ended
        /\ Tcp!Become(s, t, [pc |-> "sem"]) /\ [pc |-> "sem"].pc = "sem"
    BY <1>6 DEF Tcp!StartWorker, Tcp!Resting, Tcp!Ended
  <2>2. worker' = Put(worker, s, t, [pc |-> "sem"])
    BY <2>1, Becomes
  <2> QED
    BY <1>1, <2>1, <2>2, OneMoves
<1>7. CASE Tcp!AcquireSlot(s, t)
  <2>1. /\ worker[s][t].pc = "sem"
        /\ Tcp!Become(s, t, [pc |-> "dial"]) \/ (Tcp!CtxDone(s) /\ Tcp!Become(s, t, Tcp!Ended))
    BY <1>7 DEF Tcp!AcquireSlot
  <2> QED
    BY <1>2, <1>3, <2>1
<1>8. CASE Tcp!GetConn(s, t)
  <2>1. /\ worker[s][t].pc = "dial"
        /\ \E c, pc : pc \in {"check", "send"} /\ Tcp!Become(s, t, [pc |-> pc, conn |-> c, ok |-> FALSE])
    BY <1>8 DEF Tcp!GetConn
  <2> QED
    BY <1>2, <2>1
<1>9. CASE Tcp!CheckConn(s, t)
  <2>1. worker[s][t].pc = "check"
    BY <1>9 DEF Tcp!CheckConn
  <2>2. \E ok \in {FALSE, worker[s][t].conn \in open} : Tcp!Become(s, t, Checked(worker[s][t], ok))
    BY <1>9 DEF Tcp!CheckConn, Checked
  <2>3. PICK ok : Tcp!Become(s, t, Checked(worker[s][t], ok))
    BY <2>2
  <2>4. Checked(worker[s][t], ok).pc = "send"
    BY <1>1, <2>1 DEF Checked, Workers, Tcp!Resting, Tcp!Ended
  <2> QED
    BY <1>2, <2>1, <2>3, <2>4
<1>10. CASE Tcp!SendResult(s, t)
  <2>1. worker[s][t].pc = "send"
    BY <1>10 DEF Tcp!SendResult
  <2>2. CASE sent' = [sent EXCEPT ![s] = @ \cup {t}] /\ Tcp!Become(s, t, Tcp!AfterSend(s, t))
    <3>1. t \in sent'[s]
      BY <1>1, <2>2 DEF TcpTyped
    <3> QED
      BY <1>2, <2>1, <2>2, <3>1
  <2>3. CASE Tcp!CtxDone(s) /\ Tcp!Become(s, t, Tcp!AfterSend(s, t))
    BY <1>2, <1>3, <2>1, <2>3
  <2>4. CASE UNCHANGED <<sent, worker>>
    BY <1>5, <2>4
  <2> QED
    BY <1>10, <2>2, <2>3, <2>4 DEF Tcp!SendResult
<1>11. CASE Tcp!DecideConn(s, t)
  <2>1. /\ worker[s][t].pc = "decide" /\ UNCHANGED sent
        /\ \E r : Tcp!Become(s, t, r)
    BY <1>11 DEF Tcp!DecideConn
  <2>2. sent'[s] = sent[s]
    BY <2>1
  <2> QED
    BY <1>2, <1>4, <2>1, <2>2
<1>12. CASE Tcp!PutConn(s, t)
  <2>1. /\ worker[s][t].pc = "put" /\ UNCHANGED sent
        /\ (\E r : Tcp!Become(s, t, r)) \/ UNCHANGED worker
    BY <1>12 DEF Tcp!PutConn
  <2>2. sent'[s] = sent[s]
    BY <2>1
  <2> QED
    BY <1>2, <1>4, <1>5, <2>1, <2>2
<1> QED
  BY <1>6, <1>7, <1>8, <1>9, <1>10, <1>11, <1>12 DEF Tcp!WorkerStep

LEMMA CallSteps ==
  ASSUME TcpConstants, TcpInv, NEW s \in Scans, CallStep(s)
  PROVE  CallOK(s)'
<1>1. TcpTyped /\ CallOK(s)
  BY DEF TcpInv
<1>2. CASE Tcp!BeginScan(s)
  <2>1. PICK load \in Loads :
          /\ wanted' = [wanted EXCEPT ![s] = load[s]]
          /\ feeder' = [feeder EXCEPT ![s] = IF load[s] = {} THEN "returned" ELSE "loop"]
          /\ closer' = [closer EXCEPT ![s] = IF load[s] = {} THEN "closed" ELSE "wait"]
    BY <1>2 DEF Tcp!BeginScan
  <2>2. load[s] \in SUBSET Targets /\ UNCHANGED <<cancelled, over, sent, shut, worker>> /\ feeder[s] = "off"
    BY <1>2 DEF Tcp!BeginScan, TcpConstants
  <2>3. /\ wanted'[s] = load[s]
        /\ \/ load[s] = {} /\ feeder'[s] = "returned" /\ closer'[s] = "closed"
           \/ load[s] # {} /\ feeder'[s] = "loop" /\ closer'[s] = "wait"
    BY <1>1, <2>1 DEF TcpTyped
  <2>4. wanted[s] = {} /\ sent[s] = {} /\ ~over[s] /\ \A t \in Targets : worker[s][t] = Tcp!Resting
    BY <1>1, <2>2 DEF CallOK
  <2>5. Tcp!Resting.pc = "off"
    BY DEF Tcp!Resting
  <2> QED
    BY <2>2, <2>3, <2>4, <2>5 DEF CallOK, AllEnded
<1>3. CASE Tcp!Cancel(s)
  <2>1. /\ UNCHANGED <<wanted, over, feeder, worker, closer, sent, shut>>
        /\ cancelled'[s] = TRUE
    BY <1>1, <1>3 DEF Tcp!Cancel, TcpTyped
  <2> QED
    BY <1>1, <2>1 DEF CallOK, AllEnded, Abandoned
<1>4. CASE Tcp!FeederReturns(s)
  <2>1. /\ UNCHANGED <<wanted, cancelled, over, worker, closer, sent, shut>>
        /\ feeder[s] = "loop" /\ feeder'[s] = "returned"
        /\ (\E t \in wanted[s] : worker[s][t] = Tcp!Resting) => Tcp!CtxDone(s)
        /\ (\A t \in wanted[s] : worker[s][t] # Tcp!Resting) => AllEnded(s)
    BY <1>1, <1>4 DEF Tcp!FeederReturns, TcpTyped, AllEnded
  <2>2. ~Abandoned(s) => AllEnded(s)
    <3>1. ASSUME ~Abandoned(s), Tcp!CtxDone(s) PROVE AllEnded(s)
      BY <1>1, <3>1 DEF Tcp!CtxDone, Abandoned, CallOK
    <3> QED
      BY <2>1, <3>1
  <2>3. feeder'[s] # "off" /\ closer'[s] # "off"
    BY <1>1, <2>1 DEF CallOK
  <2> QED
    BY <1>1, <2>1, <2>2, <2>3 DEF CallOK, AllEnded, Abandoned
<1>5. CASE Tcp!CloserWakes(s)
  <2>1. /\ UNCHANGED <<wanted, cancelled, feeder, worker, sent, shut>>
        /\ closer[s] = "wait" /\ closer'[s] = "drain" /\ over'[s] = TRUE
        /\ feeder[s] = "returned" \/ Tcp!CtxDone(s) \/ shut # "no"
    BY <1>1, <1>5 DEF Tcp!CloserWakes, TcpTyped
  <2>2. ~Abandoned(s) => AllEnded(s)
    BY <1>1, <2>1 DEF CallOK, Tcp!CtxDone, Abandoned
  <2> QED
    BY <1>1, <2>1, <2>2 DEF CallOK, AllEnded, Abandoned
<1>6. CASE Tcp!CloseResults(s)
  <2>1. /\ UNCHANGED <<wanted, cancelled, over, feeder, worker, sent, shut>>
        /\ closer[s] = "drain" /\ closer'[s] = "closed"
    BY <1>1, <1>6 DEF Tcp!CloseResults, TcpTyped
  <2> QED
    BY <1>1, <2>1 DEF CallOK, AllEnded, Abandoned
<1> QED
  BY <1>2, <1>3, <1>4, <1>5, <1>6 DEF CallStep

LEMMA TcpKept ==
  ASSUME TcpConstants, TcpInv, Tcp!Next
  PROVE  TcpInv'
<1>1. TcpTyped' /\ ConnsInv'
  BY ConnsStep, TypedKept DEF TcpInv, ConnsNext
<1>2. ASSUME NEW q \in Scans PROVE CallOK(q)'
  <2>1. TcpTyped /\ CallOK(q)
    BY DEF TcpInv
  <2>2. ASSUME NEW s \in Scans, NEW t \in Targets, Tcp!WorkerStep(s, t) \/ Tcp!StartWorker(s, t)
        PROVE  CallOK(q)'
    <3>1. CASE q = s
      BY <2>2, <3>1, WorkerCalls
    <3>2. CASE q # s
      BY <2>1, <2>2, <3>2, WorkerStepMoves, OthersKept
    <3> QED
      BY <3>1, <3>2
  <2>3. ASSUME NEW s \in Scans, CallStep(s) PROVE CallOK(q)'
    <3>1. CASE q = s
      BY <2>3, <3>1, CallSteps
    <3>2. CASE q # s
      <4>1. /\ wanted'[q] = wanted[q] /\ feeder'[q] = feeder[q] /\ worker'[q] = worker[q]
            /\ closer'[q] = closer[q] /\ sent'[q] = sent[q] /\ over'[q] = over[q]
        BY <2>1, <2>3, <3>2 DEF CallStep, Tcp!BeginScan, Tcp!Cancel, Tcp!FeederReturns,
           Tcp!CloserWakes, Tcp!CloseResults, TcpTyped
      <4>2. cancelled'[q] = cancelled[q] /\ UNCHANGED shut
        BY <2>1, <2>3, <3>2 DEF CallStep, Tcp!BeginScan, Tcp!Cancel, Tcp!FeederReturns,
           Tcp!CloserWakes, Tcp!CloseResults, TcpTyped
      <4> QED
        BY <2>1, <4>1, <4>2, OtherCall DEF Abandoned
    <3> QED
      BY <3>1, <3>2
  <2>4. CASE Tcp!Stop \/ Tcp!ClosePool \/ Tcp!CleanPool \/ \E a \in Targets : Tcp!GoStale(a)
    <3>1. UNCHANGED Tcp!scanVars /\ (shut # "no" => shut' # "no")
      BY <2>4 DEF Tcp!Stop, Tcp!ClosePool, Tcp!CleanPool, Tcp!GoStale
    <3>2. /\ wanted'[q] = wanted[q] /\ feeder'[q] = feeder[q] /\ worker'[q] = worker[q]
          /\ closer'[q] = closer[q] /\ sent'[q] = sent[q] /\ over'[q] = over[q]
          /\ (Abandoned(q) => Abandoned(q)')
      BY <3>1 DEF Tcp!scanVars, Abandoned
    <3> QED
      BY <2>1, <3>2, OtherCall
  <2> QED
    BY <2>2, <2>3, <2>4 DEF Tcp!Next, Tcp!Step, Tcp!ScanStep, CallStep
<1> QED
  BY <1>1, <1>2 DEF TcpInv

LEMMA TcpBegins ==
  ASSUME TcpConstants, Tcp!Init
  PROVE  TcpInv /\ \A s \in Scans : Tcp!Channel(s)!ChanInit
<1>1. TcpTyped /\ ConnsInv
  BY TcpStarts
<1>2. ASSUME NEW s \in Scans PROVE CallOK(s)
  BY <1>1 DEF Tcp!Init, CallOK
<1>3. ASSUME NEW s \in Scans PROVE Tcp!Channel(s)!ChanInit
  BY DEF Tcp!Init, TcpConstants, Tcp!Channel!ChanInit
<1> QED
  BY <1>1, <1>2, <1>3 DEF TcpInv

\* What the reader of the channel of s sees, before a panic.
Shown(c) == CASE c = "closed" -> "closed" [] c = "off" -> "none" [] OTHER -> "open"

ChannelStep(s) == Tcp!Channel(s)!ChanNext \/ UNCHANGED Tcp!Channel(s)!chanVars

\* The reader notices nothing, or that the call is abandoned.
LEMMA TcpUnseen ==
  ASSUME NEW s \in Scans, crash # s, crash' # s,
         wanted'[s] = wanted[s], sent'[s] = sent[s], Shown(closer'[s]) = Shown(closer[s]),
         Abandoned(s) => Abandoned(s)'
  PROVE  ChannelStep(s)
<1>1. CASE Abandoned(s)' = Abandoned(s)
  BY <1>1 DEF ChannelStep, Tcp!Channel!chanVars, Abandoned, Shown
<1>2. CASE Abandoned(s)' # Abandoned(s)
  <2>1. (cancelled[s] \/ shut # "no")' = TRUE
    BY <1>2 DEF Abandoned
  <2>2. Tcp!Channel(s)!Abandon
    BY <2>1 DEF Tcp!Channel!Abandon, Shown
  <2> QED
    BY <2>2 DEF ChannelStep, Tcp!Channel!ChanNext
<1> QED
  BY <1>1, <1>2

LEMMA SendRefines ==
  ASSUME TcpConstants, TcpInv, crash = "no", NEW s \in Scans, NEW t \in Targets, Tcp!SendResult(s, t)
  PROVE  ChannelStep(s)
<1>1. /\ TcpTyped /\ CallOK(s) /\ crash # s /\ worker[s][t].pc = "send"
      /\ UNCHANGED <<wanted, cancelled, closer, shut>>
  BY DEF TcpInv, TcpConstants, Tcp!SendResult
<1>2. t \in wanted[s] /\ (~Abandoned(s) => closer[s] \notin {"drain", "closed"})
  BY <1>1, StillWorking
<1>3. closer[s] # "off"
  BY <1>1, <1>2 DEF CallOK
<1>4. CASE UNCHANGED <<sent, crash>>
  BY <1>1, <1>4, TcpUnseen DEF Abandoned
<1>5. CASE closer[s] # "closed" /\ sent' = [sent EXCEPT ![s] = @ \cup {t}] /\ UNCHANGED crash
  <2>1. sent'[s] = sent[s] \cup {t}
    BY <1>1, <1>5 DEF TcpTyped
  <2>2. CASE t \in sent[s]
    <3>1. sent'[s] = sent[s]
      BY <2>1, <2>2
    <3> QED
      BY <1>1, <1>5, <3>1, TcpUnseen DEF Abandoned
  <2>3. CASE t \notin sent[s]
    <3>1. Tcp!Channel(s)!Deliver
      BY <1>1, <1>2, <1>3, <1>5, <2>1, <2>3 DEF Tcp!Channel!Deliver
    <3> QED
      BY <3>1 DEF ChannelStep, Tcp!Channel!ChanNext
  <2> QED
    BY <2>2, <2>3
<1>6. CASE closer[s] = "closed" /\ crash' = s /\ UNCHANGED sent
  <2>1. Abandoned(s)
    BY <1>2, <1>6
  <2>2. Tcp!Channel(s)!Crash
    BY <1>1, <1>6, <2>1 DEF Tcp!Channel!Crash, Abandoned
  <2> QED
    BY <2>2 DEF ChannelStep, Tcp!Channel!ChanNext
<1> QED
  BY <1>4, <1>5, <1>6 DEF Tcp!SendResult

LEMMA BeginRefines ==
  ASSUME TcpConstants, TcpInv, crash = "no", NEW s \in Scans, Tcp!BeginScan(s)
  PROVE  ChannelStep(s)
<1>1. /\ TcpTyped /\ CallOK(s) /\ crash # s /\ feeder[s] = "off"
      /\ UNCHANGED <<cancelled, sent, shut, crash>>
  BY DEF TcpInv, TcpConstants, Tcp!BeginScan
<1>2. PICK load \in Loads :
        /\ wanted' = [wanted EXCEPT ![s] = load[s]]
        /\ closer' = [closer EXCEPT ![s] = IF load[s] = {} THEN "closed" ELSE "wait"]
  BY DEF Tcp!BeginScan
<1>3. load[s] \in SUBSET Targets
  BY DEF TcpConstants
<1>4. /\ wanted'[s] = load[s]
      /\ closer'[s] = IF load[s] = {} THEN "closed" ELSE "wait"
  BY <1>1, <1>2 DEF TcpTyped
<1>5. closer[s] = "off"
  BY <1>1 DEF CallOK
<1>6. Tcp!Channel(s)!Open(load[s])
  BY <1>1, <1>4, <1>5 DEF Tcp!Channel!Open
<1> QED
  BY <1>3, <1>6 DEF ChannelStep, Tcp!Channel!ChanNext

LEMMA CloseRefines ==
  ASSUME TcpConstants, TcpInv, crash = "no", NEW s \in Scans, Tcp!CloseResults(s)
  PROVE  ChannelStep(s)
<1>1. /\ TcpTyped /\ CallOK(s) /\ crash # s /\ closer[s] = "drain"
      /\ UNCHANGED <<wanted, cancelled, sent, shut, crash>>
  BY DEF TcpInv, TcpConstants, Tcp!CloseResults
<1>2. closer'[s] = "closed"
  BY <1>1 DEF Tcp!CloseResults, TcpTyped
<1>3. Abandoned(s) \/ sent[s] = wanted[s]
  <2>1. ASSUME ~Abandoned(s), NEW t \in wanted[s] PROVE t \in sent[s]
    <3>1. worker[s][t] = Tcp!Ended
      BY <1>1, <2>1 DEF CallOK, AllEnded
    <3> QED
      BY <1>1, <2>1, <3>1 DEF CallOK, Tcp!Ended
  <2>2. sent[s] \subseteq wanted[s]
    BY <1>1 DEF CallOK
  <2> QED
    BY <2>1, <2>2
<1>4. Tcp!Channel(s)!Close
  BY <1>1, <1>2, <1>3 DEF Tcp!Channel!Close, Abandoned
<1> QED
  BY <1>4 DEF ChannelStep, Tcp!Channel!ChanNext

LEMMA TcpRefines ==
  ASSUME TcpConstants, TcpInv, Tcp!Next, NEW q \in Scans
  PROVE  ChannelStep(q)
<1>1. TcpTyped /\ CallOK(q) /\ crash = "no" /\ crash # q
  BY DEF TcpInv, TcpConstants, Tcp!Next
<1>2. ASSUME NEW s \in Scans, NEW t \in Targets, Tcp!WorkerStep(s, t) \/ Tcp!StartWorker(s, t)
      PROVE  ChannelStep(q)
  <2>1. CASE Tcp!SendResult(s, t) /\ s = q
    BY <1>1, <2>1, SendRefines
  <2>2. CASE ~(Tcp!SendResult(s, t) /\ s = q)
    <3>1. UNCHANGED <<wanted, closer, cancelled, shut>>
      BY <1>1, <1>2, WorkerStepMoves
    <3>2. sent'[q] = sent[q]
      <4>1. CASE s # q
        BY <1>1, <1>2, <4>1, WorkerStepMoves
      <4>2. CASE s = q
        BY <1>2, <2>2, <4>2 DEF Tcp!WorkerStep, Tcp!StartWorker, Tcp!AcquireSlot, Tcp!GetConn,
           Tcp!CheckConn, Tcp!DecideConn, Tcp!PutConn
      <4> QED
        BY <4>1, <4>2
    <3>3. crash' # q
      <4>1. crash' \in {"no", "pool"} \/ (Tcp!SendResult(s, t) /\ crash' = s)
        BY <1>1, <1>2 DEF Tcp!WorkerStep, Tcp!StartWorker, Tcp!AcquireSlot, Tcp!GetConn,
           Tcp!CheckConn, Tcp!SendResult, Tcp!DecideConn, Tcp!PutConn
      <4> QED
        BY <2>2, <4>1 DEF TcpConstants
    <3> QED
      BY <1>1, <3>1, <3>2, <3>3, TcpUnseen DEF Abandoned
  <2> QED
    BY <2>1, <2>2
<1>3. ASSUME NEW s \in Scans, CallStep(s) PROVE ChannelStep(q)
  <2>1. CASE s = q /\ (Tcp!BeginScan(s) \/ Tcp!CloseResults(s))
    BY <1>1, <2>1, BeginRefines, CloseRefines
  <2>2. CASE s # q \/ ~(Tcp!BeginScan(s) \/ Tcp!CloseResults(s))
    <3>1. UNCHANGED <<sent, shut, crash>>
      BY <1>3 DEF CallStep, Tcp!BeginScan, Tcp!Cancel, Tcp!FeederReturns, Tcp!CloserWakes,
         Tcp!CloseResults
    <3>2. wanted'[q] = wanted[q]
      BY <1>1, <1>3, <2>2 DEF CallStep, Tcp!BeginScan, Tcp!Cancel, Tcp!FeederReturns, Tcp!CloserWakes,
         Tcp!CloseResults, TcpTyped
    <3>3. Shown(closer'[q]) = Shown(closer[q])
      <4>1. closer'[q] = closer[q] \/ (closer[q] = "wait" /\ closer'[q] = "drain")
        BY <1>1, <1>3, <2>2 DEF CallStep, Tcp!BeginScan, Tcp!Cancel, Tcp!FeederReturns,
           Tcp!CloserWakes, Tcp!CloseResults, TcpTyped
      <4> QED
        BY <4>1 DEF Shown
    <3>4. cancelled[q] => cancelled'[q]
      BY <1>1, <1>3 DEF CallStep, Tcp!BeginScan, Tcp!Cancel, Tcp!FeederReturns, Tcp!CloserWakes,
         Tcp!CloseResults, TcpTyped
    <3> QED
      BY <1>1, <3>1, <3>2, <3>3, <3>4, TcpUnseen DEF Abandoned
  <2> QED
    BY <2>1, <2>2
<1>4. CASE Tcp!Stop \/ Tcp!ClosePool \/ Tcp!CleanPool \/ \E a \in Targets : Tcp!GoStale(a)
  <2>1. UNCHANGED <<Tcp!scanVars, crash>> /\ (shut # "no" => shut' # "no")
    BY <1>4 DEF Tcp!Stop, Tcp!ClosePool, Tcp!CleanPool, Tcp!GoStale
  <2> QED
    BY <1>1, <2>1, TcpUnseen DEF Tcp!scanVars, Abandoned
<1> QED
  BY <1>2, <1>3, <1>4 DEF Tcp!Next, Tcp!Step, Tcp!ScanStep, CallStep

LEMMA TcpStutters ==
  ASSUME TcpInv, UNCHANGED Tcp!vars
  PROVE  TcpInv' /\ \A s \in Scans : ChannelStep(s)
<1>1. UNCHANGED <<wanted, cancelled, over, feeder, worker, closer, sent, pool, open, shut, crash>>
  BY DEF Tcp!vars, Tcp!scanVars, Tcp!poolVars
<1>2. TcpTyped'
  BY <1>1 DEF TcpInv, TcpTyped
<1>3. ConnsInv'
  BY <1>1 DEF TcpInv, ConnsInv
<1>4. ASSUME NEW s \in Scans PROVE CallOK(s)'
  BY <1>1, OtherCall DEF TcpInv, Abandoned
<1>5. ASSUME NEW s \in Scans PROVE ChannelStep(s)
  BY <1>1 DEF ChannelStep, Tcp!Channel!chanVars
<1> QED
  BY <1>2, <1>3, <1>4, <1>5 DEF TcpInv

-----------------------------------------------------------------------------
(* The combined scanner.                                                     *)

ForwarderPcs == {"off", "scan", "read", "send", "failed", "done"}

CombinedTyped ==
  /\ wantedC \subseteq MixedTargets /\ contested \subseteq MixedTargets /\ sentC \subseteq Combined!Served
  /\ cancelledC \in BOOLEAN /\ overC \in BOOLEAN /\ stoppedC \in BOOLEAN /\ crashC \in BOOLEAN
  /\ found \in [Scanners -> SUBSET MixedTargets] /\ taken \in [Scanners -> SUBSET MixedTargets]
  /\ fwd \in [Scanners -> [pc : ForwarderPcs \ {"send"}] \cup [pc : {"send"}, result : MixedTargets]]
  /\ callerC \in {"off", "waiting", "channel", "error"}
  /\ closerC \in {"off", "wait", "close", "cancel", "done"}

\* A scan begins once.
CombinedNotBegun ==
  /\ callerC = "off" <=> closerC = "off"
  /\ callerC = "off" =>
       /\ wantedC = {} /\ contested = {} /\ sentC = {} /\ ended = {} /\ ~cancelledC /\ ~crashC
       /\ \A k \in Scanners : fwd[k].pc = "off"

\* What a forwarder has taken is of its kind; it ends with everything sent, unless
\* the call is abandoned or over.
ForwardsAll(k) ==
  /\ fwd[k].pc = "off" => Combined!Part(k) = {}
  /\ taken[k] \subseteq found[k] /\ found[k] \subseteq Combined!Part(k)
  /\ fwd[k].pc = "send" => fwd[k].result \in Combined!Part(k)
  /\ fwd[k].pc \in {"scan", "read"} => taken[k] \subseteq sentC
  /\ fwd[k].pc = "send" => taken[k] \subseteq sentC \cup {fwd[k].result}
  /\ closerC \in {"off", "wait", "close"} /\ ~Combined!Abandoned =>
       /\ k \in ended => Combined!Part(k) \subseteq found[k] \cup contested
       /\ fwd[k].pc = "done" => Combined!Part(k) \subseteq sentC \cup contested

\* The scan context is cancelled at an error, or by the closer at its end; the
\* closer wakes when the forwarders are done, or the call is abandoned.
CombinedCloses ==
  /\ overC => closerC = "done" \/ Combined!Abandoned
  /\ closerC \in {"close", "cancel", "done"} /\ ~Combined!Abandoned => \A k \in Scanners : ~Combined!Running(k)
  /\ closerC = "close" /\ ~Combined!Abandoned => Combined!Served \subseteq sentC \cup contested

CombinedInv == CombinedTyped /\ CombinedNotBegun /\ (\A k \in Scanners : ForwardsAll(k)) /\ CombinedCloses

(* The invariant is kept.                                                    *)

\* A goroutine's record changes as a whole.
LEMMA ForwarderMoves ==
  ASSUME CombinedTyped, NEW k \in Scanners, NEW r, fwd' = [fwd EXCEPT ![k] = r]
  PROVE  fwd'[k] = r /\ \A j \in Scanners \ {k} : fwd'[j] = fwd[j]
BY DEF CombinedTyped

\* An abandoned call stays abandoned: an error is not forgotten.
LEMMA CombinedStaysAbandoned ==
  ASSUME CombinedInv, [Combined!Next]_Combined!vars, Combined!Abandoned
  PROVE  Combined!Abandoned'
<1> USE DEF Combined!Abandoned, Combined!Failed
<1>1. CASE Combined!BeginScan
  BY <1>1 DEF Combined!BeginScan, CombinedInv, CombinedNotBegun
<1>2. ASSUME NEW k \in Scanners, Combined!ForwarderStep(k) PROVE Combined!Abandoned'
  <2>1. PICK r : (fwd' = [fwd EXCEPT ![k] = r] \/ UNCHANGED fwd) /\ UNCHANGED <<cancelledC, stoppedC>>
    BY <1>2 DEF Combined!ForwarderStep, Combined!StartScanner, Combined!TakeResult,
       Combined!StopForwarding, Combined!ForwardResult
  <2>2. fwd[k].pc # "failed"
    BY <1>2 DEF Combined!ForwarderStep, Combined!StartScanner, Combined!TakeResult,
       Combined!StopForwarding, Combined!ForwardResult
  <2>3. \A j \in Scanners : fwd[j].pc = "failed" => fwd'[j].pc = "failed"
    BY <2>1, <2>2, ForwarderMoves DEF CombinedInv
  <2> QED
    BY <2>1, <2>3
<1>3. CASE \/ UNCHANGED Combined!vars \/ Combined!ReturnError \/ Combined!ReturnChannel
           \/ Combined!Cancel \/ Combined!Stop \/ Combined!CloserStep
           \/ \E k \in Scanners : Combined!Find(k) \/ Combined!EndScanner(k)
  <2>1. UNCHANGED fwd /\ (cancelledC => cancelledC') /\ (stoppedC => stoppedC')
    BY <1>3 DEF Combined!vars, Combined!ReturnError, Combined!ReturnChannel, Combined!Cancel,
       Combined!Stop, Combined!CloserStep, Combined!CloserWakes, Combined!CloseResults,
       Combined!CancelScan, Combined!Find, Combined!EndScanner
  <2> QED
    BY <2>1
<1> QED
  BY <1>1, <1>2, <1>3 DEF Combined!Next, Combined!Step

LEMMA CombinedTypesKept ==
  ASSUME CombinedInv, [Combined!Next]_Combined!vars
  PROVE  CombinedTyped'
<1> USE DEF CombinedInv, CombinedTyped, ForwarderPcs, Combined!Served
<1>1. CASE Combined!BeginScan
  <2>1. PICK T \in SUBSET MixedTargets :
          /\ wantedC' = T
          /\ callerC' \in {"waiting", "channel"} /\ closerC' \in {"wait", "done"}
          /\ \/ UNCHANGED fwd
             \/ fwd' = [k \in Scanners |-> [pc |-> IF \E t \in T : Mode[t] = k THEN "scan" ELSE "off"]]
    BY <1>1 DEF Combined!BeginScan
  <2>2. fwd' \in [Scanners -> [pc : ForwarderPcs \ {"send"}] \cup [pc : {"send"}, result : MixedTargets]]
    BY <2>1
  <2>3. sentC' = {}
    BY <1>1 DEF Combined!BeginScan, CombinedNotBegun
  <2> QED
    BY <1>1, <2>1, <2>2, <2>3 DEF Combined!BeginScan, Combined!subVars
<1>2. ASSUME NEW k \in Scanners, Combined!Find(k) \/ Combined!EndScanner(k) PROVE CombinedTyped'
  <2>1. UNCHANGED found \/ \E t \in MixedTargets : found' = [found EXCEPT ![k] = @ \cup {t}]
    BY <1>2 DEF Combined!Find, Combined!EndScanner, Combined!Part
  <2>2. found' \in [Scanners -> SUBSET MixedTargets]
    BY <2>1
  <2> QED
    BY <1>2, <2>2 DEF Combined!Find, Combined!EndScanner
<1>3. ASSUME NEW k \in Scanners, Combined!StartScanner(k) \/ Combined!StopForwarding(k)
      PROVE  CombinedTyped'
  <2>1. PICK p \in ForwarderPcs \ {"send"} : fwd' = [fwd EXCEPT ![k] = [pc |-> p]]
    BY <1>3 DEF Combined!StartScanner, Combined!StopForwarding
  <2> QED
    BY <1>3, <2>1 DEF Combined!StartScanner, Combined!StopForwarding, Combined!subVars
<1>4. ASSUME NEW k \in Scanners, Combined!TakeResult(k) PROVE CombinedTyped'
  <2>1. PICK t \in found[k] \ taken[k] :
          /\ fwd' = [fwd EXCEPT ![k] = [pc |-> "send", result |-> t]]
          /\ taken' = [taken EXCEPT ![k] = @ \cup {t}]
    BY <1>4 DEF Combined!TakeResult
  <2>2. t \in MixedTargets
    BY <2>1
  <2> QED
    BY <1>4, <2>1, <2>2 DEF Combined!TakeResult, Combined!subVars
<1>5. ASSUME NEW k \in Scanners, Combined!ForwardResult(k) PROVE CombinedTyped'
  <2>1. fwd[k].pc = "send" /\ fwd[k].result \in Combined!Served
    BY <1>5 DEF Combined!ForwardResult, ForwardsAll, Combined!Part
  <2>2. sentC' \subseteq Combined!Served /\ crashC' \in BOOLEAN
    BY <1>5, <2>1 DEF Combined!ForwardResult
  <2>3. UNCHANGED fwd \/ fwd' = [fwd EXCEPT ![k] = [pc |-> "read"]]
    BY <1>5 DEF Combined!ForwardResult
  <2>4. fwd' \in [Scanners -> [pc : ForwarderPcs \ {"send"}] \cup [pc : {"send"}, result : MixedTargets]]
    BY <2>3
  <2> QED
    BY <1>5, <2>2, <2>4 DEF Combined!ForwardResult, Combined!subVars
<1>6. CASE \/ UNCHANGED Combined!vars \/ Combined!ReturnError \/ Combined!ReturnChannel
           \/ Combined!Cancel \/ Combined!Stop \/ Combined!CloserStep
  BY <1>6 DEF Combined!vars, Combined!subVars, Combined!ReturnError, Combined!ReturnChannel,
     Combined!Cancel, Combined!Stop, Combined!CloserStep, Combined!CloserWakes, Combined!CloseResults,
     Combined!CancelScan
<1> QED
  BY <1>1, <1>2, <1>3, <1>4, <1>5, <1>6 DEF Combined!Next, Combined!Step, Combined!ForwarderStep

LEMMA CombinedNotBegunKept ==
  ASSUME CombinedInv, [Combined!Next]_Combined!vars
  PROVE  CombinedNotBegun'
<1> USE DEF CombinedInv, CombinedNotBegun
<1>1. CASE Combined!BeginScan
  BY <1>1 DEF Combined!BeginScan
<1>2. ASSUME NEW k \in Scanners, Combined!Find(k) \/ Combined!EndScanner(k) \/ Combined!ForwarderStep(k)
      PROVE  CombinedNotBegun'
  <2>1. fwd[k].pc # "off" /\ UNCHANGED <<callerC, closerC>>
    BY <1>2 DEF Combined!Find, Combined!EndScanner, Combined!ForwarderStep, Combined!StartScanner,
       Combined!TakeResult, Combined!StopForwarding, Combined!ForwardResult
  <2> QED
    BY <2>1
<1>3. CASE Combined!ReturnError \/ Combined!ReturnChannel \/ Combined!Cancel
  BY <1>3 DEF Combined!ReturnError, Combined!ReturnChannel, Combined!Cancel, CombinedTyped
<1>4. CASE UNCHANGED Combined!vars \/ Combined!Stop
  BY <1>4 DEF Combined!vars, Combined!subVars, Combined!Stop
<1>5. CASE Combined!CloserStep
  BY <1>5 DEF Combined!CloserStep, Combined!CloserWakes, Combined!CloseResults, Combined!CancelScan,
     CombinedTyped
<1> QED
  BY <1>1, <1>2, <1>3, <1>4, <1>5 DEF Combined!Next, Combined!Step

\* A forwarder's part of the invariant, when it is left alone.
LEMMA ForwarderLeftAlone ==
  ASSUME CombinedInv, [Combined!Next]_Combined!vars, NEW k \in Scanners,
         UNCHANGED <<wantedC, contested>>, fwd'[k] = fwd[k], taken'[k] = taken[k], found'[k] = found[k],
         k \in ended' => k \in ended, sentC \subseteq sentC',
         closerC' \in {"off", "wait", "close"} => closerC \in {"off", "wait", "close"}
  PROVE  ForwardsAll(k)'
BY CombinedStaysAbandoned DEF CombinedInv, ForwardsAll, Combined!Part

LEMMA ForwardsAllKept ==
  ASSUME CombinedInv, [Combined!Next]_Combined!vars, NEW k \in Scanners
  PROVE  ForwardsAll(k)'
<1> DEFINE Ending == closerC \in {"off", "wait", "close"}
<1>1. CASE Combined!BeginScan
  <2>1. /\ found[k] = {} /\ taken[k] = {} /\ fwd[k].pc = "off" /\ ended = {}
    BY <1>1 DEF Combined!BeginScan, CombinedInv, CombinedNotBegun, ForwardsAll, Combined!Part
  <2>2. UNCHANGED <<found, taken, ended>>
    BY <1>1 DEF Combined!BeginScan, Combined!subVars
  <2>3. \/ wantedC' = {} /\ fwd'[k].pc = "off"
        \/ fwd'[k].pc = IF \E t \in wantedC' : Mode[t] = k THEN "scan" ELSE "off"
    BY <1>1, <2>1 DEF Combined!BeginScan
  <2> QED
    BY <2>1, <2>2, <2>3 DEF ForwardsAll, Combined!Part
<1>2. ASSUME NEW j \in Scanners, Combined!Find(j) PROVE ForwardsAll(k)'
  <2>1. CASE j # k
    BY <1>2, <2>1, ForwarderLeftAlone DEF Combined!Find
  <2>2. CASE j = k
    <3>1. /\ UNCHANGED <<wantedC, contested, fwd, taken, ended, closerC, sentC, cancelledC, stoppedC>>
          /\ k \notin ended /\ fwd[k].pc \in {"read", "send", "done"}
      BY <1>2, <2>2 DEF Combined!Find
    <3>2. found[k] \subseteq found'[k] /\ found'[k] \subseteq Combined!Part(k)
      BY <1>2, <2>2 DEF Combined!Find, CombinedInv, CombinedTyped, ForwardsAll
    <3> QED
      BY <3>1, <3>2 DEF CombinedInv, ForwardsAll, Combined!Part, Combined!Abandoned, Combined!Failed
  <2> QED
    BY <2>1, <2>2
<1>3. ASSUME NEW j \in Scanners, Combined!EndScanner(j) PROVE ForwardsAll(k)'
  <2>1. CASE j # k
    BY <1>3, <2>1, ForwarderLeftAlone DEF Combined!EndScanner
  <2>2. CASE j = k
    <3>1. /\ UNCHANGED <<wantedC, contested, fwd, taken, found, closerC, sentC, cancelledC, stoppedC>>
          /\ Combined!CtxDone \/ stoppedC \/ Combined!Part(k) \subseteq found[k] \cup contested
      BY <1>3, <2>2 DEF Combined!EndScanner
    <3>2. Ending /\ ~Combined!Abandoned => Combined!Part(k) \subseteq found[k] \cup contested
      BY <3>1 DEF Combined!CtxDone, Combined!Abandoned, CombinedInv, CombinedCloses
    <3> QED
      BY <3>1, <3>2 DEF CombinedInv, ForwardsAll, Combined!Part, Combined!Abandoned, Combined!Failed
  <2> QED
    BY <2>1, <2>2
<1>4. ASSUME NEW j \in Scanners, Combined!ForwarderStep(j), j # k PROVE ForwardsAll(k)'
  <2>1. PICK r : (fwd' = [fwd EXCEPT ![j] = r] \/ UNCHANGED fwd)
    BY <1>4 DEF Combined!ForwarderStep, Combined!StartScanner, Combined!TakeResult,
       Combined!StopForwarding, Combined!ForwardResult
  <2>2. fwd'[k] = fwd[k]
    BY <1>4, <2>1, ForwarderMoves DEF CombinedInv
  <2>3. taken'[k] = taken[k]
    BY <1>4 DEF Combined!ForwarderStep, Combined!StartScanner, Combined!TakeResult,
       Combined!StopForwarding, Combined!ForwardResult, CombinedInv, CombinedTyped
  <2>4. sentC \subseteq sentC' /\ UNCHANGED <<wantedC, contested, found, ended, closerC>>
    BY <1>4 DEF Combined!ForwarderStep, Combined!StartScanner, Combined!TakeResult,
       Combined!StopForwarding, Combined!ForwardResult, Combined!subVars
  <2> QED
    BY <2>2, <2>3, <2>4, ForwarderLeftAlone
<1>5. CASE Combined!StartScanner(k)
  <2>1. PICK p \in {"read", "failed"} : fwd' = [fwd EXCEPT ![k] = [pc |-> p]]
    BY <1>5 DEF Combined!StartScanner
  <2>2. fwd'[k] = [pc |-> p]
    BY <2>1, ForwarderMoves DEF CombinedInv
  <2> QED
    BY <1>5, <2>2, CombinedStaysAbandoned DEF Combined!StartScanner, Combined!subVars, CombinedInv,
       ForwardsAll, Combined!Part
<1>6. CASE Combined!TakeResult(k)
  <2>1. PICK t \in found[k] \ taken[k] :
          /\ fwd' = [fwd EXCEPT ![k] = [pc |-> "send", result |-> t]]
          /\ taken' = [taken EXCEPT ![k] = @ \cup {t}]
    BY <1>6 DEF Combined!TakeResult
  <2>2. fwd'[k] = [pc |-> "send", result |-> t] /\ taken'[k] = taken[k] \cup {t}
    BY <2>1, ForwarderMoves DEF CombinedInv, CombinedTyped
  <2> QED
    BY <1>6, <2>1, <2>2, CombinedStaysAbandoned DEF Combined!TakeResult, Combined!subVars,
       CombinedInv, ForwardsAll, Combined!Part
<1>7. CASE Combined!StopForwarding(k)
  <2>1. fwd'[k] = [pc |-> "done"]
    BY <1>7, ForwarderMoves DEF Combined!StopForwarding, CombinedInv
  <2>2. Ending /\ ~Combined!Abandoned => ~Combined!CtxDone
    BY DEF Combined!CtxDone, Combined!Abandoned, CombinedInv, CombinedCloses
  <2>3. Ending /\ ~Combined!Abandoned => Combined!Part(k) \subseteq sentC \cup contested
    BY <1>7, <2>2 DEF Combined!StopForwarding, Combined!Drained, CombinedInv, ForwardsAll
  <2> QED
    BY <1>7, <2>1, <2>3, CombinedStaysAbandoned DEF Combined!StopForwarding, Combined!subVars,
       CombinedInv, ForwardsAll, Combined!Part
<1>8. CASE Combined!ForwardResult(k)
  <2>1. CASE Combined!Closed
    BY <1>8, <2>1, ForwarderLeftAlone DEF Combined!ForwardResult, Combined!subVars
  <2>2. CASE ~Combined!Closed
    <3>1. fwd'[k] = [pc |-> "read"]
      BY <1>8, <2>2, ForwarderMoves DEF Combined!ForwardResult, CombinedInv
    <3> QED
      BY <1>8, <2>2, <3>1, CombinedStaysAbandoned DEF Combined!ForwardResult, Combined!subVars,
         CombinedInv, ForwardsAll, Combined!Part
  <2> QED
    BY <2>1, <2>2
<1>9. CASE \/ UNCHANGED Combined!vars \/ Combined!ReturnError \/ Combined!ReturnChannel
           \/ Combined!Cancel \/ Combined!Stop \/ Combined!CloserStep
  <2>1. /\ UNCHANGED <<wantedC, contested, fwd, taken, found, ended, sentC>>
        /\ closerC' \in {"off", "wait", "close"} => closerC \in {"off", "wait", "close"}
    BY <1>9 DEF Combined!vars, Combined!subVars, Combined!ReturnError, Combined!ReturnChannel,
       Combined!Cancel, Combined!Stop, Combined!CloserStep, Combined!CloserWakes,
       Combined!CloseResults, Combined!CancelScan
  <2> QED
    BY <2>1, ForwarderLeftAlone
<1> QED
  BY <1>1, <1>2, <1>3, <1>4, <1>5, <1>6, <1>7, <1>8, <1>9 DEF Combined!Next, Combined!Step,
     Combined!ForwarderStep

LEMMA CombinedClosesKept ==
  ASSUME CombinedInv, [Combined!Next]_Combined!vars
  PROVE  CombinedCloses'
<1>1. CASE Combined!BeginScan
  <2>1. /\ closerC = "off" /\ closerC' \in {"wait", "done"} /\ UNCHANGED overC
        /\ closerC' = "done" => \A k \in Scanners : fwd'[k].pc = "off"
    BY <1>1 DEF Combined!BeginScan, CombinedInv, CombinedNotBegun
  <2> QED
    BY <2>1, CombinedStaysAbandoned DEF CombinedInv, CombinedCloses, Combined!Running
<1>2. ASSUME NEW k \in Scanners, Combined!Find(k) \/ Combined!EndScanner(k) PROVE CombinedCloses'
  <2>1. UNCHANGED <<wantedC, contested, overC, closerC, fwd, sentC>>
    BY <1>2 DEF Combined!Find, Combined!EndScanner
  <2> QED
    BY <2>1, CombinedStaysAbandoned DEF CombinedInv, CombinedCloses, Combined!Running, Combined!Served
<1>3. ASSUME NEW k \in Scanners, Combined!ForwarderStep(k) PROVE CombinedCloses'
  <2>1. UNCHANGED <<wantedC, contested, overC, closerC>> /\ Combined!Running(k)
    BY <1>3 DEF Combined!ForwarderStep, Combined!StartScanner, Combined!TakeResult,
       Combined!StopForwarding, Combined!ForwardResult, Combined!Running
  <2>2. closerC \in {"close", "cancel", "done"} => Combined!Abandoned
    BY <2>1 DEF CombinedInv, CombinedCloses
  <2> QED
    BY <2>1, <2>2, CombinedStaysAbandoned DEF CombinedInv, CombinedCloses
<1>4. CASE Combined!CloserWakes
  <2>1. /\ closerC = "wait" /\ UNCHANGED <<wantedC, contested, overC, fwd, sentC, cancelledC, stoppedC>>
        /\ (\A k \in Scanners : ~Combined!Running(k)) \/ Combined!Abandoned
    BY <1>4 DEF Combined!CloserWakes, Combined!Abandoned
  <2>2. ASSUME ~Combined!Abandoned PROVE Combined!Served \subseteq sentC \cup contested
    <3>1. ASSUME NEW k \in Scanners PROVE Combined!Part(k) \subseteq sentC \cup contested
      <4>1. fwd[k].pc # "failed"
        BY <2>2 DEF Combined!Abandoned, Combined!Failed
      <4>2. fwd[k].pc \in ForwarderPcs
        BY DEF CombinedInv, CombinedTyped, ForwarderPcs
      <4>3. fwd[k].pc \in {"off", "done"}
        BY <2>1, <2>2, <4>1, <4>2 DEF Combined!Running, ForwarderPcs
      <4> QED
        BY <2>1, <2>2, <4>3 DEF CombinedInv, ForwardsAll
    <3> QED
      BY <3>1 DEF CombinedInv, CombinedTyped, Combined!Served, Combined!Part
  <2> QED
    BY <2>1, <2>2, CombinedStaysAbandoned DEF CombinedInv, CombinedCloses, Combined!Running,
       Combined!Served
<1>5. CASE Combined!CloseResults \/ Combined!CancelScan
  <2>1. /\ closerC \in {"close", "cancel"} /\ closerC' \in {"cancel", "done"}
        /\ overC' => closerC' = "done" \/ overC
        /\ UNCHANGED fwd
    BY <1>5 DEF Combined!CloseResults, Combined!CancelScan
  <2> QED
    BY <2>1, CombinedStaysAbandoned DEF CombinedInv, CombinedCloses, Combined!Running
<1>6. CASE UNCHANGED Combined!vars \/ Combined!ReturnChannel \/ Combined!Cancel \/ Combined!Stop
  <2>1. UNCHANGED <<wantedC, contested, overC, closerC, fwd, sentC>>
    BY <1>6 DEF Combined!vars, Combined!subVars, Combined!ReturnChannel, Combined!Cancel,
       Combined!Stop
  <2> QED
    BY <2>1, CombinedStaysAbandoned DEF CombinedInv, CombinedCloses, Combined!Running, Combined!Served
<1>7. CASE Combined!ReturnError
  <2>1. UNCHANGED <<wantedC, contested, closerC, fwd, sentC>> /\ Combined!Abandoned
    BY <1>7 DEF Combined!ReturnError, Combined!Abandoned
  <2> QED
    BY <2>1, CombinedStaysAbandoned DEF CombinedCloses
<1> QED
  BY <1>1, <1>2, <1>3, <1>4, <1>5, <1>6, <1>7 DEF Combined!Next, Combined!Step, Combined!CloserStep

(* The refinement.                                                           *)

\* A step the caller does not see, but that may abandon the call.
LEMMA CombinedUnseen ==
  ASSUME CombinedInv, [Combined!Next]_Combined!vars, UNCHANGED <<wantedC, contested, sentC, crashC>>,
         callerC' = "off" <=> callerC = "off", Combined!Closed' <=> Combined!Closed
  PROVE  Combined!Channel!ChanNext \/ UNCHANGED Combined!Channel!chanVars
<1>1. Combined!Served' = Combined!Served
  BY DEF Combined!Served
<1>2. Combined!ChannelStatus' = Combined!ChannelStatus
  BY <1>1 DEF Combined!ChannelStatus
<1>3. CASE ~Combined!Abandoned /\ Combined!Abandoned'
  BY <1>1, <1>2, <1>3 DEF Combined!Channel!Abandon, Combined!Channel!ChanNext
<1>4. CASE Combined!Abandoned' = Combined!Abandoned
  BY <1>1, <1>2, <1>4 DEF Combined!Channel!chanVars
<1> QED
  BY <1>3, <1>4, CombinedStaysAbandoned DEF Combined!Abandoned

\* The channel is closed with everything sent, and no forwarder sends on the
\* closed one, unless the call is abandoned.
LEMMA CombinedRefines ==
  ASSUME CombinedInv, Combined!Next
  PROVE  Combined!Channel!ChanNext \/ UNCHANGED Combined!Channel!chanVars
<1> USE DEF Combined!Channel!chanVars
<1>1. ~crashC
  BY DEF Combined!Next
<1>2. CASE Combined!BeginScan
  <2>1. callerC = "off" /\ ~crashC /\ ~crashC' /\ sentC' = sentC /\ Combined!Abandoned' = Combined!Abandoned
    BY <1>2, CombinedStaysAbandoned DEF Combined!BeginScan, CombinedInv, CombinedNotBegun,
       Combined!Abandoned, Combined!Failed
  <2>2. Combined!ChannelStatus = "none"
    BY <2>1 DEF Combined!ChannelStatus
  <2>3. /\ Combined!Served' \in SUBSET MixedTargets
        /\ contested \subseteq contested' /\ contested' \subseteq MixedTargets
    BY <1>2 DEF Combined!BeginScan, Combined!Served, CombinedInv, CombinedNotBegun
  <2>4. Combined!ChannelStatus' = IF Combined!Served' = {} THEN "closed" ELSE "open"
    <3>1. PICK T \in SUBSET MixedTargets :
            /\ wantedC' = T
            /\ callerC' # "off"
            /\ T = {} => closerC' = "done"
            /\ T # {} => closerC' = "wait"
      BY <1>2 DEF Combined!BeginScan
    <3>2. T = {} => Combined!Served' = {}
      BY <3>1 DEF Combined!Served
    <3> QED
      BY <2>1, <3>1, <3>2 DEF Combined!ChannelStatus, Combined!Closed
  <2>5. Combined!Channel!Open(Combined!Served')
    BY <2>1, <2>2, <2>3, <2>4 DEF Combined!Channel!Open
  <2> QED
    BY <2>3, <2>5 DEF Combined!Channel!ChanNext
<1>3. ASSUME NEW k \in Scanners, Combined!ForwardResult(k)
      PROVE  Combined!Channel!ChanNext \/ UNCHANGED Combined!Channel!chanVars
  <2>1. /\ callerC # "off" /\ UNCHANGED <<wantedC, contested, callerC, closerC, cancelledC, stoppedC>>
        /\ fwd[k].pc = "send" /\ fwd[k].result \in Combined!Served
    BY <1>3 DEF Combined!ForwardResult, CombinedInv, CombinedNotBegun, ForwardsAll, Combined!Part,
       Combined!Served
  <2>2. Combined!Served' = Combined!Served
    BY <2>1 DEF Combined!Served
  <2>3. Combined!Abandoned' = Combined!Abandoned
    <3>1. \A j \in Scanners : fwd'[j].pc = "failed" <=> fwd[j].pc = "failed"
      BY <1>3, <2>1, ForwarderMoves DEF Combined!ForwardResult, CombinedInv
    <3> QED
      BY <2>1, <3>1 DEF Combined!Abandoned, Combined!Failed
  <2>4. CASE Combined!Closed
    <3>1. Combined!Abandoned
      BY <2>1, <2>4 DEF CombinedInv, CombinedCloses, Combined!Closed, Combined!Running
    <3>2. sentC' = sentC /\ crashC'
      BY <1>3, <2>4 DEF Combined!ForwardResult
    <3>3. Combined!ChannelStatus = "closed" /\ Combined!ChannelStatus' = "crashed"
      BY <1>1, <2>1, <2>4, <3>2 DEF Combined!ChannelStatus
    <3>4. Combined!Channel!Crash
      BY <2>1, <2>2, <2>3, <3>1, <3>2, <3>3 DEF Combined!Channel!Crash
    <3> QED
      BY <3>4 DEF Combined!Channel!ChanNext
  <2>5. CASE ~Combined!Closed
    <3>1. sentC' = sentC \cup {fwd[k].result} /\ crashC' = crashC
      BY <1>3, <2>5 DEF Combined!ForwardResult
    <3>2. Combined!ChannelStatus' = Combined!ChannelStatus
      BY <2>1, <2>2, <3>1 DEF Combined!ChannelStatus, Combined!Closed
    <3>3. CASE sentC' # sentC
      <4>1. Combined!ChannelStatus = "open"
        BY <1>1, <2>1, <2>5 DEF Combined!ChannelStatus
      <4>2. Combined!Channel!Deliver
        BY <2>1, <2>2, <2>3, <3>1, <3>2, <3>3, <4>1 DEF Combined!Channel!Deliver
      <4> QED
        BY <4>2 DEF Combined!Channel!ChanNext
    <3> QED
      BY <2>1, <2>2, <2>3, <3>2, <3>3
  <2> QED
    BY <2>4, <2>5
<1>4. CASE Combined!CloseResults
  <2>1. /\ closerC = "close" /\ closerC' = "cancel" /\ callerC' = callerC /\ callerC # "off"
        /\ UNCHANGED <<wantedC, contested, sentC, crashC, fwd, cancelledC, stoppedC>>
    BY <1>4 DEF Combined!CloseResults, Combined!subVars, CombinedInv, CombinedNotBegun
  <2>2. Combined!Served' = Combined!Served /\ Combined!Abandoned' = Combined!Abandoned
    BY <2>1 DEF Combined!Served, Combined!Abandoned, Combined!Failed
  <2>3. /\ Combined!ChannelStatus = (IF Combined!Served = {} THEN "closed" ELSE "open")
        /\ Combined!ChannelStatus' = "closed"
    BY <1>1, <2>1, <2>2 DEF Combined!ChannelStatus, Combined!Closed
  <2>4. Combined!Abandoned \/ Combined!Served \subseteq sentC \cup contested
    BY <2>1 DEF CombinedInv, CombinedCloses
  <2>5. CASE Combined!Served = {}
    BY <2>1, <2>2, <2>3, <2>5
  <2>6. CASE Combined!Served # {}
    BY <2>1, <2>2, <2>3, <2>4, <2>6 DEF Combined!Channel!Close, Combined!Channel!ChanNext
  <2> QED
    BY <2>5, <2>6
<1>5. ASSUME \/ Combined!ReturnError \/ Combined!ReturnChannel \/ Combined!Cancel \/ Combined!Stop
             \/ Combined!CloserWakes \/ Combined!CancelScan
             \/ \E k \in Scanners : \/ Combined!Find(k) \/ Combined!EndScanner(k)
                                    \/ Combined!StartScanner(k) \/ Combined!TakeResult(k) \/ Combined!StopForwarding(k)
      PROVE  Combined!Channel!ChanNext \/ UNCHANGED Combined!Channel!chanVars
  <2>1. /\ UNCHANGED <<wantedC, contested, sentC, crashC>>
        /\ callerC' = "off" <=> callerC = "off"
        /\ Combined!Closed' <=> Combined!Closed
    BY <1>5 DEF Combined!ReturnError, Combined!ReturnChannel, Combined!Cancel, Combined!Stop,
       Combined!CloserWakes, Combined!CancelScan, Combined!Find, Combined!EndScanner,
       Combined!StartScanner, Combined!TakeResult, Combined!StopForwarding, Combined!Closed
  <2> QED
    BY <2>1, CombinedUnseen
<1> QED
  BY <1>2, <1>3, <1>4, <1>5 DEF Combined!Next, Combined!Step, Combined!CloserStep,
     Combined!ForwarderStep

-----------------------------------------------------------------------------
(* The ICMP scanner.                                                         *)

IcmpTyped ==
  /\ wantedI \in [Scans -> SUBSET Targets] /\ sentI \in [Scans -> SUBSET Targets]
  /\ batch \in [Scans -> SUBSET Targets] /\ todo \in [Scans -> SUBSET Targets]
  /\ contestedI \in [Scans -> SUBSET Targets]
  /\ cancelledI \in [Scans -> {"no", "due", "yes"}] /\ overI \in [Scans -> BOOLEAN]
  /\ callerI \in [Scans -> {"off", "select", "channel", "error"}]
  /\ feederI \in [Scans -> {"off", "next", "ping", "collect", "returned"}]
  /\ closerI \in [Scans -> {"off", "wait", "drain", "closed"}]
  /\ pinger \in [Scans -> [Targets -> {"off", "wait", "ping", "done"}]]
  /\ resp \in [Targets -> {"none", "kept"}]
  /\ stopped \in BOOLEAN

\* Before the caller has its channel, nothing is sent and nobody closes it.
IcmpNotReturned(s) ==
  /\ callerI[s] # "channel" =>
       feederI[s] = "off" /\ closerI[s] = "off" /\ sentI[s] = {} /\ crashI # s
  /\ callerI[s] = "off" => wantedI[s] = {} /\ contestedI[s] = {}
  /\ callerI[s] = "select" => wantedI[s] # {}
  /\ callerI[s] \in {"off", "select"} => ~overI[s]

\* Until the closer wakes, each host is sent, in the batch or to come; one whose
\* pinger has begun has a record, and its record is there until it is sent, unless
\* another call contests the host.
IcmpFeeds(s) ==
  closerI[s] = "wait" /\ ~Icmp!Abandoned(s) =>
    /\ ~overI[s] /\ feederI[s] # "off"
    /\ feederI[s] = "next" => wantedI[s] \subseteq sentI[s] \cup contestedI[s] \cup todo[s]
    /\ feederI[s] \in {"ping", "collect"} =>
         wantedI[s] \subseteq sentI[s] \cup contestedI[s] \cup batch[s] \cup todo[s]
    /\ feederI[s] = "ping" =>
         \A h \in batch[s] : /\ pinger[s][h] \in {"wait", "ping", "done"}
                             /\ pinger[s][h] # "wait" => resp[h] # "none" \/ h \in contestedI[s]
    /\ feederI[s] = "collect" => \A h \in batch[s] : resp[h] # "none" \/ h \in contestedI[s]
    /\ feederI[s] = "returned" => wantedI[s] \subseteq sentI[s] \cup contestedI[s]

\* It wakes when the feeder has sent them all, unless the call is abandoned.
IcmpCloses(s) ==
  closerI[s] \in {"drain", "closed"} /\ ~Icmp!Abandoned(s) =>
    feederI[s] \in {"off", "returned"} /\ wantedI[s] \subseteq sentI[s] \cup contestedI[s]

IcmpCallOK(s) ==
  /\ sentI[s] \subseteq wantedI[s] /\ batch[s] \subseteq wantedI[s] /\ todo[s] \subseteq wantedI[s]
  /\ IcmpNotReturned(s) /\ IcmpFeeds(s) /\ IcmpCloses(s)

\* Two calls at work know what they both want.
IcmpContests ==
  \A r, s \in Scans :
    r # s /\ Icmp!Running(r) /\ Icmp!Running(s) => wantedI[r] \cap wantedI[s] \subseteq contestedI[s]

IcmpInv == IcmpTyped /\ IcmpContests /\ \A s \in Scans : IcmpCallOK(s)

(* The types.                                                                *)

LEMMA IcmpTypesKept ==
  ASSUME IcmpConstants, IcmpTyped, Icmp!Next
  PROVE  IcmpTyped'
<1> USE DEF IcmpTyped
<1>1. CASE Icmp!Stop
  BY <1>1 DEF Icmp!Stop, Icmp!callVars, Icmp!feedVars
<1>2. ASSUME NEW s \in Scans, Icmp!BeginScan(s) PROVE IcmpTyped'
  <2>1. PICK load \in IcmpLoads :
          /\ wantedI' = [wantedI EXCEPT ![s] = load[s]]
          /\ callerI' = [callerI EXCEPT ![s] = IF load[s] = {} THEN "channel" ELSE "select"]
          /\ closerI' = [closerI EXCEPT ![s] = IF load[s] = {} THEN "closed" ELSE @]
          /\ Icmp!Contest(s, load[s])
    BY <1>2 DEF Icmp!BeginScan
  <2>2. load[s] \in SUBSET Targets
    BY DEF IcmpConstants
  <2>3. contestedI' \in [Scans -> SUBSET Targets]
    BY <2>1, <2>2 DEF Icmp!Contest
  <2>4. wantedI' \in [Scans -> SUBSET Targets]
    BY <2>1, <2>2
  <2>5. callerI' \in [Scans -> {"off", "select", "channel", "error"}]
    BY <2>1
  <2>6. closerI' \in [Scans -> {"off", "wait", "drain", "closed"}]
    BY <2>1
  <2> QED
    BY <1>2, <2>3, <2>4, <2>5, <2>6 DEF Icmp!BeginScan, Icmp!feedVars, Icmp!sharedVars
<1>3. ASSUME NEW s \in Scans, Icmp!CallerStep(s) \/ Icmp!Cancel(s) PROVE IcmpTyped'
  <2>1. CASE Icmp!ReturnChannel(s)
    BY <2>1 DEF Icmp!ReturnChannel, Icmp!sharedVars
  <2>2. CASE Icmp!ReturnError(s)
    BY <2>2 DEF Icmp!ReturnError, Icmp!feedVars, Icmp!sharedVars
  <2>3. CASE Icmp!Cancel(s)
    <3>1. PICK c \in {"due", "yes"} : cancelledI' = [cancelledI EXCEPT ![s] = c]
      BY <2>3 DEF Icmp!Cancel
    <3>2. cancelledI' \in [Scans -> {"no", "due", "yes"}]
      BY <3>1
    <3> QED
      BY <2>3, <3>2 DEF Icmp!Cancel, Icmp!feedVars, Icmp!sharedVars
  <2> QED
    BY <1>3, <2>1, <2>2, <2>3 DEF Icmp!CallerStep
<1>4. ASSUME NEW s \in Scans, Icmp!ListenerStep(s) \/ Icmp!ListenerFails(s) \/ Icmp!CloserStep(s)
      PROVE  IcmpTyped'
  BY <1>4 DEF Icmp!ListenerStep, Icmp!ListenerGets, Icmp!ListenerEnds, Icmp!ListenerFails, Icmp!Listens,
     Icmp!CloserStep, Icmp!CloserWakes, Icmp!CloseResults, Icmp!callVars, Icmp!feedVars, Icmp!sharedVars
<1>5. ASSUME NEW s \in Scans, Icmp!BeginBatch(s) PROVE IcmpTyped'
  <2>1. PICK B \in SUBSET todo[s] :
          /\ batch' = [batch EXCEPT ![s] = B] /\ todo' = [todo EXCEPT ![s] = @ \ B]
          /\ pinger' = [pinger EXCEPT ![s] = [h \in Targets |-> IF h \in B THEN "wait" ELSE @[h]]]
    BY <1>5 DEF Icmp!BeginBatch
  <2>2. pinger' \in [Scans -> [Targets -> {"off", "wait", "ping", "done"}]]
    BY <2>1
  <2> QED
    BY <1>5, <2>1, <2>2 DEF Icmp!BeginBatch, Icmp!callVars, Icmp!sharedVars
<1>6. ASSUME NEW s \in Scans, Icmp!CollectBatch(s) \/ Icmp!FeederReturns(s) PROVE IcmpTyped'
  BY <1>6 DEF Icmp!CollectBatch, Icmp!FeederReturns, Icmp!Feeds, Icmp!callVars, Icmp!sharedVars
<1>7. ASSUME NEW s \in Scans, NEW h \in Targets, Icmp!SendResult(s, h) PROVE IcmpTyped'
  <2>1. UNCHANGED sentI \/ sentI' = [sentI EXCEPT ![s] = @ \cup {h}]
    BY <1>7 DEF Icmp!SendResult
  <2>2. UNCHANGED resp \/ resp' = [resp EXCEPT ![h] = "none"]
    BY <1>7 DEF Icmp!SendResult
  <2>3. sentI' \in [Scans -> SUBSET Targets]
    <3>1. PICK H \in SUBSET Targets : sentI' = [sentI EXCEPT ![s] = H]
      <4>1. sentI[s] \cup {h} \in SUBSET Targets /\ sentI[s] \in SUBSET Targets
        OBVIOUS
      <4>2. sentI = [sentI EXCEPT ![s] = sentI[s]]
        OBVIOUS
      <4> QED
        BY <2>1, <4>1, <4>2
    <3> QED
      BY <3>1
  <2>4. resp' \in [Targets -> {"none", "kept"}]
    BY <2>2
  <2> QED
    BY <1>7, <2>3, <2>4 DEF Icmp!SendResult, Icmp!Feeds, Icmp!callVars
<1>8. ASSUME NEW s \in Scans, NEW h \in Targets, Icmp!PingerStep(s, h)
      PROVE  IcmpTyped'
  <2>1. resp' \in [Targets -> {"none", "kept"}]
    <3>1. UNCHANGED resp \/ resp' = [resp EXCEPT ![h] = "kept"]
      BY <1>8 DEF Icmp!PingerStep, Icmp!StartPinger, Icmp!PingerReturns, Icmp!sharedVars
    <3> QED
      BY <3>1
  <2>2. \/ UNCHANGED pinger
        \/ \E p \in {"ping", "done"} : pinger' = [pinger EXCEPT ![s][h] = p]
    BY <1>8 DEF Icmp!PingerStep, Icmp!StartPinger, Icmp!PingerReturns, Icmp!Pings
  <2>3. pinger' \in [Scans -> [Targets -> {"off", "wait", "ping", "done"}]]
    <3>1. ASSUME NEW p \in {"ping", "done"}, pinger' = [pinger EXCEPT ![s][h] = p]
          PROVE  pinger' \in [Scans -> [Targets -> {"off", "wait", "ping", "done"}]]
      <4>1. [pinger[s] EXCEPT ![h] = p] \in [Targets -> {"off", "wait", "ping", "done"}]
        OBVIOUS
      <4> QED
        BY <3>1, <4>1
    <3> QED
      BY <2>2, <3>1
  <2> QED
    BY <1>8, <2>1, <2>3 DEF Icmp!PingerStep, Icmp!StartPinger, Icmp!PingerReturns,
       Icmp!callVars, Icmp!feedVars, Icmp!sharedVars
<1> QED
  BY <1>1, <1>2, <1>3, <1>4, <1>5, <1>6, <1>7, <1>8 DEF Icmp!Next, Icmp!Step, Icmp!CallStep,
     Icmp!FeederStep

(* A call beside others.                                                     *)

\* What a step of another call, or Stop, leaves alone.
IcmpOwn(s) ==
  <<wantedI[s], cancelledI[s], overI[s], callerI[s], feederI[s], batch[s], todo[s], pinger[s],
    closerI[s], sentI[s]>>

\* The step of a call changes nothing but its own, the responses, what it
\* contests, and the crash.
LEMMA IcmpOthersOwn ==
  ASSUME IcmpTyped, NEW q \in Scans, Icmp!CallStep(q), NEW s \in Scans, s # q
  PROVE  IcmpOwn(s)' = IcmpOwn(s) /\ UNCHANGED stopped
<1> USE DEF IcmpTyped, IcmpOwn
<1>1. CASE Icmp!BeginScan(q) \/ Icmp!CallerStep(q) \/ Icmp!Cancel(q)
  BY <1>1 DEF Icmp!BeginScan, Icmp!CallerStep, Icmp!ReturnChannel, Icmp!ReturnError, Icmp!Cancel,
     Icmp!feedVars, Icmp!sharedVars
<1>2. CASE Icmp!ListenerStep(q) \/ Icmp!ListenerFails(q) \/ Icmp!CloserStep(q)
  BY <1>2 DEF Icmp!ListenerStep, Icmp!ListenerGets, Icmp!ListenerEnds, Icmp!ListenerFails, Icmp!Listens,
     Icmp!CloserStep, Icmp!CloserWakes, Icmp!CloseResults, Icmp!callVars, Icmp!feedVars, Icmp!sharedVars
<1>3. CASE Icmp!FeederStep(q)
  BY <1>3 DEF Icmp!FeederStep, Icmp!BeginBatch, Icmp!CollectBatch, Icmp!FeederReturns, Icmp!SendResult,
     Icmp!Feeds, Icmp!callVars, Icmp!sharedVars
<1>4. CASE \E h \in Targets : Icmp!PingerStep(q, h)
  BY <1>4 DEF Icmp!PingerStep, Icmp!StartPinger, Icmp!PingerReturns, Icmp!Pings,
     Icmp!callVars, Icmp!feedVars, Icmp!sharedVars
<1> QED
  BY <1>1, <1>2, <1>3, <1>4 DEF Icmp!CallStep

\* What the others do to the responses and to what is contested does no harm.
LEMMA IcmpLeftAlone ==
  ASSUME NEW s \in Scans, IcmpCallOK(s), IcmpOwn(s)' = IcmpOwn(s),
         stopped => stopped', contestedI[s] \subseteq contestedI'[s],
         callerI[s] = "off" => contestedI'[s] = contestedI[s], crashI' = s => crashI = s,
         \A h \in wantedI[s] :
           Icmp!Running(s) /\ resp[h] # "none" => resp'[h] # "none" \/ h \in contestedI[s]
  PROVE  IcmpCallOK(s)'
<1>1. /\ wantedI'[s] = wantedI[s] /\ cancelledI'[s] = cancelledI[s] /\ overI'[s] = overI[s]
      /\ callerI'[s] = callerI[s] /\ feederI'[s] = feederI[s] /\ batch'[s] = batch[s]
      /\ todo'[s] = todo[s] /\ pinger'[s] = pinger[s] /\ closerI'[s] = closerI[s]
      /\ sentI'[s] = sentI[s]
  BY DEF IcmpOwn
<1>2. Icmp!Abandoned(s) => Icmp!Abandoned(s)'
  BY <1>1 DEF Icmp!Abandoned
<1>3. IcmpNotReturned(s)'
  BY <1>1 DEF IcmpCallOK, IcmpNotReturned
<1>4. IcmpFeeds(s)'
  BY <1>1, <1>2 DEF IcmpCallOK, IcmpFeeds, Icmp!Running
<1>5. IcmpCloses(s)'
  BY <1>1, <1>2 DEF IcmpCallOK, IcmpCloses
<1> QED
  BY <1>1, <1>3, <1>4, <1>5 DEF IcmpCallOK

\* Only a call that begins changes what is contested.
LEMMA IcmpContestedStays ==
  ASSUME Icmp!Next, \A q \in Scans : ~Icmp!BeginScan(q)
  PROVE  UNCHANGED contestedI
<1>1. CASE Icmp!Stop
  BY <1>1 DEF Icmp!Stop, Icmp!callVars
<1>2. ASSUME NEW q \in Scans, Icmp!CallerStep(q) \/ Icmp!Cancel(q) \/ Icmp!CloserStep(q)
      PROVE  UNCHANGED contestedI
  BY <1>2 DEF Icmp!CallerStep, Icmp!ReturnChannel, Icmp!ReturnError, Icmp!Cancel, Icmp!CloserStep,
     Icmp!CloserWakes, Icmp!CloseResults, Icmp!callVars
<1>3. ASSUME NEW q \in Scans, Icmp!ListenerStep(q) \/ Icmp!ListenerFails(q) \/ Icmp!FeederStep(q)
      PROVE  UNCHANGED contestedI
  BY <1>3 DEF Icmp!ListenerStep, Icmp!ListenerGets, Icmp!ListenerEnds, Icmp!ListenerFails,
     Icmp!Listens, Icmp!FeederStep, Icmp!BeginBatch, Icmp!CollectBatch, Icmp!FeederReturns,
     Icmp!SendResult, Icmp!callVars
<1>4. ASSUME NEW q \in Scans, NEW h \in Targets, Icmp!PingerStep(q, h)
      PROVE  UNCHANGED contestedI
  BY <1>4 DEF Icmp!PingerStep, Icmp!StartPinger, Icmp!PingerReturns, Icmp!callVars
<1> QED
  BY <1>1, <1>2, <1>3, <1>4 DEF Icmp!Next, Icmp!Step, Icmp!CallStep

\* It grows.
LEMMA IcmpContestedGrows ==
  ASSUME IcmpInv, Icmp!Next, NEW s \in Scans
  PROVE  /\ contestedI[s] \subseteq contestedI'[s]
         /\ ~Icmp!Running(s) /\ ~Icmp!BeginScan(s) => contestedI'[s] = contestedI[s]
<1>1. ASSUME NEW q \in Scans, Icmp!BeginScan(q)
      PROVE  /\ contestedI[s] \subseteq contestedI'[s]
             /\ ~Icmp!Running(s) /\ s # q => contestedI'[s] = contestedI[s]
  <2>1. PICK load \in IcmpLoads : Icmp!Contest(q, load[q]) /\ callerI[q] = "off"
    BY <1>1 DEF Icmp!BeginScan
  <2>2. contestedI[q] = {}
    BY <2>1 DEF IcmpInv, IcmpCallOK, IcmpNotReturned
  <2> QED
    BY <2>1, <2>2 DEF Icmp!Contest
<1> QED
  BY <1>1, IcmpContestedStays

\* A record disappears when a call at work that wants its host sends its result.
LEMMA IcmpRecordsKept ==
  ASSUME IcmpInv, NEW q \in Scans, Icmp!CallStep(q), NEW h \in Targets, resp[h] # "none"
  PROVE  resp'[h] # "none" \/ (Icmp!SendResult(q, h) /\ Icmp!Running(q) /\ h \in wantedI[q])
<1> USE DEF IcmpInv, IcmpTyped
<1>1. CASE Icmp!BeginScan(q) \/ Icmp!CallerStep(q) \/ Icmp!Cancel(q) \/ Icmp!CloserStep(q)
  BY <1>1 DEF Icmp!BeginScan, Icmp!CallerStep, Icmp!ReturnChannel, Icmp!ReturnError, Icmp!Cancel,
     Icmp!CloserStep, Icmp!CloserWakes, Icmp!CloseResults, Icmp!sharedVars
<1>2. CASE Icmp!ListenerStep(q) \/ Icmp!ListenerFails(q)
  BY <1>2 DEF Icmp!ListenerStep, Icmp!ListenerGets, Icmp!ListenerEnds, Icmp!ListenerFails, Icmp!Listens,
     Icmp!sharedVars
<1>3. CASE Icmp!BeginBatch(q) \/ Icmp!CollectBatch(q) \/ Icmp!FeederReturns(q)
  BY <1>3 DEF Icmp!BeginBatch, Icmp!CollectBatch, Icmp!FeederReturns, Icmp!sharedVars
<1>4. ASSUME NEW j \in Targets, Icmp!PingerStep(q, j) PROVE resp'[h] # "none"
  BY <1>4 DEF Icmp!PingerStep, Icmp!StartPinger, Icmp!PingerReturns, Icmp!sharedVars
<1>5. ASSUME NEW j \in Targets, Icmp!SendResult(q, j)
      PROVE  resp'[h] # "none" \/ (j = h /\ Icmp!Running(q) /\ h \in wantedI[q])
  <2>1. UNCHANGED resp \/ resp' = [resp EXCEPT ![j] = "none"]
    BY <1>5 DEF Icmp!SendResult
  <2>2. feederI[q] = "collect" /\ j \in wantedI[q]
    BY <1>5 DEF Icmp!SendResult, IcmpCallOK
  <2> QED
    BY <2>1, <2>2 DEF Icmp!Running
<1> QED
  BY <1>1, <1>2, <1>3, <1>4, <1>5 DEF Icmp!CallStep, Icmp!FeederStep

LEMMA IcmpOthersKept ==
  ASSUME IcmpInv, Icmp!Next, NEW q \in Scans, Icmp!CallStep(q), NEW s \in Scans, s # q
  PROVE  IcmpCallOK(s)'
<1>1. IcmpOwn(s)' = IcmpOwn(s) /\ UNCHANGED stopped
  BY IcmpOthersOwn DEF IcmpInv
<1>2. contestedI[s] \subseteq contestedI'[s]
  BY IcmpContestedGrows
<1>3. callerI[s] = "off" => contestedI'[s] = contestedI[s]
  <2>1. callerI[s] = "off" => ~Icmp!Running(s)
    BY DEF IcmpInv, IcmpCallOK, IcmpNotReturned, Icmp!Running
  <2>2. ~Icmp!BeginScan(s) \/ callerI'[s] # callerI[s]
    BY DEF Icmp!BeginScan, IcmpInv, IcmpTyped
  <2>3. callerI'[s] = callerI[s]
    BY <1>1 DEF IcmpOwn
  <2> QED
    BY <2>1, <2>2, <2>3, IcmpContestedGrows
<1>4. crashI' \in {crashI, q}
  <2>1. CASE \E h \in Targets : Icmp!SendResult(q, h)
    BY <2>1 DEF Icmp!SendResult
  <2>2. CASE ~\E h \in Targets : Icmp!SendResult(q, h)
    BY <2>2 DEF Icmp!CallStep, Icmp!BeginScan, Icmp!CallerStep, Icmp!ReturnChannel, Icmp!ReturnError,
       Icmp!Cancel, Icmp!CloserStep, Icmp!CloserWakes, Icmp!CloseResults, Icmp!ListenerStep,
       Icmp!ListenerGets, Icmp!ListenerEnds, Icmp!ListenerFails, Icmp!Listens, Icmp!FeederStep,
       Icmp!BeginBatch, Icmp!CollectBatch, Icmp!FeederReturns, Icmp!PingerStep,
       Icmp!StartPinger, Icmp!PingerReturns, Icmp!sharedVars
  <2> QED
    BY <2>1, <2>2
<1>5. ASSUME NEW h \in wantedI[s], Icmp!Running(s), resp[h] # "none"
      PROVE  resp'[h] # "none" \/ h \in contestedI[s]
  <2>1. h \in Targets
    BY DEF IcmpInv, IcmpTyped
  <2>2. resp'[h] # "none" \/ (Icmp!Running(q) /\ h \in wantedI[q])
    BY <1>5, <2>1, IcmpRecordsKept
  <2> QED
    BY <1>5, <2>2 DEF IcmpInv, IcmpContests
<1> QED
  BY <1>1, <1>2, <1>3, <1>4, <1>5, IcmpLeftAlone DEF IcmpInv

(* A call's own steps.                                                       *)

\* A step that leaves a call's hosts and its feeder alone.
LEMMA IcmpHostsLeft ==
  ASSUME IcmpTyped, NEW s \in Scans, IcmpCallOK(s),
         wantedI'[s] = wantedI[s], contestedI'[s] = contestedI[s], sentI'[s] = sentI[s],
         batch'[s] = batch[s], todo'[s] = todo[s], feederI'[s] = feederI[s],
         pinger'[s] = pinger[s], UNCHANGED <<resp, crashI>>,
         Icmp!Abandoned(s) => Icmp!Abandoned(s)',
         \/ closerI'[s] = closerI[s]
         \/ closerI[s] \in {"drain", "closed"} /\ closerI'[s] \in {"drain", "closed"},
         \/ callerI'[s] = callerI[s] /\ overI'[s] = overI[s]
         \/ callerI[s] = "select" /\ callerI'[s] = "error"
  PROVE  IcmpCallOK(s)'
<1>1. IcmpNotReturned(s)'
  BY DEF IcmpCallOK, IcmpNotReturned
<1>2. IcmpFeeds(s)'
  BY DEF IcmpCallOK, IcmpFeeds, IcmpNotReturned
<1>3. IcmpCloses(s)'
  BY DEF IcmpCallOK, IcmpCloses, IcmpNotReturned
<1> QED
  BY <1>1, <1>2, <1>3 DEF IcmpCallOK

LEMMA IcmpBeginKeeps ==
  ASSUME IcmpConstants, IcmpInv, NEW s \in Scans, Icmp!BeginScan(s)
  PROVE  IcmpCallOK(s)'
<1>1. PICK load \in IcmpLoads :
        /\ wantedI' = [wantedI EXCEPT ![s] = load[s]]
        /\ callerI' = [callerI EXCEPT ![s] = IF load[s] = {} THEN "channel" ELSE "select"]
        /\ closerI' = [closerI EXCEPT ![s] = IF load[s] = {} THEN "closed" ELSE @]
  BY DEF Icmp!BeginScan
<1>2. /\ callerI[s] = "off"
      /\ UNCHANGED <<cancelledI, overI, feederI, batch, todo, sentI, pinger, stopped, resp, crashI>>
  BY DEF Icmp!BeginScan, Icmp!feedVars, Icmp!sharedVars
<1>3. /\ wantedI[s] = {} /\ sentI[s] = {} /\ batch[s] = {} /\ todo[s] = {}
      /\ feederI[s] = "off" /\ closerI[s] = "off" /\ ~overI[s] /\ crashI # s
  BY <1>2 DEF IcmpInv, IcmpCallOK, IcmpNotReturned
<1>4. /\ wantedI'[s] = load[s]
      /\ callerI'[s] = IF load[s] = {} THEN "channel" ELSE "select"
      /\ closerI'[s] = IF load[s] = {} THEN "closed" ELSE "off"
  BY <1>1, <1>3 DEF IcmpInv, IcmpTyped
<1>5. IcmpNotReturned(s)'
  BY <1>2, <1>3, <1>4 DEF IcmpNotReturned
<1>6. IcmpFeeds(s)' /\ IcmpCloses(s)'
  BY <1>2, <1>3, <1>4 DEF IcmpFeeds, IcmpCloses
<1> QED
  BY <1>2, <1>3, <1>4, <1>5, <1>6 DEF IcmpCallOK

LEMMA IcmpReturnKeeps ==
  ASSUME IcmpInv, NEW s \in Scans, Icmp!ReturnChannel(s)
  PROVE  IcmpCallOK(s)'
<1>1. /\ callerI[s] = "select" /\ callerI'[s] = "channel"
      /\ feederI'[s] = "next" /\ todo'[s] = wantedI[s] /\ closerI'[s] = "wait"
      /\ UNCHANGED <<wantedI, cancelledI, overI, contestedI, batch, sentI, pinger, stopped, resp, crashI>>
  BY DEF Icmp!ReturnChannel, Icmp!sharedVars, IcmpInv, IcmpTyped
<1>2. IcmpCallOK(s)
  BY DEF IcmpInv
<1>3. IcmpNotReturned(s)' /\ IcmpCloses(s)'
  BY <1>1 DEF IcmpNotReturned, IcmpCloses
<1>4. IcmpFeeds(s)'
  BY <1>1, <1>2 DEF IcmpFeeds, IcmpCallOK, IcmpNotReturned
<1> QED
  BY <1>1, <1>2, <1>3, <1>4 DEF IcmpCallOK

LEMMA IcmpBatchKeeps ==
  ASSUME IcmpInv, NEW s \in Scans, Icmp!BeginBatch(s)
  PROVE  IcmpCallOK(s)'
<1>1. PICK B \in SUBSET todo[s] :
        /\ batch' = [batch EXCEPT ![s] = B] /\ todo' = [todo EXCEPT ![s] = @ \ B]
        /\ pinger' = [pinger EXCEPT ![s] = [h \in Targets |-> IF h \in B THEN "wait" ELSE @[h]]]
  BY DEF Icmp!BeginBatch
<1>2. /\ feederI[s] = "next" /\ feederI' = [feederI EXCEPT ![s] = "ping"]
      /\ UNCHANGED <<wantedI, cancelledI, overI, callerI, contestedI, sentI, closerI, stopped, resp, crashI>>
  BY DEF Icmp!BeginBatch, Icmp!callVars, Icmp!sharedVars
<1>3. /\ batch'[s] = B /\ todo'[s] = todo[s] \ B /\ feederI'[s] = "ping"
      /\ \A h \in B : pinger'[s][h] = "wait"
  BY <1>1, <1>2 DEF IcmpInv, IcmpTyped
<1>4. IcmpCallOK(s)
  BY DEF IcmpInv
<1>5. IcmpNotReturned(s)' /\ IcmpCloses(s)'
  BY <1>2, <1>4 DEF IcmpNotReturned, IcmpCallOK, IcmpCloses, Icmp!Abandoned
<1>6. IcmpFeeds(s)'
  BY <1>2, <1>3, <1>4 DEF IcmpFeeds, IcmpCallOK, Icmp!Abandoned
<1> QED
  BY <1>2, <1>3, <1>4, <1>5, <1>6 DEF IcmpCallOK

\* A pinger's step: it begins with a new record, unless the call is abandoned.
LEMMA IcmpPingersKeep ==
  ASSUME IcmpInv, NEW s \in Scans, NEW h \in Targets, Icmp!PingerStep(s, h)
  PROVE  IcmpCallOK(s)'
<1> USE DEF Icmp!PingerStep, Icmp!StartPinger, Icmp!PingerReturns, Icmp!Pings
<1>1. UNCHANGED <<wantedI, cancelledI, overI, callerI, contestedI, feederI, batch, todo, sentI, closerI,
                  stopped, crashI>>
  BY DEF Icmp!callVars, Icmp!feedVars, Icmp!sharedVars
<1>2. IcmpCallOK(s) /\ IcmpTyped
  BY DEF IcmpInv
<1>3. IcmpNotReturned(s)' /\ IcmpCloses(s)'
  BY <1>1, <1>2 DEF IcmpNotReturned, IcmpCallOK, IcmpCloses, Icmp!Abandoned
<1>4. ASSUME NEW j \in Targets, resp[j] # "none" PROVE resp'[j] # "none"
  BY <1>2, <1>4 DEF IcmpTyped, Icmp!sharedVars
<1>5. ASSUME ~Icmp!Abandoned(s), ~overI[s], NEW j \in Targets,
             pinger[s][j] \in {"wait", "ping", "done"}
      PROVE  /\ pinger'[s][j] \in {"wait", "ping", "done"}
             /\ pinger'[s][j] # "wait" => pinger[s][j] # "wait" \/ resp'[j] # "none"
  BY <1>2, <1>5 DEF IcmpTyped, Icmp!Abandoned
<1>6. IcmpFeeds(s)'
  <2> SUFFICES ASSUME closerI[s] = "wait", ~Icmp!Abandoned(s), feederI[s] = "ping", NEW j \in batch[s]
               PROVE  /\ pinger'[s][j] \in {"wait", "ping", "done"}
                      /\ pinger'[s][j] # "wait" => resp'[j] # "none" \/ j \in contestedI[s]
    <3>1. /\ Icmp!Abandoned(s)' = Icmp!Abandoned(s) /\ closerI'[s] = closerI[s] /\ overI'[s] = overI[s]
          /\ feederI'[s] = feederI[s] /\ wantedI'[s] = wantedI[s] /\ contestedI'[s] = contestedI[s]
          /\ sentI'[s] = sentI[s] /\ batch'[s] = batch[s] /\ todo'[s] = todo[s]
      BY <1>1 DEF Icmp!Abandoned
    <3>2. batch[s] \subseteq Targets
      BY <1>2 DEF IcmpTyped
    <3> QED
      BY <1>2, <1>4, <3>1, <3>2 DEF IcmpFeeds, IcmpCallOK
  <2>1. /\ j \in Targets /\ ~overI[s] /\ pinger[s][j] \in {"wait", "ping", "done"}
        /\ pinger[s][j] # "wait" => resp[j] # "none" \/ j \in contestedI[s]
    BY <1>2 DEF IcmpTyped, IcmpCallOK, IcmpFeeds
  <2> QED
    BY <1>4, <1>5, <2>1
<1> QED
  BY <1>1, <1>2, <1>3, <1>6 DEF IcmpCallOK

LEMMA IcmpCollectKeeps ==
  ASSUME IcmpInv, NEW s \in Scans, Icmp!CollectBatch(s) \/ Icmp!FeederReturns(s)
  PROVE  IcmpCallOK(s)'
<1>1. /\ feederI[s] \in {"ping", "next"} /\ feederI'[s] \in {"collect", "returned"}
      /\ UNCHANGED <<wantedI, cancelledI, overI, callerI, contestedI, batch, todo, sentI, pinger, closerI,
                     stopped, resp, crashI>>
  BY DEF Icmp!CollectBatch, Icmp!FeederReturns, Icmp!Feeds, Icmp!callVars, Icmp!sharedVars, IcmpInv,
     IcmpTyped
<1>2. IcmpCallOK(s)
  BY DEF IcmpInv
<1>3. IcmpNotReturned(s)' /\ IcmpCloses(s)'
  BY <1>1, <1>2 DEF IcmpNotReturned, IcmpCallOK, IcmpCloses, Icmp!Abandoned
<1>4. IcmpFeeds(s)'
  <2> SUFFICES ASSUME closerI[s] = "wait", ~Icmp!Abandoned(s)
               PROVE  /\ ~overI[s]
                      /\ feederI'[s] = "collect" =>
                           /\ wantedI[s] \subseteq sentI[s] \cup contestedI[s] \cup batch[s] \cup todo[s]
                           /\ \A h \in batch[s] : resp[h] # "none" \/ h \in contestedI[s]
                      /\ feederI'[s] = "returned" => wantedI[s] \subseteq sentI[s] \cup contestedI[s]
    BY <1>1 DEF IcmpFeeds, Icmp!Abandoned
  <2>1. ~Icmp!CtxDone(s) /\ ~stopped /\ IcmpFeeds(s)
    BY <1>2 DEF IcmpCallOK, IcmpFeeds, Icmp!CtxDone, Icmp!Abandoned
  <2> QED
    BY <1>1, <2>1 DEF IcmpFeeds, Icmp!CollectBatch, Icmp!FeederReturns, Icmp!Feeds, IcmpInv, IcmpTyped
<1> QED
  BY <1>1, <1>2, <1>3, <1>4 DEF IcmpCallOK

LEMMA IcmpSendKeeps ==
  ASSUME IcmpInv, NEW s \in Scans, NEW h \in Targets, Icmp!SendResult(s, h)
  PROVE  IcmpCallOK(s)'
<1>1. /\ feederI[s] = "collect" /\ h \in batch[s] /\ batch'[s] = batch[s] \ {h}
      /\ feederI'[s] = IF batch[s] = {h} THEN "next" ELSE "collect"
      /\ UNCHANGED <<wantedI, cancelledI, overI, callerI, contestedI, todo, pinger, closerI, stopped>>
  BY DEF Icmp!SendResult, Icmp!Feeds, Icmp!callVars, IcmpInv, IcmpTyped
<1>2. \/ UNCHANGED <<sentI, crashI, resp>> /\ (resp[h] = "none" \/ Icmp!CtxDone(s) \/ stopped)
      \/ closerI[s] = "closed" /\ crashI' = s /\ UNCHANGED <<sentI, resp>>
      \/ closerI[s] # "closed" /\ sentI'[s] = sentI[s] \cup {h}
         /\ resp' = [resp EXCEPT ![h] = "none"] /\ UNCHANGED crashI
  BY DEF Icmp!SendResult, IcmpInv, IcmpTyped
<1>3. IcmpCallOK(s)
  BY DEF IcmpInv
<1>4. callerI[s] = "channel" /\ h \in wantedI[s]
  BY <1>1, <1>3 DEF IcmpCallOK, IcmpNotReturned
<1>5. IcmpNotReturned(s)' /\ IcmpCloses(s)'
  BY <1>1, <1>2, <1>3, <1>4 DEF IcmpNotReturned, IcmpCallOK, IcmpCloses, Icmp!Abandoned
<1>6. IcmpFeeds(s)'
  <2> SUFFICES ASSUME closerI[s] = "wait", ~Icmp!Abandoned(s)
               PROVE  /\ ~overI[s]
                      /\ wantedI[s] \subseteq sentI'[s] \cup contestedI[s] \cup batch'[s] \cup todo[s]
                      /\ \A j \in batch'[s] : resp'[j] # "none" \/ j \in contestedI[s]
    BY <1>1 DEF IcmpFeeds, Icmp!Abandoned
  <2>1. /\ ~overI[s] /\ ~Icmp!CtxDone(s) /\ ~stopped
        /\ wantedI[s] \subseteq sentI[s] \cup contestedI[s] \cup batch[s] \cup todo[s]
        /\ \A j \in batch[s] : resp[j] # "none" \/ j \in contestedI[s]
    BY <1>1, <1>3 DEF IcmpCallOK, IcmpFeeds, Icmp!CtxDone, Icmp!Abandoned
  <2>2. CASE UNCHANGED <<sentI, resp>> /\ resp[h] = "none"
    BY <1>1, <2>1, <2>2
  <2>3. CASE sentI'[s] = sentI[s] \cup {h} /\ resp' = [resp EXCEPT ![h] = "none"]
    <3>1. \A j \in batch'[s] : resp'[j] = resp[j]
      BY <1>1, <2>3 DEF IcmpInv, IcmpTyped
    <3> QED
      BY <1>1, <2>1, <2>3, <3>1
  <2> QED
    BY <1>2, <2>1, <2>2, <2>3
<1> QED
  BY <1>1, <1>2, <1>3, <1>4, <1>5, <1>6 DEF IcmpCallOK

LEMMA IcmpWakeKeeps ==
  ASSUME IcmpInv, NEW s \in Scans, Icmp!CloserWakes(s)
  PROVE  IcmpCallOK(s)'
<1>1. /\ closerI[s] = "wait" /\ closerI'[s] = "drain"
      /\ Icmp!ProcessDone(s) \/ Icmp!Abandoned(s)
      /\ UNCHANGED <<wantedI, cancelledI, callerI, contestedI, feederI, batch, todo, sentI, pinger,
                     stopped, resp, crashI>>
  BY DEF Icmp!CloserWakes, Icmp!Abandoned, Icmp!feedVars, Icmp!sharedVars, IcmpInv, IcmpTyped
<1>2. IcmpCallOK(s)
  BY DEF IcmpInv
<1>3. callerI[s] = "channel"
  BY <1>1, <1>2 DEF IcmpCallOK, IcmpNotReturned
<1>4. ~Icmp!Abandoned(s) => feederI[s] = "returned" /\ wantedI[s] \subseteq sentI[s] \cup contestedI[s]
  BY <1>1, <1>2 DEF Icmp!ProcessDone, IcmpCallOK, IcmpFeeds
<1>5. IcmpNotReturned(s)' /\ IcmpFeeds(s)'
  BY <1>1, <1>3 DEF IcmpNotReturned, IcmpFeeds
<1>6. IcmpCloses(s)'
  BY <1>1, <1>4 DEF IcmpCloses, Icmp!Abandoned
<1> QED
  BY <1>1, <1>2, <1>5, <1>6 DEF IcmpCallOK

LEMMA IcmpOwnKept ==
  ASSUME IcmpConstants, IcmpInv, NEW s \in Scans, Icmp!CallStep(s)
  PROVE  IcmpCallOK(s)'
<1>1. IcmpCallOK(s) /\ IcmpTyped
  BY DEF IcmpInv
<1>2. CASE Icmp!ReturnError(s) \/ Icmp!Cancel(s) \/ Icmp!CloseResults(s)
  <2>1. /\ UNCHANGED <<wantedI, contestedI, sentI, batch, todo, feederI, pinger, stopped, resp, crashI>>
        /\ cancelledI[s] # "no" => cancelledI'[s] # "no"
        /\ \/ closerI'[s] = closerI[s]
           \/ closerI[s] \in {"drain", "closed"} /\ closerI'[s] \in {"drain", "closed"}
        /\ \/ callerI'[s] = callerI[s] /\ overI'[s] = overI[s]
           \/ callerI[s] = "select" /\ callerI'[s] = "error"
    BY <1>1, <1>2 DEF Icmp!ReturnError, Icmp!Cancel, Icmp!CloseResults, Icmp!callVars, Icmp!feedVars,
       Icmp!sharedVars, IcmpTyped
  <2> QED
    BY <1>1, <2>1, IcmpHostsLeft DEF Icmp!Abandoned
<1>3. CASE Icmp!ListenerStep(s) \/ Icmp!ListenerFails(s)
  <2>1. UNCHANGED <<wantedI, contestedI, sentI, batch, todo, feederI, pinger, stopped, resp, crashI,
                    cancelledI, closerI, callerI, overI>>
    BY <1>3 DEF Icmp!ListenerStep, Icmp!ListenerGets, Icmp!ListenerEnds, Icmp!ListenerFails,
       Icmp!Listens, Icmp!callVars, Icmp!feedVars, Icmp!sharedVars
  <2> QED
    BY <1>1, <2>1, IcmpHostsLeft DEF Icmp!Abandoned
<1> QED
  BY <1>2, <1>3, IcmpBeginKeeps, IcmpReturnKeeps, IcmpBatchKeeps, IcmpPingersKeep, IcmpCollectKeeps,
     IcmpSendKeeps, IcmpWakeKeeps DEF Icmp!CallStep, Icmp!CallerStep, Icmp!FeederStep, Icmp!CloserStep

(* The invariant is kept.                                                    *)

\* Nothing but BeginScan puts a call to work.
LEMMA IcmpContestsKept ==
  ASSUME IcmpInv, Icmp!Next
  PROVE  IcmpContests'
<1>1. ASSUME NEW q \in Scans, Icmp!BeginScan(q) PROVE IcmpContests'
  <2>1. PICK load \in IcmpLoads :
          /\ wantedI' = [wantedI EXCEPT ![q] = load[q]]
          /\ callerI' = [callerI EXCEPT ![q] = IF load[q] = {} THEN "channel" ELSE "select"]
          /\ Icmp!Contest(q, load[q])
    BY <1>1 DEF Icmp!BeginScan
  <2>2. UNCHANGED feederI
    BY <1>1 DEF Icmp!BeginScan, Icmp!feedVars
  <2>3. ASSUME NEW s \in Scans, s # q
        PROVE  /\ wantedI'[s] = wantedI[s] /\ Icmp!Running(s)' = Icmp!Running(s)
               /\ Icmp!Running(s) => contestedI'[s] = contestedI[s] \cup (wantedI[s] \cap load[q])
    BY <2>1, <2>2, <2>3 DEF Icmp!Running, Icmp!Contest, IcmpInv, IcmpTyped
  <2>4. /\ wantedI'[q] = load[q]
        /\ contestedI'[q] = load[q] \cap UNION {wantedI[p] : p \in {r \in Scans : Icmp!Running(r)}}
    BY <2>1 DEF Icmp!Contest, IcmpInv, IcmpTyped
  <2>5. ASSUME NEW r \in Scans, NEW s \in Scans, r # s, Icmp!Running(r)', Icmp!Running(s)'
        PROVE  wantedI'[r] \cap wantedI'[s] \subseteq contestedI'[s]
    <3>1. CASE s = q
      BY <2>3, <2>4, <2>5, <3>1
    <3>2. CASE r = q
      BY <2>3, <2>4, <2>5, <3>2
    <3>3. CASE s # q /\ r # q
      BY <2>3, <2>5, <3>3 DEF IcmpInv, IcmpContests
    <3> QED
      BY <3>1, <3>2, <3>3
  <2> QED
    BY <2>5 DEF IcmpContests
<1>2. ASSUME \A q \in Scans : ~Icmp!BeginScan(q) PROVE IcmpContests'
  <2>1. UNCHANGED contestedI
    BY <1>2, IcmpContestedStays
  <2>2. UNCHANGED wantedI
    BY <1>2 DEF Icmp!Next, Icmp!Step, Icmp!Stop, Icmp!CallStep, Icmp!CallerStep, Icmp!ReturnChannel,
       Icmp!ReturnError, Icmp!Cancel, Icmp!CloserStep, Icmp!CloserWakes, Icmp!CloseResults,
       Icmp!ListenerStep, Icmp!ListenerGets, Icmp!ListenerEnds, Icmp!ListenerFails, Icmp!Listens,
       Icmp!FeederStep, Icmp!BeginBatch, Icmp!CollectBatch, Icmp!FeederReturns, Icmp!SendResult,
       Icmp!PingerStep, Icmp!StartPinger, Icmp!PingerReturns, Icmp!callVars
  <2>3. ASSUME NEW q \in Scans, Icmp!CallStep(q) PROVE Icmp!Running(q)' => Icmp!Running(q)
    <3>1. CASE Icmp!CallerStep(q) \/ Icmp!Cancel(q) \/ Icmp!CloserStep(q)
      BY <3>1 DEF Icmp!CallerStep, Icmp!ReturnChannel, Icmp!ReturnError, Icmp!Cancel, Icmp!CloserStep,
         Icmp!CloserWakes, Icmp!CloseResults, Icmp!callVars, Icmp!feedVars, Icmp!Running, IcmpInv, IcmpTyped
    <3>2. CASE Icmp!FeederStep(q)
      BY <3>2 DEF Icmp!FeederStep, Icmp!BeginBatch, Icmp!CollectBatch, Icmp!FeederReturns,
         Icmp!SendResult, Icmp!Running
    <3>3. CASE \/ Icmp!ListenerStep(q) \/ Icmp!ListenerFails(q)
               \/ \E h \in Targets : Icmp!PingerStep(q, h)
      BY <3>3 DEF Icmp!ListenerStep, Icmp!ListenerGets, Icmp!ListenerEnds, Icmp!ListenerFails,
         Icmp!Listens, Icmp!PingerStep, Icmp!StartPinger, Icmp!PingerReturns,
         Icmp!callVars, Icmp!feedVars, Icmp!Running
    <3> QED
      BY <1>2, <2>3, <3>1, <3>2, <3>3 DEF Icmp!CallStep
  <2>4. ASSUME NEW s \in Scans PROVE Icmp!Running(s)' => Icmp!Running(s)
    <3>1. CASE Icmp!Stop
      BY <3>1 DEF Icmp!Stop, Icmp!callVars, Icmp!feedVars, Icmp!Running
    <3>2. ASSUME NEW q \in Scans, Icmp!CallStep(q), q # s PROVE Icmp!Running(s)' => Icmp!Running(s)
      BY <3>2, IcmpOthersOwn DEF IcmpOwn, Icmp!Running, IcmpInv
    <3> QED
      BY <2>3, <3>1, <3>2 DEF Icmp!Next, Icmp!Step
  <2> QED
    BY <2>1, <2>2, <2>4 DEF IcmpInv, IcmpContests
<1> QED
  BY <1>1, <1>2

LEMMA IcmpKept ==
  ASSUME IcmpConstants, IcmpInv, Icmp!Next
  PROVE  IcmpInv'
<1>1. ASSUME NEW s \in Scans PROVE IcmpCallOK(s)'
  <2>1. CASE Icmp!Stop
    <3>1. /\ UNCHANGED <<wantedI, contestedI, sentI, batch, todo, feederI, pinger, resp, crashI,
                         cancelledI, closerI, callerI, overI>>
          /\ stopped'
      BY <2>1 DEF Icmp!Stop, Icmp!callVars, Icmp!feedVars
    <3> QED
      BY <3>1, IcmpHostsLeft DEF Icmp!Abandoned, IcmpInv
  <2> QED
    BY <2>1, IcmpOwnKept, IcmpOthersKept DEF Icmp!Next, Icmp!Step
<1> QED
  BY <1>1, IcmpTypesKept, IcmpContestsKept DEF IcmpInv

LEMMA IcmpStarts ==
  ASSUME IcmpConstants, Icmp!Init
  PROVE  IcmpInv /\ \A s \in Scans : Icmp!Channel(s)!ChanInit
<1>1. IcmpTyped
  BY DEF Icmp!Init, IcmpTyped
<1>2. IcmpContests
  BY DEF Icmp!Init, IcmpContests
<1>3. ASSUME NEW s \in Scans PROVE IcmpCallOK(s) /\ Icmp!Channel(s)!ChanInit
  BY DEF Icmp!Init, IcmpConstants, IcmpCallOK, IcmpNotReturned, IcmpFeeds, IcmpCloses,
     Icmp!Abandoned, Icmp!Channel!ChanInit
<1> QED
  BY <1>1, <1>2, <1>3 DEF IcmpInv

(* The refinement.                                                           *)

IcmpStatus(s) ==
  IF crashI = s THEN "crashed"
  ELSE IF callerI[s] # "channel" THEN "none"
  ELSE IF closerI[s] = "closed" THEN "closed" ELSE "open"
IcmpAsked(s) == IF callerI[s] = "channel" THEN wantedI[s] ELSE {}

IcmpChannelStep(s) == Icmp!Channel(s)!ChanNext \/ UNCHANGED Icmp!Channel(s)!chanVars

\* A step that leaves the channel alone, but may abandon the call or contest its
\* hosts.
LEMMA IcmpUnseen ==
  ASSUME NEW s \in Scans, sentI'[s] = sentI[s],
         IcmpAsked(s)' = IcmpAsked(s), IcmpStatus(s)' = IcmpStatus(s),
         Icmp!Abandoned(s) => Icmp!Abandoned(s)',
         \/ contestedI'[s] = contestedI[s]
         \/ /\ contestedI[s] \subseteq contestedI'[s] /\ contestedI'[s] \subseteq Targets
            /\ Icmp!Abandoned(s)' = Icmp!Abandoned(s)
  PROVE  IcmpChannelStep(s)
<1> USE DEF IcmpAsked, IcmpStatus
<1>1. CASE Icmp!Abandoned(s)' # Icmp!Abandoned(s) /\ contestedI'[s] = contestedI[s]
  <2>1. Icmp!Abandoned(s)' = TRUE
    BY <1>1 DEF Icmp!Abandoned
  <2>2. Icmp!Channel(s)!Abandon
    BY <1>1, <2>1 DEF Icmp!Channel!Abandon
  <2> QED
    BY <2>2 DEF IcmpChannelStep, Icmp!Channel!ChanNext
<1>2. CASE Icmp!Abandoned(s)' = Icmp!Abandoned(s) /\ contestedI'[s] = contestedI[s]
  BY <1>2 DEF IcmpChannelStep, Icmp!Channel!chanVars
<1>3. CASE /\ contestedI[s] \subseteq contestedI'[s] /\ contestedI'[s] \subseteq Targets
           /\ Icmp!Abandoned(s)' = Icmp!Abandoned(s)
  <2>1. Icmp!Channel(s)!Contest
    BY <1>3 DEF Icmp!Channel!Contest
  <2> QED
    BY <2>1 DEF IcmpChannelStep, Icmp!Channel!ChanNext
<1> QED
  BY <1>1, <1>2, <1>3

LEMMA IcmpBeginRefines ==
  ASSUME IcmpConstants, IcmpInv, crashI = "no", NEW s \in Scans, Icmp!BeginScan(s)
  PROVE  IcmpChannelStep(s)
<1>1. PICK load \in IcmpLoads :
        /\ wantedI' = [wantedI EXCEPT ![s] = load[s]]
        /\ callerI' = [callerI EXCEPT ![s] = IF load[s] = {} THEN "channel" ELSE "select"]
        /\ closerI' = [closerI EXCEPT ![s] = IF load[s] = {} THEN "closed" ELSE @]
        /\ Icmp!Contest(s, load[s])
  BY DEF Icmp!BeginScan
<1>2. /\ callerI[s] = "off"
      /\ UNCHANGED <<cancelledI, sentI, stopped, crashI>>
  BY DEF Icmp!BeginScan, Icmp!feedVars, Icmp!sharedVars
<1>3. /\ load[s] \subseteq Targets /\ crashI # s /\ contestedI[s] = {}
      /\ wantedI'[s] = load[s]
      /\ callerI'[s] = IF load[s] = {} THEN "channel" ELSE "select"
      /\ load[s] = {} => closerI'[s] = "closed"
  BY <1>1, <1>2 DEF IcmpConstants, IcmpInv, IcmpTyped, IcmpCallOK, IcmpNotReturned
<1>4. contestedI'[s] \subseteq load[s]
  BY <1>1 DEF Icmp!Contest
<1>5. CASE load[s] = {}
  <2>1. Icmp!Channel(s)!Open({})
    BY <1>2, <1>3, <1>4, <1>5 DEF Icmp!Channel!Open, Icmp!Abandoned
  <2> QED
    BY <2>1 DEF IcmpChannelStep, Icmp!Channel!ChanNext
<1>6. CASE load[s] # {}
  BY <1>2, <1>3, <1>4, <1>6, IcmpUnseen DEF IcmpAsked, IcmpStatus, Icmp!Abandoned
<1> QED
  BY <1>5, <1>6

LEMMA IcmpSendRefines ==
  ASSUME IcmpConstants, IcmpInv, crashI = "no", NEW s \in Scans, NEW h \in Targets, Icmp!SendResult(s, h)
  PROVE  IcmpChannelStep(s)
<1>1. /\ IcmpTyped /\ IcmpCallOK(s) /\ crashI # s
      /\ feederI[s] = "collect" /\ h \in batch[s]
      /\ UNCHANGED <<callerI, wantedI, closerI, cancelledI, stopped, contestedI>>
  BY DEF Icmp!SendResult, Icmp!callVars, IcmpInv, IcmpConstants
<1>2. callerI[s] = "channel" /\ h \in wantedI[s]
  BY <1>1 DEF IcmpCallOK, IcmpNotReturned
<1>3. CASE sentI'[s] = sentI[s] /\ UNCHANGED crashI
  BY <1>1, <1>3, IcmpUnseen DEF IcmpAsked, IcmpStatus, Icmp!Abandoned
<1>4. CASE closerI[s] # "closed" /\ sentI'[s] = sentI[s] \cup {h} /\ UNCHANGED crashI /\ h \notin sentI[s]
  <2>1. Icmp!Channel(s)!Deliver
    BY <1>1, <1>2, <1>4 DEF Icmp!Channel!Deliver, Icmp!Abandoned
  <2> QED
    BY <2>1 DEF IcmpChannelStep, Icmp!Channel!ChanNext
<1>5. CASE closerI[s] = "closed" /\ crashI' = s /\ UNCHANGED sentI
  <2>1. Icmp!Abandoned(s)
    BY <1>1, <1>5 DEF IcmpCallOK, IcmpCloses
  <2>2. Icmp!Channel(s)!Crash
    BY <1>1, <1>2, <1>5, <2>1 DEF Icmp!Channel!Crash, Icmp!Abandoned
  <2> QED
    BY <2>2 DEF IcmpChannelStep, Icmp!Channel!ChanNext
<1> QED
  <2>1. \/ UNCHANGED <<sentI, crashI>>
        \/ closerI[s] # "closed" /\ sentI'[s] = sentI[s] \cup {h} /\ UNCHANGED crashI
        \/ closerI[s] = "closed" /\ crashI' = s /\ UNCHANGED sentI
    BY <1>1 DEF Icmp!SendResult, IcmpTyped
  <2> QED
    BY <2>1, <1>3, <1>4, <1>5

LEMMA IcmpReturnRefines ==
  ASSUME IcmpConstants, IcmpInv, crashI = "no", NEW s \in Scans, Icmp!ReturnChannel(s)
  PROVE  IcmpChannelStep(s)
<1>1. /\ callerI[s] = "select" /\ callerI'[s] = "channel" /\ closerI'[s] = "wait"
      /\ UNCHANGED <<wantedI, sentI, crashI, cancelledI, stopped, contestedI>>
  BY DEF Icmp!ReturnChannel, Icmp!sharedVars, IcmpInv, IcmpTyped
<1>2. crashI # s /\ wantedI[s] # {} /\ wantedI[s] \subseteq Targets /\ contestedI[s] \subseteq Targets
  BY <1>1 DEF IcmpInv, IcmpTyped, IcmpConstants, IcmpCallOK, IcmpNotReturned
<1>3. Icmp!Channel(s)!Open(wantedI[s])
  BY <1>1, <1>2 DEF Icmp!Channel!Open, Icmp!Abandoned
<1> QED
  BY <1>2, <1>3 DEF IcmpChannelStep, Icmp!Channel!ChanNext

LEMMA IcmpCloseRefines ==
  ASSUME IcmpConstants, IcmpInv, crashI = "no", NEW s \in Scans, Icmp!CloseResults(s)
  PROVE  IcmpChannelStep(s)
<1>1. /\ closerI[s] = "drain" /\ closerI'[s] = "closed"
      /\ UNCHANGED <<callerI, wantedI, sentI, crashI, cancelledI, stopped, contestedI>>
  BY DEF Icmp!CloseResults, Icmp!callVars, Icmp!feedVars, Icmp!sharedVars, IcmpInv, IcmpTyped
<1>2. /\ crashI # s /\ callerI[s] = "channel"
      /\ Icmp!Abandoned(s) \/ wantedI[s] \subseteq sentI[s] \cup contestedI[s]
  BY <1>1 DEF IcmpInv, IcmpConstants, IcmpCallOK, IcmpNotReturned, IcmpCloses
<1>3. Icmp!Channel(s)!Close
  BY <1>1, <1>2 DEF Icmp!Channel!Close, Icmp!Abandoned
<1> QED
  BY <1>3 DEF IcmpChannelStep, Icmp!Channel!ChanNext

LEMMA IcmpRefines ==
  ASSUME IcmpConstants, IcmpInv, Icmp!Next, NEW s \in Scans
  PROVE  IcmpChannelStep(s)
<1>1. crashI = "no" /\ crashI # s /\ IcmpTyped
  BY DEF Icmp!Next, IcmpConstants, IcmpInv
<1>2. CASE Icmp!Stop
  <2>1. UNCHANGED <<wantedI, sentI, crashI, closerI, callerI, cancelledI, contestedI>> /\ stopped'
    BY <1>2 DEF Icmp!Stop, Icmp!callVars, Icmp!feedVars
  <2> QED
    BY <2>1, IcmpUnseen DEF IcmpAsked, IcmpStatus, Icmp!Abandoned
<1>3. ASSUME NEW q \in Scans, Icmp!CallStep(q), q # s PROVE IcmpChannelStep(s)
  <2>1. IcmpOwn(s)' = IcmpOwn(s) /\ UNCHANGED stopped
    BY <1>1, <1>3, IcmpOthersOwn
  <2>2. /\ wantedI'[s] = wantedI[s] /\ cancelledI'[s] = cancelledI[s] /\ callerI'[s] = callerI[s]
        /\ closerI'[s] = closerI[s] /\ sentI'[s] = sentI[s]
    BY <2>1 DEF IcmpOwn
  <2>3. crashI' # s
    <3>1. CASE \E h \in Targets : Icmp!SendResult(q, h)
      BY <1>1, <1>3, <3>1 DEF Icmp!SendResult
    <3>2. CASE ~\E h \in Targets : Icmp!SendResult(q, h)
      BY <1>1, <1>3, <3>2 DEF Icmp!CallStep, Icmp!BeginScan, Icmp!CallerStep, Icmp!ReturnChannel,
         Icmp!ReturnError, Icmp!Cancel, Icmp!CloserStep, Icmp!CloserWakes, Icmp!CloseResults,
         Icmp!ListenerStep, Icmp!ListenerGets, Icmp!ListenerEnds, Icmp!ListenerFails, Icmp!Listens,
         Icmp!FeederStep, Icmp!BeginBatch, Icmp!CollectBatch, Icmp!FeederReturns,
         Icmp!PingerStep, Icmp!StartPinger, Icmp!PingerReturns, Icmp!sharedVars
    <3> QED
      BY <3>1, <3>2
  <2>4. contestedI[s] \subseteq contestedI'[s] /\ contestedI'[s] \subseteq Targets
    <3>1. IcmpTyped'
      BY <1>1, IcmpTypesKept
    <3> QED
      BY <3>1, IcmpContestedGrows DEF IcmpTyped
  <2> QED
    BY <1>1, <2>1, <2>2, <2>3, <2>4, IcmpUnseen DEF IcmpAsked, IcmpStatus, Icmp!Abandoned
<1>4. ASSUME sentI'[s] = sentI[s], UNCHANGED <<crashI, contestedI, stopped>>, wantedI'[s] = wantedI[s],
             cancelledI[s] # "no" => cancelledI'[s] # "no", closerI'[s] = "closed" <=> closerI[s] = "closed",
             callerI'[s] = "channel" <=> callerI[s] = "channel"
      PROVE  IcmpChannelStep(s)
  BY <1>4, IcmpUnseen DEF IcmpAsked, IcmpStatus, Icmp!Abandoned
<1>5. CASE Icmp!ReturnError(s) \/ Icmp!Cancel(s) \/ Icmp!CloserWakes(s)
  BY <1>1, <1>4, <1>5 DEF Icmp!ReturnError, Icmp!Cancel, Icmp!CloserWakes, Icmp!feedVars,
     Icmp!sharedVars, IcmpTyped
<1>6. CASE Icmp!ListenerStep(s) \/ Icmp!ListenerFails(s)
  BY <1>4, <1>6 DEF Icmp!ListenerStep, Icmp!ListenerGets, Icmp!ListenerEnds, Icmp!ListenerFails,
     Icmp!Listens, Icmp!callVars, Icmp!feedVars, Icmp!sharedVars
<1>7. CASE Icmp!BeginBatch(s) \/ Icmp!CollectBatch(s) \/ Icmp!FeederReturns(s)
  BY <1>4, <1>7 DEF Icmp!BeginBatch, Icmp!CollectBatch, Icmp!FeederReturns, Icmp!callVars,
     Icmp!sharedVars
<1>8. CASE \E h \in Targets : Icmp!PingerStep(s, h)
  BY <1>4, <1>8 DEF Icmp!PingerStep, Icmp!StartPinger, Icmp!PingerReturns, Icmp!callVars,
     Icmp!feedVars, Icmp!sharedVars
<1>9. ASSUME Icmp!CallStep(s) PROVE IcmpChannelStep(s)
  BY <1>1, <1>5, <1>6, <1>7, <1>8, <1>9, IcmpBeginRefines, IcmpSendRefines, IcmpReturnRefines,
     IcmpCloseRefines DEF Icmp!CallStep, Icmp!CallerStep, Icmp!FeederStep, Icmp!CloserStep
<1> QED
  BY <1>2, <1>3, <1>9 DEF Icmp!Next, Icmp!Step

LEMMA IcmpStutters ==
  ASSUME IcmpInv, UNCHANGED Icmp!vars
  PROVE  IcmpInv' /\ \A s \in Scans : IcmpChannelStep(s)
<1>1. UNCHANGED <<wantedI, cancelledI, overI, callerI, contestedI, feederI, batch, todo, sentI, pinger,
                  closerI, stopped, resp, crashI>>
  BY DEF Icmp!vars, Icmp!callVars, Icmp!feedVars, Icmp!sharedVars
<1>2. IcmpTyped'
  BY <1>1 DEF IcmpInv, IcmpTyped
<1>3. IcmpContests'
  BY <1>1 DEF IcmpInv, IcmpContests, Icmp!Running
<1>4. ASSUME NEW s \in Scans PROVE IcmpCallOK(s)'
  BY <1>1, IcmpLeftAlone DEF IcmpInv, IcmpOwn
<1>5. ASSUME NEW s \in Scans PROVE IcmpChannelStep(s)
  BY <1>1, IcmpUnseen DEF IcmpAsked, IcmpStatus, Icmp!Abandoned
<1> QED
  BY <1>2, <1>3, <1>4, <1>5 DEF IcmpInv

-----------------------------------------------------------------------------
(* What each scanner keeps, Scanning keeps.                                  *)

LEMMA StepOfOne ==
  ASSUME [Next]_vars
  PROVE  [Tcp!Next]_Tcp!vars /\ [Combined!Next]_Combined!vars /\ [Icmp!Next]_Icmp!vars
<1>1. UNCHANGED tcpVars => UNCHANGED Tcp!vars
  BY DEF tcpVars, Tcp!vars, Tcp!scanVars, Tcp!poolVars
<1>2. UNCHANGED combinedVars => UNCHANGED Combined!vars
  BY DEF combinedVars, Combined!vars, Combined!subVars
<1>3. UNCHANGED icmpVars => UNCHANGED Icmp!vars
  BY DEF icmpVars, Icmp!vars, Icmp!callVars, Icmp!feedVars, Icmp!sharedVars
<1>4. CASE Next
  BY <1>4, <1>1, <1>2, <1>3 DEF Next
<1>5. CASE UNCHANGED vars
  BY <1>5, <1>1, <1>2, <1>3 DEF vars
<1> QED
  BY <1>4, <1>5

LEMMA ScanningBegins ==
  Init => Tcp!Init /\ Combined!Init /\ Icmp!Init
BY DEF Init

LEMMA TcpRuns == Spec => []TcpInv
<1>1. Init => TcpInv
  BY ScanningBegins, TcpBegins, TcpAssumption
<1>2. TcpInv /\ [Next]_vars => TcpInv'
  BY StepOfOne, TcpKept, TcpStutters, TcpAssumption
<1> QED
  BY <1>1, <1>2, PTL DEF Spec, Safety

\* However the workers of all calls take connections from the pool, dial, put
\* back and close, while its cleaner runs, contexts end and Stop closes the pool,
\* each open connection is with one worker or in one entry, nobody uses one that
\* was closed or is pooled, and the pool keeps to maxIdle.
THEOREM TcpConnectionsAreAccounted == Spec => []TcpConnectionsAccounted
<1>1. TcpInv => TcpConnectionsAccounted
  BY ConnsAccounted, TcpAssumption DEF TcpInv, TcpConnectionsAccounted
<1> QED
  BY <1>1, TcpRuns, PTL

\* Each call of TCPScanner.Scan sends the result of every target before it
\* closes its channel, and panics only in a worker that was left behind, however
\* many calls share the slots and the pool, unless it is cancelled or the scanner
\* stopped.
THEOREM TcpImplementsScanner == Spec => TcpImplementsChannel
<1>1. Init => \A s \in Scans : Tcp!Channel(s)!ChanInit
  BY ScanningBegins, TcpBegins, TcpAssumption
<1>2. TcpInv /\ [Next]_vars
        => [\A s \in Scans : UNCHANGED Tcp!Channel(s)!chanVars \/ Tcp!Channel(s)!ChanNext]_Tcp!vars
  BY StepOfOne, TcpRefines, TcpAssumption DEF ChannelStep
<1> QED
  BY <1>1, <1>2, TcpRuns, PTL DEF Spec, Safety, TcpImplementsChannel, Tcp!ImplementsChannel

\* However the goroutines of CombinedScanner.Scan interleave with their scanners,
\* a cancel, Stop and the closer, the caller sees one channel that behaves like a
\* single scanner's: no result is lost, and none is sent after the close, unless
\* the call is abandoned.
THEOREM CombinedImplementsScanner == Spec => CombinedImplementsChannel
<1>1. Init => CombinedInv
  <2> SUFFICES ASSUME Init PROVE CombinedInv
    OBVIOUS
  <2>1. Combined!Init
    BY ScanningBegins
  <2>2. CombinedTyped
    BY <2>1 DEF Combined!Init, CombinedTyped, ForwarderPcs, Combined!Served
  <2>3. ASSUME NEW k \in Scanners PROVE fwd[k].pc = "off" /\ ForwardsAll(k)
    BY <2>1 DEF Combined!Init, ForwardsAll, Combined!Part
  <2>4. CombinedNotBegun /\ CombinedCloses
    BY <2>1, <2>3 DEF Combined!Init, CombinedNotBegun, CombinedCloses
  <2> QED
    BY <2>2, <2>3, <2>4 DEF CombinedInv
<1>2. CombinedInv /\ [Next]_vars => CombinedInv'
  BY StepOfOne, CombinedTypesKept, CombinedNotBegunKept, ForwardsAllKept, CombinedClosesKept DEF
     CombinedInv
<1>3. Init => Combined!Channel!ChanInit
  BY ScanningBegins DEF Combined!Init, Combined!Channel!ChanInit, Combined!ChannelStatus,
     Combined!Served, Combined!Abandoned, Combined!Failed
<1>4. CombinedInv /\ [Next]_vars => [Combined!Channel!ChanNext]_Combined!Channel!chanVars
  <2>1. ASSUME UNCHANGED Combined!vars PROVE UNCHANGED Combined!Channel!chanVars
    BY <2>1 DEF Combined!vars, Combined!subVars, Combined!Channel!chanVars, Combined!ChannelStatus,
       Combined!Closed, Combined!Served, Combined!Abandoned, Combined!Failed
  <2> QED
    BY <2>1, StepOfOne, CombinedRefines
<1> QED
  BY <1>1, <1>2, <1>3, <1>4, PTL DEF Spec, Safety, CombinedImplementsChannel, Combined!ImplementsChannel,
     Combined!Channel!ChanSpec

\* However the feeders, pingers, listeners and closers of the calls of
\* ICMPScanner.Scan interleave over the responses they share, and whether or not
\* a call has a listener, its caller gets the result of every host before the
\* close, unless it cancels, the scanner is stopped, or another call wants the
\* same host while it runs: only then can the record of the host be gone.
THEOREM IcmpImplementsScanner == Spec => IcmpImplementsChannel
<1>1. Init => IcmpInv /\ \A s \in Scans : Icmp!Channel(s)!ChanInit
  BY ScanningBegins, IcmpStarts, IcmpAssumption
<1>2. IcmpInv /\ [Next]_vars => IcmpInv'
  BY StepOfOne, IcmpKept, IcmpStutters, IcmpAssumption
<1>3. IcmpInv /\ [Next]_vars
        => [\A s \in Scans : UNCHANGED Icmp!Channel(s)!chanVars \/ Icmp!Channel(s)!ChanNext]_Icmp!vars
  BY StepOfOne, IcmpRefines, IcmpAssumption DEF IcmpChannelStep
<1> QED
  BY <1>1, <1>2, <1>3, PTL DEF Spec, Safety, IcmpImplementsChannel, Icmp!ImplementsChannel
=============================================================================
