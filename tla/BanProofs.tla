------------------------------ MODULE BanProofs ------------------------------
(***************************************************************************)
(* Proofs about the pools of bans as MCRecords uses them, for any number   *)
(* of bans and of buckets, any length of an address and any plans.  The    *)
(* used and the free entries of a pool are each a list that ends, and so   *)
(* are those of a bucket (Links, Ends); the used ones are in the order in  *)
(* which they run out (Sorted), and no two of them ban the same (Contents).*)
(* From this it follows that the bucket in which a ban is looked for holds *)
(* it if it is there at all, that Update lifts all that has run out, and   *)
(* that each pool is a list of bans as BanList describes it.               *)
(***************************************************************************)
EXTENDS MCRecords, FiniteSetTheorems, SequenceTheorems, WellFoundedInduction, TLAPS

-----------------------------------------------------------------------------
\* Entries linked to lists that start at hd: those in S, each in the list id.
Links(nx, pv, hd, id, S) ==
    /\ \A e \in S : nx[e] # Bans!None => nx[e] \in S /\ pv[nx[e]] = e /\ id[nx[e]] = id[e]
    /\ \A e \in S : pv[e] # Bans!None => pv[e] \in S /\ nx[pv[e]] = e
    /\ \A e \in S : pv[e] = Bans!None => hd[id[e]] = e
    /\ \A i \in DOMAIN hd : hd[i] # Bans!None => hd[i] \in S /\ id[hd[i]] = i /\ pv[hd[i]] = Bans!None

\* Each list ends.
Downhill(nx, rank) == \A e \in Bans!Entries : nx[e] # Bans!None => rank[nx[e]] < rank[e]
Ends(nx) == \E N \in Nat : \E rank \in [Bans!Entries -> 0 .. N] : Downhill(nx, rank)

\* The entries in use, the heads of the two lists, and the list and bucket of each entry.
UsedOnes(p) == {e \in Bans!Entries : p.data[e] # Bans!NoData}
Firsts(p) == [i \in {"used", "free"} |-> IF i = "used" THEN p.firstUsed ELSE p.firstFree]
ListOf(p) == [e \in Bans!Entries |-> IF e \in UsedOnes(p) THEN "used" ELSE "free"]
HashOf(p) == [e \in Bans!Entries |-> Bans!NetHash(p.data[e])]
MaybeEntry == Bans!Entries \cup {Bans!None}
Pools ==
    [next : [Bans!Entries -> MaybeEntry], prev : [Bans!Entries -> MaybeEntry],
     hashNext : [Bans!Entries -> MaybeEntry], hashPrev : [Bans!Entries -> MaybeEntry],
     data : [Bans!Entries -> (UNION Plans) \cup {Bans!NoData}], expires : [Bans!Entries -> Nat \cup {Bans!Never}],
     bucket : [Bans!Hashes -> MaybeEntry], firstFree : MaybeEntry, firstUsed : MaybeEntry, count : Nat]

\* Bans that run out no later than others, and a list in that order.
NoLater(x, y) == y = Bans!Never \/ (x # Bans!Never /\ x <= y)
SortedBy(nx, expires, id, S) ==
    \A e \in S : id[e] = "used" /\ nx[e] # Bans!None => NoLater(expires[e], expires[nx[e]])

\* The lists of used and free entries, the buckets, the order, and what is banned.
Chained(p) == Links(p.next, p.prev, Firsts(p), ListOf(p), Bans!Entries) /\ Ends(p.next)
Hashed(p) ==
    /\ Links(p.hashNext, p.hashPrev, p.bucket, HashOf(p), UsedOnes(p)) /\ Ends(p.hashNext)
    /\ \A e \in Bans!Entries \ UsedOnes(p) : p.hashNext[e] = Bans!None /\ p.hashPrev[e] = Bans!None
Sorted(p) == SortedBy(p.next, p.expires, ListOf(p), Bans!Entries)
Contents(p, kind) ==
    /\ p.count = Cardinality(UsedOnes(p))
    /\ \A e \in UsedOnes(p) : Bans!KindOf(p.data[e]) = kind
    /\ \A e, f \in UsedOnes(p) : p.data[e] = p.data[f] => e = f
PoolInv(p, kind) == p \in Pools /\ Chained(p) /\ Hashed(p) /\ Sorted(p) /\ Contents(p, kind)

\* No ban has run out.
InTime(p, t) == \A e \in UsedOnes(p) : NoLater(t, p.expires[e])

\* The invariant: both pools are in order, and nobody is online whom a ban is for.
PoolsOK(f) == f \in [Bans!Kinds -> Pools] /\ \A kind \in Bans!Kinds : PoolInv(f[kind], kind)
Apart(f, on) ==
    \A a \in on : \A kind \in Bans!Kinds : \A e \in UsedOnes(f[kind]) : ~Bans!Matches(f[kind].data[e], a)
BanTypes == banned \in Plans /\ time \in Nat /\ due \in BOOLEAN /\ online \subseteq Clients
BanInv == PoolsOK(banPool) /\ BanTypes /\ Apart(banPool, online)

-----------------------------------------------------------------------------
\* The numbers of n things.
LEMMA Numbered ==
    ASSUME NEW n \in Nat
    PROVE  /\ IsFiniteSet(1 .. n) /\ Cardinality(1 .. n) = n
           /\ IsFiniteSet(0 .. n - 1) /\ Cardinality(0 .. n - 1) = n
<1>1. IsFiniteSet(1 .. n) /\ Cardinality(1 .. n) = IF 1 > n THEN 0 ELSE n - 1 + 1
  BY FS_Interval
<1>2. n - 1 \in Int
  OBVIOUS
<1>3. IsFiniteSet(0 .. n - 1) /\ Cardinality(0 .. n - 1) = IF 0 > n - 1 THEN 0 ELSE n - 1 - 0 + 1
  BY <1>2, FS_Interval
<1>4. QED
  BY <1>1, <1>3

\* Every nonempty set of natural numbers has a least element.
LEMMA LeastExists ==
    ASSUME NEW S, S \subseteq Nat, S # {}
    PROVE  \E k \in S : \A j \in S : k =< j
<1> DEFINE R == {p \in Nat \X Nat : p[1] < p[2]}
<1>1. R = OpToRel(<, Nat)
  BY Zenon DEF OpToRel
<1>2. IsWellFoundedOn(R, Nat)
  BY ONLY <1>1, NatLessThanWellFounded, Zenon
<1>3. PICK x \in S : \A y \in S : ~(<<y, x>> \in R)
  <2> HIDE DEF R
  <2> QED
    BY <1>2, WFMin
<1>4. \A y \in S : ~(y < x)
  <2> SUFFICES ASSUME NEW y \in S PROVE ~(y < x)
    OBVIOUS
  <2>1. <<y, x>> \in Nat \X Nat
    OBVIOUS
  <2>2. QED
    BY <1>3, <2>1
<1>5. QED
  BY <1>4

\* A set that holds zero, and with each number below N the next one, holds all
\* numbers up to N.
LEMMA UpTo ==
    ASSUME NEW N \in Nat, NEW P, 0 \in P, \A k \in 1 .. N : k - 1 \in P => k \in P
    PROVE  \A k \in 0 .. N : k \in P
<1> DEFINE S == {k \in 0 .. N : k \notin P}
<1> SUFFICES ASSUME S # {} PROVE FALSE
  OBVIOUS
<1>1. PICK k \in S : \A j \in S : k <= j
  <2>1. S \subseteq Nat
    OBVIOUS
  <2> HIDE DEF S
  <2>2. QED
    BY <2>1, LeastExists
<1>2. k \in 1 .. N /\ k - 1 \in 0 .. N /\ k - 1 \notin S
  BY <1>1
<1>3. QED
  BY <1>1, <1>2

\* The states of N steps from x on.
IsRun(g, S, s, x, N) == g \in [0 .. N -> S] /\ g[0] = x /\ \A k \in 1 .. N : g[k] = s[g[k - 1]]

\* A step may be taken any number of times.
LEMMA Iterates ==
    ASSUME NEW S, NEW s \in [S -> S], NEW x \in S, NEW N \in Nat
    PROVE  \E g : IsRun(g, S, s, x, N)
<1> DEFINE Good(g, n) == g[0] = x /\ \A k \in 1 .. n : g[k] = s[g[k - 1]]
           P == {n \in 0 .. N : \E g \in [0 .. n -> S] : Good(g, n)}
<1>1. 0 \in P
  <2> DEFINE h == [k \in 0 .. 0 |-> x]
  <2>1. h \in [0 .. 0 -> S] /\ Good(h, 0)
    OBVIOUS
  <2> HIDE DEF h, Good
  <2>2. QED
    BY <2>1
<1>2. ASSUME NEW n \in 1 .. N, n - 1 \in P
      PROVE  n \in P
  <2>1. PICK g \in [0 .. n - 1 -> S] : Good(g, n - 1)
    BY <1>2
  <2> DEFINE h == [k \in 0 .. n |-> IF k = n THEN s[g[n - 1]] ELSE g[k]]
  <2>2. h \in [0 .. n -> S]
    BY <2>1
  <2>3. Good(h, n)
    BY <2>1
  <2> HIDE DEF h, Good
  <2>4. QED
    BY <2>2, <2>3
<1> HIDE DEF P
<1>3. N \in P
  BY <1>1, <1>2, UpTo
<1>4. QED
  BY <1>3 DEF P, IsRun

-----------------------------------------------------------------------------
\* No entry is taken for none.
LEMMA NoEntry ==
    /\ Bans!None \notin Bans!Entries /\ Bans!Never \notin Nat /\ MaxBans \in Nat /\ MaxBans > 0
    /\ \A e \in Bans!Entries : e # Bans!None
BY BanAssumption DEF Bans!BanConstants, Bans!None, Bans!Never, Bans!Entries

\* Entry b has left its list.
LeftList(nx, pv, hd, id, b, nx2, pv2, hd2) ==
    /\ \A e \in Bans!Entries : e # b => nx2[e] = (IF e = pv[b] THEN nx[b] ELSE nx[e])
    /\ \A e \in Bans!Entries : e # b => pv2[e] = (IF e = nx[b] THEN pv[b] ELSE pv[e])
    /\ DOMAIN hd2 = DOMAIN hd
    /\ \A i \in DOMAIN hd : hd2[i] = (IF pv[b] = Bans!None /\ i = id[b] THEN nx[b] ELSE hd[i])
    /\ nx2[b] = nx[b] \/ nx2[b] = Bans!None

\* The entries that are left are still linked, and none of them to the one that has left.
LEMMA LeaveIs ==
    ASSUME NEW nx, NEW pv, NEW hd, NEW id, NEW S \in SUBSET Bans!Entries, Links(nx, pv, hd, id, S), NEW b \in S,
           NEW nx2, NEW pv2, NEW hd2, NEW id2, LeftList(nx, pv, hd, id, b, nx2, pv2, hd2),
           \A e \in S : id[e] \in DOMAIN hd, \A e \in S \ {b} : id2[e] = id[e]
    PROVE  Links(nx2, pv2, hd2, id2, S \ {b}) /\ \A e \in S \ {b} : nx2[e] # b
<1> DEFINE T == S \ {b}
           after == nx[b]
           before == pv[b]
<1>1. /\ \A e \in S : nx[e] # Bans!None => nx[e] \in S /\ pv[nx[e]] = e /\ id[nx[e]] = id[e]
      /\ \A e \in S : pv[e] # Bans!None => pv[e] \in S /\ nx[pv[e]] = e
      /\ \A e \in S : pv[e] = Bans!None => hd[id[e]] = e
      /\ \A i \in DOMAIN hd : hd[i] # Bans!None => hd[i] \in S /\ id[hd[i]] = i /\ pv[hd[i]] = Bans!None
  BY DEF Links
<1>2. /\ \A e \in Bans!Entries : e # b => nx2[e] = (IF e = before THEN after ELSE nx[e])
      /\ \A e \in Bans!Entries : e # b => pv2[e] = (IF e = after THEN before ELSE pv[e])
      /\ DOMAIN hd2 = DOMAIN hd
      /\ \A i \in DOMAIN hd : hd2[i] = (IF before = Bans!None /\ i = id[b] THEN after ELSE hd[i])
  BY DEF LeftList
<1>3. \A e \in S : e \in Bans!Entries /\ e # Bans!None
  BY NoEntry
<1>4. (after # b /\ before # b) \/ (after = b /\ before = b)
  BY <1>1, <1>3
<1>5. \A e \in T : nx2[e] # b
  BY <1>1, <1>2, <1>3
<1>6. ASSUME NEW e \in T, nx2[e] # Bans!None
      PROVE  nx2[e] \in T /\ pv2[nx2[e]] = e /\ id2[nx2[e]] = id2[e]
  <2>1. CASE e = before
    <3>1. nx2[e] = after /\ nx[e] = b /\ id[b] = id[e]
      BY <1>1, <1>2, <1>3, <1>6, <2>1
    <3>2. after \in S /\ id[after] = id[b] /\ after # b
      BY <1>1, <1>5, <1>6, <3>1
    <3>3. pv2[after] = before
      BY <1>2, <1>3, <3>2
    <3>4. QED
      BY <2>1, <3>1, <3>2, <3>3
  <2>2. CASE e # before
    <3>1. nx2[e] = nx[e]
      BY <1>2, <1>3, <2>2
    <3>2. nx[e] \in S /\ pv[nx[e]] = e /\ id[nx[e]] = id[e] /\ nx[e] # b
      BY <1>1, <1>5, <1>6, <3>1
    <3>3. nx[e] # after
      BY <1>1, <1>6, <3>1, <3>2
    <3>4. pv2[nx[e]] = e
      BY <1>2, <1>3, <3>2, <3>3
    <3>5. QED
      BY <3>1, <3>2, <3>4
  <2>3. QED
    BY <2>1, <2>2
<1>7. ASSUME NEW e \in T, pv2[e] # Bans!None
      PROVE  pv2[e] \in T /\ nx2[pv2[e]] = e
  <2>1. CASE e = after
    <3>1. pv2[e] = before
      BY <1>2, <1>3, <2>1
    <3>2. before \in S /\ nx[before] = b /\ before # b
      BY <1>1, <1>4, <1>7, <2>1, <3>1
    <3>3. nx2[before] = after
      BY <1>2, <1>3, <3>2
    <3>4. QED
      BY <2>1, <3>1, <3>2, <3>3
  <2>2. CASE e # after
    <3>1. pv2[e] = pv[e]
      BY <1>2, <1>3, <2>2
    <3>2. pv[e] \in S /\ nx[pv[e]] = e
      BY <1>1, <1>7, <3>1
    <3>3. pv[e] # b /\ pv[e] # before
      BY <1>1, <1>3, <2>2, <3>2
    <3>4. nx2[pv[e]] = e
      BY <1>2, <1>3, <3>2, <3>3
    <3>5. QED
      BY <3>1, <3>2, <3>3, <3>4
  <2>3. QED
    BY <2>1, <2>2
<1>8. ASSUME NEW e \in T, pv2[e] = Bans!None
      PROVE  hd2[id2[e]] = e
  <2>1. id2[e] = id[e] /\ id[e] \in DOMAIN hd
    OBVIOUS
  <2>2. CASE e = after
    <3>1. before = Bans!None /\ id[e] = id[b]
      BY <1>1, <1>2, <1>3, <1>8, <2>2
    <3>2. QED
      BY <1>2, <2>1, <2>2, <3>1
  <2>3. CASE e # after
    <3>1. pv[e] = Bans!None /\ hd[id[e]] = e
      BY <1>1, <1>2, <1>3, <1>8, <2>3
    <3>2. ~(before = Bans!None /\ id[e] = id[b])
      BY <1>1, <3>1
    <3>3. QED
      BY <1>2, <2>1, <3>1, <3>2
  <2>4. QED
    BY <2>2, <2>3
<1>9. ASSUME NEW i \in DOMAIN hd2, hd2[i] # Bans!None
      PROVE  hd2[i] \in T /\ id2[hd2[i]] = i /\ pv2[hd2[i]] = Bans!None
  <2>1. CASE before = Bans!None /\ i = id[b]
    <3>1. hd2[i] = after
      BY <1>2, <2>1
    <3>2. after \in S /\ id[after] = i /\ pv[after] = b /\ after # b
      BY <1>1, <1>3, <1>4, <1>9, <2>1, <3>1
    <3>3. pv2[after] = Bans!None
      BY <1>2, <1>3, <2>1, <3>2
    <3>4. QED
      BY <3>1, <3>2, <3>3
  <2>2. CASE ~(before = Bans!None /\ i = id[b])
    <3>1. hd2[i] = hd[i]
      BY <1>2, <2>2
    <3>2. hd[i] \in S /\ id[hd[i]] = i /\ pv[hd[i]] = Bans!None
      BY <1>1, <1>2, <1>9, <3>1
    <3>3. hd[i] # b /\ hd[i] # after
      BY <1>1, <1>3, <2>2, <3>2
    <3>4. pv2[hd[i]] = Bans!None
      BY <1>2, <1>3, <3>2, <3>3
    <3>5. QED
      BY <3>1, <3>2, <3>3, <3>4
  <2>3. QED
    BY <2>1, <2>2
<1>10. QED
  BY <1>5, <1>6, <1>7, <1>8, <1>9 DEF Links

\* A list still ends when an entry has left it.
LEMMA LeaveEnds ==
    ASSUME NEW nx, NEW pv, NEW hd, NEW id, NEW S \in SUBSET Bans!Entries, Links(nx, pv, hd, id, S), NEW b \in S,
           NEW nx2, NEW pv2, NEW hd2, LeftList(nx, pv, hd, id, b, nx2, pv2, hd2), Ends(nx)
    PROVE  Ends(nx2)
<1>0. PICK N \in Nat : \E rank \in [Bans!Entries -> 0 .. N] : Downhill(nx, rank)
  BY DEF Ends
<1>1. PICK rank \in [Bans!Entries -> 0 .. N] : Downhill(nx, rank)
  BY <1>0
<1>2. pv[b] # Bans!None => pv[b] \in S /\ nx[pv[b]] = b
  BY DEF Links
<1>3. ASSUME NEW e \in Bans!Entries, nx2[e] # Bans!None
      PROVE  rank[nx2[e]] < rank[e]
  <2>1. CASE e = b
    BY <1>1, <1>3, <2>1 DEF LeftList, Downhill
  <2>2. CASE e # b /\ e # pv[b]
    BY <1>1, <1>3, <2>2 DEF LeftList, Downhill
  <2>3. CASE e # b /\ e = pv[b]
    <3>1. nx2[e] = nx[b] /\ nx[e] = b
      BY <1>2, <2>3, NoEntry DEF LeftList
    <3>2. rank[nx[b]] < rank[b] /\ rank[b] < rank[e]
      BY <1>1, <1>3, <3>1, NoEntry DEF Downhill
    <3>3. rank[b] \in Int /\ rank[e] \in Int /\ nx[b] \in S
      <4>1. nx[b] \in S
        BY <1>3, <3>1 DEF Links
      <4>2. QED
        BY <1>1, <4>1
    <3>4. rank[nx[b]] \in Int
      BY <1>1, <3>3
    <3>5. QED
      BY <3>1, <3>2, <3>3, <3>4
  <2>4. QED
    BY <2>1, <2>2, <2>3
<1>4. Downhill(nx2, rank)
  BY <1>3 DEF Downhill
<1>5. QED
  BY <1>1, <1>4 DEF Ends

\* Entry b has joined list i between two entries that follow each other.
JoinedList(nx, pv, hd, i, before, b, after, nx2, pv2, hd2) ==
    /\ \A e \in Bans!Entries : nx2[e] = (IF e = b THEN after ELSE IF e = before THEN b ELSE nx[e])
    /\ \A e \in Bans!Entries : pv2[e] = (IF e = b THEN before ELSE IF e = after THEN b ELSE pv[e])
    /\ DOMAIN hd2 = DOMAIN hd
    /\ \A j \in DOMAIN hd : hd2[j] = (IF j = i /\ before = Bans!None THEN b ELSE hd[j])
Place(nx, pv, hd, id, i, before, after) ==
    /\ before = Bans!None => hd[i] = after
    /\ before # Bans!None => nx[before] = after /\ id[before] = i
    /\ after # Bans!None => pv[after] = before /\ id[after] = i

\* An entry that is put between two neighbours is linked with the rest.
LEMMA JoinIs ==
    ASSUME NEW nx, NEW pv, NEW hd, NEW id, NEW S \in SUBSET Bans!Entries, Links(nx, pv, hd, id, S), NEW b \in Bans!Entries \ S,
           NEW i \in DOMAIN hd, NEW before \in S \cup {Bans!None}, NEW after \in S \cup {Bans!None},
           Place(nx, pv, hd, id, i, before, after),
           NEW nx2, NEW pv2, NEW hd2, NEW id2, JoinedList(nx, pv, hd, i, before, b, after, nx2, pv2, hd2),
           \A e \in S : id[e] \in DOMAIN hd, \A e \in S : id2[e] = id[e], id2[b] = i
    PROVE  Links(nx2, pv2, hd2, id2, S \cup {b})
<1> DEFINE T == S \cup {b}
<1>1. /\ \A e \in S : nx[e] # Bans!None => nx[e] \in S /\ pv[nx[e]] = e /\ id[nx[e]] = id[e]
      /\ \A e \in S : pv[e] # Bans!None => pv[e] \in S /\ nx[pv[e]] = e
      /\ \A e \in S : pv[e] = Bans!None => hd[id[e]] = e
      /\ \A j \in DOMAIN hd : hd[j] # Bans!None => hd[j] \in S /\ id[hd[j]] = j /\ pv[hd[j]] = Bans!None
  BY DEF Links
<1>2. /\ \A e \in Bans!Entries : nx2[e] = (IF e = b THEN after ELSE IF e = before THEN b ELSE nx[e])
      /\ \A e \in Bans!Entries : pv2[e] = (IF e = b THEN before ELSE IF e = after THEN b ELSE pv[e])
      /\ DOMAIN hd2 = DOMAIN hd
      /\ \A j \in DOMAIN hd : hd2[j] = (IF j = i /\ before = Bans!None THEN b ELSE hd[j])
  BY DEF JoinedList
<1>3. /\ before = Bans!None => hd[i] = after
      /\ before # Bans!None => nx[before] = after /\ id[before] = i
      /\ after # Bans!None => pv[after] = before /\ id[after] = i
  BY DEF Place
<1>4. /\ \A e \in S : e \in Bans!Entries /\ e # Bans!None /\ e # b
      /\ b # Bans!None /\ b # before /\ b # after
  BY NoEntry
<1>5. nx2[b] = after /\ pv2[b] = before
  BY <1>2
<1>6. ASSUME NEW e \in T, nx2[e] # Bans!None
      PROVE  nx2[e] \in T /\ pv2[nx2[e]] = e /\ id2[nx2[e]] = id2[e]
  <2>1. CASE e = b
    <3>1. nx2[e] = after /\ after \in S
      BY <1>5, <1>6, <2>1
    <3>2. pv2[after] = b /\ id2[after] = i
      BY <1>2, <1>3, <1>4, <3>1
    <3>3. QED
      BY <2>1, <3>1, <3>2
  <2>2. CASE e = before
    <3>1. e \in S /\ nx2[e] = b
      BY <1>2, <1>4, <1>6, <2>2
    <3>2. id2[e] = i
      BY <1>3, <1>4, <2>2, <3>1
    <3>3. QED
      BY <1>5, <2>2, <3>1, <3>2
  <2>3. CASE e # b /\ e # before
    <3>1. e \in S /\ nx2[e] = nx[e]
      BY <1>2, <1>4, <1>6, <2>3
    <3>2. nx[e] \in S /\ pv[nx[e]] = e /\ id[nx[e]] = id[e]
      BY <1>1, <1>6, <3>1
    <3>3. nx[e] # after
      BY <1>3, <1>4, <2>3, <3>2
    <3>4. pv2[nx[e]] = e
      BY <1>2, <1>4, <3>2, <3>3
    <3>5. QED
      BY <3>1, <3>2, <3>4
  <2>4. QED
    BY <2>1, <2>2, <2>3
<1>7. ASSUME NEW e \in T, pv2[e] # Bans!None
      PROVE  pv2[e] \in T /\ nx2[pv2[e]] = e
  <2>1. CASE e = b
    <3>1. pv2[e] = before /\ before \in S
      BY <1>5, <1>7, <2>1
    <3>2. nx2[before] = b
      BY <1>2, <1>4, <3>1
    <3>3. QED
      BY <2>1, <3>1, <3>2
  <2>2. CASE e = after
    <3>1. e \in S /\ pv2[e] = b
      BY <1>2, <1>4, <1>7, <2>2
    <3>2. QED
      BY <1>5, <2>2, <3>1
  <2>3. CASE e # b /\ e # after
    <3>1. e \in S /\ pv2[e] = pv[e]
      BY <1>2, <1>4, <1>7, <2>3
    <3>2. pv[e] \in S /\ nx[pv[e]] = e
      BY <1>1, <1>7, <3>1
    <3>3. pv[e] # before
      BY <1>3, <1>4, <2>3, <3>2
    <3>4. nx2[pv[e]] = e
      BY <1>2, <1>4, <3>2, <3>3
    <3>5. QED
      BY <3>1, <3>2, <3>4
  <2>4. QED
    BY <2>1, <2>2, <2>3
<1>8. ASSUME NEW e \in T, pv2[e] = Bans!None
      PROVE  hd2[id2[e]] = e
  <2>1. CASE e = b
    BY <1>2, <1>5, <1>8, <2>1
  <2>2. CASE e # b
    <3>1. e \in S /\ e # after /\ pv[e] = Bans!None
      BY <1>2, <1>4, <1>8, <2>2
    <3>2. hd[id[e]] = e /\ id2[e] = id[e] /\ id[e] \in DOMAIN hd
      BY <1>1, <3>1
    <3>3. ~(id[e] = i /\ before = Bans!None)
      BY <1>3, <3>1, <3>2
    <3>4. QED
      BY <1>2, <3>2, <3>3
  <2>3. QED
    BY <2>1, <2>2
<1>9. ASSUME NEW j \in DOMAIN hd2, hd2[j] # Bans!None
      PROVE  hd2[j] \in T /\ id2[hd2[j]] = j /\ pv2[hd2[j]] = Bans!None
  <2>1. CASE j = i /\ before = Bans!None
    BY <1>2, <1>5, <2>1
  <2>2. CASE ~(j = i /\ before = Bans!None)
    <3>1. hd2[j] = hd[j]
      BY <1>2, <2>2
    <3>2. hd[j] \in S /\ id[hd[j]] = j /\ pv[hd[j]] = Bans!None
      BY <1>1, <1>2, <1>9, <3>1
    <3>3. hd[j] # after
      BY <1>3, <1>4, <2>2, <3>2
    <3>4. pv2[hd[j]] = Bans!None
      BY <1>2, <1>4, <3>2, <3>3
    <3>5. QED
      BY <3>1, <3>2, <3>4
  <2>3. QED
    BY <2>1, <2>2
<1>10. QED
  BY <1>6, <1>7, <1>8, <1>9 DEF Links

\* A list still ends when an entry has joined it.
LEMMA JoinEnds ==
    ASSUME NEW nx \in [Bans!Entries -> MaybeEntry], NEW pv, NEW hd, NEW id, NEW b \in Bans!Entries,
           NEW i, NEW before \in MaybeEntry, NEW after \in MaybeEntry, before # b, after # b,
           Place(nx, pv, hd, id, i, before, after), \A e \in Bans!Entries \ {b} : nx[e] # b,
           NEW nx2, NEW pv2, NEW hd2, JoinedList(nx, pv, hd, i, before, b, after, nx2, pv2, hd2), Ends(nx)
    PROVE  Ends(nx2)
<1>0. PICK N \in Nat : \E rank \in [Bans!Entries -> 0 .. N] : Downhill(nx, rank)
  BY DEF Ends
<1>1. PICK rank \in [Bans!Entries -> 0 .. N] : Downhill(nx, rank)
  BY <1>0
<1> DEFINE M == 2 * N + 2
           high == [e \in Bans!Entries |-> IF e # b THEN 2 * rank[e] + 1
                                      ELSE IF after = Bans!None THEN 0 ELSE 2 * rank[after] + 2]
<1>2. \A e \in Bans!Entries : rank[e] \in 0 .. N
  BY <1>1
<1>3. M \in Nat /\ high \in [Bans!Entries -> 0 .. M]
  <2>1. \A e \in Bans!Entries : high[e] \in 0 .. M
    <3> TAKE e \in Bans!Entries
    <3>1. CASE e # b
      <4>1. rank[e] \in 0 .. N
        BY <1>2
      <4>2. QED
        BY <3>1, <4>1
    <3>2. CASE e = b /\ after = Bans!None
      BY <3>2
    <3>3. CASE e = b /\ after # Bans!None
      <4>1. rank[after] \in 0 .. N
        BY <1>2, <3>3 DEF MaybeEntry
      <4>2. QED
        BY <3>3, <4>1
    <3>4. QED
      BY <3>1, <3>2, <3>3
  <2>2. QED
    BY <2>1
<1>4. ASSUME NEW e \in Bans!Entries, nx2[e] # Bans!None
      PROVE  high[nx2[e]] < high[e]
  <2>1. CASE e = b
    <3>1. nx2[e] = after /\ after \in Bans!Entries /\ after # b
      BY <1>4, <2>1 DEF JoinedList, MaybeEntry
    <3>2. high[after] = 2 * rank[after] + 1 /\ high[b] = 2 * rank[after] + 2 /\ rank[after] \in Int
      BY <1>2, <1>4, <3>1
    <3>3. QED
      BY <2>1, <3>1, <3>2
  <2>2. CASE e # b /\ e = before
    <3>1. nx2[e] = b /\ nx[e] = after /\ high[e] = 2 * rank[e] + 1 /\ rank[e] \in Nat
      BY <1>2, <2>2, NoEntry DEF JoinedList, Place
    <3>2. CASE after = Bans!None
      BY <3>1, <3>2
    <3>3. CASE after # Bans!None
      <4>1. rank[after] < rank[e] /\ rank[after] \in Int
        BY <1>1, <1>2, <3>1, <3>3 DEF Downhill, MaybeEntry
      <4>2. high[b] = 2 * rank[after] + 2
        BY <3>3
      <4>3. QED
        BY <3>1, <4>1, <4>2
    <3>4. QED
      BY <3>2, <3>3
  <2>3. CASE e # b /\ e # before
    <3>1. nx2[e] = nx[e] /\ nx[e] # b /\ nx[e] \in Bans!Entries
      BY <1>4, <2>3 DEF JoinedList, MaybeEntry
    <3>2. rank[nx[e]] < rank[e] /\ rank[nx[e]] \in Int /\ rank[e] \in Int
      BY <1>1, <1>2, <1>4, <3>1 DEF Downhill
    <3>3. high[nx[e]] = 2 * rank[nx[e]] + 1 /\ high[e] = 2 * rank[e] + 1
      BY <2>3, <3>1
    <3>4. QED
      BY <3>1, <3>2, <3>3
  <2>4. QED
    BY <2>1, <2>2, <2>3
<1> HIDE DEF M, high
<1>5. Downhill(nx2, high)
  BY <1>4 DEF Downhill
<1>6. QED
  BY <1>3, <1>5 DEF Ends

\* The entries from i on, in the order in which they are linked.
IsChain(nx, i, s) ==
    /\ s \in Seq(Bans!Entries)
    /\ i = Bans!None => s = << >>
    /\ i # Bans!None => /\ Len(s) > 0 /\ s[1] = i /\ nx[s[Len(s)]] = Bans!None
                        /\ \A k \in 1 .. Len(s) - 1 : nx[s[k]] # Bans!None /\ s[k + 1] = nx[s[k]]

\* A chain of one entry
LEMMA OneIsChain ==
    ASSUME NEW nx, NEW e \in Bans!Entries, nx[e] = Bans!None
    PROVE  IsChain(nx, e, <<e>>)
BY NoEntry DEF IsChain

\* A chain with one more entry in front
LEMMA MoreIsChain ==
    ASSUME NEW nx, NEW e \in Bans!Entries, nx[e] # Bans!None, NEW s, IsChain(nx, nx[e], s)
    PROVE  IsChain(nx, e, <<e>> \o s)
<1> DEFINE t == <<e>> \o s
<1>1. s \in Seq(Bans!Entries) /\ Len(s) \in Nat /\ Len(s) > 0 /\ s[1] = nx[e] /\ nx[s[Len(s)]] = Bans!None
      /\ \A k \in 1 .. Len(s) - 1 : nx[s[k]] # Bans!None /\ s[k + 1] = nx[s[k]]
  BY DEF IsChain
<1>2. t \in Seq(Bans!Entries) /\ Len(t) = Len(s) + 1 /\ t[1] = e /\ \A k \in 1 .. Len(s) : t[k + 1] = s[k]
  BY <1>1
<1>3. nx[t[Len(t)]] = Bans!None
  BY <1>1, <1>2
<1>4. ASSUME NEW k \in 1 .. Len(t) - 1
      PROVE  nx[t[k]] # Bans!None /\ t[k + 1] = nx[t[k]]
  <2>1. CASE k = 1
    BY <1>1, <1>2, <2>1
  <2>2. CASE k > 1
    <3>1. k - 1 \in 1 .. Len(s) - 1 /\ k \in 1 .. Len(s) /\ k - 1 \in 1 .. Len(s)
      BY <1>1, <1>2, <2>2
    <3>2. t[k] = s[k - 1] /\ t[k + 1] = s[k]
      <4>1. t[(k - 1) + 1] = s[k - 1] /\ t[k + 1] = s[k]
        BY <1>2, <3>1
      <4>2. (k - 1) + 1 = k
        OBVIOUS
      <4>3. QED
        BY <4>1, <4>2
    <3>3. nx[s[k - 1]] # Bans!None /\ s[(k - 1) + 1] = nx[s[k - 1]]
      BY <1>1, <3>1
    <3>4. (k - 1) + 1 = k
      OBVIOUS
    <3>5. QED
      BY <3>2, <3>3, <3>4
  <2>3. k = 1 \/ k > 1
    BY <1>1, <1>2
  <2>4. QED
    BY <2>1, <2>2, <2>3
<1> HIDE DEF t
<1>5. Len(t) > 0
  BY <1>1, <1>2
<1>6. IsChain(nx, e, t)
  BY <1>2, <1>3, <1>4, <1>5, NoEntry DEF IsChain
<1>7. QED
  BY <1>6 DEF t

\* Linked follows a list that ends entry by entry.
LEMMA LinkedIs ==
    ASSUME NEW nx \in [Bans!Entries -> MaybeEntry], Ends(nx), NEW i \in MaybeEntry
    PROVE  IsChain(nx, i, Bans!Linked(nx, i))
<1>1. CASE i = Bans!None
  BY <1>1 DEF Bans!Linked, IsChain
<1>2. CASE i # Bans!None
  <2> DEFINE E(g) == [e \in Bans!Entries |-> IF nx[e] = Bans!None THEN <<e>> ELSE <<e>> \o g[nx[e]]]
             from == CHOOSE g : g = E(g)
  <2>0. PICK N \in Nat : \E rank \in [Bans!Entries -> 0 .. N] : Downhill(nx, rank)
    BY DEF Ends
  <2>1. PICK rank \in [Bans!Entries -> 0 .. N] : Downhill(nx, rank)
    BY <2>0
  <2>2. /\ \A e \in Bans!Entries : rank[e] \in 0 .. N
        /\ \A e \in Bans!Entries : nx[e] # Bans!None => nx[e] \in Bans!Entries /\ rank[nx[e]] < rank[e]
    BY <2>1 DEF Downhill, MaybeEntry
  <2>3. \A g \in [Bans!Entries -> Seq(Bans!Entries)] : E(g) \in [Bans!Entries -> Seq(Bans!Entries)]
    <3> TAKE g \in [Bans!Entries -> Seq(Bans!Entries)]
    <3>1. \A e \in Bans!Entries : E(g)[e] \in Seq(Bans!Entries)
      <4> TAKE e \in Bans!Entries
      <4>1. CASE nx[e] = Bans!None
        BY <4>1
      <4>2. CASE nx[e] # Bans!None
        <5>1. nx[e] \in Bans!Entries /\ g[nx[e]] \in Seq(Bans!Entries)
          BY <2>2, <4>2
        <5>2. <<e>> \o g[nx[e]] \in Seq(Bans!Entries)
          BY <5>1
        <5>3. QED
          BY <4>2, <5>2
      <4>3. QED
        BY <4>1, <4>2
    <3>2. QED
      BY <3>1
  <2>4. \A g : \A e \in Bans!Entries : E(g)[e] = (IF nx[e] = Bans!None THEN <<e>> ELSE <<e>> \o g[nx[e]])
    OBVIOUS
  <2>5. \A g : DOMAIN E(g) = Bans!Entries
    OBVIOUS
  <2> DEFINE Fits(g, n) == \A e \in Bans!Entries : rank[e] < n => g[e] = E(g)[e]
             P == {n \in 0 .. N + 1 : \E g \in [Bans!Entries -> Seq(Bans!Entries)] : Fits(g, n)}
  <2>6. 0 \in P
    <3> DEFINE g == [e \in Bans!Entries |-> << >>]
    <3>1. g \in [Bans!Entries -> Seq(Bans!Entries)]
      OBVIOUS
    <3>2. Fits(g, 0)
      <4> SUFFICES ASSUME NEW e \in Bans!Entries, rank[e] < 0 PROVE FALSE
        OBVIOUS
      <4>1. QED
        BY <2>2
    <3> HIDE DEF g, Fits
    <3>3. QED
      BY <3>1, <3>2
  <2>7. ASSUME NEW n \in 1 .. N + 1, n - 1 \in P
        PROVE  n \in P
    <3>1. PICK g \in [Bans!Entries -> Seq(Bans!Entries)] : Fits(g, n - 1)
      BY <2>7
    <3>2. E(g) \in [Bans!Entries -> Seq(Bans!Entries)]
      BY <2>3
    <3>3. ASSUME NEW e \in Bans!Entries, rank[e] < n
          PROVE  E(g)[e] = E(E(g))[e]
      <4>1. CASE nx[e] = Bans!None
        <5> HIDE DEF E
        <5>1. QED
          BY <2>4, <4>1
      <4>2. CASE nx[e] # Bans!None
        <5>1. nx[e] \in Bans!Entries /\ rank[nx[e]] < n - 1
          <6>1. nx[e] \in Bans!Entries /\ rank[nx[e]] < rank[e] /\ rank[e] \in Int /\ rank[nx[e]] \in Int
            BY <2>2, <4>2
          <6>2. QED
            BY <3>3, <6>1
        <5>2. g[nx[e]] = E(g)[nx[e]]
          BY <3>1, <5>1
        <5> HIDE DEF E
        <5>3. QED
          BY <2>4, <4>2, <5>2
      <4>3. QED
        BY <4>1, <4>2
    <3>4. Fits(E(g), n)
      BY <3>3
    <3> DEFINE h == E(g)
    <3>5. h \in [Bans!Entries -> Seq(Bans!Entries)] /\ Fits(h, n)
      BY <3>2, <3>4
    <3> HIDE DEF h, Fits
    <3>6. QED
      BY <3>5
  <2>8. N + 1 \in P
    <3> HIDE DEF P
    <3>1. N + 1 \in Nat
      OBVIOUS
    <3>2. QED
      BY <2>6, <2>7, <3>1, UpTo
  <2>9. PICK g \in [Bans!Entries -> Seq(Bans!Entries)] : Fits(g, N + 1)
    BY <2>8
  <2>10. g = E(g)
    <3>1. \A e \in Bans!Entries : rank[e] < N + 1
      BY <2>2
    <3>2. \A e \in Bans!Entries : g[e] = E(g)[e]
      BY <2>9, <3>1
    <3>3. E(g) \in [Bans!Entries -> Seq(Bans!Entries)]
      BY <2>3
    <3> HIDE DEF E
    <3>4. QED
      BY <3>2, <3>3
  <2>11. from = E(from)
    <3> HIDE DEF E
    <3>1. QED
      BY <2>10
  <2>12. \A e \in Bans!Entries : from[e] = (IF nx[e] = Bans!None THEN <<e>> ELSE <<e>> \o from[nx[e]])
    <3> HIDE DEF E, from
    <3>1. QED
      BY <2>4, <2>11
  <2>13. Bans!Linked(nx, i) = from[i]
    BY <1>2 DEF Bans!Linked
  <2> HIDE DEF from
  <2> DEFINE Q == {n \in 0 .. N + 1 : \A e \in Bans!Entries : rank[e] < n => IsChain(nx, e, from[e])}
  <2>14. 0 \in Q
    BY <2>2
  <2>15. ASSUME NEW n \in 1 .. N + 1, n - 1 \in Q
         PROVE  n \in Q
    <3>1. ASSUME NEW e \in Bans!Entries, rank[e] < n
          PROVE  IsChain(nx, e, from[e])
      <4>1. CASE nx[e] = Bans!None
        BY <2>12, <4>1, OneIsChain
      <4>2. CASE nx[e] # Bans!None
        <5>1. nx[e] \in Bans!Entries /\ rank[nx[e]] < n - 1
          <6>1. nx[e] \in Bans!Entries /\ rank[nx[e]] < rank[e] /\ rank[e] \in Int /\ rank[nx[e]] \in Int
            BY <2>2, <4>2
          <6>2. QED
            BY <3>1, <6>1
        <5>2. IsChain(nx, nx[e], from[nx[e]])
          BY <2>15, <5>1
        <5>3. from[e] = <<e>> \o from[nx[e]]
          BY <2>12, <4>2
        <5>4. QED
          BY <4>2, <5>2, <5>3, MoreIsChain
      <4>3. QED
        BY <4>1, <4>2
    <3>2. QED
      BY <3>1
  <2>16. N + 1 \in Q
    <3> HIDE DEF Q, P, Fits, E
    <3> DEFINE M == N + 1
    <3>1. M \in Nat /\ M \in 0 .. M
      OBVIOUS
    <3>2. \A n \in 1 .. M : n - 1 \in Q => n \in Q
      BY <2>15
    <3> HIDE DEF M
    <3>3. \A n \in 0 .. M : n \in Q
      BY <2>14, <3>1, <3>2, UpTo
    <3>4. M \in Q
      BY <3>1, <3>3
    <3>5. QED
      BY <3>4 DEF M
  <2>17. i \in Bans!Entries /\ rank[i] < N + 1
    BY <1>2, <2>2 DEF MaybeEntry
  <2>18. QED
    BY <2>13, <2>16, <2>17
<1>3. QED
  BY <1>1, <1>2

\* The entries of a sequence.
Elems(s) == {s[k] : k \in 1 .. Len(s)}

\* What is linked from the head of a list is the list.
LEMMA ListHolds ==
    ASSUME NEW nx \in [Bans!Entries -> MaybeEntry], NEW pv, NEW hd, NEW id, NEW S \in SUBSET Bans!Entries,
           Links(nx, pv, hd, id, S), Ends(nx), NEW i \in DOMAIN hd, hd[i] \in MaybeEntry
    PROVE  Elems(Bans!Linked(nx, hd[i])) = {e \in S : id[e] = i}
<1> DEFINE s == Bans!Linked(nx, hd[i])
           T == {e \in S : id[e] = i}
<1>1. /\ \A e \in S : nx[e] # Bans!None => nx[e] \in S /\ pv[nx[e]] = e /\ id[nx[e]] = id[e]
      /\ \A e \in S : pv[e] # Bans!None => pv[e] \in S /\ nx[pv[e]] = e
      /\ \A e \in S : pv[e] = Bans!None => hd[id[e]] = e
      /\ hd[i] # Bans!None => hd[i] \in S /\ id[hd[i]] = i /\ pv[hd[i]] = Bans!None
  BY DEF Links
<1>2. IsChain(nx, hd[i], s)
  BY LinkedIs
<1> HIDE DEF s
<1>3. s \in Seq(Bans!Entries) /\ Len(s) \in Nat
  BY <1>2 DEF IsChain
<1>4. Elems(s) \subseteq T
  <2>1. CASE hd[i] = Bans!None
    BY <1>2, <2>1 DEF IsChain, Elems
  <2>2. CASE hd[i] # Bans!None
    <3>1. Len(s) > 0 /\ s[1] = hd[i] /\ \A k \in 1 .. Len(s) - 1 : nx[s[k]] # Bans!None /\ s[k + 1] = nx[s[k]]
      BY <1>2, <2>2 DEF IsChain
    <3> DEFINE N == Len(s) - 1
               P == {k \in 0 .. N : s[k + 1] \in T}
    <3>2. 0 \in P
      BY <1>1, <1>3, <2>2, <3>1
    <3>3. ASSUME NEW k \in 1 .. N, k - 1 \in P
          PROVE  k \in P
      <4>1. s[k] \in T
        <5>1. (k - 1) + 1 = k
          BY <1>3
        <5>2. QED
          BY <3>3, <5>1
      <4>2. nx[s[k]] # Bans!None /\ s[k + 1] = nx[s[k]]
        BY <3>1
      <4>3. s[k + 1] \in T
        BY <1>1, <4>1, <4>2
      <4>4. k \in 0 .. N
        BY <1>3
      <4>5. QED
        BY <4>3, <4>4
    <3>4. \A k \in 0 .. N : k \in P
      <4>1. N \in Nat
        BY <1>3, <3>1
      <4> HIDE DEF N, P
      <4>2. QED
        BY <3>2, <3>3, <4>1, UpTo
    <3>5. ASSUME NEW k \in 1 .. Len(s)
          PROVE  s[k] \in T
      <4>1. k - 1 \in 0 .. N /\ (k - 1) + 1 = k
        BY <1>3
      <4>2. QED
        BY <3>4, <4>1
    <3>6. QED
      BY <3>5 DEF Elems
  <2>3. QED
    BY <2>1, <2>2
<1>5. ASSUME T \ Elems(s) # {}
      PROVE  FALSE
  <2>0. PICK N \in Nat : \E rank \in [Bans!Entries -> 0 .. N] : Downhill(nx, rank)
    BY DEF Ends
  <2>1. PICK rank \in [Bans!Entries -> 0 .. N] : Downhill(nx, rank)
    BY <2>0
  <2> DEFINE X == {N - rank[e] : e \in T \ Elems(s)}
  <2>2. PICK y \in X : \A z \in X : y <= z
    <3>1. X \subseteq Nat
      BY <2>1
    <3>2. X # {}
      BY <1>5
    <3> HIDE DEF X
    <3>3. QED
      BY <3>1, <3>2, LeastExists
  <2>3. PICK e \in T \ Elems(s) : y = N - rank[e]
    BY <2>2
  <2>4. CASE pv[e] = Bans!None
    <3>1. hd[i] = e /\ e # Bans!None
      BY <1>1, <2>3, <2>4, NoEntry
    <3>2. Len(s) > 0 /\ s[1] = e
      BY <1>2, <3>1 DEF IsChain
    <3>3. e \in Elems(s)
      BY <1>3, <3>2 DEF Elems
    <3>4. QED
      BY <2>3, <3>3
  <2>5. CASE pv[e] # Bans!None
    <3> DEFINE q == pv[e]
    <3>1. q \in S /\ nx[q] = e /\ e # Bans!None
      BY <1>1, <2>3, <2>5, NoEntry
    <3>2. q \in T /\ rank[e] < rank[q]
      BY <1>1, <2>1, <2>3, <3>1 DEF Downhill
    <3>3. q \in Elems(s)
      <4> SUFFICES ASSUME q \notin Elems(s) PROVE FALSE
        OBVIOUS
      <4>1. N - rank[q] \in X
        BY <3>2
      <4>2. rank[q] \in Int /\ rank[e] \in Int
        BY <2>1, <2>3, <3>1
      <4>3. y <= N - rank[q]
        BY <2>2, <4>1
      <4> HIDE DEF q, X
      <4>4. QED
        BY <2>3, <3>2, <4>2, <4>3
    <3> HIDE DEF q
    <3>4. PICK k \in 1 .. Len(s) : s[k] = q
      BY <3>3 DEF Elems
    <3>5. hd[i] # Bans!None
      BY <1>2, <1>3, <3>4 DEF IsChain
    <3>6. /\ nx[s[Len(s)]] = Bans!None
          /\ \A j \in 1 .. Len(s) - 1 : s[j + 1] = nx[s[j]]
      BY <1>2, <3>5 DEF IsChain
    <3>7. k \in 1 .. Len(s) - 1
      <4>1. k # Len(s)
        BY <3>1, <3>4, <3>6
      <4>2. QED
        BY <1>3, <4>1
    <3>8. s[k + 1] = e /\ k + 1 \in 1 .. Len(s)
      BY <1>3, <3>1, <3>4, <3>6, <3>7
    <3>9. e \in Elems(s)
      BY <3>8 DEF Elems
    <3>10. QED
      BY <2>3, <3>9
  <2>6. QED
    BY <2>4, <2>5
<1>6. QED
  BY <1>4, <1>5 DEF s

\* A record of a pool, field by field.
Rec(next, prev, hashNext, hashPrev, data, expires, bucket, firstFree, firstUsed, count) ==
    [next |-> next, prev |-> prev, hashNext |-> hashNext, hashPrev |-> hashPrev, data |-> data,
     expires |-> expires, bucket |-> bucket, firstFree |-> firstFree, firstUsed |-> firstUsed, count |-> count]

\* The fields of a pool
LEMMA PoolIs ==
    ASSUME NEW p \in Pools
    PROVE  /\ p = Rec(p.next, p.prev, p.hashNext, p.hashPrev, p.data, p.expires, p.bucket, p.firstFree, p.firstUsed, p.count)
           /\ p.next \in [Bans!Entries -> MaybeEntry] /\ p.prev \in [Bans!Entries -> MaybeEntry]
           /\ p.hashNext \in [Bans!Entries -> MaybeEntry] /\ p.hashPrev \in [Bans!Entries -> MaybeEntry]
           /\ p.data \in [Bans!Entries -> (UNION Plans) \cup {Bans!NoData}] /\ p.expires \in [Bans!Entries -> Nat \cup {Bans!Never}]
           /\ p.bucket \in [Bans!Hashes -> MaybeEntry] /\ p.firstFree \in MaybeEntry /\ p.firstUsed \in MaybeEntry
           /\ p.count \in Nat
BY DEF Pools, Rec

\* The fields that hold what the entries are and in which bucket.
SameContent(p, q) ==
    /\ q.hashNext = p.hashNext /\ q.hashPrev = p.hashPrev /\ q.data = p.data /\ q.expires = p.expires
    /\ q.bucket = p.bucket /\ q.count = p.count

Lists == {"used", "free"}

\* Unlinked takes an entry out of the list of used or of free ones.
LEMMA UnlinkedIs ==
    ASSUME NEW p \in Pools, NEW id \in [Bans!Entries -> Lists], NEW b \in Bans!Entries,
           Links(p.next, p.prev, Firsts(p), id, Bans!Entries), NEW first,
           (first = "firstUsed" /\ id[b] = "used") \/ (first = "firstFree" /\ id[b] = "free")
    PROVE  LET q == Bans!Unlinked(p, b, first)
           IN /\ q \in Pools /\ SameContent(p, q)
              /\ LeftList(p.next, p.prev, Firsts(p), id, b, q.next, q.prev, Firsts(q))
<1> DEFINE q == Bans!Unlinked(p, b, first)
           prev == IF p.next[b] = Bans!None THEN p.prev ELSE [p.prev EXCEPT ![p.next[b]] = p.prev[b]]
           next == IF p.prev[b] = Bans!None THEN p.next ELSE [p.next EXCEPT ![p.prev[b]] = p.next[b]]
           head == IF p.prev[b] = Bans!None THEN p.next[b] ELSE IF first = "firstUsed" THEN p.firstUsed ELSE p.firstFree
           used == IF first = "firstUsed" THEN head ELSE p.firstUsed
           free == IF first = "firstFree" THEN head ELSE p.firstFree
<1>1. /\ p = Rec(p.next, p.prev, p.hashNext, p.hashPrev, p.data, p.expires, p.bucket, p.firstFree, p.firstUsed, p.count)
      /\ p.next \in [Bans!Entries -> MaybeEntry] /\ p.prev \in [Bans!Entries -> MaybeEntry]
      /\ p.hashNext \in [Bans!Entries -> MaybeEntry] /\ p.hashPrev \in [Bans!Entries -> MaybeEntry]
      /\ p.data \in [Bans!Entries -> (UNION Plans) \cup {Bans!NoData}] /\ p.expires \in [Bans!Entries -> Nat \cup {Bans!Never}]
      /\ p.bucket \in [Bans!Hashes -> MaybeEntry] /\ p.firstFree \in MaybeEntry /\ p.firstUsed \in MaybeEntry
      /\ p.count \in Nat
  BY PoolIs
<1>2. q = Rec(next, prev, p.hashNext, p.hashPrev, p.data, p.expires, p.bucket, free, used, p.count)
  <2>1. CASE first = "firstUsed"
    <3>1. q = [p EXCEPT !.prev = prev, !.next = next, !.firstUsed = head]
      BY <2>1 DEF Bans!Unlinked
    <3>2. used = head /\ free = p.firstFree
      BY <2>1
    <3> HIDE DEF q, prev, next, head, used, free
    <3>3. QED
      BY <1>1, <3>1, <3>2 DEF Rec
  <2>2. CASE first = "firstFree"
    <3>1. q = [p EXCEPT !.prev = prev, !.next = next, !.firstFree = head]
      BY <2>2 DEF Bans!Unlinked
    <3>2. free = head /\ used = p.firstUsed
      BY <2>2
    <3> HIDE DEF q, prev, next, head, used, free
    <3>3. QED
      BY <1>1, <3>1, <3>2 DEF Rec
  <2>3. QED
    BY <2>1, <2>2
<1>3. /\ next \in [Bans!Entries -> MaybeEntry]
      /\ \A e \in Bans!Entries : next[e] = (IF e = p.prev[b] THEN p.next[b] ELSE p.next[e])
  <2>1. p.prev[b] \in MaybeEntry /\ p.next[b] \in MaybeEntry
    BY <1>1
  <2>2. CASE p.prev[b] = Bans!None
    BY <1>1, <2>2, NoEntry
  <2>3. CASE p.prev[b] # Bans!None
    <3>1. p.prev[b] \in Bans!Entries
      BY <2>1, <2>3 DEF MaybeEntry
    <3>2. QED
      BY <1>1, <2>1, <2>3, <3>1
  <2>4. QED
    BY <2>2, <2>3
<1>4. /\ prev \in [Bans!Entries -> MaybeEntry]
      /\ \A e \in Bans!Entries : prev[e] = (IF e = p.next[b] THEN p.prev[b] ELSE p.prev[e])
  <2>1. p.prev[b] \in MaybeEntry /\ p.next[b] \in MaybeEntry
    BY <1>1
  <2>2. CASE p.next[b] = Bans!None
    BY <1>1, <2>2, NoEntry
  <2>3. CASE p.next[b] # Bans!None
    <3>1. p.next[b] \in Bans!Entries
      BY <2>1, <2>3 DEF MaybeEntry
    <3>2. QED
      BY <1>1, <2>1, <2>3, <3>1
  <2>4. QED
    BY <2>2, <2>3
<1>5. used \in MaybeEntry /\ free \in MaybeEntry
  BY <1>1
<1> HIDE DEF prev, next, q
<1>6. /\ q \in Pools /\ q.next = next /\ q.prev = prev /\ q.firstUsed = used /\ q.firstFree = free
      /\ SameContent(p, q)
  <2> HIDE DEF used, free, head
  <2>1. /\ next \in [Bans!Entries -> MaybeEntry] /\ prev \in [Bans!Entries -> MaybeEntry]
        /\ p.hashNext \in [Bans!Entries -> MaybeEntry] /\ p.hashPrev \in [Bans!Entries -> MaybeEntry]
        /\ p.data \in [Bans!Entries -> (UNION Plans) \cup {Bans!NoData}] /\ p.expires \in [Bans!Entries -> Nat \cup {Bans!Never}]
        /\ p.bucket \in [Bans!Hashes -> MaybeEntry] /\ free \in MaybeEntry /\ used \in MaybeEntry
        /\ p.count \in Nat
    BY <1>1, <1>3, <1>4, <1>5
  <2>2. /\ q \in Pools /\ q.next = next /\ q.prev = prev /\ q.hashNext = p.hashNext /\ q.hashPrev = p.hashPrev
        /\ q.data = p.data /\ q.expires = p.expires /\ q.bucket = p.bucket /\ q.firstFree = free
        /\ q.firstUsed = used /\ q.count = p.count
    BY <1>2, <2>1 DEF Rec, Pools
  <2>3. QED
    BY <2>2 DEF SameContent
<1>7. /\ DOMAIN Firsts(q) = Lists /\ DOMAIN Firsts(p) = Lists
      /\ \A i \in Lists : Firsts(q)[i] = (IF p.prev[b] = Bans!None /\ i = id[b] THEN p.next[b] ELSE Firsts(p)[i])
  BY <1>6 DEF Firsts, Lists
<1>8. next[b] = p.next[b] \/ next[b] = Bans!None
  <2>1. \A e \in Bans!Entries : p.next[e] # Bans!None => p.prev[p.next[e]] = e
    BY DEF Links
  <2>2. \A e \in Bans!Entries : p.prev[e] # Bans!None => p.next[p.prev[e]] = e
    BY DEF Links
  <2>3. QED
    BY <1>3, <2>1, <2>2
<1>9. QED
  BY <1>3, <1>4, <1>6, <1>7, <1>8 DEF LeftList, q

\* NoLater is a total order.
LEMMA LaterIs ==
    /\ \A x, y, z \in Nat \cup {Bans!Never} : NoLater(x, y) /\ NoLater(y, z) => NoLater(x, z)
    /\ \A x, y \in Nat \cup {Bans!Never} : NoLater(x, y) \/ NoLater(y, x)
    /\ \A x, y \in Nat \cup {Bans!Never} : ~NoLater(x, y) => NoLater(y, x)
BY DEF NoLater, Bans!Never

\* The order remains when an entry leaves,
LEMMA LeaveSorted ==
    ASSUME NEW nx \in [Bans!Entries -> MaybeEntry], NEW pv, NEW hd, NEW id, Links(nx, pv, hd, id, Bans!Entries), NEW b \in Bans!Entries,
           NEW nx2, NEW pv2, NEW hd2, LeftList(nx, pv, hd, id, b, nx2, pv2, hd2),
           NEW expires \in [Bans!Entries -> Nat \cup {Bans!Never}], SortedBy(nx, expires, id, Bans!Entries)
    PROVE  SortedBy(nx2, expires, id, Bans!Entries \ {b})
<1> SUFFICES ASSUME NEW e \in Bans!Entries, e # b, id[e] = "used", nx2[e] # Bans!None
             PROVE  NoLater(expires[e], expires[nx2[e]])
  BY DEF SortedBy
<1>1. nx2[e] = (IF e = pv[b] THEN nx[b] ELSE nx[e])
  BY DEF LeftList
<1>2. CASE e # pv[b]
  BY <1>1, <1>2 DEF SortedBy
<1>3. CASE e = pv[b]
  <2>1. nx[e] = b /\ id[b] = id[e]
    <3>1. pv[b] # Bans!None
      BY <1>3, NoEntry
    <3>2. nx[e] = b
      BY <1>3, <3>1 DEF Links
    <3>3. QED
      BY <3>2, NoEntry DEF Links
  <2>2. nx2[e] = nx[b] /\ nx[b] \in Bans!Entries /\ nx[b] # Bans!None
    BY <1>1, <1>3 DEF MaybeEntry
  <2>3. NoLater(expires[e], expires[b]) /\ NoLater(expires[b], expires[nx[b]])
    BY <2>1, <2>2, NoEntry DEF SortedBy
  <2>4. expires[e] \in Nat \cup {Bans!Never} /\ expires[b] \in Nat \cup {Bans!Never} /\ expires[nx[b]] \in Nat \cup {Bans!Never}
    BY <2>2
  <2>5. QED
    BY <2>2, <2>3, <2>4, LaterIs
<1>4. QED
  BY <1>2, <1>3

\* and when one joins between two that it fits between.
LEMMA JoinSorted ==
    ASSUME NEW nx \in [Bans!Entries -> MaybeEntry], NEW pv, NEW hd, NEW id, NEW b \in Bans!Entries,
           Links(nx, pv, hd, id, Bans!Entries \ {b}),
           NEW i, NEW before \in MaybeEntry, NEW after \in MaybeEntry, before # b, after # b,
           Place(nx, pv, hd, id, i, before, after),
           NEW nx2, NEW pv2, NEW hd2, JoinedList(nx, pv, hd, i, before, b, after, nx2, pv2, hd2),
           NEW expires \in [Bans!Entries -> Nat \cup {Bans!Never}], SortedBy(nx, expires, id, Bans!Entries \ {b}),
           id[b] = i,
           i = "used" => /\ before # Bans!None => NoLater(expires[before], expires[b])
                         /\ after # Bans!None => NoLater(expires[b], expires[after])
    PROVE  SortedBy(nx2, expires, id, Bans!Entries)
<1> SUFFICES ASSUME NEW e \in Bans!Entries, id[e] = "used", nx2[e] # Bans!None
             PROVE  NoLater(expires[e], expires[nx2[e]])
  BY DEF SortedBy
<1>1. nx2[e] = (IF e = b THEN after ELSE IF e = before THEN b ELSE nx[e])
  BY DEF JoinedList
<1>2. CASE e = b
  BY <1>1, <1>2
<1>3. CASE e # b /\ e = before
  BY <1>1, <1>3, NoEntry DEF Place
<1>4. CASE e # b /\ e # before
  BY <1>1, <1>4 DEF SortedBy
<1>5. QED
  BY <1>2, <1>3, <1>4

\* Where InsertUsed puts entry b.
GoodPlace(p, id, b, before, after) ==
    /\ Place(p.next, p.prev, Firsts(p), id, "used", before, after)
    /\ before # Bans!None => NoLater(p.expires[before], p.expires[b])
    /\ after # Bans!None => NoLater(p.expires[b], p.expires[after])
PutBetween(p, q, b, before, after) ==
    q = Rec([i \in Bans!Entries |-> IF i = b THEN after ELSE IF i = before THEN b ELSE p.next[i]],
            [i \in Bans!Entries |-> IF i = b THEN before ELSE IF i = after THEN b ELSE p.prev[i]],
            p.hashNext, p.hashPrev, p.data, p.expires, p.bucket, p.firstFree,
            IF before = Bans!None THEN b ELSE p.firstUsed, p.count)
Betweens(p, id, b) == {x \in ((Bans!Entries \ {b}) \cup {Bans!None}) \X ((Bans!Entries \ {b}) \cup {Bans!None}) :
    GoodPlace(p, id, b, x[1], x[2]) /\ PutBetween(p, Bans!InsertUsed(p, b), b, x[1], x[2])}

\* InsertUsed finds a place.
LEMMA PlaceIs ==
    ASSUME NEW p \in Pools, NEW id \in [Bans!Entries -> Lists], NEW b \in Bans!Entries,
           Links(p.next, p.prev, Firsts(p), id, Bans!Entries \ {b}), Ends(p.next)
    PROVE  Betweens(p, id, b) # {}
<1> DEFINE used == Bans!Linked(p.next, p.firstUsed)
           later == {k \in 1 .. Len(used) : Bans!GoesBefore(p, b, used[k])}
           at == IF later = {} THEN Len(used) + 1 ELSE CHOOSE k \in later : \A j \in later : k <= j
           after == IF at > Len(used) THEN Bans!None ELSE used[at]
           before == IF at = 1 THEN Bans!None ELSE used[at - 1]
           next == [i \in Bans!Entries |-> IF i = b THEN after ELSE IF i = before THEN b ELSE p.next[i]]
           prev == [i \in Bans!Entries |-> IF i = b THEN before ELSE IF i = after THEN b ELSE p.prev[i]]
           head == IF at = 1 THEN b ELSE p.firstUsed
           S == Bans!Entries \ {b}
           q == Bans!InsertUsed(p, b)
<1>1. /\ p = Rec(p.next, p.prev, p.hashNext, p.hashPrev, p.data, p.expires, p.bucket, p.firstFree, p.firstUsed, p.count)
      /\ p.next \in [Bans!Entries -> MaybeEntry] /\ p.prev \in [Bans!Entries -> MaybeEntry]
      /\ p.expires \in [Bans!Entries -> Nat \cup {Bans!Never}] /\ p.firstUsed \in MaybeEntry
  BY PoolIs
<1>2. q = [p EXCEPT !.next = next, !.prev = prev, !.firstUsed = head]
  BY DEF Bans!InsertUsed
<1>3. Firsts(p)["used"] = p.firstUsed /\ "used" \in DOMAIN Firsts(p)
  BY DEF Firsts
<1>4. Elems(used) = {e \in S : id[e] = "used"} /\ IsChain(p.next, p.firstUsed, used)
  <2>1. Elems(Bans!Linked(p.next, Firsts(p)["used"])) = {e \in S : id[e] = "used"}
    BY <1>1, <1>3, ListHolds
  <2>2. IsChain(p.next, p.firstUsed, used)
    BY <1>1, LinkedIs
  <2>3. QED
    BY <1>3, <2>1, <2>2
<1> HIDE DEF used, q, next, prev, head
<1>5. used \in Seq(Bans!Entries) /\ Len(used) \in Nat /\ \A k \in 1 .. Len(used) : used[k] \in S /\ id[used[k]] = "used"
  BY <1>4 DEF IsChain, Elems
<1>6. at \in 1 .. Len(used) + 1 /\ (at <= Len(used) => at \in later) /\ \A j \in later : at <= j
  <2>1. CASE later = {}
    BY <1>5, <2>1
  <2>2. CASE later # {}
    <3>1. \E k \in later : \A j \in later : k <= j
      <4>1. later \subseteq Nat
        BY <1>5
      <4> HIDE DEF later
      <4>2. QED
        BY <2>2, <4>1, LeastExists
    <3>2. at \in later /\ \A j \in later : at <= j
      <4>1. at = CHOOSE k \in later : \A j \in later : k <= j
        BY <2>2
      <4> HIDE DEF later, at
      <4>2. QED
        BY <3>1, <4>1
    <3>3. later \subseteq 1 .. Len(used)
      OBVIOUS
    <3> HIDE DEF later, at
    <3>4. QED
      BY <1>5, <3>2, <3>3
  <2>3. QED
    BY <2>1, <2>2
<1>7. \A k \in 1 .. Len(used) : k \in later <=> NoLater(p.expires[b], p.expires[used[k]])
  BY DEF Bans!GoesBefore, NoLater
<1> HIDE DEF later, at
<1>8. /\ after \in S \cup {Bans!None} /\ before \in S \cup {Bans!None}
      /\ before = Bans!None <=> at = 1
      /\ before # Bans!None => at - 1 \in 1 .. Len(used) /\ before = used[at - 1] /\ id[before] = "used"
      /\ after # Bans!None => at \in 1 .. Len(used) /\ after = used[at] /\ id[after] = "used"
      /\ after = Bans!None => at = Len(used) + 1
  <2>1. \A k \in 1 .. Len(used) : used[k] # Bans!None
    BY <1>5, NoEntry
  <2>2. CASE at > Len(used)
    <3>1. after = Bans!None /\ at = Len(used) + 1
      BY <1>5, <1>6, <2>2
    <3>2. at # 1 => at - 1 \in 1 .. Len(used)
      BY <1>5, <1>6
    <3>3. QED
      BY <1>5, <2>1, <3>1, <3>2
  <2>3. CASE ~(at > Len(used))
    <3>1. at \in 1 .. Len(used) /\ after = used[at]
      BY <1>5, <1>6, <2>3
    <3>2. at # 1 => at - 1 \in 1 .. Len(used)
      BY <1>5, <1>6
    <3>3. QED
      BY <1>5, <2>1, <3>1, <3>2
  <2>4. QED
    BY <2>2, <2>3
<1> HIDE DEF before, after
<1>9. /\ p.firstUsed = Bans!None => used = << >>
      /\ p.firstUsed # Bans!None => /\ Len(used) > 0 /\ used[1] = p.firstUsed /\ p.next[used[Len(used)]] = Bans!None
                                    /\ \A k \in 1 .. Len(used) - 1 : p.next[used[k]] # Bans!None /\ used[k + 1] = p.next[used[k]]
  BY <1>4 DEF IsChain
<1>10. before = Bans!None => p.firstUsed = after
  <2> SUFFICES ASSUME at = 1 PROVE p.firstUsed = after
    BY <1>8
  <2>1. CASE p.firstUsed = Bans!None
    BY <1>5, <1>8, <1>9, <2>1
  <2>2. CASE p.firstUsed # Bans!None
    BY <1>5, <1>8, <1>9, <2>2
  <2>3. QED
    BY <2>1, <2>2
<1>11. before # Bans!None => p.next[before] = after
  <2> SUFFICES ASSUME before # Bans!None PROVE p.next[before] = after
    OBVIOUS
  <2>1. at - 1 \in 1 .. Len(used) /\ before = used[at - 1] /\ p.firstUsed # Bans!None
    BY <1>5, <1>8, <1>9
  <2>2. CASE after = Bans!None
    BY <1>5, <1>8, <1>9, <2>1, <2>2
  <2>3. CASE after # Bans!None
    <3>1. at - 1 \in 1 .. Len(used) - 1 /\ (at - 1) + 1 = at /\ after = used[at]
      BY <1>5, <1>8, <2>1, <2>3
    <3>2. used[(at - 1) + 1] = p.next[used[at - 1]]
      BY <1>9, <2>1, <3>1
    <3>3. QED
      BY <2>1, <3>1, <3>2
  <2>4. QED
    BY <2>2, <2>3
<1>12. after # Bans!None => p.prev[after] = before
  <2> SUFFICES ASSUME after # Bans!None PROVE p.prev[after] = before
    OBVIOUS
  <2>1. CASE before = Bans!None
    <3>1. Firsts(p)["used"] = after
      BY <1>3, <1>10, <2>1
    <3>2. p.prev[Firsts(p)["used"]] = Bans!None
      BY <1>3, <3>1 DEF Links
    <3>3. QED
      BY <2>1, <3>1, <3>2
  <2>2. CASE before # Bans!None
    <3>1. before \in S /\ p.next[before] = after
      BY <1>8, <1>11, <2>2
    <3>2. QED
      BY <3>1 DEF Links
  <2>3. QED
    BY <2>1, <2>2
<1>13. before # Bans!None => NoLater(p.expires[before], p.expires[b])
  <2> SUFFICES ASSUME before # Bans!None PROVE NoLater(p.expires[before], p.expires[b])
    OBVIOUS
  <2>1. at - 1 \in 1 .. Len(used) /\ before = used[at - 1] /\ before \in Bans!Entries
    BY <1>8
  <2>2. at - 1 \notin later
    BY <1>5, <1>6
  <2>3. ~NoLater(p.expires[b], p.expires[before])
    BY <1>7, <2>1, <2>2
  <2>4. p.expires[b] \in Nat \cup {Bans!Never} /\ p.expires[before] \in Nat \cup {Bans!Never}
    BY <1>1, <2>1
  <2>5. QED
    BY <2>3, <2>4, LaterIs
<1>14. after # Bans!None => NoLater(p.expires[b], p.expires[after])
  BY <1>6, <1>7, <1>8
<1>15. GoodPlace(p, id, b, before, after)
  BY <1>3, <1>8, <1>10, <1>11, <1>12, <1>13, <1>14 DEF GoodPlace, Place
<1>16. PutBetween(p, q, b, before, after)
  <2>1. q = Rec(next, prev, p.hashNext, p.hashPrev, p.data, p.expires, p.bucket, p.firstFree, head, p.count)
    BY <1>1, <1>2 DEF Rec
  <2>2. head = IF before = Bans!None THEN b ELSE p.firstUsed
    BY <1>8 DEF head
  <2>3. QED
    BY <2>1, <2>2 DEF PutBetween, next, prev
<1>17. <<before, after>> \in Betweens(p, id, b)
  BY <1>8, <1>15, <1>16 DEF Betweens, q
<1>18. QED
  BY <1>17

\* InsertUsed puts an entry in the list of used ones, and keeps the order.
LEMMA InsertIs ==
    ASSUME NEW p \in Pools, NEW id \in [Bans!Entries -> Lists], NEW b \in Bans!Entries, id[b] = "used",
           Links(p.next, p.prev, Firsts(p), id, Bans!Entries \ {b}), Ends(p.next),
           \A e \in Bans!Entries \ {b} : p.next[e] # b,
           SortedBy(p.next, p.expires, id, Bans!Entries \ {b})
    PROVE  LET q == Bans!InsertUsed(p, b)
           IN /\ q \in Pools /\ SameContent(p, q)
              /\ Links(q.next, q.prev, Firsts(q), id, Bans!Entries) /\ Ends(q.next)
              /\ SortedBy(q.next, q.expires, id, Bans!Entries)
<1> DEFINE q == Bans!InsertUsed(p, b)
           S == Bans!Entries \ {b}
<1>1. PICK x \in Betweens(p, id, b) : TRUE
  BY PlaceIs
<1> DEFINE before == x[1]
           after == x[2]
           next == [i \in Bans!Entries |-> IF i = b THEN after ELSE IF i = before THEN b ELSE p.next[i]]
           prev == [i \in Bans!Entries |-> IF i = b THEN before ELSE IF i = after THEN b ELSE p.prev[i]]
           head == IF before = Bans!None THEN b ELSE p.firstUsed
<1>2. /\ before \in S \cup {Bans!None} /\ after \in S \cup {Bans!None}
      /\ GoodPlace(p, id, b, before, after)
      /\ q = Rec(next, prev, p.hashNext, p.hashPrev, p.data, p.expires, p.bucket, p.firstFree, head, p.count)
  BY <1>1 DEF Betweens, PutBetween
<1> HIDE DEF before, after
<1>3. /\ p.next \in [Bans!Entries -> MaybeEntry] /\ p.prev \in [Bans!Entries -> MaybeEntry]
      /\ p.hashNext \in [Bans!Entries -> MaybeEntry] /\ p.hashPrev \in [Bans!Entries -> MaybeEntry]
      /\ p.data \in [Bans!Entries -> (UNION Plans) \cup {Bans!NoData}] /\ p.expires \in [Bans!Entries -> Nat \cup {Bans!Never}]
      /\ p.bucket \in [Bans!Hashes -> MaybeEntry] /\ p.firstFree \in MaybeEntry /\ p.firstUsed \in MaybeEntry
      /\ p.count \in Nat
  BY PoolIs
<1>4. next \in [Bans!Entries -> MaybeEntry] /\ prev \in [Bans!Entries -> MaybeEntry] /\ head \in MaybeEntry
  BY <1>2, <1>3 DEF MaybeEntry
<1>5. /\ \A e \in Bans!Entries : next[e] = (IF e = b THEN after ELSE IF e = before THEN b ELSE p.next[e])
      /\ \A e \in Bans!Entries : prev[e] = (IF e = b THEN before ELSE IF e = after THEN b ELSE p.prev[e])
  OBVIOUS
<1> HIDE DEF next, prev, q
<1>6. /\ q.next = next /\ q.prev = prev /\ q.firstFree = p.firstFree /\ q.firstUsed = head /\ SameContent(p, q)
  BY <1>2 DEF Rec, SameContent
<1>7. q \in Pools
  <2> HIDE DEF head
  <2>1. QED
    BY <1>2, <1>3, <1>4 DEF Rec, Pools
<1>8. DOMAIN Firsts(p) = Lists /\ DOMAIN Firsts(q) = Lists /\ "used" \in Lists
      /\ \A j \in Lists : Firsts(q)[j] = (IF j = "used" /\ before = Bans!None THEN b ELSE Firsts(p)[j])
  BY <1>6 DEF Firsts, Lists
<1>9. JoinedList(p.next, p.prev, Firsts(p), "used", before, b, after, q.next, q.prev, Firsts(q))
  BY <1>5, <1>6, <1>8 DEF JoinedList
<1>10. Place(p.next, p.prev, Firsts(p), id, "used", before, after)
       /\ (before # Bans!None => NoLater(p.expires[before], p.expires[b]))
       /\ (after # Bans!None => NoLater(p.expires[b], p.expires[after]))
  BY <1>2 DEF GoodPlace
<1>11. before # b /\ after # b /\ before \in MaybeEntry /\ after \in MaybeEntry
  BY <1>2, NoEntry DEF MaybeEntry
<1>12. S \cup {b} = Bans!Entries /\ S \in SUBSET Bans!Entries /\ b \in Bans!Entries \ S
  OBVIOUS
<1> HIDE DEF S
<1>13. Links(q.next, q.prev, Firsts(q), id, S \cup {b})
  <2>1. Links(p.next, p.prev, Firsts(p), id, S)
    BY DEF S
  <2>2. "used" \in DOMAIN Firsts(p) /\ \A e \in S : id[e] \in DOMAIN Firsts(p)
    BY <1>8, <1>12
  <2>3. QED
    BY <1>2, <1>9, <1>10, <1>12, <2>1, <2>2, JoinIs
<1>14. Ends(q.next)
  BY <1>3, <1>9, <1>10, <1>11, JoinEnds
<1>15. SortedBy(q.next, p.expires, id, Bans!Entries)
  BY <1>3, <1>9, <1>10, <1>11, JoinSorted
<1>16. QED
  BY <1>6, <1>7, <1>12, <1>13, <1>14, <1>15 DEF SameContent, q

\* Unhashed takes an entry out of its bucket.
LEMMA UnhashedIs ==
    ASSUME NEW p \in Pools, NEW b \in Bans!Entries, Bans!NetHash(p.data[b]) \in Bans!Hashes
    PROVE  LET q == Bans!Unhashed(p, b)
           IN /\ q \in Pools /\ q.next = p.next /\ q.prev = p.prev /\ q.data = p.data /\ q.expires = p.expires
              /\ q.firstFree = p.firstFree /\ q.firstUsed = p.firstUsed /\ q.count = p.count
              /\ LeftList(p.hashNext, p.hashPrev, p.bucket, HashOf(p), b, q.hashNext, q.hashPrev, q.bucket)
              /\ q.hashNext[b] = Bans!None /\ q.hashPrev[b] = Bans!None
              /\ \A e \in Bans!Entries : e # b => /\ p.hashNext[e] = Bans!None /\ e # p.hashPrev[b] => q.hashNext[e] = Bans!None
                                                  /\ p.hashPrev[e] = Bans!None /\ e # p.hashNext[b] => q.hashPrev[e] = Bans!None
<1> DEFINE q == Bans!Unhashed(p, b)
           h == Bans!NetHash(p.data[b])
           prev == [i \in Bans!Entries |-> IF i = b THEN Bans!None ELSE IF i = p.hashNext[b] THEN p.hashPrev[b] ELSE p.hashPrev[i]]
           next == [i \in Bans!Entries |-> IF i = b THEN Bans!None ELSE IF i = p.hashPrev[b] THEN p.hashNext[b] ELSE p.hashNext[i]]
           head == IF p.hashPrev[b] = Bans!None THEN p.hashNext[b] ELSE p.bucket[h]
           bucket == [p.bucket EXCEPT ![h] = head]
<1>1. /\ p = Rec(p.next, p.prev, p.hashNext, p.hashPrev, p.data, p.expires, p.bucket, p.firstFree, p.firstUsed, p.count)
      /\ p.next \in [Bans!Entries -> MaybeEntry] /\ p.prev \in [Bans!Entries -> MaybeEntry]
      /\ p.hashNext \in [Bans!Entries -> MaybeEntry] /\ p.hashPrev \in [Bans!Entries -> MaybeEntry]
      /\ p.data \in [Bans!Entries -> (UNION Plans) \cup {Bans!NoData}] /\ p.expires \in [Bans!Entries -> Nat \cup {Bans!Never}]
      /\ p.bucket \in [Bans!Hashes -> MaybeEntry] /\ p.firstFree \in MaybeEntry /\ p.firstUsed \in MaybeEntry
      /\ p.count \in Nat
  BY PoolIs
<1>2. q = [p EXCEPT !.hashPrev = prev, !.hashNext = next, !.bucket = bucket]
  BY DEF Bans!Unhashed
<1>3. Bans!None \in MaybeEntry
  BY DEF MaybeEntry
<1>4. /\ next \in [Bans!Entries -> MaybeEntry] /\ prev \in [Bans!Entries -> MaybeEntry]
      /\ next[b] = Bans!None /\ prev[b] = Bans!None
      /\ \A e \in Bans!Entries : e # b => /\ next[e] = IF e = p.hashPrev[b] THEN p.hashNext[b] ELSE p.hashNext[e]
                                          /\ prev[e] = IF e = p.hashNext[b] THEN p.hashPrev[b] ELSE p.hashPrev[e]
  BY <1>1, <1>3
<1>5. /\ bucket \in [Bans!Hashes -> MaybeEntry]
      /\ \A i \in Bans!Hashes : bucket[i] = (IF p.hashPrev[b] = Bans!None /\ i = h THEN p.hashNext[b] ELSE p.bucket[i])
  <2>1. h \in Bans!Hashes /\ p.hashNext[b] \in MaybeEntry /\ p.bucket[h] \in MaybeEntry
    BY <1>1
  <2> HIDE DEF h
  <2>2. QED
    BY <1>1, <2>1
<1> HIDE DEF q, prev, next, bucket
<1>6. q = Rec(p.next, p.prev, next, prev, p.data, p.expires, bucket, p.firstFree, p.firstUsed, p.count)
  BY <1>1, <1>2 DEF Rec
<1>7. /\ q.next = p.next /\ q.prev = p.prev /\ q.data = p.data /\ q.expires = p.expires
      /\ q.firstFree = p.firstFree /\ q.firstUsed = p.firstUsed /\ q.count = p.count
      /\ q.hashNext = next /\ q.hashPrev = prev /\ q.bucket = bucket
  BY <1>6 DEF Rec
<1>8. q \in Pools
  BY <1>1, <1>4, <1>5, <1>6 DEF Rec, Pools
<1>9. HashOf(p)[b] = h
  BY DEF HashOf
<1>10. LeftList(p.hashNext, p.hashPrev, p.bucket, HashOf(p), b, next, prev, bucket)
  <2>1. DOMAIN bucket = Bans!Hashes /\ DOMAIN p.bucket = Bans!Hashes
    BY <1>1, <1>5
  <2> HIDE DEF h
  <2>2. QED
    BY <1>4, <1>5, <1>9, <2>1 DEF LeftList
<1>11. QED
  BY <1>4, <1>7, <1>8, <1>10 DEF q

\* Entry b is in use no more.
LEMMA RemovedIs ==
    ASSUME NEW p, NEW kind, PoolInv(p, kind), NEW b \in UsedOnes(p), Bans!NetHash(p.data[b]) \in Bans!Hashes,
           \A e \in UsedOnes(p) : Bans!NetHash(p.data[e]) \in Bans!Hashes
    PROVE  LET q == Bans!Removed(p, b)
           IN /\ PoolInv(q, kind) /\ UsedOnes(q) = UsedOnes(p) \ {b}
              /\ \A e \in UsedOnes(q) : q.data[e] = p.data[e] /\ q.expires[e] = p.expires[e]
<1> DEFINE u == Bans!Unhashed(p, b)
           v == Bans!Unlinked(u, b, "firstUsed")
           q == Bans!Removed(p, b)
           prev == [i \in Bans!Entries |-> IF i = b THEN Bans!None ELSE IF i = v.firstFree THEN b ELSE v.prev[i]]
           next == [v.next EXCEPT ![b] = v.firstFree]
           data == [v.data EXCEPT ![b] = Bans!NoData]
           expires == [v.expires EXCEPT ![b] = 0]
           id == ListOf(p)
           id2 == [id EXCEPT ![b] = "free"]
           S == Bans!Entries \ {b}
<1>0. /\ p \in Pools /\ Chained(p) /\ Hashed(p) /\ Sorted(p) /\ Contents(p, kind)
      /\ b \in Bans!Entries /\ p.data[b] # Bans!NoData /\ UsedOnes(p) \subseteq Bans!Entries
      /\ UsedOnes(p) \in SUBSET Bans!Entries
  BY DEF PoolInv, UsedOnes
<1>1. /\ u \in Pools /\ u.next = p.next /\ u.prev = p.prev /\ u.data = p.data /\ u.expires = p.expires
      /\ u.firstFree = p.firstFree /\ u.firstUsed = p.firstUsed /\ u.count = p.count
      /\ LeftList(p.hashNext, p.hashPrev, p.bucket, HashOf(p), b, u.hashNext, u.hashPrev, u.bucket)
      /\ u.hashNext[b] = Bans!None /\ u.hashPrev[b] = Bans!None
      /\ \A e \in Bans!Entries : e # b => /\ p.hashNext[e] = Bans!None /\ e # p.hashPrev[b] => u.hashNext[e] = Bans!None
                                          /\ p.hashPrev[e] = Bans!None /\ e # p.hashNext[b] => u.hashPrev[e] = Bans!None
  BY <1>0, UnhashedIs
<1> HIDE DEF u
<1>2. id \in [Bans!Entries -> Lists] /\ id[b] = "used" /\ Firsts(u) = Firsts(p)
  BY <1>0, <1>1 DEF ListOf, Lists, Firsts
<1>3. Links(p.next, p.prev, Firsts(p), id, Bans!Entries) /\ Ends(p.next)
  BY <1>0 DEF Chained
<1>4. /\ v \in Pools /\ SameContent(u, v)
      /\ LeftList(p.next, p.prev, Firsts(p), id, b, v.next, v.prev, Firsts(v))
  BY <1>0, <1>1, <1>2, <1>3, UnlinkedIs
<1> HIDE DEF v
<1>5. q = [v EXCEPT !.prev = prev, !.next = next, !.firstFree = b, !.count = v.count - 1, !.data = data, !.expires = expires]
  BY DEF Bans!Removed, u, v
<1>6. /\ v = Rec(v.next, v.prev, v.hashNext, v.hashPrev, v.data, v.expires, v.bucket, v.firstFree, v.firstUsed, v.count)
      /\ v.next \in [Bans!Entries -> MaybeEntry] /\ v.prev \in [Bans!Entries -> MaybeEntry]
      /\ v.hashNext \in [Bans!Entries -> MaybeEntry] /\ v.hashPrev \in [Bans!Entries -> MaybeEntry]
      /\ v.data \in [Bans!Entries -> (UNION Plans) \cup {Bans!NoData}] /\ v.expires \in [Bans!Entries -> Nat \cup {Bans!Never}]
      /\ v.bucket \in [Bans!Hashes -> MaybeEntry] /\ v.firstFree \in MaybeEntry /\ v.firstUsed \in MaybeEntry
      /\ v.count \in Nat
  BY <1>4, PoolIs
<1>7. v.data = p.data /\ v.expires = p.expires /\ v.count = p.count /\ v.bucket = u.bucket
      /\ v.hashNext = u.hashNext /\ v.hashPrev = u.hashPrev
  BY <1>1, <1>4 DEF SameContent
<1>8. /\ next \in [Bans!Entries -> MaybeEntry] /\ prev \in [Bans!Entries -> MaybeEntry]
      /\ data \in [Bans!Entries -> (UNION Plans) \cup {Bans!NoData}] /\ expires \in [Bans!Entries -> Nat \cup {Bans!Never}]
      /\ \A e \in Bans!Entries : next[e] = (IF e = b THEN v.firstFree ELSE v.next[e])
      /\ \A e \in Bans!Entries : prev[e] = (IF e = b THEN Bans!None ELSE IF e = v.firstFree THEN b ELSE v.prev[e])
      /\ \A e \in Bans!Entries : data[e] = (IF e = b THEN Bans!NoData ELSE p.data[e])
      /\ \A e \in S : expires[e] = p.expires[e]
  BY <1>0, <1>6, <1>7 DEF MaybeEntry
<1> HIDE DEF q, prev, next, data, expires
<1>9. q = Rec(next, prev, v.hashNext, v.hashPrev, data, expires, v.bucket, b, v.firstUsed, v.count - 1)
  BY <1>5, <1>6 DEF Rec
<1>10. /\ q.next = next /\ q.prev = prev /\ q.data = data /\ q.expires = expires
       /\ q.firstFree = b /\ q.firstUsed = v.firstUsed /\ q.count = v.count - 1
       /\ q.hashNext = u.hashNext /\ q.hashPrev = u.hashPrev /\ q.bucket = u.bucket
  BY <1>7, <1>9 DEF Rec
<1>11. UsedOnes(q) = UsedOnes(p) \ {b}
  BY <1>8, <1>10 DEF UsedOnes
<1>12. p.count = Cardinality(UsedOnes(p)) /\ IsFiniteSet(UsedOnes(p))
  <2>1. IsFiniteSet(Bans!Entries)
    BY BanAssumption, FS_Interval DEF Bans!Entries, Bans!BanConstants
  <2>2. QED
    BY <1>0, <2>1, FS_Subset DEF Contents
<1>13. Cardinality(UsedOnes(q)) = p.count - 1 /\ p.count - 1 \in Nat
  <2>1. /\ IsFiniteSet(UsedOnes(p) \ {b})
        /\ Cardinality(UsedOnes(p) \ {b}) = Cardinality(UsedOnes(p)) - 1
    BY <1>12, FS_RemoveElement
  <2>2. Cardinality(UsedOnes(p) \ {b}) \in Nat
    BY <2>1, FS_CardinalityType
  <2>3. QED
    BY <1>11, <1>12, <2>1, <2>2
<1>14. q \in Pools
  <2>1. b \in MaybeEntry /\ v.count - 1 \in Nat
    BY <1>0, <1>7, <1>13 DEF MaybeEntry
  <2>2. QED
    BY <1>6, <1>8, <1>9, <2>1 DEF Rec, Pools
<1>15. id2 = ListOf(q) /\ id2[b] = "free" /\ \A e \in S : id2[e] = id[e]
  BY <1>0, <1>2, <1>11 DEF ListOf, Lists
<1> HIDE DEF id, id2
<1>16. Links(v.next, v.prev, Firsts(v), id2, S) /\ \A e \in S : v.next[e] # b
  <2>1. \A e \in Bans!Entries : id[e] \in DOMAIN Firsts(p)
    BY <1>2 DEF Firsts, Lists
  <2>2. Bans!Entries \in SUBSET Bans!Entries
    OBVIOUS
  <2>3. \A e \in Bans!Entries \ {b} : id2[e] = id[e]
    BY <1>15
  <2>4. Links(p.next, p.prev, Firsts(p), id, Bans!Entries) /\ b \in Bans!Entries
    BY <1>0, <1>3
  <2>5. LeftList(p.next, p.prev, Firsts(p), id, b, v.next, v.prev, Firsts(v))
    BY <1>4
  <2> DEFINE A == Bans!Entries
             hd == Firsts(p)
             hd2 == Firsts(v)
             nx2 == v.next
             pv2 == v.prev
  <2>6. /\ A \in SUBSET Bans!Entries /\ Links(p.next, p.prev, hd, id, A) /\ b \in A
        /\ LeftList(p.next, p.prev, hd, id, b, nx2, pv2, hd2)
        /\ \A e \in A : id[e] \in DOMAIN hd
        /\ \A e \in A \ {b} : id2[e] = id[e]
    BY <2>1, <2>2, <2>3, <2>4, <2>5
  <2> HIDE DEF A, hd, hd2, nx2, pv2
  <2>7. Links(nx2, pv2, hd2, id2, A \ {b}) /\ \A e \in A \ {b} : nx2[e] # b
    BY <2>6, LeaveIs
  <2>8. QED
    BY <2>7 DEF A, hd2, nx2, pv2
<1>17. Ends(v.next)
  <2>1. Bans!Entries \in SUBSET Bans!Entries
    OBVIOUS
  <2>2. QED
    BY <1>0, <1>3, <1>4, <2>1, LeaveEnds
<1> DEFINE after == v.firstFree
<1>18. after \in S \cup {Bans!None} /\ Place(v.next, v.prev, Firsts(v), id2, "free", Bans!None, after)
       /\ "free" \in DOMAIN Firsts(v)
  <2>1. Firsts(v)["free"] = after /\ "free" \in DOMAIN Firsts(v)
    BY DEF Firsts
  <2>2. after # Bans!None => after \in S /\ id2[after] = "free" /\ v.prev[after] = Bans!None
    BY <1>16, <2>1 DEF Links
  <2>3. QED
    BY <2>1, <2>2 DEF Place
<1>19. JoinedList(v.next, v.prev, Firsts(v), "free", Bans!None, b, after, q.next, q.prev, Firsts(q))
  <2>1. /\ DOMAIN Firsts(q) = Lists /\ DOMAIN Firsts(v) = Lists
        /\ \A j \in Lists : Firsts(q)[j] = (IF j = "free" THEN b ELSE Firsts(v)[j])
    BY <1>10 DEF Firsts, Lists
  <2>2. \A e \in Bans!Entries : e # Bans!None
    BY NoEntry
  <2>3. QED
    BY <1>8, <1>10, <2>1, <2>2 DEF JoinedList
<1>20. S \cup {b} = Bans!Entries /\ b \in Bans!Entries \ S /\ S \in SUBSET Bans!Entries /\ S \cup {Bans!None} \subseteq MaybeEntry
       /\ Bans!None \in S \cup {Bans!None}
  BY <1>0 DEF MaybeEntry
<1>21. Chained(q)
  <2>1. \A e \in S : id2[e] \in DOMAIN Firsts(v)
    BY <1>2, <1>15 DEF Firsts, Lists
  <2>2. Links(q.next, q.prev, Firsts(q), id2, S \cup {b})
    <3> HIDE DEF after, S
    <3>1. QED
      BY <1>15, <1>16, <1>18, <1>19, <1>20, <2>1, JoinIs
  <2>3. Ends(q.next)
    <3>1. Bans!None # b /\ after # b /\ after \in MaybeEntry /\ Bans!None \in MaybeEntry
      BY <1>0, <1>18, <1>20, NoEntry
    <3>2. \A e \in Bans!Entries \ {b} : v.next[e] # b
      BY <1>16
    <3> HIDE DEF after
    <3>3. QED
      BY <1>0, <1>6, <1>17, <1>18, <1>19, <3>1, <3>2, JoinEnds
  <2>4. QED
    BY <1>15, <1>20, <2>2, <2>3 DEF Chained
<1>22. Sorted(q)
  <2>1. SortedBy(v.next, p.expires, id, S)
    <3>1. p.next \in [Bans!Entries -> MaybeEntry] /\ p.expires \in [Bans!Entries -> Nat \cup {Bans!Never}]
      BY <1>0, PoolIs
    <3>2. SortedBy(p.next, p.expires, id, Bans!Entries)
      BY <1>0 DEF Sorted, id
    <3>3. QED
      BY <1>0, <1>3, <1>4, <3>1, <3>2, LeaveSorted
  <2>2. ASSUME NEW e \in Bans!Entries, id2[e] = "used", q.next[e] # Bans!None
        PROVE  NoLater(q.expires[e], q.expires[q.next[e]])
    <3>1. e \in S /\ id[e] = "used"
      BY <1>15, <2>2
    <3>2. q.next[e] = v.next[e] /\ v.next[e] # b /\ v.next[e] \in Bans!Entries
      BY <1>6, <1>8, <1>10, <1>16, <2>2, <3>1 DEF MaybeEntry
    <3>3. NoLater(p.expires[e], p.expires[v.next[e]])
      BY <2>1, <2>2, <3>1, <3>2 DEF SortedBy
    <3>4. q.expires[e] = p.expires[e] /\ q.expires[v.next[e]] = p.expires[v.next[e]]
      BY <1>8, <1>10, <3>1, <3>2
    <3>5. QED
      BY <3>2, <3>3, <3>4
  <2>3. QED
    BY <1>15, <2>2 DEF Sorted, SortedBy
<1>23. Hashed(q)
  <2> DEFINE U == UsedOnes(p)
  <2>1. /\ Links(p.hashNext, p.hashPrev, p.bucket, HashOf(p), U) /\ Ends(p.hashNext)
        /\ \A e \in Bans!Entries \ U : p.hashNext[e] = Bans!None /\ p.hashPrev[e] = Bans!None
    BY <1>0 DEF Hashed
  <2>2. \A e \in U : HashOf(p)[e] \in DOMAIN p.bucket
    <3>1. \A e \in U : HashOf(p)[e] = Bans!NetHash(p.data[e])
      BY <1>0 DEF HashOf
    <3>2. DOMAIN p.bucket = Bans!Hashes
      BY <1>0, PoolIs
    <3>3. QED
      BY <3>1, <3>2
  <2>3. \A e \in U \ {b} : HashOf(q)[e] = HashOf(p)[e]
    BY <1>0, <1>8, <1>10 DEF HashOf
  <2>4. Links(q.hashNext, q.hashPrev, q.bucket, HashOf(q), U \ {b})
    <3> HIDE DEF U
    <3>1. QED
      BY <1>0, <1>1, <1>10, <2>1, <2>2, <2>3, LeaveIs DEF U
  <2>5. Ends(q.hashNext)
    BY <1>0, <1>1, <1>10, <2>1, LeaveEnds
  <2>6. \A e \in Bans!Entries \ UsedOnes(q) : q.hashNext[e] = Bans!None /\ q.hashPrev[e] = Bans!None
    <3> TAKE e \in Bans!Entries \ UsedOnes(q)
    <3>1. CASE e = b
      BY <1>1, <1>10, <3>1
    <3>2. CASE e # b
      <4>1. e \notin U
        BY <1>11, <3>2
      <4>2. (p.hashPrev[b] # Bans!None => p.hashPrev[b] \in U) /\ (p.hashNext[b] # Bans!None => p.hashNext[b] \in U)
        BY <2>1 DEF Links
      <4>3. e # p.hashPrev[b] /\ e # p.hashNext[b]
        BY <4>1, <4>2, NoEntry
      <4>4. QED
        BY <1>1, <1>10, <2>1, <3>2, <4>1, <4>3
    <3>3. QED
      BY <3>1, <3>2
  <2>7. QED
    BY <1>11, <2>4, <2>5, <2>6 DEF Hashed
<1>24. Contents(q, kind)
  <2>1. \A e \in UsedOnes(q) : e \in UsedOnes(p) /\ e \in Bans!Entries /\ q.data[e] = p.data[e]
    BY <1>0, <1>8, <1>10, <1>11
  <2>2. q.count = Cardinality(UsedOnes(q))
    BY <1>7, <1>10, <1>13
  <2>3. QED
    BY <1>0, <2>1, <2>2 DEF Contents
<1>25. \A e \in UsedOnes(q) : q.data[e] = p.data[e] /\ q.expires[e] = p.expires[e]
  BY <1>0, <1>8, <1>10, <1>11
<1>26. PoolInv(q, kind)
  BY <1>14, <1>21, <1>22, <1>23, <1>24 DEF PoolInv
<1>27. QED
  BY <1>11, <1>25, <1>26 DEF q

\* An entry leaves the list of free ones or that of used ones.
LEMMA LeftIs ==
    ASSUME NEW nx, NEW pv, NEW hd, NEW id, \A e \in Bans!Entries : id[e] \in DOMAIN hd, Links(nx, pv, hd, id, Bans!Entries),
           Ends(nx), NEW b \in Bans!Entries, NEW nx2, NEW pv2, NEW hd2, LeftList(nx, pv, hd, id, b, nx2, pv2, hd2),
           NEW id2, \A e \in Bans!Entries \ {b} : id2[e] = id[e]
    PROVE  /\ Links(nx2, pv2, hd2, id2, Bans!Entries \ {b}) /\ Ends(nx2)
           /\ \A e \in Bans!Entries \ {b} : nx2[e] # b
<1> DEFINE A == Bans!Entries
<1>1. /\ A \in SUBSET Bans!Entries /\ Links(nx, pv, hd, id, A) /\ b \in A
      /\ \A e \in A : id[e] \in DOMAIN hd
      /\ \A e \in A \ {b} : id2[e] = id[e]
      /\ LeftList(nx, pv, hd, id, b, nx2, pv2, hd2)
  OBVIOUS
<1> HIDE DEF A
<1>2. Links(nx2, pv2, hd2, id2, A \ {b}) /\ \A e \in A \ {b} : nx2[e] # b
  BY <1>1, LeaveIs
<1>3. Ends(nx2)
  BY <1>1, LeaveEnds
<1>4. QED
  BY <1>2, <1>3 DEF A

\* The first free entry is used for a ban.
LEMMA AddedIs ==
    ASSUME NEW p, NEW kind, PoolInv(p, kind), \A e \in UsedOnes(p) : Bans!NetHash(p.data[e]) \in Bans!Hashes,
           p.firstFree # Bans!None, NEW d \in UNION Plans, d # Bans!NoData, Bans!NetHash(d) \in Bans!Hashes, Bans!KindOf(d) = kind,
           \A e \in UsedOnes(p) : p.data[e] # d, NEW x \in Nat \cup {Bans!Never}
    PROVE  LET q == Bans!Added(p, d, x)
               b == p.firstFree
           IN /\ PoolInv(q, kind) /\ b \in Bans!Entries \ UsedOnes(p) /\ UsedOnes(q) = UsedOnes(p) \cup {b}
              /\ q.data[b] = d /\ q.expires[b] = x
              /\ \A e \in UsedOnes(p) : q.data[e] = p.data[e] /\ q.expires[e] = p.expires[e]
<1> DEFINE b == p.firstFree
           h == Bans!NetHash(d)
           head == p.bucket[h]
           data == [p.data EXCEPT ![b] = d]
           expires == [p.expires EXCEPT ![b] = x]
           f == [p EXCEPT !.data = data, !.expires = expires]
           v == Bans!Unlinked(f, b, "firstFree")
           hashPrev == [i \in Bans!Entries |-> IF i = b THEN Bans!None ELSE IF i = head THEN b ELSE v.hashPrev[i]]
           hashNext == [v.hashNext EXCEPT ![b] = head]
           bucket == [v.bucket EXCEPT ![h] = b]
           w == [v EXCEPT !.hashPrev = hashPrev, !.hashNext = hashNext, !.bucket = bucket, !.count = v.count + 1]
           q == Bans!InsertUsed(w, b)
           id == ListOf(p)
           id2 == [id EXCEPT ![b] = "used"]
           S == Bans!Entries \ {b}
           U == UsedOnes(p)
<1>0. /\ p \in Pools /\ Chained(p) /\ Hashed(p) /\ Sorted(p) /\ Contents(p, kind)
      /\ U \in SUBSET Bans!Entries /\ b \in MaybeEntry /\ b # Bans!None
  <2>1. p \in Pools
    BY DEF PoolInv
  <2>2. p.firstFree \in MaybeEntry
    BY <2>1, PoolIs
  <2>3. QED
    BY <2>1, <2>2 DEF PoolInv, UsedOnes
<1>1. /\ p = Rec(p.next, p.prev, p.hashNext, p.hashPrev, p.data, p.expires, p.bucket, p.firstFree, p.firstUsed, p.count)
      /\ p.next \in [Bans!Entries -> MaybeEntry] /\ p.prev \in [Bans!Entries -> MaybeEntry]
      /\ p.hashNext \in [Bans!Entries -> MaybeEntry] /\ p.hashPrev \in [Bans!Entries -> MaybeEntry]
      /\ p.data \in [Bans!Entries -> (UNION Plans) \cup {Bans!NoData}] /\ p.expires \in [Bans!Entries -> Nat \cup {Bans!Never}]
      /\ p.bucket \in [Bans!Hashes -> MaybeEntry] /\ p.firstFree \in MaybeEntry /\ p.firstUsed \in MaybeEntry
      /\ p.count \in Nat
  BY <1>0, PoolIs
<1>2. Bans!Added(p, d, x) = q
  BY DEF Bans!Added
<1>3. id \in [Bans!Entries -> Lists] /\ DOMAIN Firsts(p) = Lists /\ Firsts(p)["free"] = b
  BY DEF ListOf, Lists, Firsts
<1>4. Links(p.next, p.prev, Firsts(p), id, Bans!Entries) /\ Ends(p.next)
  BY <1>0 DEF Chained
<1>5. b \in Bans!Entries /\ id[b] = "free" /\ b \notin U
  <2>1. b \in Bans!Entries /\ id[b] = "free"
    <3> HIDE DEF id, b
    <3>1. QED
      BY <1>0, <1>3, <1>4 DEF Links, Lists
  <2>2. QED
    BY <2>1 DEF ListOf
<1>6. /\ data \in [Bans!Entries -> (UNION Plans) \cup {Bans!NoData}] /\ expires \in [Bans!Entries -> Nat \cup {Bans!Never}]
      /\ data[b] = d /\ expires[b] = x
      /\ \A e \in S : data[e] = p.data[e] /\ expires[e] = p.expires[e]
  <2>1. d \in (UNION Plans) \cup {Bans!NoData}
    OBVIOUS
  <2> HIDE DEF b
  <2>2. QED
    BY <1>1, <1>5, <2>1
<1> HIDE DEF data, expires
<1>7. f = Rec(p.next, p.prev, p.hashNext, p.hashPrev, data, expires, p.bucket, p.firstFree, p.firstUsed, p.count)
  <2>1. f = [p EXCEPT !.data = data, !.expires = expires]
    OBVIOUS
  <2> HIDE DEF f, b
  <2>2. QED
    BY <1>1, <2>1 DEF Rec
<1> HIDE DEF f
<1>8. /\ f \in Pools /\ f.next = p.next /\ f.prev = p.prev /\ f.hashNext = p.hashNext /\ f.hashPrev = p.hashPrev
      /\ f.data = data /\ f.expires = expires /\ f.bucket = p.bucket /\ f.firstFree = p.firstFree
      /\ f.firstUsed = p.firstUsed /\ f.count = p.count
  BY <1>1, <1>6, <1>7 DEF Rec, Pools
<1>9. Firsts(f) = Firsts(p)
  BY <1>8 DEF Firsts
<1>10. /\ v \in Pools /\ SameContent(f, v)
       /\ LeftList(p.next, p.prev, Firsts(p), id, b, v.next, v.prev, Firsts(v))
  <2> HIDE DEF b, id
  <2>1. QED
    BY <1>3, <1>4, <1>5, <1>8, <1>9, UnlinkedIs
<1> HIDE DEF v
<1>11. /\ v = Rec(v.next, v.prev, v.hashNext, v.hashPrev, v.data, v.expires, v.bucket, v.firstFree, v.firstUsed, v.count)
       /\ v.next \in [Bans!Entries -> MaybeEntry] /\ v.prev \in [Bans!Entries -> MaybeEntry]
       /\ v.hashNext \in [Bans!Entries -> MaybeEntry] /\ v.hashPrev \in [Bans!Entries -> MaybeEntry]
       /\ v.data \in [Bans!Entries -> (UNION Plans) \cup {Bans!NoData}] /\ v.expires \in [Bans!Entries -> Nat \cup {Bans!Never}]
       /\ v.bucket \in [Bans!Hashes -> MaybeEntry] /\ v.firstFree \in MaybeEntry /\ v.firstUsed \in MaybeEntry
       /\ v.count \in Nat
  BY <1>10, PoolIs
<1>12. v.data = data /\ v.expires = expires /\ v.count = p.count /\ v.bucket = p.bucket
       /\ v.hashNext = p.hashNext /\ v.hashPrev = p.hashPrev
  BY <1>8, <1>10 DEF SameContent
<1>13. head \in MaybeEntry /\ b \in MaybeEntry /\ Bans!None \in MaybeEntry
  BY <1>0, <1>1 DEF MaybeEntry
<1> HIDE DEF id, b, h
<1>14. /\ hashPrev \in [Bans!Entries -> MaybeEntry] /\ hashNext \in [Bans!Entries -> MaybeEntry] /\ bucket \in [Bans!Hashes -> MaybeEntry]
       /\ \A e \in Bans!Entries : hashPrev[e] = (IF e = b THEN Bans!None ELSE IF e = head THEN b ELSE p.hashPrev[e])
       /\ \A e \in Bans!Entries : hashNext[e] = (IF e = b THEN head ELSE p.hashNext[e])
       /\ \A i \in Bans!Hashes : bucket[i] = (IF i = h THEN b ELSE p.bucket[i])
  <2> HIDE DEF head
  <2>1. hashPrev \in [Bans!Entries -> MaybeEntry]
    BY <1>11, <1>13
  <2>2. hashNext \in [Bans!Entries -> MaybeEntry] /\ bucket \in [Bans!Hashes -> MaybeEntry]
    BY <1>11, <1>13
  <2>3. \A e \in Bans!Entries : hashPrev[e] = (IF e = b THEN Bans!None ELSE IF e = head THEN b ELSE p.hashPrev[e])
    BY <1>12
  <2>4. \A e \in Bans!Entries : hashNext[e] = (IF e = b THEN head ELSE p.hashNext[e])
    BY <1>11, <1>12
  <2>5. \A i \in Bans!Hashes : bucket[i] = (IF i = h THEN b ELSE p.bucket[i])
    BY <1>11, <1>12
  <2>6. QED
    BY <2>1, <2>2, <2>3, <2>4, <2>5
<1> HIDE DEF hashPrev, hashNext, bucket
<1>15. w = Rec(v.next, v.prev, hashNext, hashPrev, data, expires, bucket, v.firstFree, v.firstUsed, p.count + 1)
  <2>1. w = [v EXCEPT !.hashPrev = hashPrev, !.hashNext = hashNext, !.bucket = bucket, !.count = v.count + 1]
    OBVIOUS
  <2> HIDE DEF w
  <2>2. QED
    BY <1>11, <1>12, <2>1 DEF Rec
<1> HIDE DEF w
<1>16. /\ w \in Pools /\ w.next = v.next /\ w.prev = v.prev /\ w.hashNext = hashNext /\ w.hashPrev = hashPrev
       /\ w.data = data /\ w.expires = expires /\ w.bucket = bucket /\ w.firstFree = v.firstFree
       /\ w.firstUsed = v.firstUsed /\ w.count = p.count + 1
  <2>1. p.count + 1 \in Nat
    BY <1>1
  <2>2. QED
    BY <1>6, <1>11, <1>14, <1>15, <2>1 DEF Rec, Pools
<1>17. Firsts(w) = Firsts(v)
  BY <1>16 DEF Firsts
<1>18. id2 \in [Bans!Entries -> Lists] /\ id2[b] = "used" /\ \A e \in S : id2[e] = id[e]
  <2>1. "used" \in Lists /\ id \in [Bans!Entries -> Lists] /\ b \in Bans!Entries
    BY <1>3, <1>5 DEF Lists
  <2>2. QED
    BY <2>1
<1> HIDE DEF id2
<1>19. Links(w.next, w.prev, Firsts(w), id2, Bans!Entries \ {b}) /\ Ends(w.next) /\ \A e \in Bans!Entries \ {b} : w.next[e] # b
  <2>1. \A e \in Bans!Entries : id[e] \in DOMAIN Firsts(p)
    BY <1>3
  <2>2. /\ LeftList(p.next, p.prev, Firsts(p), id, b, w.next, w.prev, Firsts(w))
        /\ Links(p.next, p.prev, Firsts(p), id, Bans!Entries) /\ Ends(p.next) /\ b \in Bans!Entries
        /\ \A e \in Bans!Entries \ {b} : id2[e] = id[e]
    BY <1>4, <1>5, <1>10, <1>16, <1>17, <1>18
  <2>3. QED
    BY <2>1, <2>2, LeftIs
<1>20. SortedBy(w.next, w.expires, id2, Bans!Entries \ {b})
  <2>1. SortedBy(v.next, p.expires, id, S)
    <3>1. SortedBy(p.next, p.expires, id, Bans!Entries)
      BY <1>0 DEF Sorted, id
    <3>2. QED
      BY <1>1, <1>4, <1>5, <1>10, <3>1, LeaveSorted
  <2>2. ASSUME NEW e \in S, id2[e] = "used", w.next[e] # Bans!None
        PROVE  NoLater(w.expires[e], w.expires[w.next[e]])
    <3>1. w.next[e] = v.next[e] /\ v.next[e] \in S /\ id[e] = "used"
      BY <1>11, <1>16, <1>18, <1>19, <2>2 DEF MaybeEntry
    <3>2. NoLater(p.expires[e], p.expires[v.next[e]])
      BY <2>1, <2>2, <3>1 DEF SortedBy
    <3>3. w.expires[e] = p.expires[e] /\ w.expires[v.next[e]] = p.expires[v.next[e]]
      BY <1>6, <1>16, <3>1
    <3>4. QED
      BY <3>1, <3>2, <3>3
  <2>3. QED
    BY <2>2 DEF SortedBy
<1>21. /\ q \in Pools /\ SameContent(w, q)
       /\ Links(q.next, q.prev, Firsts(q), id2, Bans!Entries) /\ Ends(q.next)
       /\ SortedBy(q.next, q.expires, id2, Bans!Entries)
  BY <1>5, <1>16, <1>18, <1>19, <1>20, InsertIs
<1> HIDE DEF q
<1>22. /\ q.data = data /\ q.expires = expires /\ q.hashNext = hashNext /\ q.hashPrev = hashPrev
       /\ q.bucket = bucket /\ q.count = p.count + 1
  BY <1>16, <1>21 DEF SameContent
<1>23. UsedOnes(q) = U \cup {b}
  BY <1>5, <1>6, <1>22 DEF UsedOnes
<1>24. id2 = ListOf(q)
  BY <1>3, <1>5, <1>18, <1>23 DEF ListOf, id
<1>25. Chained(q) /\ Sorted(q)
  BY <1>21, <1>24 DEF Chained, Sorted
<1>26. Hashed(q)
  <2>1. /\ Links(p.hashNext, p.hashPrev, p.bucket, HashOf(p), U) /\ Ends(p.hashNext)
        /\ \A e \in Bans!Entries \ U : p.hashNext[e] = Bans!None /\ p.hashPrev[e] = Bans!None
    BY <1>0 DEF Hashed
  <2>2. DOMAIN p.bucket = Bans!Hashes /\ DOMAIN bucket = Bans!Hashes /\ h \in Bans!Hashes
    BY <1>1, <1>14 DEF h
  <2>3. /\ \A e \in U : HashOf(p)[e] \in DOMAIN p.bucket
        /\ \A e \in U : HashOf(q)[e] = HashOf(p)[e]
        /\ HashOf(q)[b] = h
    <3>1. \A e \in U : e \in Bans!Entries /\ e # b
      BY <1>0, <1>5
    <3>2. \A e \in Bans!Entries : HashOf(q)[e] = Bans!NetHash(data[e]) /\ HashOf(p)[e] = Bans!NetHash(p.data[e])
      BY <1>22 DEF HashOf
    <3>3. QED
      BY <1>5, <1>6, <2>2, <3>1, <3>2 DEF h
  <2>4. head \in U \cup {Bans!None} /\ Place(p.hashNext, p.hashPrev, p.bucket, HashOf(p), h, Bans!None, head)
    BY <2>1, <2>2 DEF Links, Place
  <2>5. JoinedList(p.hashNext, p.hashPrev, p.bucket, h, Bans!None, b, head, q.hashNext, q.hashPrev, q.bucket)
    <3>1. \A e \in Bans!Entries : e # Bans!None
      BY NoEntry
    <3> HIDE DEF head
    <3>2. QED
      BY <1>14, <1>22, <2>2, <3>1 DEF JoinedList
  <2>6. b \in Bans!Entries \ U /\ Bans!None \in U \cup {Bans!None}
    BY <1>5
  <2> HIDE DEF head, U
  <2>7. Links(q.hashNext, q.hashPrev, q.bucket, HashOf(q), U \cup {b})
    BY <1>0, <2>1, <2>2, <2>3, <2>4, <2>5, <2>6, JoinIs
  <2>8. Ends(q.hashNext)
    <3>1. head # b /\ Bans!None # b
      BY <1>0, <2>4, <2>6
    <3>2. \A e \in Bans!Entries \ {b} : p.hashNext[e] # b
      BY <2>1, <2>6, <3>1 DEF Links
    <3>3. QED
      BY <1>1, <1>5, <1>13, <2>1, <2>4, <2>5, <3>1, <3>2, JoinEnds
  <2>9. \A e \in Bans!Entries \ UsedOnes(q) : q.hashNext[e] = Bans!None /\ q.hashPrev[e] = Bans!None
    <3> TAKE e \in Bans!Entries \ UsedOnes(q)
    <3>1. e # b /\ e \notin U
      BY <1>23
    <3>2. e # head
      BY <2>4, <3>1, NoEntry
    <3>3. QED
      BY <1>14, <1>22, <2>1, <3>1, <3>2
  <2>10. QED
    BY <1>23, <2>7, <2>8, <2>9 DEF Hashed
<1>27. Contents(q, kind)
  <2>1. p.count = Cardinality(U) /\ IsFiniteSet(U)
    <3>1. IsFiniteSet(Bans!Entries)
      BY BanAssumption, FS_Interval DEF Bans!Entries, Bans!BanConstants
    <3>2. QED
      BY <1>0, <3>1, FS_Subset DEF Contents
  <2>2. Cardinality(U \cup {b}) = p.count + 1
    BY <1>5, <2>1, FS_AddElement
  <2>3. q.count = Cardinality(UsedOnes(q))
    BY <1>22, <1>23, <2>2
  <2>4. q.data[b] = d /\ \A e \in U : q.data[e] = p.data[e]
    BY <1>0, <1>5, <1>6, <1>22
  <2>5. \A e \in UsedOnes(q) : Bans!KindOf(q.data[e]) = kind
    BY <1>0, <1>23, <2>4 DEF Contents
  <2>6. ASSUME NEW e \in UsedOnes(q), NEW g \in UsedOnes(q), q.data[e] = q.data[g]
        PROVE  e = g
    <3>1. \A i, j \in U : p.data[i] = p.data[j] => i = j
      BY <1>0 DEF Contents
    <3>2. \A i \in U : p.data[i] # d
      OBVIOUS
    <3>3. (e \in U \/ e = b) /\ (g \in U \/ g = b)
      BY <1>23
    <3>4. QED
      BY <2>4, <2>6, <3>1, <3>2, <3>3
  <2>7. QED
    BY <2>3, <2>5, <2>6 DEF Contents
<1>28. q.data[b] = d /\ q.expires[b] = x
       /\ \A e \in UsedOnes(p) : q.data[e] = p.data[e] /\ q.expires[e] = p.expires[e]
  BY <1>0, <1>5, <1>6, <1>22
<1>29. PoolInv(q, kind)
  BY <1>21, <1>25, <1>26, <1>27 DEF PoolInv
<1>30. QED
  BY <1>2, <1>5, <1>23, <1>28, <1>29 DEF b

\* The ban of entry b runs out at another time.
LEMMA UpdatedIs ==
    ASSUME NEW p, NEW kind, PoolInv(p, kind), NEW b \in UsedOnes(p), NEW x \in Nat \cup {Bans!Never}
    PROVE  LET q == Bans!Updated(p, b, x)
           IN /\ PoolInv(q, kind) /\ UsedOnes(q) = UsedOnes(p) /\ q.data = p.data /\ q.expires[b] = x
              /\ \A e \in UsedOnes(p) \ {b} : q.expires[e] = p.expires[e]
<1> DEFINE expires == [p.expires EXCEPT ![b] = x]
           f == [p EXCEPT !.expires = expires]
           v == Bans!Unlinked(f, b, "firstUsed")
           q == Bans!InsertUsed(v, b)
           id == ListOf(p)
           S == Bans!Entries \ {b}
<1>0. /\ p \in Pools /\ Chained(p) /\ Hashed(p) /\ Sorted(p) /\ Contents(p, kind)
      /\ b \in Bans!Entries /\ UsedOnes(p) \subseteq Bans!Entries
  BY DEF PoolInv, UsedOnes
<1>1. /\ p = Rec(p.next, p.prev, p.hashNext, p.hashPrev, p.data, p.expires, p.bucket, p.firstFree, p.firstUsed, p.count)
      /\ p.next \in [Bans!Entries -> MaybeEntry] /\ p.prev \in [Bans!Entries -> MaybeEntry]
      /\ p.hashNext \in [Bans!Entries -> MaybeEntry] /\ p.hashPrev \in [Bans!Entries -> MaybeEntry]
      /\ p.data \in [Bans!Entries -> (UNION Plans) \cup {Bans!NoData}] /\ p.expires \in [Bans!Entries -> Nat \cup {Bans!Never}]
      /\ p.bucket \in [Bans!Hashes -> MaybeEntry] /\ p.firstFree \in MaybeEntry /\ p.firstUsed \in MaybeEntry
      /\ p.count \in Nat
  BY <1>0, PoolIs
<1>2. Bans!Updated(p, b, x) = q
  BY DEF Bans!Updated
<1>3. id \in [Bans!Entries -> Lists] /\ DOMAIN Firsts(p) = Lists /\ id[b] = "used"
  BY DEF ListOf, Lists, Firsts, UsedOnes
<1>4. Links(p.next, p.prev, Firsts(p), id, Bans!Entries) /\ Ends(p.next)
  BY <1>0 DEF Chained
<1>5. /\ expires \in [Bans!Entries -> Nat \cup {Bans!Never}] /\ expires[b] = x
      /\ \A e \in S : expires[e] = p.expires[e]
  BY <1>0, <1>1
<1> HIDE DEF expires
<1>6. f = Rec(p.next, p.prev, p.hashNext, p.hashPrev, p.data, expires, p.bucket, p.firstFree, p.firstUsed, p.count)
  BY <1>1 DEF Rec
<1> HIDE DEF f, id
<1>7. /\ f \in Pools /\ f.next = p.next /\ f.prev = p.prev /\ f.hashNext = p.hashNext /\ f.hashPrev = p.hashPrev
      /\ f.data = p.data /\ f.expires = expires /\ f.bucket = p.bucket /\ f.firstFree = p.firstFree
      /\ f.firstUsed = p.firstUsed /\ f.count = p.count
  BY <1>1, <1>5, <1>6 DEF Rec, Pools
<1>8. Firsts(f) = Firsts(p)
  BY <1>7 DEF Firsts
<1>9. /\ v \in Pools /\ SameContent(f, v)
      /\ LeftList(p.next, p.prev, Firsts(p), id, b, v.next, v.prev, Firsts(v))
  BY <1>0, <1>3, <1>4, <1>7, <1>8, UnlinkedIs
<1> HIDE DEF v
<1>10. v.data = p.data /\ v.expires = expires /\ v.count = p.count /\ v.bucket = p.bucket
       /\ v.hashNext = p.hashNext /\ v.hashPrev = p.hashPrev /\ v.next \in [Bans!Entries -> MaybeEntry]
  <2>1. v.next \in [Bans!Entries -> MaybeEntry]
    BY <1>9, PoolIs
  <2>2. QED
    BY <1>7, <1>9, <2>1 DEF SameContent
<1>11. Links(v.next, v.prev, Firsts(v), id, Bans!Entries \ {b}) /\ Ends(v.next) /\ \A e \in Bans!Entries \ {b} : v.next[e] # b
  <2>1. \A e \in Bans!Entries : id[e] \in DOMAIN Firsts(p)
    BY <1>3
  <2>2. QED
    BY <1>0, <1>4, <1>9, <2>1, LeftIs
<1>12. SortedBy(v.next, v.expires, id, Bans!Entries \ {b})
  <2>1. SortedBy(v.next, p.expires, id, S)
    <3>1. SortedBy(p.next, p.expires, id, Bans!Entries)
      BY <1>0 DEF Sorted, id
    <3>2. QED
      BY <1>0, <1>1, <1>4, <1>9, <3>1, LeaveSorted
  <2>2. ASSUME NEW e \in S, id[e] = "used", v.next[e] # Bans!None
        PROVE  NoLater(v.expires[e], v.expires[v.next[e]])
    <3>1. v.next[e] \in S
      BY <1>10, <1>11, <2>2 DEF MaybeEntry
    <3>2. NoLater(p.expires[e], p.expires[v.next[e]])
      BY <2>1, <2>2, <3>1 DEF SortedBy
    <3>3. QED
      BY <1>5, <1>10, <3>1, <3>2
  <2>3. QED
    BY <2>2 DEF SortedBy
<1>13. /\ q \in Pools /\ SameContent(v, q)
       /\ Links(q.next, q.prev, Firsts(q), id, Bans!Entries) /\ Ends(q.next)
       /\ SortedBy(q.next, q.expires, id, Bans!Entries)
  BY <1>0, <1>3, <1>9, <1>11, <1>12, InsertIs
<1> HIDE DEF q
<1>14. /\ q.data = p.data /\ q.expires = expires /\ q.hashNext = p.hashNext /\ q.hashPrev = p.hashPrev
       /\ q.bucket = p.bucket /\ q.count = p.count
  BY <1>10, <1>13 DEF SameContent
<1>15. UsedOnes(q) = UsedOnes(p) /\ ListOf(q) = id /\ HashOf(q) = HashOf(p)
  BY <1>14 DEF UsedOnes, ListOf, HashOf, id
<1>16. PoolInv(q, kind)
  BY <1>0, <1>13, <1>14, <1>15 DEF PoolInv, Chained, Sorted, Hashed, Contents
<1>17. QED
  BY <1>2, <1>5, <1>14, <1>15, <1>16, <1>0

\* An empty pool
LEMMA ResetIs ==
    ASSUME NEW kind
    PROVE  PoolInv(Bans!Reset, kind) /\ UsedOnes(Bans!Reset) = {}
<1> DEFINE p == Bans!Reset
           next == [i \in Bans!Entries |-> IF i = MaxBans - 1 THEN Bans!None ELSE i + 1]
           prev == [i \in Bans!Entries |-> i - 1]
           none == [i \in Bans!Entries |-> Bans!None]
           data == [i \in Bans!Entries |-> Bans!NoData]
           expires == [i \in Bans!Entries |-> 0]
           bucket == [h \in Bans!Hashes |-> Bans!None]
<1>1. p = Rec(next, prev, none, none, data, expires, bucket, 0, Bans!None, 0)
  BY DEF Bans!Reset, Rec
<1>2. MaxBans \in Nat /\ MaxBans > 0 /\ Bans!Entries = 0 .. MaxBans - 1 /\ Bans!None = -1 /\ 0 \in Bans!Entries
  BY NoEntry DEF Bans!Entries, Bans!None
<1>3. /\ next \in [Bans!Entries -> MaybeEntry] /\ prev \in [Bans!Entries -> MaybeEntry] /\ none \in [Bans!Entries -> MaybeEntry]
  BY <1>2 DEF MaybeEntry
<1>4. /\ data \in [Bans!Entries -> (UNION Plans) \cup {Bans!NoData}] /\ expires \in [Bans!Entries -> Nat \cup {Bans!Never}]
      /\ bucket \in [Bans!Hashes -> MaybeEntry] /\ 0 \in MaybeEntry /\ Bans!None \in MaybeEntry
  BY <1>2 DEF MaybeEntry
<1>5. \A e \in Bans!Entries : data[e] = Bans!NoData /\ none[e] = Bans!None
  OBVIOUS
<1>6. \A h \in Bans!Hashes : bucket[h] = Bans!None
  OBVIOUS
<1>7. \A e \in Bans!Entries : /\ next[e] = (IF e = MaxBans - 1 THEN Bans!None ELSE e + 1)
                              /\ prev[e] = e - 1
  OBVIOUS
<1>8. DOMAIN bucket = Bans!Hashes
  OBVIOUS
<1> HIDE DEF p, next, prev, none, data, expires, bucket
<1>9. /\ p.next = next /\ p.prev = prev /\ p.hashNext = none /\ p.hashPrev = none /\ p.data = data
      /\ p.expires = expires /\ p.bucket = bucket /\ p.firstFree = 0 /\ p.firstUsed = Bans!None /\ p.count = 0
  BY <1>1 DEF Rec
<1>10. p \in Pools
  BY <1>1, <1>3, <1>4 DEF Rec, Pools
<1>11. UsedOnes(p) = {}
  BY <1>5, <1>9 DEF UsedOnes
<1>12. \A e \in Bans!Entries : ListOf(p)[e] = "free"
  BY <1>11 DEF ListOf
<1>13. DOMAIN Firsts(p) = Lists /\ Firsts(p)["free"] = 0 /\ Firsts(p)["used"] = Bans!None
  BY <1>9 DEF Firsts, Lists
<1>14. Links(p.next, p.prev, Firsts(p), ListOf(p), Bans!Entries)
  <2>1. \A e \in Bans!Entries : next[e] # Bans!None => next[e] \in Bans!Entries /\ prev[next[e]] = e
    BY <1>2, <1>7
  <2>2. \A e \in Bans!Entries : prev[e] # Bans!None => prev[e] \in Bans!Entries /\ next[prev[e]] = e
    BY <1>2, <1>7
  <2>3. \A e \in Bans!Entries : prev[e] = Bans!None => e = 0
    BY <1>2, <1>7
  <2>4. prev[0] = Bans!None
    BY <1>2, <1>7
  <2>5. QED
    BY <1>2, <1>9, <1>12, <1>13, <2>1, <2>2, <2>3, <2>4 DEF Links, Lists
<1>15. Ends(p.next)
  <2> DEFINE rank == [e \in Bans!Entries |-> MaxBans - 1 - e]
             N == MaxBans - 1
  <2>1. N \in Nat /\ rank \in [Bans!Entries -> 0 .. N]
    BY <1>2
  <2>2. Downhill(next, rank)
    BY <1>2, <1>7 DEF Downhill
  <2> HIDE DEF rank, N
  <2>3. QED
    BY <1>9, <2>1, <2>2 DEF Ends
<1>16. Hashed(p)
  <2>1. Links(none, none, bucket, HashOf(p), {})
    BY <1>6, <1>8 DEF Links
  <2>2. Ends(none)
    <3> DEFINE rank == [e \in Bans!Entries |-> 0]
    <3>1. rank \in [Bans!Entries -> 0 .. 0] /\ Downhill(none, rank)
      BY <1>5 DEF Downhill
    <3> HIDE DEF rank
    <3>2. QED
      BY <3>1 DEF Ends
  <2>3. QED
    BY <1>5, <1>9, <1>11, <2>1, <2>2 DEF Hashed
<1>17. Sorted(p)
  BY <1>12 DEF Sorted, SortedBy
<1>18. Contents(p, kind)
  BY <1>9, <1>11, FS_EmptySet DEF Contents
<1>19. QED
  BY <1>10, <1>11, <1>14, <1>15, <1>16, <1>17, <1>18 DEF PoolInv, Chained, p

\* The bytes from the m-th to the n-th
LEMMA SameBytes ==
    ASSUME NEW a \in Bans!Address, NEW b \in Bans!Address, NEW m \in Nat, m > 0, NEW n \in Nat, n <= Length
    PROVE  SubSeq(a, m, n) = SubSeq(b, m, n) <=> \A i \in m .. n : a[i] = b[i]
<1>1. /\ a \in Seq(Nat) /\ b \in Seq(Nat) /\ Len(a) = Length /\ Len(b) = Length /\ Length \in Nat
  BY BanAssumption DEF Bans!Address, Bans!BanConstants
<1>2. \A i \in m .. n : a[i] \in Nat /\ b[i] \in Nat
  <2>1. \A i \in m .. n : i \in 1 .. Length
    BY <1>1
  <2>2. QED
    BY <1>1, <2>1
<1> DEFINE s == SubSeq(a, m, n)
           t == SubSeq(b, m, n)
<1>3. /\ s \in Seq(Nat) /\ Len(s) = (IF m <= n THEN n - m + 1 ELSE 0)
      /\ \A i \in 1 .. n - m + 1 : s[i] = a[m + i - 1]
  BY <1>2, SubSeqProperties
<1>4. /\ t \in Seq(Nat) /\ Len(t) = (IF m <= n THEN n - m + 1 ELSE 0)
      /\ \A i \in 1 .. n - m + 1 : t[i] = b[m + i - 1]
  BY <1>2, SubSeqProperties
<1> HIDE DEF s, t
<1>5. ASSUME s = t, NEW i \in m .. n
      PROVE  a[i] = b[i]
  <2>1. i - m + 1 \in 1 .. n - m + 1 /\ m + (i - m + 1) - 1 = i
    OBVIOUS
  <2>2. s[i - m + 1] = a[m + (i - m + 1) - 1] /\ t[i - m + 1] = b[m + (i - m + 1) - 1]
    BY <1>3, <1>4, <2>1
  <2>3. QED
    BY <1>5, <2>1, <2>2
<1>6. ASSUME \A i \in m .. n : a[i] = b[i]
      PROVE  s = t
  <2>1. Len(s) = Len(t)
    BY <1>3, <1>4
  <2>2. \A i \in 1 .. Len(s) : s[i] = t[i]
    <3> TAKE i \in 1 .. Len(s)
    <3>1. i \in 1 .. n - m + 1 /\ m + i - 1 \in m .. n
      BY <1>3
    <3>2. s[i] = a[m + i - 1] /\ t[i] = b[m + i - 1]
      BY <1>3, <1>4, <3>1
    <3>3. QED
      BY <1>6, <3>1, <3>2
  <2>3. QED
    BY <1>3, <1>4, <2>1, <2>2, SeqEqual
<1>7. QED
  BY <1>5, <1>6 DEF s, t

\* mem_comp, byte by byte
LEMMA NotAfterIs ==
    ASSUME NEW a \in Bans!Address, NEW b \in Bans!Address, NEW n \in Nat, n > 0
    PROVE  Bans!NotAfter(a, b, n) <=> \/ \A i \in n .. Length : a[i] = b[i]
                                      \/ \E k \in n .. Length : (\A i \in n .. k - 1 : a[i] = b[i]) /\ a[k] < b[k]
<1>1. Length \in Nat
  BY BanAssumption DEF Bans!BanConstants
<1>2. SubSeq(a, n, Length) = SubSeq(b, n, Length) <=> \A i \in n .. Length : a[i] = b[i]
  BY <1>1, SameBytes
<1>3. \A k \in n .. Length : SubSeq(a, n, k - 1) = SubSeq(b, n, k - 1) <=> \A i \in n .. k - 1 : a[i] = b[i]
  <2> TAKE k \in n .. Length
  <2>1. k - 1 \in Nat /\ k - 1 <= Length
    BY <1>1
  <2>2. QED
    BY <2>1, SameBytes
<1>4. QED
  BY <1>2, <1>3 DEF Bans!NotAfter

\* The sum of the first n bytes
LEMMA SumIs ==
    ASSUME NEW a \in Bans!Address, NEW n \in 0 .. Length
    PROVE  Bans!Sum(a, n) \in Nat
<1> DEFINE E(g) == [k \in 0 .. n |-> IF k = 0 THEN 0 ELSE g[k - 1] + a[k]]
           sum == CHOOSE g : g = E(g)
           Good(g, m) == g[0] = 0 /\ \A k \in 1 .. m : g[k] = g[k - 1] + a[k]
           P == {m \in 0 .. n : \E g \in [0 .. m -> Nat] : Good(g, m)}
<1>1. n \in Nat /\ \A k \in 1 .. n : a[k] \in Nat
  <2>1. a \in Seq(Nat) /\ Len(a) = Length /\ Length \in Nat
    BY BanAssumption DEF Bans!Address, Bans!BanConstants
  <2>2. n \in Nat /\ \A k \in 1 .. n : k \in 1 .. Length
    BY <2>1
  <2>3. QED
    BY <2>1, <2>2
<1>2. 0 \in P
  <2> DEFINE h == [k \in 0 .. 0 |-> 0]
  <2>1. h \in [0 .. 0 -> Nat] /\ Good(h, 0)
    OBVIOUS
  <2>2. 0 \in 0 .. n
    BY <1>1
  <2> HIDE DEF h, Good
  <2>3. QED
    BY <2>1, <2>2
<1>3. ASSUME NEW m \in 1 .. n, m - 1 \in P
      PROVE  m \in P
  <2>1. PICK g \in [0 .. m - 1 -> Nat] : Good(g, m - 1)
    BY <1>3
  <2> DEFINE h == [k \in 0 .. m |-> IF k = m THEN g[m - 1] + a[m] ELSE g[k]]
  <2>2. h \in [0 .. m -> Nat]
    <3>1. \A k \in 0 .. m : h[k] \in Nat
      BY <1>1, <2>1
    <3>2. QED
      BY <3>1
  <2>3. Good(h, m)
    BY <2>1
  <2>4. m \in 0 .. n
    BY <1>1
  <2> HIDE DEF h, Good
  <2>5. QED
    BY <2>2, <2>3, <2>4
<1>4. n \in P
  <2> HIDE DEF P
  <2>1. QED
    BY <1>1, <1>2, <1>3, UpTo
<1>5. PICK g \in [0 .. n -> Nat] : Good(g, n)
  BY <1>4
<1>6. g = E(g)
  <2>1. \A k \in 0 .. n : g[k] = E(g)[k]
    BY <1>1, <1>5
  <2>2. QED
    BY <2>1
<1>7. sum = E(sum)
  BY <1>6
<1>8. Bans!Sum(a, n) = sum[n]
  BY DEF Bans!Sum
<1> HIDE DEF sum
<1> DEFINE Q == {k \in 0 .. n : sum[k] \in Nat}
<1>9. 0 \in Q
  BY <1>1, <1>7
<1>10. ASSUME NEW k \in 1 .. n, k - 1 \in Q
       PROVE  k \in Q
  <2>1. sum[k - 1] \in Nat /\ a[k] \in Nat /\ k \in 0 .. n
    BY <1>1, <1>10
  <2>2. sum[k] = sum[k - 1] + a[k]
    BY <1>1, <1>7
  <2>3. QED
    BY <2>1, <2>2
<1>11. n \in Q
  <2> HIDE DEF Q, P, E, Good
  <2>1. n \in Nat /\ n \in 0 .. n
    BY <1>1
  <2>2. \A k \in 0 .. n : k \in Q
    BY <1>9, <1>10, <2>1, UpTo
  <2>3. QED
    BY <2>1, <2>2
<1>12. QED
  BY <1>8, <1>11

\* Only the first n bytes count.
LEMMA SumOfPrefix ==
    ASSUME NEW a \in Bans!Address, NEW b \in Bans!Address, NEW n \in 0 .. Length, \A i \in 1 .. n : a[i] = b[i]
    PROVE  Bans!Sum(a, n) = Bans!Sum(b, n)
<1> DEFINE E(g) == [k \in 0 .. n |-> IF k = 0 THEN 0 ELSE g[k - 1] + a[k]]
           F(g) == [k \in 0 .. n |-> IF k = 0 THEN 0 ELSE g[k - 1] + b[k]]
<1>1. \A g : E(g) = F(g)
  <2> TAKE g
  <2>1. \A k \in 0 .. n : (IF k = 0 THEN 0 ELSE g[k - 1] + a[k]) = (IF k = 0 THEN 0 ELSE g[k - 1] + b[k])
    OBVIOUS
  <2>2. QED
    BY <2>1
<1>2. Bans!Sum(a, n) = (CHOOSE g : g = E(g))[n] /\ Bans!Sum(b, n) = (CHOOSE g : g = F(g))[n]
  BY DEF Bans!Sum
<1> HIDE DEF E, F
<1>3. (CHOOSE g : g = E(g)) = (CHOOSE g : g = F(g))
  BY <1>1
<1>4. QED
  BY <1>2, <1>3

\* The ends of a range agree in their first bytes and in no other.
LEMMA CommonIs ==
    ASSUME NEW d \in Bans!Ranges, Bans!IsRange(d)
    PROVE  /\ Bans!Common(d) \in 0 .. Length - 1
           /\ \A i \in 1 .. Bans!Common(d) : d.lb[i] = d.ub[i]
           /\ d.lb[Bans!Common(d) + 1] # d.ub[Bans!Common(d) + 1]
<1>1. Length \in Nat /\ d.lb \in Bans!Address /\ d.ub \in Bans!Address /\ d.lb # d.ub
  BY BanAssumption DEF Bans!Ranges, Bans!IsRange, Bans!BanConstants
<1>2. d.lb \in Seq(Nat) /\ d.ub \in Seq(Nat) /\ Len(d.lb) = Length /\ Len(d.ub) = Length
  BY <1>1 DEF Bans!Address
<1> DEFINE X == {i \in 1 .. Length : d.lb[i] # d.ub[i]}
<1>3. X # {}
  <2> SUFFICES ASSUME \A i \in 1 .. Length : d.lb[i] = d.ub[i] PROVE FALSE
    OBVIOUS
  <2>1. d.lb = d.ub
    BY <1>2, SeqEqual
  <2>2. QED
    BY <1>1, <2>1
<1>4. PICK k \in X : \A j \in X : k <= j
  <2>1. X \subseteq Nat
    OBVIOUS
  <2> HIDE DEF X
  <2>2. QED
    BY <1>3, <2>1, LeastExists
<1> DEFINE C(n) == SubSeq(d.lb, 1, n) = SubSeq(d.ub, 1, n) /\ d.lb[n + 1] # d.ub[n + 1]
<1>5. \A n \in 0 .. Length - 1 : SubSeq(d.lb, 1, n) = SubSeq(d.ub, 1, n) <=> \A i \in 1 .. n : d.lb[i] = d.ub[i]
  <2> TAKE n \in 0 .. Length - 1
  <2>1. n \in Nat /\ n <= Length
    BY <1>1
  <2>2. QED
    BY <1>1, <2>1, SameBytes
<1>6. k - 1 \in 0 .. Length - 1 /\ C(k - 1)
  <2>1. k \in 1 .. Length /\ d.lb[k] # d.ub[k]
    BY <1>4
  <2>2. \A i \in 1 .. k - 1 : d.lb[i] = d.ub[i]
    <3> TAKE i \in 1 .. k - 1
    <3>1. i \in 1 .. Length /\ ~(k <= i)
      BY <1>1, <2>1
    <3>2. QED
      BY <1>4, <3>1
  <2>3. k - 1 \in 0 .. Length - 1 /\ (k - 1) + 1 = k
    BY <1>1, <2>1
  <2>4. QED
    BY <1>5, <2>1, <2>2, <2>3
<1>7. Bans!Common(d) = CHOOSE n \in 0 .. Length - 1 : C(n)
  BY DEF Bans!Common
<1>8. Bans!Common(d) \in 0 .. Length - 1 /\ C(Bans!Common(d))
  <2> HIDE DEF C
  <2>1. QED
    BY <1>6, <1>7
<1>9. QED
  BY <1>5, <1>8

\* There is a bucket for every address and every range.
LEMMA HashIs ==
    ASSUME NEW d \in Bans!Ranges
    PROVE  Bans!NetHash(d) \in Bans!Hashes
<1>1. Length \in Nat /\ Length > 0 /\ Buckets \in Nat /\ Buckets > 0 /\ d.lb \in Bans!Address
  BY BanAssumption DEF Bans!Ranges, Bans!BanConstants
<1>2. \A n \in 0 .. Length : Bans!Sum(d.lb, n) % Buckets \in 0 .. Buckets - 1
  <2> TAKE n \in 0 .. Length
  <2>1. Bans!Sum(d.lb, n) \in Nat
    BY <1>1, SumIs
  <2>2. QED
    BY <1>1, <2>1
<1>3. CASE Bans!IsRange(d)
  <2>1. Bans!Common(d) \in 0 .. Length - 1
    BY <1>3, CommonIs
  <2>2. Bans!Common(d) \in 0 .. Length
    BY <1>1, <2>1
  <2>3. Bans!NetHash(d) = [index |-> Bans!Common(d), hash |-> Bans!Sum(d.lb, Bans!Common(d)) % Buckets]
    BY <1>3 DEF Bans!NetHash
  <2>4. QED
    BY <1>2, <2>1, <2>2, <2>3 DEF Bans!Hashes
<1>4. CASE ~Bans!IsRange(d)
  <2>1. Bans!NetHash(d) = [index |-> 0, hash |-> Bans!Sum(d.lb, Length) % Buckets]
    BY <1>4 DEF Bans!NetHash
  <2>2. 0 \in 0 .. Length - 1 /\ Length \in 0 .. Length
    BY <1>1
  <2>3. QED
    BY <1>2, <2>1, <2>2 DEF Bans!Hashes
<1>5. QED
  BY <1>3, <1>4

\* A range is searched in the bucket of an address exactly if they agree where the ends do.
LEMMA RangeIs ==
    ASSUME NEW d \in Bans!Ranges, Bans!IsRange(d), NEW a \in Bans!Address
    PROVE  /\ Bans!InRange(d, a, 0) <=> Bans!InRange(d, a, Bans!Common(d))
           /\ Bans!InRange(d, a, Bans!Common(d)) => Bans!NetHash(d) = [index |-> Bans!Common(d), hash |-> Bans!Sum(a, Bans!Common(d)) % Buckets]
<1> DEFINE n == Bans!Common(d)
           lb == d.lb
           ub == d.ub
<1>1. /\ n \in 0 .. Length - 1 /\ (\A i \in 1 .. n : lb[i] = ub[i]) /\ lb[n + 1] # ub[n + 1]
  BY CommonIs
<1>2. Length \in Nat /\ lb \in Bans!Address /\ ub \in Bans!Address
  BY BanAssumption DEF Bans!Ranges, Bans!BanConstants
<1>3. \A i \in 1 .. Length : lb[i] \in Nat /\ ub[i] \in Nat /\ a[i] \in Nat
  BY <1>2 DEF Bans!Address
<1>4. Bans!NetHash(d) = [index |-> n, hash |-> Bans!Sum(lb, n) % Buckets]
  BY DEF Bans!NetHash
<1> HIDE DEF n, lb, ub
<1>5. n \in Nat /\ n <= Length /\ n + 1 \in Nat /\ n + 1 > 0 /\ n \in 0 .. Length
  BY <1>1, <1>2
<1> DEFINE Low(x, y, m) == \/ \A i \in m .. Length : x[i] = y[i]
                           \/ \E k \in m .. Length : (\A i \in m .. k - 1 : x[i] = y[i]) /\ x[k] < y[k]
           Same == \A i \in 1 .. n : lb[i] = a[i]
<1>6. Bans!InRange(d, a, 0) <=> Low(lb, a, 1) /\ Low(a, ub, 1)
  <2>1. SubSeq(lb, 1, 0) = SubSeq(a, 1, 0)
    BY <1>2, SubSeqEmpty
  <2>2. Bans!NotAfter(lb, a, 1) <=> Low(lb, a, 1)
    BY <1>2, NotAfterIs
  <2>3. Bans!NotAfter(a, ub, 1) <=> Low(a, ub, 1)
    BY <1>2, NotAfterIs
  <2>4. Bans!InRange(d, a, 0) <=> SubSeq(lb, 1, 0) = SubSeq(a, 1, 0) /\ Bans!NotAfter(lb, a, 1) /\ Bans!NotAfter(a, ub, 1)
    BY DEF Bans!InRange, lb, ub
  <2> HIDE DEF Low
  <2>5. QED
    BY <2>1, <2>2, <2>3, <2>4
<1>7. Bans!InRange(d, a, n) <=> Same /\ Low(lb, a, n + 1) /\ Low(a, ub, n + 1)
  <2>1. SubSeq(lb, 1, n) = SubSeq(a, 1, n) <=> Same
    BY <1>2, <1>5, SameBytes
  <2>2. Bans!NotAfter(lb, a, n + 1) <=> Low(lb, a, n + 1)
    BY <1>2, <1>5, NotAfterIs
  <2>3. Bans!NotAfter(a, ub, n + 1) <=> Low(a, ub, n + 1)
    BY <1>2, <1>5, NotAfterIs
  <2>4. Bans!InRange(d, a, n) <=> SubSeq(lb, 1, n) = SubSeq(a, 1, n) /\ Bans!NotAfter(lb, a, n + 1) /\ Bans!NotAfter(a, ub, n + 1)
    BY DEF Bans!InRange, lb, ub
  <2> HIDE DEF Low, Same
  <2>5. QED
    BY <2>1, <2>2, <2>3, <2>4
\* Equal up to n, the order is decided behind.
<1>8. ASSUME NEW x \in Bans!Address, NEW y \in Bans!Address, \A i \in 1 .. n : x[i] = y[i]
      PROVE  Low(x, y, 1) <=> Low(x, y, n + 1)
  <2>1. \A i \in 1 .. Length : x[i] \in Nat /\ y[i] \in Nat
    BY <1>2 DEF Bans!Address
  <2>2. ASSUME Low(x, y, 1)
        PROVE  Low(x, y, n + 1)
    <3>1. CASE \A i \in 1 .. Length : x[i] = y[i]
      BY <1>5, <3>1
    <3>2. ASSUME NEW k \in 1 .. Length, \A i \in 1 .. k - 1 : x[i] = y[i], x[k] < y[k]
          PROVE  Low(x, y, n + 1)
      <4>1. ~(k <= n)
        BY <1>8, <2>1, <3>2
      <4>2. k \in n + 1 .. Length /\ \A i \in n + 1 .. k - 1 : x[i] = y[i]
        BY <1>2, <1>5, <3>2, <4>1
      <4>3. QED
        BY <3>2, <4>2
    <3>3. QED
      BY <2>2, <3>1, <3>2
  <2>3. ASSUME Low(x, y, n + 1)
        PROVE  Low(x, y, 1)
    <3>1. CASE \A i \in n + 1 .. Length : x[i] = y[i]
      <4>1. \A i \in 1 .. Length : i \in 1 .. n \/ i \in n + 1 .. Length
        BY <1>2, <1>5
      <4>2. \A i \in 1 .. Length : x[i] = y[i]
        BY <1>8, <3>1, <4>1
      <4>3. QED
        BY <4>2
    <3>2. ASSUME NEW k \in n + 1 .. Length, \A i \in n + 1 .. k - 1 : x[i] = y[i], x[k] < y[k]
          PROVE  Low(x, y, 1)
      <4>1. \A i \in 1 .. k - 1 : i \in 1 .. n \/ i \in n + 1 .. k - 1
        BY <1>2, <1>5
      <4>2. k \in 1 .. Length /\ \A i \in 1 .. k - 1 : x[i] = y[i]
        BY <1>2, <1>5, <1>8, <3>2, <4>1
      <4>3. QED
        BY <3>2, <4>2
    <3>3. QED
      BY <2>3, <3>1, <3>2
  <2>4. QED
    BY <2>2, <2>3
<1>9. ASSUME Low(lb, a, 1), Low(a, ub, 1)
      PROVE  Same
  <2> DEFINE X == {i \in 1 .. n : lb[i] # a[i]}
  <2> SUFFICES ASSUME X # {} PROVE FALSE
    OBVIOUS
  <2>1. PICK j \in X : \A i \in X : j <= i
    <3>1. X \subseteq Nat
      OBVIOUS
    <3> HIDE DEF X
    <3>2. QED
      BY <3>1, LeastExists
  <2>2. j \in 1 .. Length /\ j \in 1 .. n /\ lb[j] # a[j] /\ ub[j] = lb[j] /\ lb[j] \in Nat /\ a[j] \in Nat
    <3>1. j \in 1 .. n /\ lb[j] # a[j]
      BY <2>1
    <3>2. j \in 1 .. Length
      BY <1>2, <1>5, <3>1
    <3> HIDE DEF X
    <3>3. QED
      BY <1>1, <1>3, <3>1, <3>2
  <2>3. \A i \in 1 .. j - 1 : lb[i] = a[i] /\ ub[i] = a[i]
    <3> TAKE i \in 1 .. j - 1
    <3>1. i \in 1 .. n /\ ~(j <= i)
      BY <1>5, <2>2
    <3>2. QED
      BY <1>1, <2>1, <3>1
  <2>4. lb[j] < a[j]
    <3>1. PICK k \in 1 .. Length : (\A i \in 1 .. k - 1 : lb[i] = a[i]) /\ lb[k] < a[k]
      BY <1>9, <2>2
    <3>2. lb[k] \in Nat /\ a[k] \in Nat
      BY <1>3
    <3>3. ~(k < j)
      BY <2>3, <3>1, <3>2
    <3>4. ~(j < k)
      BY <2>2, <3>1
    <3>5. k = j
      BY <2>2, <3>3, <3>4
    <3>6. QED
      BY <3>1, <3>5
  <2>5. a[j] < ub[j]
    <3>1. PICK k \in 1 .. Length : (\A i \in 1 .. k - 1 : a[i] = ub[i]) /\ a[k] < ub[k]
      BY <1>9, <2>2
    <3>2. ub[k] \in Nat /\ a[k] \in Nat
      BY <1>3
    <3>3. ~(k < j)
      BY <2>3, <3>1, <3>2
    <3>4. ~(j < k)
      BY <2>2, <3>1
    <3>5. k = j
      BY <2>2, <3>3, <3>4
    <3>6. QED
      BY <3>1, <3>5
  <2>6. QED
    BY <2>2, <2>4, <2>5
<1>10. Same => (Low(lb, a, 1) <=> Low(lb, a, n + 1)) /\ (Low(a, ub, 1) <=> Low(a, ub, n + 1))
  <2> SUFFICES ASSUME Same PROVE (Low(lb, a, 1) <=> Low(lb, a, n + 1)) /\ (Low(a, ub, 1) <=> Low(a, ub, n + 1))
    OBVIOUS
  <2>1. \A i \in 1 .. n : lb[i] = a[i] /\ a[i] = ub[i]
    BY <1>1
  <2> HIDE DEF Low, Same
  <2>2. QED
    BY <1>2, <1>8, <2>1
<1>11. Bans!InRange(d, a, 0) <=> Bans!InRange(d, a, n)
  <2> HIDE DEF Low, Same
  <2>1. QED
    BY <1>6, <1>7, <1>9, <1>10
<1>12. Bans!InRange(d, a, n) => Bans!Sum(lb, n) = Bans!Sum(a, n)
  <2> SUFFICES ASSUME Bans!InRange(d, a, n) PROVE Bans!Sum(lb, n) = Bans!Sum(a, n)
    OBVIOUS
  <2>1. \A i \in 1 .. n : lb[i] = a[i]
    BY <1>7
  <2>2. QED
    BY <1>2, <1>5, <2>1, SumOfPrefix
<1>13. QED
  BY <1>4, <1>11, <1>12 DEF n

\* What is banned is a range or an address.
LEMMA DataIs ==
    /\ UNION Plans \subseteq Bans!Ranges /\ Bans!NoData \notin Bans!Ranges
    /\ \A p \in Pools : \A e \in UsedOnes(p) : /\ e \in Bans!Entries /\ p.data[e] \in UNION Plans /\ p.data[e] \in Bans!Ranges
                                               /\ Bans!NetHash(p.data[e]) \in Bans!Hashes
<1>1. UNION Plans \subseteq Bans!Ranges
  BY BanAssumption DEF Bans!BanConstants
<1>2. Bans!NoData \notin Bans!Ranges
  <2>1. Len(<< >>) = 0 /\ Length > 0
    BY BanAssumption DEF Bans!BanConstants
  <2>2. << >> \notin Bans!Address
    BY <2>1 DEF Bans!Address
  <2>3. QED
    BY <2>2 DEF Bans!Ranges, Bans!NoData
<1>3. ASSUME NEW p \in Pools, NEW e \in UsedOnes(p)
      PROVE  /\ e \in Bans!Entries /\ p.data[e] \in UNION Plans /\ p.data[e] \in Bans!Ranges
             /\ Bans!NetHash(p.data[e]) \in Bans!Hashes
  <2>1. e \in Bans!Entries /\ p.data[e] # Bans!NoData /\ p.data \in [Bans!Entries -> (UNION Plans) \cup {Bans!NoData}]
    BY PoolIs DEF UsedOnes
  <2>2. p.data[e] \in UNION Plans
    BY <2>1
  <2>3. QED
    BY <1>1, <2>1, <2>2, HashIs
<1>4. QED
  BY <1>1, <1>2, <1>3

\* A bucket holds exactly the bans with its hash.
LEMMA BucketIs ==
    ASSUME NEW p, NEW kind, PoolInv(p, kind), NEW h \in Bans!Hashes
    PROVE  Elems(Bans!Linked(p.hashNext, p.bucket[h])) = {e \in UsedOnes(p) : Bans!NetHash(p.data[e]) = h}
<1>1. p \in Pools /\ Links(p.hashNext, p.hashPrev, p.bucket, HashOf(p), UsedOnes(p)) /\ Ends(p.hashNext)
      /\ UsedOnes(p) \in SUBSET Bans!Entries
  BY DEF PoolInv, Hashed, UsedOnes
<1>2. p.hashNext \in [Bans!Entries -> MaybeEntry] /\ h \in DOMAIN p.bucket /\ p.bucket[h] \in MaybeEntry
  BY <1>1, PoolIs
<1>3. Elems(Bans!Linked(p.hashNext, p.bucket[h])) = {e \in UsedOnes(p) : HashOf(p)[e] = h}
  BY <1>1, <1>2, ListHolds
<1>4. \A e \in UsedOnes(p) : HashOf(p)[e] = Bans!NetHash(p.data[e])
  BY <1>1 DEF HashOf
<1>5. QED
  BY <1>3, <1>4

\* Find finds what is there.
LEMMA FindIs ==
    ASSUME NEW p, NEW kind, PoolInv(p, kind), NEW d, Bans!NetHash(d) \in Bans!Hashes
    PROVE  /\ Bans!Find(p, d) # Bans!None => Bans!Find(p, d) \in UsedOnes(p) /\ p.data[Bans!Find(p, d)] = d
           /\ Bans!Find(p, d) = Bans!None => \A e \in UsedOnes(p) : p.data[e] # d
<1> DEFINE chain == Bans!Linked(p.hashNext, p.bucket[Bans!NetHash(d)])
           found == {k \in 1 .. Len(chain) : p.data[chain[k]] = d}
           least == CHOOSE k \in found : \A j \in found : k <= j
<1>1. Elems(chain) = {e \in UsedOnes(p) : Bans!NetHash(p.data[e]) = Bans!NetHash(d)}
  BY BucketIs
<1>2. Bans!Find(p, d) = IF found = {} THEN Bans!None ELSE chain[least]
  BY DEF Bans!Find
<1> HIDE DEF chain
<1>3. \A k \in 1 .. Len(chain) : chain[k] \in UsedOnes(p)
  BY <1>1 DEF Elems
<1>4. \A e \in UsedOnes(p) : p.data[e] = d => \E k \in 1 .. Len(chain) : chain[k] = e
  <2> SUFFICES ASSUME NEW e \in UsedOnes(p), p.data[e] = d PROVE e \in Elems(chain)
    BY DEF Elems
  <2>1. QED
    BY <1>1
<1>5. \A e \in UsedOnes(p) : e # Bans!None
  BY NoEntry DEF UsedOnes
<1>6. CASE found = {}
  BY <1>2, <1>4, <1>6
<1>7. CASE found # {}
  <2>1. \E k \in found : \A j \in found : k <= j
    <3>1. found \subseteq Nat
      OBVIOUS
    <3> HIDE DEF found
    <3>2. QED
      BY <1>7, <3>1, LeastExists
  <2>2. least \in found
    BY <2>1
  <2> HIDE DEF least
  <2>3. chain[least] \in UsedOnes(p) /\ p.data[chain[least]] = d
    BY <1>3, <2>2
  <2>4. QED
    BY <1>2, <1>5, <1>7, <2>3
<1>8. QED
  BY <1>6, <1>7

\* The list of bans holds all of them, and as many as are counted.
LEMMA UsedIs ==
    ASSUME NEW p, NEW kind, PoolInv(p, kind)
    PROVE  LET s == Bans!Linked(p.next, p.firstUsed)
           IN /\ IsChain(p.next, p.firstUsed, s) /\ Len(s) >= p.count
              /\ \A k \in 1 .. Len(s) : s[k] \in UsedOnes(p)
              /\ \A e \in UsedOnes(p) : \E k \in 1 .. Len(s) : s[k] = e
<1> DEFINE s == Bans!Linked(p.next, p.firstUsed)
<1>1. p \in Pools /\ Links(p.next, p.prev, Firsts(p), ListOf(p), Bans!Entries) /\ Ends(p.next)
      /\ p.count = Cardinality(UsedOnes(p))
  BY DEF PoolInv, Chained, Contents
<1>2. p.next \in [Bans!Entries -> MaybeEntry] /\ "used" \in DOMAIN Firsts(p) /\ Firsts(p)["used"] = p.firstUsed
      /\ p.firstUsed \in MaybeEntry /\ p.count \in Nat
  BY <1>1, PoolIs DEF Firsts
<1>3. Elems(s) = {e \in Bans!Entries : ListOf(p)[e] = "used"}
  <2>1. Elems(Bans!Linked(p.next, Firsts(p)["used"])) = {e \in Bans!Entries : ListOf(p)[e] = "used"}
    <3> DEFINE A == Bans!Entries
    <3>1. A \in SUBSET Bans!Entries /\ Links(p.next, p.prev, Firsts(p), ListOf(p), A)
      BY <1>1
    <3> HIDE DEF A
    <3>2. Elems(Bans!Linked(p.next, Firsts(p)["used"])) = {e \in A : ListOf(p)[e] = "used"}
      BY <1>1, <1>2, <3>1, ListHolds
    <3>3. QED
      BY <3>2 DEF A
  <2>2. QED
    BY <1>2, <2>1
<1>4. {e \in Bans!Entries : ListOf(p)[e] = "used"} = UsedOnes(p)
  BY DEF ListOf, UsedOnes
<1>5. IsChain(p.next, p.firstUsed, s)
  BY <1>1, <1>2, LinkedIs
<1> HIDE DEF s
<1>6. Len(s) \in Nat
  BY <1>5 DEF IsChain
<1>7. \A k \in 1 .. Len(s) : s[k] \in UsedOnes(p)
  BY <1>3, <1>4 DEF Elems
<1>8. \A e \in UsedOnes(p) : \E k \in 1 .. Len(s) : s[k] = e
  <2> SUFFICES ASSUME NEW e \in UsedOnes(p) PROVE e \in Elems(s)
    BY DEF Elems
  <2>1. QED
    BY <1>3, <1>4
<1>9. Len(s) >= p.count
  <2> DEFINE f == [k \in 1 .. Len(s) |-> s[k]]
  <2>1. IsFiniteSet(1 .. Len(s)) /\ Cardinality(1 .. Len(s)) = Len(s)
    BY <1>6, Numbered
  <2>2. f \in Surjection(1 .. Len(s), UsedOnes(p))
    BY <1>7, <1>8 DEF Surjection
  <2> HIDE DEF f
  <2>3. Cardinality(UsedOnes(p)) <= Cardinality(1 .. Len(s))
    BY <2>1, <2>2, FS_Surjection
  <2>4. QED
    BY <1>1, <2>1, <2>3
<1>10. QED
  BY <1>5, <1>7, <1>8, <1>9 DEF s

\* The first ban of the list is the first to run out.
LEMMA FirstIs ==
    ASSUME NEW p, NEW kind, PoolInv(p, kind)
    PROVE  /\ p.firstUsed = Bans!None => UsedOnes(p) = {}
           /\ p.firstUsed # Bans!None => /\ p.firstUsed \in UsedOnes(p)
                                         /\ \A e \in UsedOnes(p) : NoLater(p.expires[p.firstUsed], p.expires[e])
<1> DEFINE s == Bans!Linked(p.next, p.firstUsed)
<1>1. /\ IsChain(p.next, p.firstUsed, s)
      /\ \A k \in 1 .. Len(s) : s[k] \in UsedOnes(p)
      /\ \A e \in UsedOnes(p) : \E k \in 1 .. Len(s) : s[k] = e
  BY UsedIs
<1> HIDE DEF s
<1>2. p \in Pools /\ Sorted(p) /\ Len(s) \in Nat
  BY <1>1 DEF PoolInv, IsChain
<1>3. p.firstUsed = Bans!None => UsedOnes(p) = {}
  BY <1>1 DEF IsChain
<1>4. ASSUME p.firstUsed # Bans!None
      PROVE  /\ p.firstUsed \in UsedOnes(p)
             /\ \A e \in UsedOnes(p) : NoLater(p.expires[p.firstUsed], p.expires[e])
  <2>1. /\ Len(s) > 0 /\ s[1] = p.firstUsed
        /\ \A k \in 1 .. Len(s) - 1 : p.next[s[k]] # Bans!None /\ s[k + 1] = p.next[s[k]]
    BY <1>1, <1>4 DEF IsChain
  <2>2. p.firstUsed \in UsedOnes(p)
    BY <1>1, <1>2, <2>1
  <2>3. \A e \in UsedOnes(p) : e \in Bans!Entries /\ ListOf(p)[e] = "used" /\ p.expires[e] \in Nat \cup {Bans!Never}
    <3>1. p.expires \in [Bans!Entries -> Nat \cup {Bans!Never}]
      BY <1>2, PoolIs
    <3>2. QED
      BY <3>1 DEF UsedOnes, ListOf
  <2> DEFINE N == Len(s) - 1
             P == {k \in 0 .. N : NoLater(p.expires[s[1]], p.expires[s[k + 1]])}
  <2>4. 0 \in P
    <3>1. s[1] \in UsedOnes(p) /\ 0 \in 0 .. N
      BY <1>2, <2>1, <2>2
    <3>2. NoLater(p.expires[s[1]], p.expires[s[1]])
      <4>1. p.expires[s[1]] \in Nat \cup {Bans!Never}
        BY <2>3, <3>1
      <4>2. QED
        BY <4>1 DEF NoLater
    <3>3. QED
      BY <3>1, <3>2
  <2>5. ASSUME NEW k \in 1 .. N, k - 1 \in P
        PROVE  k \in P
    <3>1. k \in 0 .. N /\ k \in 1 .. Len(s) /\ k + 1 \in 1 .. Len(s) /\ (k - 1) + 1 = k /\ 1 \in 1 .. Len(s)
      BY <1>2
    <3>2. NoLater(p.expires[s[1]], p.expires[s[k]])
      BY <2>5, <3>1
    <3>3. s[k] \in UsedOnes(p) /\ s[k + 1] \in UsedOnes(p) /\ s[1] \in UsedOnes(p)
      BY <1>1, <3>1
    <3>4. p.next[s[k]] # Bans!None /\ s[k + 1] = p.next[s[k]]
      BY <2>1
    <3>5. NoLater(p.expires[s[k]], p.expires[s[k + 1]])
      <4>1. s[k] \in Bans!Entries /\ ListOf(p)[s[k]] = "used"
        BY <2>3, <3>3
      <4>2. NoLater(p.expires[s[k]], p.expires[p.next[s[k]]])
        BY <1>2, <3>4, <4>1 DEF Sorted, SortedBy
      <4>3. QED
        BY <3>4, <4>2
    <3>6. NoLater(p.expires[s[1]], p.expires[s[k + 1]])
      <4> DEFINE x == p.expires[s[1]]
                 y == p.expires[s[k]]
                 z == p.expires[s[k + 1]]
      <4>1. x \in Nat \cup {Bans!Never} /\ y \in Nat \cup {Bans!Never} /\ z \in Nat \cup {Bans!Never}
        BY <2>3, <3>3
      <4>2. NoLater(x, y) /\ NoLater(y, z)
        BY <3>2, <3>5
      <4> HIDE DEF x, y, z
      <4>3. NoLater(x, z)
        BY <4>1, <4>2, LaterIs
      <4>4. QED
        BY <4>3 DEF x, z
    <3>7. QED
      BY <3>1, <3>6
  <2>6. \A k \in 0 .. N : k \in P
    <3>1. N \in Nat
      BY <1>2, <2>1
    <3> HIDE DEF N, P
    <3>2. QED
      BY <2>4, <2>5, <3>1, UpTo
  <2>7. ASSUME NEW e \in UsedOnes(p)
        PROVE  NoLater(p.expires[p.firstUsed], p.expires[e])
    <3>1. PICK k \in 1 .. Len(s) : s[k] = e
      BY <1>1
    <3>2. k - 1 \in 0 .. N /\ (k - 1) + 1 = k
      BY <1>2
    <3>3. QED
      BY <2>1, <2>6, <3>1, <3>2
  <2>8. QED
    BY <2>2, <2>7
<1>5. QED
  BY <1>3, <1>4

\* One turn of the loop of Update
SweepStep(p) ==
    IF p.firstUsed # Bans!None /\ p.expires[p.firstUsed] # Bans!Never /\ p.expires[p.firstUsed] < time
    THEN Bans!Removed(p, p.firstUsed) ELSE p

\* What is left of p after some turns
SweptFrom(p, q, kind) ==
    /\ PoolInv(q, kind) /\ UsedOnes(q) \subseteq UsedOnes(p)
    /\ \A e \in UsedOnes(q) : q.data[e] = p.data[e] /\ q.expires[e] = p.expires[e]
    /\ \A e \in UsedOnes(p) \ UsedOnes(q) : p.expires[e] # Bans!Never /\ p.expires[e] < time

\* A turn of the loop of Update lifts a ban that has run out, or finds that there is none.
LEMMA SweepStepIs ==
    ASSUME NEW p, NEW q, NEW kind, SweptFrom(p, q, kind), PoolInv(p, kind), time \in Nat
    PROVE  /\ SweptFrom(p, SweepStep(q), kind)
           /\ \/ Cardinality(UsedOnes(SweepStep(q))) = Cardinality(UsedOnes(q)) - 1
              \/ SweepStep(q) = q /\ InTime(q, time)
           /\ InTime(q, time) => SweepStep(q) = q
<1> DEFINE r == SweepStep(q)
<1>1. PoolInv(q, kind) /\ q \in Pools /\ IsFiniteSet(UsedOnes(q))
  <2>1. IsFiniteSet(Bans!Entries) /\ UsedOnes(q) \in SUBSET Bans!Entries
    BY BanAssumption, FS_Interval DEF Bans!Entries, Bans!BanConstants, UsedOnes
  <2>2. QED
    BY <2>1, FS_Subset DEF SweptFrom, PoolInv
<1>2. q.expires \in [Bans!Entries -> Nat \cup {Bans!Never}] /\ UsedOnes(q) \subseteq Bans!Entries
  BY <1>1, PoolIs DEF UsedOnes
<1>3. InTime(q, time) => r = q
  <2> SUFFICES ASSUME InTime(q, time), q.firstUsed # Bans!None
               PROVE  ~(q.expires[q.firstUsed] # Bans!Never /\ q.expires[q.firstUsed] < time)
    BY DEF SweepStep
  <2>1. q.firstUsed \in UsedOnes(q)
    BY <1>1, FirstIs
  <2>2. NoLater(time, q.expires[q.firstUsed]) /\ q.expires[q.firstUsed] \in Nat \cup {Bans!Never}
    BY <1>2, <2>1 DEF InTime
  <2>3. QED
    BY <2>2 DEF NoLater
<1>4. CASE q.firstUsed # Bans!None /\ q.expires[q.firstUsed] # Bans!Never /\ q.expires[q.firstUsed] < time
  <2> DEFINE b == q.firstUsed
  <2>1. r = Bans!Removed(q, b) /\ b \in UsedOnes(q)
    BY <1>1, <1>4, FirstIs DEF SweepStep
  <2>2. /\ PoolInv(r, kind) /\ UsedOnes(r) = UsedOnes(q) \ {b}
        /\ \A e \in UsedOnes(r) : r.data[e] = q.data[e] /\ r.expires[e] = q.expires[e]
    <3>1. \A e \in UsedOnes(q) : Bans!NetHash(q.data[e]) \in Bans!Hashes
      BY <1>1, DataIs
    <3> HIDE DEF b, r
    <3>2. QED
      BY <1>1, <2>1, <3>1, RemovedIs
  <2>3. Cardinality(UsedOnes(r)) = Cardinality(UsedOnes(q)) - 1
    BY <1>1, <2>1, <2>2, FS_RemoveElement
  <2>4. SweptFrom(p, r, kind)
    <3>1. /\ UsedOnes(q) \subseteq UsedOnes(p)
          /\ \A e \in UsedOnes(q) : q.data[e] = p.data[e] /\ q.expires[e] = p.expires[e]
          /\ \A e \in UsedOnes(p) \ UsedOnes(q) : p.expires[e] # Bans!Never /\ p.expires[e] < time
      BY DEF SweptFrom
    <3>2. q.expires[b] # Bans!Never /\ q.expires[b] < time
      BY <1>4
    <3> HIDE DEF b, r
    <3>3. \A e \in UsedOnes(r) : e \in UsedOnes(q)
      BY <2>2
    <3>4. \A e \in UsedOnes(r) : r.data[e] = p.data[e] /\ r.expires[e] = p.expires[e]
      BY <2>2, <3>1, <3>3
    <3>5. \A e \in UsedOnes(p) \ UsedOnes(r) : p.expires[e] # Bans!Never /\ p.expires[e] < time
      <4> TAKE e \in UsedOnes(p) \ UsedOnes(r)
      <4>1. e = b \/ e \notin UsedOnes(q)
        BY <2>2
      <4>2. CASE e = b
        BY <2>1, <3>1, <3>2, <4>2
      <4>3. CASE e \notin UsedOnes(q)
        BY <3>1, <4>3
      <4>4. QED
        BY <4>1, <4>2, <4>3
    <3>6. UsedOnes(r) \subseteq UsedOnes(p) /\ PoolInv(r, kind)
      BY <2>2, <3>1, <3>3
    <3>7. SweptFrom(p, r, kind)
      BY <3>4, <3>5, <3>6 DEF SweptFrom
    <3>8. QED
      BY <3>7 DEF r
  <2>5. QED
    BY <1>3, <2>3, <2>4
<1>5. CASE ~(q.firstUsed # Bans!None /\ q.expires[q.firstUsed] # Bans!Never /\ q.expires[q.firstUsed] < time)
  <2>1. r = q
    BY <1>5 DEF SweepStep
  <2>2. InTime(q, time)
    <3>1. CASE q.firstUsed = Bans!None
      BY <1>1, <3>1, FirstIs DEF InTime
    <3>2. CASE q.firstUsed # Bans!None
      <4>1. /\ q.firstUsed \in UsedOnes(q)
            /\ \A e \in UsedOnes(q) : NoLater(q.expires[q.firstUsed], q.expires[e])
        BY <1>1, <3>2, FirstIs
      <4>2. NoLater(time, q.expires[q.firstUsed])
        <5>1. q.expires[q.firstUsed] \in Nat \cup {Bans!Never}
          BY <1>2, <4>1
        <5>2. q.expires[q.firstUsed] = Bans!Never \/ ~(q.expires[q.firstUsed] < time)
          BY <1>5, <3>2
        <5>3. QED
          BY <5>1, <5>2 DEF NoLater, Bans!Never
      <4>3. \A e \in UsedOnes(q) : q.expires[e] \in Nat \cup {Bans!Never}
        BY <1>2
      <4>4. ASSUME NEW e \in UsedOnes(q)
            PROVE  NoLater(time, q.expires[e])
        <5>1. time \in Nat \cup {Bans!Never} /\ q.expires[q.firstUsed] \in Nat \cup {Bans!Never} /\ q.expires[e] \in Nat \cup {Bans!Never}
          BY <4>1, <4>3
        <5>2. NoLater(q.expires[q.firstUsed], q.expires[e])
          BY <4>1
        <5>3. QED
          BY <4>2, <5>1, <5>2, LaterIs
      <4>5. QED
        BY <4>4 DEF InTime
    <3>3. QED
      BY <3>1, <3>2
  <2>3. QED
    BY <1>3, <2>1, <2>2
<1>6. QED
  BY <1>4, <1>5

\* Update lifts the bans that have run out.
LEMMA SweptIs ==
    ASSUME NEW p, NEW kind, PoolInv(p, kind), time \in Nat
    PROVE  SweptFrom(p, Bans!Swept(p), kind) /\ InTime(Bans!Swept(p), time)
<1> DEFINE S == {q \in Pools : SweptFrom(p, q, kind)}
           turn == [q \in S |-> SweepStep(q)]
           E(g) == [k \in 0 .. MaxBans |-> IF k = 0 THEN p ELSE SweepStep(g[k - 1])]
           sweep == CHOOSE g : g = E(g)
<1>0. MaxBans \in Nat /\ MaxBans > 0
  BY NoEntry
<1>1. Bans!Swept(p) = sweep[MaxBans]
  BY DEF Bans!Swept, SweepStep
<1>2. turn \in [S -> S] /\ \A q \in S : turn[q] = SweepStep(q) /\ turn[q] \in S
  <2>1. \A q \in S : SweepStep(q) \in S
    <3> TAKE q \in S
    <3>1. SweptFrom(p, SweepStep(q), kind)
      BY SweepStepIs
    <3>2. QED
      BY <3>1 DEF SweptFrom, PoolInv
  <2>2. QED
    BY <2>1
<1>3. p \in S
  BY DEF SweptFrom, PoolInv
<1> HIDE DEF turn
<1>4. PICK g : IsRun(g, S, turn, p, MaxBans)
  <2> HIDE DEF S
  <2>1. QED
    BY <1>0, <1>2, <1>3, Iterates
<1>5. g \in [0 .. MaxBans -> S] /\ g[0] = p /\ \A k \in 1 .. MaxBans : g[k - 1] \in S /\ g[k] = SweepStep(g[k - 1])
  <2>1. g \in [0 .. MaxBans -> S] /\ g[0] = p /\ \A k \in 1 .. MaxBans : g[k] = turn[g[k - 1]]
    BY <1>4 DEF IsRun
  <2>2. \A k \in 1 .. MaxBans : k - 1 \in 0 .. MaxBans
    BY <1>0
  <2> HIDE DEF S
  <2>3. QED
    BY <1>2, <2>1, <2>2
<1> HIDE DEF S
<1>6. g = E(g)
  <2>1. \A k \in 0 .. MaxBans : g[k] = IF k = 0 THEN p ELSE SweepStep(g[k - 1])
    <3> TAKE k \in 0 .. MaxBans
    <3>1. k = 0 \/ k \in 1 .. MaxBans
      BY <1>0
    <3>2. QED
      BY <1>5, <3>1
  <2>2. QED
    BY <1>5, <2>1
<1>7. sweep = E(sweep)
  <2> HIDE DEF E
  <2>1. QED
    BY <1>6
<1>8. sweep[0] = p /\ \A k \in 1 .. MaxBans : sweep[k] = SweepStep(sweep[k - 1])
  <2>1. 0 \in 0 .. MaxBans /\ \A k \in 1 .. MaxBans : k \in 0 .. MaxBans /\ k # 0
    BY <1>0
  <2>2. \A k \in 0 .. MaxBans : sweep[k] = IF k = 0 THEN p ELSE SweepStep(sweep[k - 1])
    <3> HIDE DEF sweep
    <3>1. QED
      BY <1>7
  <2> HIDE DEF sweep
  <2>3. QED
    BY <2>1, <2>2
<1> HIDE DEF sweep, E
<1> DEFINE P == {k \in 0 .. MaxBans : /\ SweptFrom(p, sweep[k], kind)
                                      /\ \/ Cardinality(UsedOnes(sweep[k])) <= MaxBans - k
                                         \/ InTime(sweep[k], time)}
<1>9. \A q : IsFiniteSet(UsedOnes(q)) /\ Cardinality(UsedOnes(q)) \in Nat /\ Cardinality(UsedOnes(q)) <= MaxBans
  <2> TAKE q
  <2>1. IsFiniteSet(Bans!Entries) /\ Cardinality(Bans!Entries) = MaxBans /\ UsedOnes(q) \in SUBSET Bans!Entries
    <3>1. IsFiniteSet(0 .. MaxBans - 1) /\ Cardinality(0 .. MaxBans - 1) = MaxBans
      BY <1>0, Numbered
    <3>2. QED
      BY <3>1 DEF Bans!Entries, UsedOnes
  <2>2. IsFiniteSet(UsedOnes(q)) /\ Cardinality(UsedOnes(q)) <= MaxBans
    BY <2>1, FS_Subset
  <2>3. QED
    BY <2>2, FS_CardinalityType
<1>10. 0 \in P
  <2>1. SweptFrom(p, p, kind)
    BY DEF SweptFrom
  <2>2. Cardinality(UsedOnes(p)) <= MaxBans - 0
    BY <1>0, <1>9
  <2>3. QED
    BY <1>0, <1>8, <2>1, <2>2
<1>11. ASSUME NEW k \in 1 .. MaxBans, k - 1 \in P
       PROVE  k \in P
  <2> DEFINE q == sweep[k - 1]
             r == sweep[k]
  <2>1. /\ SweptFrom(p, q, kind)
        /\ \/ Cardinality(UsedOnes(q)) <= MaxBans - (k - 1)
           \/ InTime(q, time)
    BY <1>11
  <2>2. r = SweepStep(q) /\ k \in 0 .. MaxBans
    BY <1>0, <1>8
  <2> HIDE DEF q
  <2>3. /\ SweptFrom(p, r, kind)
        /\ \/ Cardinality(UsedOnes(r)) = Cardinality(UsedOnes(q)) - 1
           \/ r = q /\ InTime(q, time)
        /\ InTime(q, time) => r = q
    BY <2>1, <2>2, SweepStepIs
  <2> HIDE DEF r
  <2>4. CASE r = q /\ InTime(q, time)
    BY <2>2, <2>3, <2>4 DEF r
  <2>5. CASE Cardinality(UsedOnes(r)) = Cardinality(UsedOnes(q)) - 1
    <3>1. CASE Cardinality(UsedOnes(q)) <= MaxBans - (k - 1)
      <4>1. Cardinality(UsedOnes(r)) <= MaxBans - k
        <5> DEFINE m == Cardinality(UsedOnes(q))
        <5>1. m \in Nat /\ m <= MaxBans - (k - 1)
          BY <1>9, <3>1
        <5> HIDE DEF m
        <5>2. m - 1 <= MaxBans - k
          BY <1>0, <5>1
        <5>3. QED
          BY <2>5, <5>2 DEF m
      <4>2. QED
        BY <2>2, <2>3, <4>1 DEF r
    <3>2. CASE InTime(q, time)
      <4>1. InTime(r, time)
        BY <2>3, <3>2
      <4>2. QED
        BY <2>2, <2>3, <4>1 DEF r
    <3>3. QED
      BY <2>1, <3>1, <3>2
  <2>6. QED
    BY <2>3, <2>4, <2>5
<1>12. MaxBans \in P
  <2> HIDE DEF P
  <2>1. MaxBans \in 0 .. MaxBans
    BY <1>0
  <2>2. \A k \in 0 .. MaxBans : k \in P
    BY <1>0, <1>10, <1>11, UpTo
  <2>3. QED
    BY <2>1, <2>2
<1>13. InTime(sweep[MaxBans], time)
  <2>1. CASE Cardinality(UsedOnes(sweep[MaxBans])) <= MaxBans - MaxBans
    <3> DEFINE m == Cardinality(UsedOnes(sweep[MaxBans]))
    <3>1. m \in Nat /\ m <= MaxBans - MaxBans
      BY <1>9, <2>1
    <3> HIDE DEF m
    <3>2. m = 0
      BY <1>0, <3>1
    <3>3. UsedOnes(sweep[MaxBans]) = {}
      BY <1>9, <3>2, FS_EmptySet DEF m
    <3>4. QED
      BY <3>3 DEF InTime
  <2>2. QED
    BY <1>12, <2>1
<1>14. QED
  BY <1>1, <1>12, <1>13

\* The bans of a pool
BansOf(p) == [d \in {p.data[b] : b \in Bans!Entries} \ {Bans!NoData} |-> p.expires[CHOOSE b \in Bans!Entries : p.data[b] = d]]
Without(f, D) == [d \in DOMAIN f \ D |-> f[d]]
Given(f, d, x) == [e \in DOMAIN f \cup {d} |-> IF e = d THEN x ELSE f[e]]
RunOut(f, t) == {d \in DOMAIN f : f[d] # Bans!Never /\ f[d] < t}

\* The bans of a pool are those of its used entries.
LEMMA BansOfIs ==
    ASSUME NEW p, NEW kind, PoolInv(p, kind)
    PROVE  /\ BansOf(p) = [d \in DOMAIN BansOf(p) |-> BansOf(p)[d]]
           /\ DOMAIN BansOf(p) = {p.data[e] : e \in UsedOnes(p)}
           /\ \A e \in UsedOnes(p) : p.data[e] \in DOMAIN BansOf(p) /\ BansOf(p)[p.data[e]] = p.expires[e]
<1> DEFINE D == {p.data[b] : b \in Bans!Entries} \ {Bans!NoData}
           f == [d \in D |-> p.expires[CHOOSE b \in Bans!Entries : p.data[b] = d]]
<1>1. BansOf(p) = f
  BY DEF BansOf
<1>2. \A e, g \in UsedOnes(p) : p.data[e] = p.data[g] => e = g
  BY DEF PoolInv, Contents
<1>3. D = {p.data[e] : e \in UsedOnes(p)}
  BY DEF UsedOnes
<1>4. ASSUME NEW e \in UsedOnes(p)
      PROVE  f[p.data[e]] = p.expires[e]
  <2> DEFINE d == p.data[e]
             c == CHOOSE b \in Bans!Entries : p.data[b] = d
  <2>1. e \in Bans!Entries /\ d # Bans!NoData /\ d \in D
    BY DEF UsedOnes
  <2>2. c \in Bans!Entries /\ p.data[c] = d
    BY <2>1
  <2>3. f[d] = p.expires[c]
    BY <2>1
  <2> HIDE DEF c, f, D
  <2>4. c \in UsedOnes(p)
    BY <2>1, <2>2 DEF UsedOnes
  <2>5. c = e
    BY <1>2, <2>2, <2>4
  <2>6. QED
    BY <2>3, <2>5
<1>5. DOMAIN f = D /\ f = [d \in DOMAIN f |-> f[d]]
  OBVIOUS
<1> HIDE DEF f, D
<1>6. QED
  BY <1>1, <1>3, <1>4, <1>5

\* An address is taken for banned exactly if a ban in use says so.
LEMMA IsBannedIs ==
    ASSUME PoolsOK(banPool), NEW a \in Bans!Address
    PROVE  Bans!IsBanned(a) <=> \E kind \in Bans!Kinds : \E e \in UsedOnes(banPool[kind]) : Bans!Matches(banPool[kind].data[e], a)
<1> DEFINE p == banPool["addr"]
           r == banPool["range"]
           d == [lb |-> a, ub |-> a]
           h(n) == [index |-> n, hash |-> Bans!Sum(a, n) % Buckets]
           chain(n) == Bans!Linked(r.hashNext, r.bucket[h(n)])
           Hit(n) == \E k \in 1 .. Len(chain(n)) : Bans!InRange(r.data[chain(n)[k]], a, n)
<1>1. PoolInv(p, "addr") /\ PoolInv(r, "range") /\ p \in Pools /\ r \in Pools /\ Bans!Kinds = {"addr", "range"}
  BY DEF PoolsOK, PoolInv, Bans!Kinds
<1>2. Bans!IsBanned(a) <=> Bans!Find(p, d) # Bans!None \/ \E n \in 0 .. Length - 1 : Hit(n)
  BY DEF Bans!IsBanned
<1> HIDE DEF p, r
<1>3. Bans!Find(p, d) # Bans!None <=> \E e \in UsedOnes(p) : Bans!Matches(p.data[e], a)
  <2>1. d \in Bans!Ranges
    BY DEF Bans!Ranges
  <2>2. Bans!NetHash(d) \in Bans!Hashes
    BY <2>1, HashIs
  <2>3. \A e \in UsedOnes(p) : Bans!Matches(p.data[e], a) <=> p.data[e] = d
    <3> TAKE e \in UsedOnes(p)
    <3>1. p.data[e] \in Bans!Ranges
      BY <1>1, DataIs
    <3>2. ~Bans!IsRange(p.data[e])
      <4>1. Bans!KindOf(p.data[e]) = "addr"
        BY <1>1 DEF PoolInv, Contents
      <4>2. QED
        BY <4>1 DEF Bans!KindOf
    <3>3. p.data[e].lb = p.data[e].ub /\ (Bans!Matches(p.data[e], a) <=> p.data[e].lb = a)
      BY <3>2 DEF Bans!IsRange, Bans!Matches
    <3>4. p.data[e] = [lb |-> p.data[e].lb, ub |-> p.data[e].ub]
      BY <3>1 DEF Bans!Ranges
    <3>5. QED
      BY <3>3, <3>4
  <2> HIDE DEF d
  <2>4. /\ Bans!Find(p, d) # Bans!None => Bans!Find(p, d) \in UsedOnes(p) /\ p.data[Bans!Find(p, d)] = d
        /\ Bans!Find(p, d) = Bans!None => \A e \in UsedOnes(p) : p.data[e] # d
    BY <1>1, <2>2, FindIs
  <2>5. QED
    BY <2>3, <2>4
<1>4. (\E n \in 0 .. Length - 1 : Hit(n)) <=> \E e \in UsedOnes(r) : Bans!Matches(r.data[e], a)
  <2>0. Length \in Nat /\ Length > 0 /\ Buckets \in Nat /\ Buckets > 0
    BY BanAssumption DEF Bans!BanConstants
  <2>1. \A n \in 0 .. Length - 1 : h(n) \in Bans!Hashes
    <3> TAKE n \in 0 .. Length - 1
    <3>1. Bans!Sum(a, n) \in Nat
      <4>1. n \in 0 .. Length
        BY <2>0
      <4>2. QED
        BY <4>1, SumIs
    <3>2. Bans!Sum(a, n) % Buckets \in 0 .. Buckets - 1
      BY <2>0, <3>1
    <3>3. QED
      BY <3>2 DEF Bans!Hashes
  <2>2. \A n \in 0 .. Length - 1 : Elems(chain(n)) = {e \in UsedOnes(r) : Bans!NetHash(r.data[e]) = h(n)}
    <3> HIDE DEF h
    <3>1. QED
      BY <1>1, <2>1, BucketIs
  <2> HIDE DEF chain
  <2>3. \A n \in 0 .. Length - 1 : Hit(n) <=> \E e \in UsedOnes(r) : Bans!NetHash(r.data[e]) = h(n) /\ Bans!InRange(r.data[e], a, n)
    <3> TAKE n \in 0 .. Length - 1
    <3>1. Hit(n) <=> \E e \in Elems(chain(n)) : Bans!InRange(r.data[e], a, n)
      BY DEF Elems
    <3> HIDE DEF Hit, h
    <3>2. QED
      BY <2>2, <3>1
  <2> HIDE DEF Hit
  <2>4. ASSUME NEW e \in UsedOnes(r)
        PROVE  Bans!Matches(r.data[e], a) <=> \E n \in 0 .. Length - 1 : Bans!NetHash(r.data[e]) = h(n) /\ Bans!InRange(r.data[e], a, n)
    <3> DEFINE c == Bans!Common(r.data[e])
    <3>1. r.data[e] \in Bans!Ranges /\ Bans!IsRange(r.data[e])
      <4>1. Bans!KindOf(r.data[e]) = "range"
        BY <1>1 DEF PoolInv, Contents
      <4>2. QED
        BY <1>1, <4>1, DataIs DEF Bans!KindOf
    <3>2. /\ Bans!InRange(r.data[e], a, 0) <=> Bans!InRange(r.data[e], a, c)
          /\ Bans!InRange(r.data[e], a, c) => Bans!NetHash(r.data[e]) = h(c)
      BY <3>1, RangeIs
    <3>3. c \in 0 .. Length - 1
      BY <3>1, CommonIs
    <3>4. Bans!Matches(r.data[e], a) <=> Bans!InRange(r.data[e], a, 0)
      BY <3>1 DEF Bans!Matches
    <3>5. \A n \in 0 .. Length - 1 : Bans!NetHash(r.data[e]) = h(n) => n = c
      BY <3>1 DEF Bans!NetHash
    <3> HIDE DEF c, h
    <3>6. QED
      BY <3>2, <3>3, <3>4, <3>5
  <2> HIDE DEF h
  <2>5. QED
    BY <2>3, <2>4
<1>5. QED
  BY <1>1, <1>2, <1>3, <1>4 DEF p, r

\* One of the pools has changed.
LEMMA OneChanged ==
    ASSUME NEW f, PoolsOK(f), NEW kind \in Bans!Kinds, NEW q, PoolInv(q, kind)
    PROVE  PoolsOK([f EXCEPT ![kind] = q])
<1>1. f \in [Bans!Kinds -> Pools] /\ q \in Pools /\ \A k \in Bans!Kinds : PoolInv(f[k], k)
  BY DEF PoolsOK, PoolInv
<1>2. [f EXCEPT ![kind] = q] \in [Bans!Kinds -> Pools]
  BY <1>1
<1>3. \A k \in Bans!Kinds : [f EXCEPT ![kind] = q][k] = IF k = kind THEN q ELSE f[k]
  BY <1>1
<1>4. QED
  BY <1>1, <1>2, <1>3 DEF PoolsOK

\* Fewer bans drop nobody.
LEMMA StillApart ==
    ASSUME NEW f, NEW g, NEW on, NEW off, off \subseteq on, Apart(f, on),
           \A k \in Bans!Kinds : /\ UsedOnes(g[k]) \subseteq UsedOnes(f[k])
                                 /\ \A e \in UsedOnes(g[k]) : g[k].data[e] = f[k].data[e]
    PROVE  Apart(g, off)
BY DEF Apart

\* What an action makes of the ban of d
AsGiven(q, e, d, x) == q.data[e] = d /\ q.expires[e] = x
AsBefore(p, q, e, d) ==
    q.data[e] # d /\ e \in UsedOnes(p) /\ q.data[e] = p.data[e] /\ q.expires[e] = p.expires[e]
BannedIn(p, q, kind, d, x) ==
    /\ PoolInv(q, kind)
    /\ {q.data[e] : e \in UsedOnes(q)} = {p.data[e] : e \in UsedOnes(p)} \cup {d}
    /\ \A e \in UsedOnes(q) : AsGiven(q, e, d, x) \/ AsBefore(p, q, e, d)
    /\ d \in {p.data[e] : e \in UsedOnes(p)} \/ p.firstFree # Bans!None
LiftedIn(p, q, kind, d) ==
    /\ PoolInv(q, kind) /\ d \in UNION Plans
    /\ {q.data[e] : e \in UsedOnes(q)} = {p.data[e] : e \in UsedOnes(p)} \ {d}
    /\ UsedOnes(q) \subseteq UsedOnes(p)
    /\ \A e \in UsedOnes(q) : q.data[e] = p.data[e] /\ q.expires[e] = p.expires[e]

\* Remove lifts the ban of the entry.
LEMMA RemovedLifts ==
    ASSUME NEW p, NEW kind, PoolInv(p, kind), NEW b \in UsedOnes(p)
    PROVE  LiftedIn(p, Bans!Removed(p, b), kind, p.data[b])
<1> DEFINE q == Bans!Removed(p, b)
<1>1. p \in Pools /\ \A e, f \in UsedOnes(p) : p.data[e] = p.data[f] => e = f
  BY DEF PoolInv, Contents
<1>2. p.data[b] \in UNION Plans /\ \A e \in UsedOnes(p) : Bans!NetHash(p.data[e]) \in Bans!Hashes
  BY <1>1, DataIs
<1>3. /\ PoolInv(q, kind) /\ UsedOnes(q) = UsedOnes(p) \ {b}
      /\ \A e \in UsedOnes(q) : q.data[e] = p.data[e] /\ q.expires[e] = p.expires[e]
  BY <1>2, RemovedIs
<1> HIDE DEF q
<1>4. {q.data[e] : e \in UsedOnes(q)} = {p.data[e] : e \in UsedOnes(p)} \ {p.data[b]}
  BY <1>1, <1>3
<1>5. QED
  BY <1>2, <1>3, <1>4 DEF LiftedIn, q

\* Ban and BanExt give one ban to one pool, or a new time to the one that is there.
LEMMA BanExtIs ==
    ASSUME BanInv, NEW d \in banned, NEW seconds \in 0 .. 1, NEW by \in online \cup {Bans!Console}, Bans!BanExt(d, seconds, by)
    PROVE  \E x \in {Bans!Never} \cup time + 1 .. time + 1 : \E q :
               /\ BannedIn(banPool[Bans!KindOf(d)], q, Bans!KindOf(d), d, x)
               /\ banPool' = [banPool EXCEPT ![Bans!KindOf(d)] = q]
               /\ UNCHANGED <<banned, time, due>> /\ online' \subseteq online /\ Apart(banPool', online')
<1> DEFINE kind == Bans!KindOf(d)
           p == banPool[kind]
           x == IF seconds > 0 THEN time + seconds ELSE Bans!Never
           b == Bans!Find(p, d)
<1>1. /\ kind \in Bans!Kinds /\ PoolInv(p, kind) /\ PoolsOK(banPool) /\ Apart(banPool, online) /\ p \in Pools /\ time \in Nat
  <2>1. kind \in Bans!Kinds
    BY DEF Bans!KindOf, Bans!Kinds
  <2>2. QED
    BY <2>1 DEF BanInv, PoolsOK, PoolInv, BanTypes
<1>2. d \in UNION Plans /\ d \in Bans!Ranges /\ d # Bans!NoData /\ Bans!NetHash(d) \in Bans!Hashes
  <2>1. d \in UNION Plans
    BY DEF BanInv, BanTypes
  <2>2. QED
    BY <2>1, DataIs, HashIs
<1>3. x \in {Bans!Never} \cup time + 1 .. time + 1 /\ x \in Nat \cup {Bans!Never}
  BY <1>1
<1>4. /\ UNCHANGED <<banned, time, due>>
      /\ IF b # Bans!None THEN banPool' = [banPool EXCEPT ![kind] = Bans!Updated(p, b, x)] /\ UNCHANGED online
         ELSE /\ p.firstFree # Bans!None
              /\ banPool' = [banPool EXCEPT ![kind] = Bans!Added(p, d, x)]
              /\ online' = {a \in online : ~Bans!Matches(d, a)}
  BY DEF Bans!BanExt
<1>5. /\ b # Bans!None => b \in UsedOnes(p) /\ p.data[b] = d
      /\ b = Bans!None => \A e \in UsedOnes(p) : p.data[e] # d
  BY <1>1, <1>2, FindIs
<1>6. \A e, g \in UsedOnes(p) : p.data[e] = p.data[g] => e = g
  BY <1>1 DEF PoolInv, Contents
<1>7. Bans!KindOf(d) = kind
  OBVIOUS
<1> HIDE DEF kind, p, x, b
<1>8. CASE b # Bans!None
  <2> DEFINE q == Bans!Updated(p, b, x)
  <2>1. PoolInv(q, kind) /\ UsedOnes(q) = UsedOnes(p) /\ q.data = p.data /\ q.expires[b] = x
        /\ \A e \in UsedOnes(p) \ {b} : q.expires[e] = p.expires[e]
    BY <1>1, <1>3, <1>5, <1>8, UpdatedIs
  <2>2. banPool' = [banPool EXCEPT ![kind] = q] /\ online' = online
    BY <1>4, <1>8
  <2> HIDE DEF q
  <2>3. BannedIn(p, q, kind, d, x)
    <3>1. b \in UsedOnes(p) /\ p.data[b] = d
      BY <1>5, <1>8
    <3>2. \A e \in UsedOnes(q) : AsGiven(q, e, d, x) \/ AsBefore(p, q, e, d)
      <4> TAKE e \in UsedOnes(q)
      <4>1. CASE e = b
        BY <2>1, <3>1, <4>1 DEF AsGiven
      <4>2. CASE e # b
        <5>1. e \in UsedOnes(p) /\ q.data[e] = p.data[e] /\ q.expires[e] = p.expires[e]
          BY <2>1, <4>2
        <5>2. p.data[e] # d
          BY <1>6, <3>1, <4>2, <5>1
        <5>3. QED
          BY <5>1, <5>2 DEF AsBefore
      <4>3. QED
        BY <4>1, <4>2
    <3>3. {q.data[e] : e \in UsedOnes(q)} = {p.data[e] : e \in UsedOnes(p)} \cup {d}
      BY <2>1, <3>1
    <3>4. QED
      BY <2>1, <3>1, <3>2, <3>3 DEF BannedIn
  <2>4. Apart(banPool', online')
    <3>1. \A k \in Bans!Kinds : [banPool EXCEPT ![kind] = q][k] = IF k = kind THEN q ELSE banPool[k]
      BY <1>1 DEF PoolsOK
    <3>2. \A k \in Bans!Kinds : UsedOnes(banPool'[k]) \subseteq UsedOnes(banPool[k])
                           /\ \A e \in UsedOnes(banPool'[k]) : banPool'[k].data[e] = banPool[k].data[e]
      <4> TAKE k \in Bans!Kinds
      <4>1. CASE k = kind
        BY <2>1, <2>2, <3>1, <4>1 DEF p
      <4>2. CASE k # kind
        BY <2>2, <3>1, <4>2
      <4>3. QED
        BY <4>1, <4>2
    <3>3. QED
      BY <1>1, <2>2, <3>2 DEF Apart
  <2>5. QED
    BY <1>3, <1>4, <1>7, <2>2, <2>3, <2>4 DEF p
<1>9. CASE b = Bans!None
  <2> DEFINE q == Bans!Added(p, d, x)
             c == p.firstFree
  <2>0. c # Bans!None /\ banPool' = [banPool EXCEPT ![kind] = q] /\ online' = {a \in online : ~Bans!Matches(d, a)}
    BY <1>4, <1>9
  <2>1. /\ PoolInv(q, kind) /\ c \in Bans!Entries \ UsedOnes(p) /\ UsedOnes(q) = UsedOnes(p) \cup {c}
        /\ q.data[c] = d /\ q.expires[c] = x
        /\ \A e \in UsedOnes(p) : q.data[e] = p.data[e] /\ q.expires[e] = p.expires[e]
    <3>1. \A e \in UsedOnes(p) : Bans!NetHash(p.data[e]) \in Bans!Hashes
      BY <1>1, DataIs
    <3>2. \A e \in UsedOnes(p) : p.data[e] # d
      BY <1>5, <1>9
    <3>3. /\ PoolInv(p, kind) /\ p.firstFree # Bans!None /\ x \in Nat \cup {Bans!Never}
          /\ d \in UNION Plans /\ d # Bans!NoData /\ Bans!NetHash(d) \in Bans!Hashes /\ Bans!KindOf(d) = kind
      BY <1>1, <1>2, <1>3, <1>7, <2>0
    <3>4. QED
      BY <3>1, <3>2, <3>3, AddedIs, SMTT(30)
  <2> HIDE DEF q, c
  <2>2. BannedIn(p, q, kind, d, x)
    <3>1. \A e \in UsedOnes(p) : p.data[e] # d
      BY <1>5, <1>9
    <3>2. \A e \in UsedOnes(q) : AsGiven(q, e, d, x) \/ AsBefore(p, q, e, d)
      <4> TAKE e \in UsedOnes(q)
      <4>1. CASE e = c
        BY <2>1, <4>1 DEF AsGiven
      <4>2. CASE e # c
        <5>1. e \in UsedOnes(p)
          BY <2>1, <4>2
        <5>2. q.data[e] = p.data[e] /\ q.expires[e] = p.expires[e] /\ p.data[e] # d
          BY <2>1, <3>1, <5>1
        <5>3. QED
          BY <5>1, <5>2 DEF AsBefore
      <4>3. QED
        BY <4>1, <4>2
    <3>3. {q.data[e] : e \in UsedOnes(q)} = {p.data[e] : e \in UsedOnes(p)} \cup {d}
      BY <2>1
    <3>4. QED
      BY <2>0, <2>1, <3>2, <3>3 DEF BannedIn, c
  <2>3. Apart(banPool', online')
    <3>1. \A k \in Bans!Kinds : [banPool EXCEPT ![kind] = q][k] = IF k = kind THEN q ELSE banPool[k]
      BY <1>1 DEF PoolsOK
    <3>2. ASSUME NEW a \in online', NEW k \in Bans!Kinds, NEW e \in UsedOnes(banPool'[k])
          PROVE  ~Bans!Matches(banPool'[k].data[e], a)
      <4>1. a \in online /\ ~Bans!Matches(d, a)
        BY <2>0, <3>2
      <4>2. CASE k = kind /\ e = c
        <5>1. banPool'[k].data[e] = d
          BY <2>0, <2>1, <3>1, <4>2
        <5>2. QED
          BY <4>1, <5>1
      <4>3. CASE k = kind /\ e # c
        <5>1. e \in UsedOnes(p) /\ banPool'[k].data[e] = p.data[e]
          BY <2>0, <2>1, <3>1, <3>2, <4>3
        <5>2. QED
          BY <1>1, <4>1, <4>3, <5>1 DEF Apart, p
      <4>4. CASE k # kind
        <5>1. banPool'[k] = banPool[k]
          BY <2>0, <3>1, <4>4
        <5>2. QED
          BY <1>1, <3>2, <4>1, <5>1 DEF Apart
      <4>5. QED
        BY <4>2, <4>3, <4>4
    <3>3. QED
      BY <3>2 DEF Apart
  <2>4. online' \subseteq online
    BY <2>0
  <2>5. QED
    BY <1>3, <1>4, <1>7, <2>0, <2>2, <2>3, <2>4 DEF p
<1>10. QED
  BY <1>8, <1>9

\* The commands that lift one ban do it in one pool.
LEMMA LiftIs ==
    ASSUME BanInv, (\E d \in banned : Bans!Unban(d)) \/ (\E index \in 0 .. 2 * MaxBans - 1 : Bans!UnbanByIndex(index))
    PROVE  \E kind \in Bans!Kinds : \E d, q :
               /\ LiftedIn(banPool[kind], q, kind, d)
               /\ banPool' = [banPool EXCEPT ![kind] = q] /\ UNCHANGED <<online, banned, time, due>>
<1>1. PoolsOK(banPool) /\ \A kind \in Bans!Kinds : PoolInv(banPool[kind], kind)
  BY DEF BanInv, PoolsOK
<1>2. ASSUME NEW kind \in Bans!Kinds, NEW b \in UsedOnes(banPool[kind]), banPool' = [banPool EXCEPT ![kind] = Bans!Removed(banPool[kind], b)],
             UNCHANGED <<online, banned, time, due>>
      PROVE  \E d, q : /\ LiftedIn(banPool[kind], q, kind, d)
                       /\ banPool' = [banPool EXCEPT ![kind] = q] /\ UNCHANGED <<online, banned, time, due>>
  <2>1. LiftedIn(banPool[kind], Bans!Removed(banPool[kind], b), kind, banPool[kind].data[b])
    BY <1>1, RemovedLifts
  <2>2. QED
    BY <1>2, <2>1
<1>3. ASSUME NEW d \in banned, Bans!Unban(d)
      PROVE  \E kind \in Bans!Kinds : \E b \in UsedOnes(banPool[kind]) :
                 banPool' = [banPool EXCEPT ![kind] = Bans!Removed(banPool[kind], b)] /\ UNCHANGED <<online, banned, time, due>>
  <2> DEFINE kind == Bans!KindOf(d)
             b == Bans!Find(banPool[kind], d)
  <2>1. kind \in Bans!Kinds
    BY DEF Bans!KindOf, Bans!Kinds
  <2>2. Bans!NetHash(d) \in Bans!Hashes
    <3>1. d \in UNION Plans
      BY DEF BanInv, BanTypes
    <3>2. QED
      BY <3>1, DataIs, HashIs
  <2>3. b # Bans!None /\ banPool' = [banPool EXCEPT ![kind] = Bans!Removed(banPool[kind], b)] /\ UNCHANGED <<online, banned, time, due>>
    BY <1>3 DEF Bans!Unban
  <2>4. b \in UsedOnes(banPool[kind])
    BY <1>1, <2>1, <2>2, <2>3, FindIs
  <2> HIDE DEF kind, b
  <2>5. QED
    BY <2>1, <2>3, <2>4
<1>4. ASSUME NEW index \in 0 .. 2 * MaxBans - 1, Bans!UnbanByIndex(index)
      PROVE  \E kind \in Bans!Kinds : \E b \in UsedOnes(banPool[kind]) :
                 banPool' = [banPool EXCEPT ![kind] = Bans!Removed(banPool[kind], b)] /\ UNCHANGED <<online, banned, time, due>>
  <2> DEFINE kind == IF index < banPool.addr.count THEN "addr" ELSE "range"
             i == IF kind = "addr" THEN index ELSE index - banPool.addr.count
             s == Bans!Linked(banPool[kind].next, banPool[kind].firstUsed)
             b == s[i + 1]
  <2>1. kind \in Bans!Kinds
    BY DEF Bans!Kinds
  <2>2. i < banPool[kind].count /\ banPool' = [banPool EXCEPT ![kind] = Bans!Removed(banPool[kind], b)] /\ UNCHANGED <<online, banned, time, due>>
    BY <1>4 DEF Bans!UnbanByIndex
  <2>3. i \in Nat
    <3>1. banPool["addr"].count \in Nat /\ index \in Nat
      <4>1. banPool["addr"] \in Pools
        BY <1>1 DEF PoolsOK, Bans!Kinds
      <4>2. QED
        BY <4>1, PoolIs
    <3>2. QED
      BY <3>1
  <2>4. Len(s) >= banPool[kind].count /\ Len(s) \in Nat /\ \A k \in 1 .. Len(s) : s[k] \in UsedOnes(banPool[kind])
    BY <1>1, <2>1, UsedIs DEF IsChain
  <2>5. banPool[kind].count \in Nat
    <3>1. banPool[kind] \in Pools
      BY <1>1, <2>1 DEF PoolsOK
    <3>2. QED
      BY <3>1, PoolIs
  <2> HIDE DEF s, i, kind
  <2>6. i + 1 \in 1 .. Len(s)
    BY <2>2, <2>3, <2>4, <2>5
  <2>7. b \in UsedOnes(banPool[kind])
    BY <2>4, <2>6
  <2> HIDE DEF b
  <2>8. QED
    BY <2>1, <2>2, <2>7
<1>5. QED
  BY <1>2, <1>3, <1>4

\* Update lifts what has run out in both pools.
LEMMA UpdateIs ==
    ASSUME BanInv, Bans!Update
    PROVE  /\ banPool' = [kind \in Bans!Kinds |-> Bans!Swept(banPool[kind])]
           /\ \A kind \in Bans!Kinds : SweptFrom(banPool[kind], banPool'[kind], kind) /\ InTime(banPool'[kind], time)
<1>1. \A kind \in Bans!Kinds : PoolInv(banPool[kind], kind)
  BY DEF BanInv, PoolsOK
<1>2. time \in Nat
  BY DEF BanInv, BanTypes
<1>3. banPool' = [kind \in Bans!Kinds |-> Bans!Swept(banPool[kind])]
  BY DEF Bans!Update
<1>4. \A kind \in Bans!Kinds : SweptFrom(banPool[kind], Bans!Swept(banPool[kind]), kind) /\ InTime(Bans!Swept(banPool[kind]), time)
  BY <1>1, <1>2, SweptIs
<1>5. QED
  BY <1>3, <1>4

\* The invariant holds at first,
LEMMA BanInvInit == ASSUME Bans!Init PROVE BanInv
<1>1. banPool = [kind \in Bans!Kinds |-> Bans!Reset] /\ online = {} /\ banned \in Plans /\ time = 0 /\ due = FALSE
  BY DEF Bans!Init
<1>2. \A kind \in Bans!Kinds : banPool[kind] = Bans!Reset /\ PoolInv(banPool[kind], kind)
  BY <1>1, ResetIs
<1>3. Bans!Reset \in Pools
  BY ResetIs DEF PoolInv
<1>4. banPool \in [Bans!Kinds -> Pools]
  BY <1>1, <1>3
<1>5. QED
  BY <1>1, <1>2, <1>4 DEF BanInv, PoolsOK, BanTypes, Apart

\* and after each step.
LEMMA BanInvStep == ASSUME BanInv, [Bans!Next]_Bans!vars PROVE BanInv'
<1>0. PoolsOK(banPool) /\ BanTypes /\ Apart(banPool, online)
  BY DEF BanInv
<1>1. ASSUME NEW d \in banned, NEW seconds \in 0 .. 1, NEW by \in online \cup {Bans!Console}, Bans!BanExt(d, seconds, by)
      PROVE  BanInv'
  <2>1. PICK x \in {Bans!Never} \cup time + 1 .. time + 1 : \E q :
               /\ BannedIn(banPool[Bans!KindOf(d)], q, Bans!KindOf(d), d, x)
               /\ banPool' = [banPool EXCEPT ![Bans!KindOf(d)] = q]
               /\ UNCHANGED <<banned, time, due>> /\ online' \subseteq online /\ Apart(banPool', online')
    BY <1>1, BanExtIs
  <2>2. PICK q :
               /\ BannedIn(banPool[Bans!KindOf(d)], q, Bans!KindOf(d), d, x)
               /\ banPool' = [banPool EXCEPT ![Bans!KindOf(d)] = q]
               /\ UNCHANGED <<banned, time, due>> /\ online' \subseteq online /\ Apart(banPool', online')
    BY <2>1
  <2>3. PoolsOK(banPool')
    <3>1. PoolInv(q, Bans!KindOf(d)) /\ Bans!KindOf(d) \in Bans!Kinds
      BY <2>2 DEF BannedIn, Bans!KindOf, Bans!Kinds
    <3>2. QED
      BY <1>0, <2>2, <3>1, OneChanged
  <2>4. BanTypes'
    BY <1>0, <2>2 DEF BanTypes
  <2>5. QED
    BY <2>2, <2>3, <2>4 DEF BanInv
<1>2. ASSUME (\E d \in banned : Bans!Unban(d)) \/ (\E index \in 0 .. 2 * MaxBans - 1 : Bans!UnbanByIndex(index))
      PROVE  BanInv'
  <2>1. PICK kind \in Bans!Kinds : \E d, q :
               /\ LiftedIn(banPool[kind], q, kind, d)
               /\ banPool' = [banPool EXCEPT ![kind] = q] /\ UNCHANGED <<online, banned, time, due>>
    BY <1>2, LiftIs
  <2>2. PICK d : \E q :
               /\ LiftedIn(banPool[kind], q, kind, d)
               /\ banPool' = [banPool EXCEPT ![kind] = q] /\ UNCHANGED <<online, banned, time, due>>
    BY <2>1
  <2>3. PICK q :
               /\ LiftedIn(banPool[kind], q, kind, d)
               /\ banPool' = [banPool EXCEPT ![kind] = q] /\ UNCHANGED <<online, banned, time, due>>
    BY <2>2
  <2>4. PoolsOK(banPool') /\ \A k \in Bans!Kinds : banPool'[k] = IF k = kind THEN q ELSE banPool[k]
    <3>1. PoolInv(q, kind)
      BY <2>3 DEF LiftedIn
    <3>2. PoolsOK(banPool')
      BY <1>0, <2>3, <3>1, OneChanged
    <3>3. banPool \in [Bans!Kinds -> Pools]
      BY <1>0 DEF PoolsOK
    <3>4. \A k \in Bans!Kinds : banPool'[k] = IF k = kind THEN q ELSE banPool[k]
      BY <2>3, <3>3
    <3>5. QED
      BY <3>2, <3>4
  <2>5. BanTypes'
    BY <1>0, <2>3 DEF BanTypes
  <2>6. Apart(banPool', online')
    <3>1. \A k \in Bans!Kinds : UsedOnes(banPool'[k]) \subseteq UsedOnes(banPool[k])
                           /\ \A e \in UsedOnes(banPool'[k]) : banPool'[k].data[e] = banPool[k].data[e]
      <4> TAKE k \in Bans!Kinds
      <4>1. CASE k = kind
        BY <2>3, <2>4, <4>1 DEF LiftedIn
      <4>2. CASE k # kind
        BY <2>4, <4>2
      <4>3. QED
        BY <4>1, <4>2
    <3>2. online' \subseteq online
      BY <2>3
    <3>3. QED
      BY <1>0, <3>1, <3>2, StillApart
  <2>7. QED
    BY <2>4, <2>5, <2>6 DEF BanInv
<1>3. ASSUME Bans!UnbanAll
      PROVE  BanInv'
  <2>1. banPool' = [kind \in Bans!Kinds |-> Bans!Reset] /\ UNCHANGED <<online, banned, time, due>>
    BY <1>3 DEF Bans!UnbanAll
  <2>2. Bans!Reset \in Pools /\ UsedOnes(Bans!Reset) = {} /\ \A kind \in Bans!Kinds : PoolInv(Bans!Reset, kind)
    BY ResetIs DEF PoolInv
  <2>3. PoolsOK(banPool')
    BY <2>1, <2>2 DEF PoolsOK
  <2>4. BanTypes' /\ Apart(banPool', online')
    BY <1>0, <2>1, <2>2 DEF BanTypes, Apart
  <2>5. QED
    BY <2>3, <2>4 DEF BanInv
<1>4. ASSUME Bans!Update
      PROVE  BanInv'
  <2>1. /\ banPool' = [kind \in Bans!Kinds |-> Bans!Swept(banPool[kind])]
        /\ \A kind \in Bans!Kinds : SweptFrom(banPool[kind], banPool'[kind], kind)
    BY <1>4, UpdateIs
  <2>2. \A kind \in Bans!Kinds : /\ PoolInv(banPool'[kind], kind) /\ UsedOnes(banPool'[kind]) \subseteq UsedOnes(banPool[kind])
                                 /\ \A e \in UsedOnes(banPool'[kind]) : banPool'[kind].data[e] = banPool[kind].data[e]
    BY <2>1 DEF SweptFrom
  <2>3. banPool' \in [Bans!Kinds -> Pools]
    <3>1. \A kind \in Bans!Kinds : banPool'[kind] \in Pools /\ banPool'[kind] = Bans!Swept(banPool[kind])
      BY <2>1, <2>2 DEF PoolInv
    <3>2. QED
      BY <2>1, <3>1
  <2>4. UNCHANGED <<online, banned, time>> /\ due' = FALSE
    BY <1>4 DEF Bans!Update
  <2>5. Apart(banPool', online')
    BY <1>0, <2>2, <2>4, StillApart
  <2>6. QED
    BY <1>0, <2>2, <2>3, <2>4, <2>5 DEF BanInv, PoolsOK, BanTypes
<1>5. ASSUME Bans!Tick
      PROVE  BanInv'
  BY <1>0, <1>5 DEF Bans!Tick, BanInv, BanTypes
<1>6. ASSUME NEW a \in Clients, Bans!Connect(a)
      PROVE  BanInv'
  <2>1. ~Bans!IsBanned(a) /\ online' = online \cup {a} /\ UNCHANGED <<banPool, banned, time, due>>
    BY <1>6 DEF Bans!Connect
  <2>2. a \in Bans!Address
    BY BanAssumption DEF Bans!BanConstants
  <2>3. \A kind \in Bans!Kinds : \A e \in UsedOnes(banPool[kind]) : ~Bans!Matches(banPool[kind].data[e], a)
    BY <1>0, <2>1, <2>2, IsBannedIs
  <2>4. QED
    BY <1>0, <2>1, <2>3 DEF BanInv, BanTypes, Apart
<1>7. CASE UNCHANGED Bans!vars
  BY <1>0, <1>7 DEF BanInv, BanTypes, Bans!vars
<1>8. QED
  BY <1>1, <1>2, <1>3, <1>4, <1>5, <1>6, <1>7 DEF Bans!Next

-----------------------------------------------------------------------------
\* The two pools stay what CNetBan makes of them, whatever is banned, lifted
\* or runs out: every entry is used or free, a ban is in the list of its bucket,
\* the used ones are in the order in which they run out, and no client is
\* online from an address that is banned.
THEOREM BanInductive == Bans!Spec => []BanInv
<1>1. Bans!Init => BanInv
  BY BanInvInit
<1>2. BanInv /\ [Bans!Next]_Bans!vars => BanInv'
  BY BanInvStep
<1>3. QED
  BY <1>1, <1>2, PTL DEF Bans!Spec

\* IsBanned finds exactly the addresses that are banned or in a range that is,
\* though it searches a few buckets only, and nobody is online from one of them
\* (CNetBan::IsBanned, CServerBan::BanExt).
THEOREM BannedStayOut == Bans!Spec => []BannedAreOut
<1>1. BanInv => BannedAreOut
  <2> SUFFICES ASSUME BanInv, NEW a \in Addrs
               PROVE  /\ Bans!IsBanned(a) <=> \E kind \in Bans!Kinds : \E d \in DOMAIN Bans!Bans(kind) : Bans!Matches(d, a)
                      /\ a \in online => ~Bans!IsBanned(a)
    BY DEF BannedAreOut, Bans!BannedAreOut
  <2>1. PoolsOK(banPool) /\ Apart(banPool, online) /\ a \in Bans!Address
    BY BanAssumption DEF BanInv, Bans!BanConstants
  <2>2. Bans!IsBanned(a) <=> \E kind \in Bans!Kinds : \E e \in UsedOnes(banPool[kind]) : Bans!Matches(banPool[kind].data[e], a)
    BY <2>1, IsBannedIs
  <2>3. \A kind \in Bans!Kinds : DOMAIN Bans!Bans(kind) = {banPool[kind].data[e] : e \in UsedOnes(banPool[kind])}
    <3>1. \A kind \in Bans!Kinds : PoolInv(banPool[kind], kind)
      BY <2>1 DEF PoolsOK
    <3>2. TAKE kind \in Bans!Kinds
    <3>3. PoolInv(banPool[kind], kind)
      BY <3>1
    <3>4. Bans!Bans(kind) = BansOf(banPool[kind])
      BY DEF Bans!Bans, BansOf
    <3>5. QED
      BY <3>3, <3>4, BansOfIs
  <2>4. Bans!IsBanned(a) <=> \E kind \in Bans!Kinds : \E d \in DOMAIN Bans!Bans(kind) : Bans!Matches(d, a)
    <3>1. ASSUME NEW kind \in Bans!Kinds
          PROVE  (\E d \in DOMAIN Bans!Bans(kind) : Bans!Matches(d, a))
                 <=> (\E e \in UsedOnes(banPool[kind]) : Bans!Matches(banPool[kind].data[e], a))
      <4> DEFINE D == DOMAIN Bans!Bans(kind)
                 data == banPool[kind].data
      <4>1. D = {data[e] : e \in UsedOnes(banPool[kind])}
        BY <2>3
      <4> HIDE DEF D, data
      <4>2. (\E d \in D : Bans!Matches(d, a)) <=> \E e \in UsedOnes(banPool[kind]) : Bans!Matches(data[e], a)
        BY <4>1
      <4>3. QED
        BY <4>2 DEF D, data
    <3>2. QED
      BY <2>2, <3>1
  <2>5. QED
    BY <2>1, <2>2, <2>4 DEF Apart
<1>2. QED
  BY <1>1, BanInductive, PTL

\* Two functions are the same.
LEMMA SameFunction ==
    ASSUME NEW f, NEW g, f = [d \in DOMAIN f |-> f[d]], g = [d \in DOMAIN g |-> g[d]],
           DOMAIN f = DOMAIN g, \A d \in DOMAIN f : f[d] = g[d]
    PROVE  f = g
OBVIOUS

\* A pool takes no other ban exactly if as many are there as it has entries.
LEMMA FullIs ==
    ASSUME NEW p, NEW kind, PoolInv(p, kind)
    PROVE  (p.firstFree = Bans!None) <=> (Cardinality(DOMAIN BansOf(p)) = MaxBans)
<1> DEFINE U == UsedOnes(p)
           D == DOMAIN BansOf(p)
           f == [e \in U |-> p.data[e]]
<1>1. p \in Pools /\ Links(p.next, p.prev, Firsts(p), ListOf(p), Bans!Entries) /\ Ends(p.next)
      /\ \A e, g \in U : p.data[e] = p.data[g] => e = g
  BY DEF PoolInv, Chained, Contents
<1>2. IsFiniteSet(Bans!Entries) /\ Cardinality(Bans!Entries) = MaxBans /\ U \in SUBSET Bans!Entries
  <2>1. IsFiniteSet(0 .. MaxBans - 1) /\ Cardinality(0 .. MaxBans - 1) = MaxBans
    BY NoEntry, Numbered
  <2>2. QED
    BY <2>1 DEF Bans!Entries, UsedOnes
<1>3. IsFiniteSet(U) /\ (Cardinality(U) = MaxBans => U = Bans!Entries)
  BY <1>2, FS_Subset
<1>4. D = {p.data[e] : e \in U}
  BY BansOfIs
<1>5. Cardinality(D) = Cardinality(U)
  <2>1. f \in Surjection(U, D) /\ f \in Injection(U, D)
    <3> HIDE DEF U, D
    <3>1. f \in [U -> D] /\ \A e \in U : f[e] = p.data[e]
      BY <1>4
    <3>2. \A d \in D : \E e \in U : f[e] = d
      BY <1>4, <3>1
    <3>3. \A e, g \in U : f[e] = f[g] => e = g
      BY <1>1, <3>1
    <3> HIDE DEF f
    <3>4. QED
      BY <3>1, <3>2, <3>3 DEF Surjection, Injection, IsInjective
  <2> HIDE DEF U, D, f
  <2>2. QED
    BY <1>3, <2>1, FS_Surjection
<1>6. (p.firstFree = Bans!None) <=> U = Bans!Entries
  <2>1. p.next \in [Bans!Entries -> MaybeEntry] /\ "free" \in DOMAIN Firsts(p) /\ Firsts(p)["free"] = p.firstFree
        /\ p.firstFree \in MaybeEntry
    BY <1>1, PoolIs DEF Firsts
  <2>2. Elems(Bans!Linked(p.next, p.firstFree)) = {e \in Bans!Entries : ListOf(p)[e] = "free"}
    <3>1. Elems(Bans!Linked(p.next, Firsts(p)["free"])) = {e \in Bans!Entries : ListOf(p)[e] = "free"}
      BY <1>1, <2>1, ListHolds
    <3>2. QED
      BY <2>1, <3>1
  <2>3. {e \in Bans!Entries : ListOf(p)[e] = "free"} = Bans!Entries \ U
    BY DEF ListOf
  <2>4. p.firstFree = Bans!None => Elems(Bans!Linked(p.next, p.firstFree)) = {}
    BY DEF Bans!Linked, Elems
  <2>5. p.firstFree # Bans!None => p.firstFree \in Bans!Entries \ U
    <3>1. ASSUME p.firstFree # Bans!None
          PROVE  ListOf(p)[p.firstFree] = "free" /\ p.firstFree \in Bans!Entries
      BY <1>1, <2>1, <3>1 DEF Links
    <3>2. QED
      BY <2>3, <3>1
  <2>6. U \subseteq Bans!Entries
    BY <1>2
  <2> HIDE DEF U
  <2>7. QED
    BY <2>2, <2>3, <2>4, <2>5, <2>6
<1> HIDE DEF U, D
<1>7. (p.firstFree = Bans!None) <=> (Cardinality(D) = MaxBans)
  BY <1>2, <1>3, <1>5, <1>6
<1>8. QED
  BY <1>7 DEF D

\* What the actions do to the bans
LEMMA GivenIs ==
    ASSUME NEW p, NEW q, NEW kind, NEW d, NEW x, PoolInv(p, kind), BannedIn(p, q, kind, d, x)
    PROVE  BansOf(q) = Given(BansOf(p), d, x) /\ (d \in DOMAIN BansOf(p) \/ p.firstFree # Bans!None)
<1> DEFINE f == BansOf(p)
           g == BansOf(q)
           h == Given(f, d, x)
<1>1. /\ f = [e \in DOMAIN f |-> f[e]] /\ DOMAIN f = {p.data[e] : e \in UsedOnes(p)}
      /\ \A e \in UsedOnes(p) : p.data[e] \in DOMAIN f /\ f[p.data[e]] = p.expires[e]
  BY BansOfIs
<1>2. /\ g = [e \in DOMAIN g |-> g[e]] /\ DOMAIN g = {q.data[e] : e \in UsedOnes(q)}
      /\ \A e \in UsedOnes(q) : q.data[e] \in DOMAIN g /\ g[q.data[e]] = q.expires[e]
  BY BansOfIs DEF BannedIn
<1>3. /\ {q.data[e] : e \in UsedOnes(q)} = {p.data[e] : e \in UsedOnes(p)} \cup {d}
      /\ \A e \in UsedOnes(q) : AsGiven(q, e, d, x) \/ AsBefore(p, q, e, d)
      /\ d \in {p.data[e] : e \in UsedOnes(p)} \/ p.firstFree # Bans!None
  BY DEF BannedIn
<1> HIDE DEF f, g
<1>4. DOMAIN h = DOMAIN f \cup {d} /\ h = [e \in DOMAIN h |-> h[e]]
      /\ \A c \in DOMAIN h : h[c] = IF c = d THEN x ELSE f[c]
  BY DEF Given
<1> HIDE DEF h
<1>5. DOMAIN g = DOMAIN h
  BY <1>1, <1>2, <1>3, <1>4
<1>6. ASSUME NEW c \in DOMAIN g
      PROVE  g[c] = h[c]
  <2>1. PICK e \in UsedOnes(q) : q.data[e] = c
    BY <1>2
  <2>2. g[c] = q.expires[e]
    BY <1>2, <2>1
  <2>3. CASE AsGiven(q, e, d, x)
    <3>1. c = d /\ q.expires[e] = x
      BY <2>1, <2>3 DEF AsGiven
    <3>2. QED
      BY <1>4, <1>5, <2>2, <3>1
  <2>4. CASE AsBefore(p, q, e, d)
    <3>1. c # d /\ e \in UsedOnes(p) /\ p.data[e] = c /\ q.expires[e] = p.expires[e]
      BY <2>1, <2>4 DEF AsBefore
    <3>2. f[c] = p.expires[e]
      BY <1>1, <3>1
    <3>3. QED
      BY <1>4, <1>5, <2>2, <3>1, <3>2
  <2>5. QED
    BY <1>3, <2>3, <2>4
<1>7. g = h
  BY <1>2, <1>4, <1>5, <1>6, SameFunction
<1>8. d \in DOMAIN f \/ p.firstFree # Bans!None
  BY <1>1, <1>3
<1>9. QED
  BY <1>7, <1>8 DEF f, g, h

\* A pool that lost the bans of what is in D, and no others.
LEMMA WithoutIs ==
    ASSUME NEW p, NEW q, NEW kind, NEW D, PoolInv(p, kind), PoolInv(q, kind),
           {q.data[e] : e \in UsedOnes(q)} = {p.data[e] : e \in UsedOnes(p)} \ D,
           UsedOnes(q) \subseteq UsedOnes(p),
           \A e \in UsedOnes(q) : q.data[e] = p.data[e] /\ q.expires[e] = p.expires[e]
    PROVE  BansOf(q) = Without(BansOf(p), D)
<1> DEFINE f == BansOf(p)
           g == BansOf(q)
           h == Without(f, D)
<1>1. /\ f = [e \in DOMAIN f |-> f[e]] /\ DOMAIN f = {p.data[e] : e \in UsedOnes(p)}
      /\ \A e \in UsedOnes(p) : p.data[e] \in DOMAIN f /\ f[p.data[e]] = p.expires[e]
  BY BansOfIs
<1>2. /\ g = [e \in DOMAIN g |-> g[e]] /\ DOMAIN g = {q.data[e] : e \in UsedOnes(q)}
      /\ \A e \in UsedOnes(q) : q.data[e] \in DOMAIN g /\ g[q.data[e]] = q.expires[e]
  BY BansOfIs
<1> HIDE DEF f, g
<1>3. DOMAIN h = DOMAIN f \ D /\ h = [e \in DOMAIN h |-> h[e]] /\ \A c \in DOMAIN h : h[c] = f[c]
  BY DEF Without
<1> HIDE DEF h
<1>4. DOMAIN g = DOMAIN h
  BY <1>1, <1>2, <1>3
<1>5. ASSUME NEW c \in DOMAIN g
      PROVE  g[c] = h[c]
  <2>1. PICK e \in UsedOnes(q) : q.data[e] = c
    BY <1>2
  <2>2. g[c] = q.expires[e] /\ e \in UsedOnes(p) /\ p.data[e] = c /\ q.expires[e] = p.expires[e]
    BY <1>2, <2>1
  <2>3. f[c] = p.expires[e]
    BY <1>1, <2>2
  <2>4. QED
    BY <1>3, <1>4, <2>2, <2>3
<1>6. g = h
  BY <1>2, <1>3, <1>4, <1>5, SameFunction
<1>7. QED
  BY <1>6 DEF f, g, h

\* The bans after Update are those that have not run out.
LEMMA ExpireIs ==
    ASSUME NEW p, NEW q, NEW kind, PoolInv(p, kind), SweptFrom(p, q, kind), InTime(q, time), time \in Nat
    PROVE  BansOf(q) = Without(BansOf(p), RunOut(BansOf(p), time))
<1> DEFINE f == BansOf(p)
           D == RunOut(f, time)
<1>1. /\ DOMAIN f = {p.data[e] : e \in UsedOnes(p)}
      /\ \A e \in UsedOnes(p) : p.data[e] \in DOMAIN f /\ f[p.data[e]] = p.expires[e]
  BY BansOfIs
<1>2. /\ PoolInv(q, kind) /\ UsedOnes(q) \subseteq UsedOnes(p)
      /\ \A e \in UsedOnes(q) : q.data[e] = p.data[e] /\ q.expires[e] = p.expires[e]
      /\ \A e \in UsedOnes(p) \ UsedOnes(q) : p.expires[e] # Bans!Never /\ p.expires[e] < time
  BY DEF SweptFrom
<1>3. \A e \in UsedOnes(q) : p.expires[e] = Bans!Never \/ ~(p.expires[e] < time)
  <2> TAKE e \in UsedOnes(q)
  <2>1. p.expires[e] = Bans!Never \/ (time # Bans!Never /\ time <= p.expires[e])
    BY <1>2 DEF InTime, NoLater
  <2>2. p.expires[e] \in Nat \cup {Bans!Never}
    <3>1. e \in Bans!Entries /\ p \in Pools
      BY DEF UsedOnes, PoolInv
    <3>2. QED
      BY <3>1, PoolIs
  <2>3. QED
    BY <2>1, <2>2
<1>4. \A e \in UsedOnes(p) : p.data[e] \in D <=> e \notin UsedOnes(q)
  <2> TAKE e \in UsedOnes(p)
  <2> HIDE DEF f
  <2>1. p.data[e] \in D <=> p.expires[e] # Bans!Never /\ p.expires[e] < time
    BY <1>1 DEF RunOut
  <2>2. QED
    BY <1>2, <1>3, <2>1
<1> HIDE DEF f, D
<1>5. {q.data[e] : e \in UsedOnes(q)} = {p.data[e] : e \in UsedOnes(p)} \ D
  <2>1. ASSUME NEW d
        PROVE  d \in {q.data[e] : e \in UsedOnes(q)} <=> d \in {p.data[e] : e \in UsedOnes(p)} \ D
    <3>1. ASSUME NEW e \in UsedOnes(q), d = q.data[e]
          PROVE  d \in {p.data[g] : g \in UsedOnes(p)} \ D
      BY <1>2, <1>4, <3>1
    <3>2. ASSUME NEW e \in UsedOnes(p), d = p.data[e], d \notin D
          PROVE  d \in {q.data[g] : g \in UsedOnes(q)}
      BY <1>2, <1>4, <3>2
    <3>3. QED
      BY <3>1, <3>2
  <2>2. QED
    BY <2>1
<1>6. BansOf(q) = Without(BansOf(p), D)
  BY <1>2, <1>5, WithoutIs
<1>7. QED
  BY <1>6 DEF D, f

\* A pool without used entries has no bans.
LEMMA EmptyBans ==
    ASSUME NEW p, NEW kind, PoolInv(p, kind), UsedOnes(p) = {}
    PROVE  BansOf(p) = << >>
<1> DEFINE f == BansOf(p)
<1>1. f = [d \in DOMAIN f |-> f[d]] /\ DOMAIN f = {}
  BY BansOfIs
<1> HIDE DEF f
<1>2. f \in [{} -> {}]
  BY <1>1
<1>3. DOMAIN << >> = {}
  OBVIOUS
<1>4. f = << >>
  BY <1>1, <1>3
<1>5. QED
  BY <1>4 DEF f

\* What a step does to the bans of a pool, in terms of what the list promises.
NoBan(k) == banPool'[k] = banPool[k] /\ UNCHANGED <<time, due>>
SecondEnds(k) == banPool'[k] = banPool[k] /\ time' = time + 1 /\ due' = TRUE
Expires(k) ==
    BansOf(banPool'[k]) = Without(BansOf(banPool[k]), RunOut(BansOf(banPool[k]), time)) /\ due' = FALSE /\ UNCHANGED time
BansOne(k) ==
    /\ UNCHANGED <<time, due>>
    /\ \E d \in UNION Plans : \E x \in {Bans!Never} \cup time + 1 .. time + 1 :
           /\ d \in DOMAIN BansOf(banPool[k]) \/ banPool[k].firstFree # Bans!None
           /\ BansOf(banPool'[k]) = Given(BansOf(banPool[k]), d, x)
LiftsOne(k) ==
    /\ UNCHANGED <<time, due>>
    /\ \E d \in UNION Plans : BansOf(banPool'[k]) = Without(BansOf(banPool[k]), {d})
LiftsAll(k) == UNCHANGED <<time, due>> /\ BansOf(banPool'[k]) = Without(BansOf(banPool[k]), UNION Plans)

\* Every step does to the bans of a pool what the list of bans allows.
LEMMA ListStep ==
    ASSUME BanInv, [Bans!Next]_Bans!vars, NEW k \in Bans!Kinds
    PROVE  NoBan(k) \/ SecondEnds(k) \/ Expires(k) \/ BansOne(k) \/ LiftsOne(k) \/ LiftsAll(k)
<1>0. PoolsOK(banPool) /\ BanTypes /\ PoolInv(banPool[k], k) /\ banPool \in [Bans!Kinds -> Pools] /\ time \in Nat
  BY DEF BanInv, PoolsOK, BanTypes
<1>1. ASSUME NEW d \in banned, NEW seconds \in 0 .. 1, NEW by \in online \cup {Bans!Console}, Bans!BanExt(d, seconds, by)
      PROVE  NoBan(k) \/ BansOne(k)
  <2>1. PICK x \in {Bans!Never} \cup time + 1 .. time + 1 : \E q :
               /\ BannedIn(banPool[Bans!KindOf(d)], q, Bans!KindOf(d), d, x)
               /\ banPool' = [banPool EXCEPT ![Bans!KindOf(d)] = q]
               /\ UNCHANGED <<banned, time, due>> /\ online' \subseteq online /\ Apart(banPool', online')
    BY <1>1, BanExtIs
  <2>2. PICK q :
               /\ BannedIn(banPool[Bans!KindOf(d)], q, Bans!KindOf(d), d, x)
               /\ banPool' = [banPool EXCEPT ![Bans!KindOf(d)] = q]
               /\ UNCHANGED <<banned, time, due>> /\ online' \subseteq online /\ Apart(banPool', online')
    BY <2>1
  <2>3. banPool'[k] = IF k = Bans!KindOf(d) THEN q ELSE banPool[k]
    BY <1>0, <2>2
  <2>4. CASE k = Bans!KindOf(d)
    <3>1. BansOf(q) = Given(BansOf(banPool[k]), d, x) /\ (d \in DOMAIN BansOf(banPool[k]) \/ banPool[k].firstFree # Bans!None)
      BY <1>0, <2>2, <2>4, GivenIs
    <3>2. d \in UNION Plans
      BY <1>0 DEF BanTypes
    <3>3. banPool'[k] = q
      BY <2>3, <2>4
    <3>4. QED
      BY <2>2, <3>1, <3>2, <3>3 DEF BansOne
  <2>5. CASE k # Bans!KindOf(d)
    BY <2>2, <2>3, <2>5 DEF NoBan
  <2>6. QED
    BY <2>4, <2>5
<1>2. ASSUME (\E d \in banned : Bans!Unban(d)) \/ (\E index \in 0 .. 2 * MaxBans - 1 : Bans!UnbanByIndex(index))
      PROVE  NoBan(k) \/ LiftsOne(k)
  <2>1. PICK kind \in Bans!Kinds : \E d, q :
               /\ LiftedIn(banPool[kind], q, kind, d)
               /\ banPool' = [banPool EXCEPT ![kind] = q] /\ UNCHANGED <<online, banned, time, due>>
    BY <1>2, LiftIs
  <2>2. PICK d : \E q :
               /\ LiftedIn(banPool[kind], q, kind, d)
               /\ banPool' = [banPool EXCEPT ![kind] = q] /\ UNCHANGED <<online, banned, time, due>>
    BY <2>1
  <2>3. PICK q :
               /\ LiftedIn(banPool[kind], q, kind, d)
               /\ banPool' = [banPool EXCEPT ![kind] = q] /\ UNCHANGED <<online, banned, time, due>>
    BY <2>2
  <2>4. banPool'[k] = IF k = kind THEN q ELSE banPool[k]
    BY <1>0, <2>3
  <2>5. CASE k = kind
    <3>1. BansOf(q) = Without(BansOf(banPool[k]), {d}) /\ d \in UNION Plans
      BY <1>0, <2>3, <2>5, WithoutIs DEF LiftedIn
    <3>2. banPool'[k] = q
      BY <2>4, <2>5
    <3>3. QED
      BY <2>3, <3>1, <3>2 DEF LiftsOne
  <2>6. CASE k # kind
    BY <2>3, <2>4, <2>6 DEF NoBan
  <2>7. QED
    BY <2>5, <2>6
<1>3. ASSUME Bans!UnbanAll
      PROVE  LiftsAll(k)
  <2>1. banPool'[k] = Bans!Reset /\ UNCHANGED <<time, due>>
    BY <1>3 DEF Bans!UnbanAll
  <2>2. PoolInv(Bans!Reset, k) /\ UsedOnes(Bans!Reset) = {}
    BY ResetIs
  <2>3. \A e \in UsedOnes(banPool[k]) : banPool[k].data[e] \in UNION Plans
    <3>1. banPool[k] \in Pools
      BY <1>0
    <3>2. QED
      BY <3>1, PoolIs DEF UsedOnes
  <2>4. BansOf(Bans!Reset) = Without(BansOf(banPool[k]), UNION Plans)
    <3> DEFINE q == Bans!Reset
    <3>1. {q.data[e] : e \in UsedOnes(q)} = {banPool[k].data[e] : e \in UsedOnes(banPool[k])} \ UNION Plans
      BY <2>2, <2>3
    <3>2. UsedOnes(q) = {} /\ PoolInv(q, k)
      BY <2>2
    <3> HIDE DEF q
    <3>3. BansOf(q) = Without(BansOf(banPool[k]), UNION Plans)
      BY <1>0, <3>1, <3>2, WithoutIs
    <3>4. QED
      BY <3>3 DEF q
  <2>5. QED
    BY <2>1, <2>4 DEF LiftsAll
<1>4. ASSUME Bans!Update
      PROVE  Expires(k)
  <2>1. SweptFrom(banPool[k], banPool'[k], k) /\ InTime(banPool'[k], time)
    BY <1>4, UpdateIs
  <2>2. due' = FALSE /\ UNCHANGED time
    BY <1>4 DEF Bans!Update
  <2>3. BansOf(banPool'[k]) = Without(BansOf(banPool[k]), RunOut(BansOf(banPool[k]), time))
    BY <1>0, <2>1, ExpireIs
  <2>4. QED
    BY <2>2, <2>3 DEF Expires
<1>5. ASSUME Bans!Tick
      PROVE  SecondEnds(k)
  BY <1>5 DEF Bans!Tick, SecondEnds
<1>6. ASSUME NEW a \in Clients, Bans!Connect(a)
      PROVE  NoBan(k)
  BY <1>6 DEF Bans!Connect, NoBan
<1>7. ASSUME UNCHANGED Bans!vars
      PROVE  NoBan(k)
  BY <1>7 DEF Bans!vars, NoBan
<1>8. QED
  BY <1>1, <1>2, <1>3, <1>4, <1>5, <1>6, <1>7 DEF Bans!Next

\* The bans of the pool of addresses start and change as the list promises.
LEMMA AddrListInit ==
    ASSUME Bans!Init
    PROVE  Bans!AddrList!Init
<1>1. banPool = [kind \in Bans!Kinds |-> Bans!Reset] /\ time = 0 /\ due = FALSE
  BY DEF Bans!Init
<1>2. banPool.addr = Bans!Reset /\ PoolInv(Bans!Reset, "addr") /\ UsedOnes(Bans!Reset) = {}
  BY <1>1, ResetIs DEF Bans!Kinds
<1>3. Bans!Bans("addr") = BansOf(Bans!Reset)
  <2>1. Bans!Bans("addr") = BansOf(banPool["addr"])
    BY DEF Bans!Bans, BansOf
  <2>2. QED
    BY <1>2, <2>1
<1>4. BansOf(Bans!Reset) = << >>
  BY <1>2, EmptyBans
<1>5. banPool.addr.firstFree = 0 /\ 0 # Bans!None /\ MaxBans # 0
  BY <1>2, NoEntry DEF Bans!Reset, Bans!None
<1>6. QED
  BY <1>1, <1>3, <1>4, <1>5 DEF Bans!AddrList!Init

\* The pool of addresses takes the steps of the list,
LEMMA AddrListStep ==
    ASSUME BanInv, BanInv', [Bans!Next]_Bans!vars
    PROVE  [Bans!AddrList!Next]_<<Bans!Bans("addr"), banPool.addr.firstFree = Bans!None, time, due>>
<1> DEFINE B == BansOf(banPool["addr"])
           C == BansOf(banPool'["addr"])
<1>1. /\ Bans!Bans("addr") = B /\ Bans!Bans("addr")' = C
      /\ banPool.addr = banPool["addr"] /\ banPool'.addr = banPool'["addr"]
  BY DEF Bans!Bans, BansOf
<1>2. "addr" \in Bans!Kinds /\ PoolInv(banPool["addr"], "addr") /\ PoolInv(banPool'["addr"], "addr")
  BY DEF BanInv, PoolsOK, Bans!Kinds
<1>3. (banPool.addr.firstFree = Bans!None)' = (Bans!AddrList!Cardinality(DOMAIN C) = MaxBans)
  <2>1. Bans!AddrList!Cardinality(DOMAIN C) = Cardinality(DOMAIN C)
    BY DEF Bans!AddrList!Cardinality, Cardinality
  <2>2. QED
    BY <1>1, <1>2, <2>1, FullIs
<1>4. CASE NoBan("addr")
  BY <1>1, <1>4 DEF NoBan
<1>5. CASE SecondEnds("addr")
  <2>1. C = B /\ time' = time + 1 /\ due' = TRUE
    BY <1>5 DEF SecondEnds
  <2>2. Bans!AddrList!Next
    BY <1>1, <1>3, <2>1 DEF Bans!AddrList!Next
  <2>3. QED
    BY <2>2
<1>6. CASE Expires("addr")
  <2>1. C = Without(B, RunOut(B, time)) /\ due' = FALSE /\ UNCHANGED time
    BY <1>6 DEF Expires
  <2>2. Bans!AddrList!Expire
    BY <1>1, <2>1 DEF Bans!AddrList!Expire, Bans!AddrList!Lift, Without, RunOut
  <2>3. Bans!AddrList!Next
    BY <1>1, <1>3, <2>1, <2>2 DEF Bans!AddrList!Next
  <2>4. QED
    BY <2>3
<1>7. CASE BansOne("addr")
  <2>1. PICK d \in UNION Plans : \E x \in {Bans!Never} \cup time + 1 .. time + 1 :
           /\ d \in DOMAIN B \/ banPool["addr"].firstFree # Bans!None
           /\ C = Given(B, d, x)
    BY <1>7 DEF BansOne
  <2>2. Bans!AddrList!Ban(d)
    BY <1>1, <2>1 DEF Bans!AddrList!Ban, Given
  <2>3. UNCHANGED <<time, due>>
    BY <1>7 DEF BansOne
  <2>4. Bans!AddrList!Next
    BY <1>1, <1>3, <2>2, <2>3 DEF Bans!AddrList!Next
  <2>5. QED
    BY <2>4
<1>8. CASE LiftsOne("addr")
  <2>1. PICK d \in UNION Plans : C = Without(B, {d})
    BY <1>8 DEF LiftsOne
  <2>2. Bans!AddrList!Lift({d})
    BY <1>1, <2>1 DEF Bans!AddrList!Lift, Without
  <2>3. UNCHANGED <<time, due>>
    BY <1>8 DEF LiftsOne
  <2>4. Bans!AddrList!Next
    BY <1>1, <1>3, <2>2, <2>3 DEF Bans!AddrList!Next
  <2>5. QED
    BY <2>4
<1>9. CASE LiftsAll("addr")
  <2>1. C = Without(B, UNION Plans) /\ UNCHANGED <<time, due>>
    BY <1>9 DEF LiftsAll
  <2>2. Bans!AddrList!Lift(UNION Plans)
    BY <1>1, <2>1 DEF Bans!AddrList!Lift, Without
  <2>3. Bans!AddrList!Next
    BY <1>1, <1>3, <2>1, <2>2 DEF Bans!AddrList!Next
  <2>4. QED
    BY <2>3
<1>10. QED
  BY <1>2, <1>4, <1>5, <1>6, <1>7, <1>8, <1>9, ListStep

\* The bans of the pool of ranges start and change as the list promises.
LEMMA RangeListInit ==
    ASSUME Bans!Init
    PROVE  Bans!RangeList!Init
<1>1. banPool = [kind \in Bans!Kinds |-> Bans!Reset] /\ time = 0 /\ due = FALSE
  BY DEF Bans!Init
<1>2. banPool.range = Bans!Reset /\ PoolInv(Bans!Reset, "range") /\ UsedOnes(Bans!Reset) = {}
  BY <1>1, ResetIs DEF Bans!Kinds
<1>3. Bans!Bans("range") = BansOf(Bans!Reset)
  <2>1. Bans!Bans("range") = BansOf(banPool["range"])
    BY DEF Bans!Bans, BansOf
  <2>2. QED
    BY <1>2, <2>1
<1>4. BansOf(Bans!Reset) = << >>
  BY <1>2, EmptyBans
<1>5. banPool.range.firstFree = 0 /\ 0 # Bans!None /\ MaxBans # 0
  BY <1>2, NoEntry DEF Bans!Reset, Bans!None
<1>6. QED
  BY <1>1, <1>3, <1>4, <1>5 DEF Bans!RangeList!Init

\* and so does the pool of ranges.
LEMMA RangeListStep ==
    ASSUME BanInv, BanInv', [Bans!Next]_Bans!vars
    PROVE  [Bans!RangeList!Next]_<<Bans!Bans("range"), banPool.range.firstFree = Bans!None, time, due>>
<1> DEFINE B == BansOf(banPool["range"])
           C == BansOf(banPool'["range"])
<1>1. /\ Bans!Bans("range") = B /\ Bans!Bans("range")' = C
      /\ banPool.range = banPool["range"] /\ banPool'.range = banPool'["range"]
  BY DEF Bans!Bans, BansOf
<1>2. "range" \in Bans!Kinds /\ PoolInv(banPool["range"], "range") /\ PoolInv(banPool'["range"], "range")
  BY DEF BanInv, PoolsOK, Bans!Kinds
<1>3. (banPool.range.firstFree = Bans!None)' = (Bans!RangeList!Cardinality(DOMAIN C) = MaxBans)
  <2>1. Bans!RangeList!Cardinality(DOMAIN C) = Cardinality(DOMAIN C)
    BY DEF Bans!RangeList!Cardinality, Cardinality
  <2>2. QED
    BY <1>1, <1>2, <2>1, FullIs
<1>4. CASE NoBan("range")
  BY <1>1, <1>4 DEF NoBan
<1>5. CASE SecondEnds("range")
  <2>1. C = B /\ time' = time + 1 /\ due' = TRUE
    BY <1>5 DEF SecondEnds
  <2>2. Bans!RangeList!Next
    BY <1>1, <1>3, <2>1 DEF Bans!RangeList!Next
  <2>3. QED
    BY <2>2
<1>6. CASE Expires("range")
  <2>1. C = Without(B, RunOut(B, time)) /\ due' = FALSE /\ UNCHANGED time
    BY <1>6 DEF Expires
  <2>2. Bans!RangeList!Expire
    BY <1>1, <2>1 DEF Bans!RangeList!Expire, Bans!RangeList!Lift, Without, RunOut
  <2>3. Bans!RangeList!Next
    BY <1>1, <1>3, <2>1, <2>2 DEF Bans!RangeList!Next
  <2>4. QED
    BY <2>3
<1>7. CASE BansOne("range")
  <2>1. PICK d \in UNION Plans : \E x \in {Bans!Never} \cup time + 1 .. time + 1 :
           /\ d \in DOMAIN B \/ banPool["range"].firstFree # Bans!None
           /\ C = Given(B, d, x)
    BY <1>7 DEF BansOne
  <2>2. Bans!RangeList!Ban(d)
    BY <1>1, <2>1 DEF Bans!RangeList!Ban, Given
  <2>3. UNCHANGED <<time, due>>
    BY <1>7 DEF BansOne
  <2>4. Bans!RangeList!Next
    BY <1>1, <1>3, <2>2, <2>3 DEF Bans!RangeList!Next
  <2>5. QED
    BY <2>4
<1>8. CASE LiftsOne("range")
  <2>1. PICK d \in UNION Plans : C = Without(B, {d})
    BY <1>8 DEF LiftsOne
  <2>2. Bans!RangeList!Lift({d})
    BY <1>1, <2>1 DEF Bans!RangeList!Lift, Without
  <2>3. UNCHANGED <<time, due>>
    BY <1>8 DEF LiftsOne
  <2>4. Bans!RangeList!Next
    BY <1>1, <1>3, <2>2, <2>3 DEF Bans!RangeList!Next
  <2>5. QED
    BY <2>4
<1>9. CASE LiftsAll("range")
  <2>1. C = Without(B, UNION Plans) /\ UNCHANGED <<time, due>>
    BY <1>9 DEF LiftsAll
  <2>2. Bans!RangeList!Lift(UNION Plans)
    BY <1>1, <2>1 DEF Bans!RangeList!Lift, Without
  <2>3. Bans!RangeList!Next
    BY <1>1, <1>3, <2>1, <2>2 DEF Bans!RangeList!Next
  <2>4. QED
    BY <2>3
<1>10. QED
  BY <1>2, <1>4, <1>5, <1>6, <1>7, <1>8, <1>9, ListStep

\* Each of the two pools implements the list of bans of BanList: whatever is
\* banned stays so until its ban is lifted or runs out, Update lifts all that
\* have run out and no others, and a ban is refused only when the pool is full
\* (CNetBan::Ban, Update, Unban).
THEOREM BansAreLists == Bans!Spec => BanSpec
<1>1. Bans!Init => Bans!AddrList!Init /\ Bans!RangeList!Init
  BY AddrListInit, RangeListInit
<1>2. BanInv /\ BanInv' /\ [Bans!Next]_Bans!vars
      => /\ [Bans!AddrList!Next]_<<Bans!Bans("addr"), banPool.addr.firstFree = Bans!None, time, due>>
         /\ [Bans!RangeList!Next]_<<Bans!Bans("range"), banPool.range.firstFree = Bans!None, time, due>>
  BY AddrListStep, RangeListStep
<1>3. QED
  BY <1>1, <1>2, BanInductive, PTL DEF Bans!Spec, BanSpec, Bans!BanSpec, Bans!AddrList!Spec, Bans!RangeList!Spec
=============================================================================
