-------------------------- MODULE SnapIdPoolProofs --------------------------
(***************************************************************************)
(* Proofs about SnapIdPool, for any number of ids and any rest: the linked *)
(* lists hold exactly the free and the resting ids, and the pool keeps the *)
(* promise of SnapIds.                                                     *)
(***************************************************************************)
EXTENDS SnapIdPool, FiniteSetTheorems, WellFoundedInduction, TLAPS

PoolType ==
    [next : [Ids -> Ids \cup {None}], state : [Ids -> {"free", "allocated", "timed"}],
     timeout : [Ids -> Nat],
     firstFree : Ids \cup {None}, firstTimed : Ids \cup {None}, lastTimed : Ids \cup {None},
     usage : Int, inUsage : Int]

Of(p, s) == {i \in Ids : p.state[i] = s}

\* The list from first on is f[1], ..., f[n]: the ids with state s.
Chain(p, first, s, n, f) ==
    /\ n \in Nat /\ f \in [1 .. n -> Of(p, s)]
    /\ \A i, j \in 1 .. n : f[i] = f[j] => i = j
    /\ \A id \in Of(p, s) : \E k \in 1 .. n : f[k] = id
    /\ first = IF n = 0 THEN None ELSE f[1]
    /\ \A k \in 1 .. n : p.next[f[k]] = IF k = n THEN None ELSE f[k + 1]

\* The list of resting ids: its end is known, and who came first leaves first.
Queue(p, n, f) ==
    /\ Chain(p, p.firstTimed, "timed", n, f)
    /\ p.lastTimed = IF n = 0 THEN None ELSE f[n]
    /\ \A i, j \in 1 .. n : i <= j => p.timeout[f[i]] <= p.timeout[f[j]]

Lists(p) ==
    /\ p \in PoolType
    /\ \E n, f : Chain(p, p.firstFree, "free", n, f)
    /\ \E n, f : Queue(p, n, f)

Counted(p) ==
    /\ p.inUsage = Cardinality(Of(p, "allocated"))
    /\ p.usage = Cardinality(Ids \ Of(p, "free"))

PoolInv ==
    /\ Lists(pool) /\ Counted(pool)
    /\ \A i \in Of(pool, "timed") : pool.timeout[i] <= now + Rest
    /\ now \in 0 .. MaxTime /\ result \in Ids \cup {None}

-----------------------------------------------------------------------------
(* Ids and numbers. *)

LEMMA IdsFinite ==
    /\ IsFiniteSet(Ids) /\ Cardinality(Ids) = MaxIds /\ None \notin Ids /\ Ids \subseteq Nat
    /\ \A S \in SUBSET Ids : IsFiniteSet(S) /\ Cardinality(S) \in 0 .. MaxIds
<1>1. 0 \in Int /\ MaxIds - 1 \in Int /\ MaxIds > 0 /\ MaxIds \in Nat
  BY PoolAssumption
<1>2. IsFiniteSet(Ids) /\ Cardinality(Ids) = MaxIds
  BY <1>1, FS_Interval DEF Ids
<1>3. ASSUME NEW S \in SUBSET Ids
      PROVE  IsFiniteSet(S) /\ Cardinality(S) \in 0 .. MaxIds
  <2>1. IsFiniteSet(S) /\ Cardinality(S) <= MaxIds
    BY <1>2, FS_Subset
  <2>2. QED
    BY <1>1, <2>1, FS_CardinalityType
<1>4. QED
  BY <1>1, <1>2, <1>3 DEF Ids, None

\* Every nonempty set of natural numbers has a least element.
LEMMA LeastExists ==
    ASSUME NEW S, S \subseteq Nat, S # {}
    PROVE  \E k \in S : \A j \in S : k =< j
<1> DEFINE R == {p \in Nat \X Nat : p[1] < p[2]}
<1>1. R = OpToRel(<, Nat)
  BY Zenon DEF OpToRel
<1>2. IsWellFoundedOn(R, Nat)
  BY ONLY <1>1, NatLessThanWellFounded, Zenon
<1>3. PICK x \in S : \A y \in S : ~(<<y, x>> \in R)
  <2> HIDE DEF R
  <2> QED
    BY <1>2, WFMin
<1>4. \A y \in S : ~(y < x)
  <2> SUFFICES ASSUME NEW y \in S PROVE ~(y < x)
    OBVIOUS
  <2>1. <<y, x>> \in Nat \X Nat
    OBVIOUS
  <2>2. QED
    BY <1>3, <2>1
<1>5. QED
  BY <1>4

\* A set that holds zero, and with each number below N the next one, holds all
\* numbers up to N.
LEMMA UpTo ==
    ASSUME NEW N \in Nat, NEW P, 0 \in P, \A k \in 1 .. N : k - 1 \in P => k \in P
    PROVE  \A k \in 0 .. N : k \in P
<1> DEFINE S == {k \in 0 .. N : k \notin P}
<1> SUFFICES ASSUME S # {} PROVE FALSE
  OBVIOUS
<1>1. PICK k \in S : \A j \in S : k <= j
  <2>1. S \subseteq Nat
    OBVIOUS
  <2> HIDE DEF S
  <2>2. QED
    BY <2>1, LeastExists
<1>2. k \in 1 .. N /\ k - 1 \in 0 .. N /\ k - 1 \notin S
  BY <1>1
<1>3. QED
  BY <1>1, <1>2

\* The states of N steps from x on.
IsRun(g, S, s, x, N) == g \in [0 .. N -> S] /\ g[0] = x /\ \A k \in 1 .. N : g[k] = s[g[k - 1]]

\* A step may be taken any number of times.
LEMMA Iterates ==
    ASSUME NEW S, NEW s \in [S -> S], NEW x \in S, NEW N \in Nat
    PROVE  \E g : IsRun(g, S, s, x, N)
<1> DEFINE Good(g, n) == g[0] = x /\ \A k \in 1 .. n : g[k] = s[g[k - 1]]
           P == {n \in 0 .. N : \E g \in [0 .. n -> S] : Good(g, n)}
<1>1. 0 \in P
  <2> DEFINE h == [k \in 0 .. 0 |-> x]
  <2>1. h \in [0 .. 0 -> S] /\ Good(h, 0)
    OBVIOUS
  <2> HIDE DEF h, Good
  <2>2. QED
    BY <2>1
<1>2. ASSUME NEW n \in 1 .. N, n - 1 \in P
      PROVE  n \in P
  <2>1. PICK g \in [0 .. n - 1 -> S] : Good(g, n - 1)
    BY <1>2
  <2> DEFINE h == [k \in 0 .. n |-> IF k = n THEN s[g[n - 1]] ELSE g[k]]
  <2>2. h \in [0 .. n -> S]
    BY <2>1
  <2>3. Good(h, n)
    BY <2>1
  <2> HIDE DEF h, Good
  <2>4. QED
    BY <2>2, <2>3
<1> HIDE DEF P
<1>3. N \in P
  BY <1>1, <1>2, UpTo
<1>4. QED
  BY <1>3 DEF P, IsRun

-----------------------------------------------------------------------------
(* The lists. *)

\* A chain is as long as there are ids with its state.
LEMMA ChainLength ==
    ASSUME NEW p, NEW first, NEW s, NEW n, NEW f, Chain(p, first, s, n, f)
    PROVE  Cardinality(Of(p, s)) = n
<1>1. f \in Bijection(1 .. n, Of(p, s))
  BY DEF Chain, Bijection, Injection, Surjection, IsInjective
<1>2. ExistsBijection(1 .. n, Of(p, s)) /\ n \in Nat
  BY <1>1 DEF ExistsBijection, Chain
<1>3. QED
  BY <1>2, FS_CountingElements

\* What RemoveFirstTimeout changes.
LEMMA RemovalIs ==
    ASSUME NEW p \in PoolType, p.firstTimed \in Ids
    PROVE  LET r == RemoveFirstTimeout(p)
               id == p.firstTimed
           IN /\ r \in PoolType
              /\ r.next = [p.next EXCEPT ![id] = p.firstFree]
              /\ r.state = [p.state EXCEPT ![id] = "free"]
              /\ r.timeout = p.timeout /\ r.firstFree = id /\ r.firstTimed = p.next[id]
              /\ r.lastTimed = (IF p.next[id] = None THEN None ELSE p.lastTimed)
              /\ r.usage = p.usage - 1 /\ r.inUsage = p.inUsage
<1> DEFINE id == p.firstTimed
           nexts == [p.next EXCEPT ![id] = p.firstFree]
           states == [p.state EXCEPT ![id] = "free"]
           last == IF p.next[id] = None THEN None ELSE p.lastTimed
           r == [p EXCEPT !.next = nexts, !.state = states, !.firstFree = id, !.firstTimed = p.next[id],
                          !.lastTimed = last, !.usage = p.usage - 1]
<1>1. RemoveFirstTimeout(p) = r
  BY DEF RemoveFirstTimeout, PoolType
<1>2. /\ nexts \in [Ids -> Ids \cup {None}] /\ states \in [Ids -> {"free", "allocated", "timed"}]
      /\ last \in Ids \cup {None} /\ p.next[id] \in Ids \cup {None} /\ p.usage - 1 \in Int
  BY DEF PoolType
<1> HIDE DEF nexts, states, last
<1>3. /\ r \in PoolType /\ r.next = nexts /\ r.state = states /\ r.timeout = p.timeout
      /\ r.firstFree = id /\ r.firstTimed = p.next[id] /\ r.lastTimed = last
      /\ r.usage = p.usage - 1 /\ r.inUsage = p.inUsage
  BY <1>2 DEF PoolType
<1>4. QED
  BY <1>1, <1>3 DEF nexts, states, last

\* The first of the resting ids becomes the first of the free ones.
LEMMA RemovalKeepsLists ==
    ASSUME NEW p, Lists(p), p.firstTimed # None
    PROVE  LET r == RemoveFirstTimeout(p)
               id == p.firstTimed
           IN /\ Lists(r) /\ r.timeout = p.timeout /\ id \in Of(p, "timed")
              /\ Of(r, "allocated") = Of(p, "allocated")
              /\ Of(r, "timed") = Of(p, "timed") \ {id}
              /\ Of(r, "free") = Of(p, "free") \cup {id}
              /\ r.usage = p.usage - 1 /\ r.inUsage = p.inUsage
              /\ \A i \in Of(p, "timed") : p.timeout[id] <= p.timeout[i]
<1> DEFINE r == RemoveFirstTimeout(p)
           id == p.firstTimed
<1>1. PICK m, g : Chain(p, p.firstFree, "free", m, g)
  BY DEF Lists
<1>2. PICK n, f : Queue(p, n, f)
  BY DEF Lists
<1>3. n \in Nat /\ n > 0 /\ id = f[1] /\ id \in Of(p, "timed") /\ id \in Ids
  BY <1>2 DEF Queue, Chain, Of
<1>4. p \in PoolType
  BY DEF Lists
<1>5. /\ r \in PoolType
      /\ r.next = [p.next EXCEPT ![id] = p.firstFree]
      /\ r.state = [p.state EXCEPT ![id] = "free"]
      /\ r.timeout = p.timeout /\ r.firstFree = id /\ r.firstTimed = p.next[id]
      /\ r.lastTimed = (IF p.next[id] = None THEN None ELSE p.lastTimed)
      /\ r.usage = p.usage - 1 /\ r.inUsage = p.inUsage
  BY <1>3, <1>4, RemovalIs
<1> HIDE DEF r
<1>6. /\ Of(r, "allocated") = Of(p, "allocated")
      /\ Of(r, "timed") = Of(p, "timed") \ {id}
      /\ Of(r, "free") = Of(p, "free") \cup {id}
  BY <1>3, <1>4, <1>5 DEF Of, PoolType
<1>7. \E k, h : Chain(r, r.firstFree, "free", k, h)
  <2> DEFINE h == [k \in 1 .. m + 1 |-> IF k = 1 THEN id ELSE g[k - 1]]
  <2>1. m \in Nat /\ g \in [1 .. m -> Of(p, "free")]
    BY <1>1 DEF Chain
  <2>2. h \in [1 .. m + 1 -> Of(r, "free")]
    BY <1>6, <2>1
  <2>3. \A i, j \in 1 .. m + 1 : h[i] = h[j] => i = j
    <3>1. \A k \in 1 .. m : g[k] # id
      BY <1>3, <2>1 DEF Of
    <3>2. \A i, j \in 1 .. m : g[i] = g[j] => i = j
      BY <1>1 DEF Chain
    <3>3. QED
      BY <2>1, <3>1, <3>2
  <2>4. ASSUME NEW x \in Of(r, "free")
        PROVE  \E k \in 1 .. m + 1 : h[k] = x
    <3>1. CASE x = id
      BY <2>1, <3>1
    <3>2. CASE x # id
      <4>1. PICK k \in 1 .. m : g[k] = x
        BY <1>1, <1>6, <3>2 DEF Chain
      <4>2. k + 1 \in 1 .. m + 1 /\ h[k + 1] = x
        BY <2>1, <4>1
      <4>3. QED
        BY <4>2
    <3>3. QED
      BY <3>1, <3>2
  <2>5. r.firstFree = h[1]
    BY <1>5, <2>1
  <2>6. ASSUME NEW k \in 1 .. m + 1
        PROVE  r.next[h[k]] = IF k = m + 1 THEN None ELSE h[k + 1]
    <3>1. CASE k = 1
      <4>1. r.next[id] = p.firstFree
        BY <1>3, <1>4, <1>5 DEF PoolType
      <4>2. p.firstFree = IF m = 0 THEN None ELSE g[1]
        BY <1>1 DEF Chain
      <4>3. QED
        BY <2>1, <3>1, <4>1, <4>2
    <3>2. CASE k # 1
      <4>1. k - 1 \in 1 .. m /\ h[k] = g[k - 1]
        BY <2>1, <3>2
      <4>2. g[k - 1] # id /\ g[k - 1] \in Ids
        BY <1>3, <2>1, <4>1 DEF Of
      <4>3. r.next[g[k - 1]] = p.next[g[k - 1]]
        BY <1>4, <1>5, <4>2 DEF PoolType
      <4>4. p.next[g[k - 1]] = IF k - 1 = m THEN None ELSE g[(k - 1) + 1]
        BY <1>1, <4>1 DEF Chain
      <4>5. k - 1 = m \/ h[k + 1] = g[(k - 1) + 1]
        BY <2>1, <4>1
      <4>6. QED
        BY <2>1, <4>1, <4>3, <4>4, <4>5
    <3>3. QED
      BY <3>1, <3>2
  <2> HIDE DEF h
  <2>7. Chain(r, r.firstFree, "free", m + 1, h)
    BY <2>1, <2>2, <2>3, <2>4, <2>5, <2>6 DEF Chain
  <2>8. QED
    BY <2>7
<1>8. \E k, h : Queue(r, k, h)
  <2> DEFINE h == [k \in 1 .. n - 1 |-> f[k + 1]]
  <2>1. /\ f \in [1 .. n -> Of(p, "timed")]
        /\ \A i, j \in 1 .. n : f[i] = f[j] => i = j
        /\ \A k \in 1 .. n : p.next[f[k]] = IF k = n THEN None ELSE f[k + 1]
    BY <1>2 DEF Queue, Chain
  <2>2. \A k \in 1 .. n - 1 : h[k] = f[k + 1] /\ k + 1 \in 1 .. n /\ f[k + 1] # id
    BY <1>3, <2>1
  <2>3. h \in [1 .. n - 1 -> Of(r, "timed")] /\ n - 1 \in Nat
    BY <1>3, <1>6, <2>1, <2>2
  <2>4. \A i, j \in 1 .. n - 1 : h[i] = h[j] => i = j
    BY <1>3, <2>1, <2>2
  <2>5. ASSUME NEW x \in Of(r, "timed")
        PROVE  \E k \in 1 .. n - 1 : h[k] = x
    <3>1. PICK k \in 1 .. n : f[k] = x
      BY <1>2, <1>6 DEF Queue, Chain
    <3>2. k # 1
      BY <1>3, <1>6, <3>1
    <3>3. k - 1 \in 1 .. n - 1 /\ h[k - 1] = x
      BY <1>3, <3>1, <3>2
    <3>4. QED
      BY <3>3
  <2>6. r.firstTimed = IF n - 1 = 0 THEN None ELSE h[1]
    BY <1>3, <1>5, <2>1
  <2>7. ASSUME NEW k \in 1 .. n - 1
        PROVE  r.next[h[k]] = IF k = n - 1 THEN None ELSE h[k + 1]
    <3>1. h[k] = f[k + 1] /\ k + 1 \in 1 .. n /\ f[k + 1] # id /\ f[k + 1] \in Ids
      BY <2>1, <2>2 DEF Of
    <3>2. r.next[h[k]] = p.next[f[k + 1]]
      BY <1>4, <1>5, <3>1 DEF PoolType
    <3>3. p.next[f[k + 1]] = IF k + 1 = n THEN None ELSE f[(k + 1) + 1]
      BY <2>1, <3>1
    <3>4. k = n - 1 \/ h[k + 1] = f[(k + 1) + 1]
      BY <1>3
    <3>5. QED
      BY <1>3, <3>2, <3>3, <3>4
  <2>8. r.lastTimed = IF n - 1 = 0 THEN None ELSE h[n - 1]
    <3>1. p.lastTimed = f[n] /\ p.next[id] = IF n = 1 THEN None ELSE f[2]
      BY <1>2, <1>3, <2>1 DEF Queue
    <3>2. n # 1 => f[2] \in Ids /\ h[n - 1] = f[n]
      BY <1>3, <2>1 DEF Of
    <3>3. QED
      BY <1>3, <1>5, <3>1, <3>2, IdsFinite
  <2>9. \A i, j \in 1 .. n - 1 : i <= j => r.timeout[h[i]] <= r.timeout[h[j]]
    <3>1. \A i, j \in 1 .. n : i <= j => p.timeout[f[i]] <= p.timeout[f[j]]
      BY <1>2 DEF Queue
    <3>2. \A i, j \in 1 .. n - 1 : i <= j => i + 1 \in 1 .. n /\ j + 1 \in 1 .. n /\ i + 1 <= j + 1
      BY <1>3
    <3>3. QED
      BY <1>5, <2>2, <3>1, <3>2
  <2> HIDE DEF h
  <2>10. Chain(r, r.firstTimed, "timed", n - 1, h)
    BY <2>3, <2>4, <2>5, <2>6, <2>7 DEF Chain
  <2>11. Queue(r, n - 1, h)
    BY <2>8, <2>9, <2>10 DEF Queue
  <2>12. QED
    BY <2>11
<1>9. ASSUME NEW i \in Of(p, "timed")
      PROVE  p.timeout[id] <= p.timeout[i]
  <2>1. PICK k \in 1 .. n : f[k] = i
    BY <1>2 DEF Queue, Chain
  <2>2. 1 \in 1 .. n /\ 1 <= k
    BY <1>3
  <2>3. QED
    BY <1>2, <1>3, <2>1, <2>2 DEF Queue
<1>10. QED
  BY <1>3, <1>5, <1>6, <1>7, <1>8, <1>9 DEF Lists, r

LEMMA RemovalKeepsCounts ==
    ASSUME NEW p, Lists(p), Counted(p), p.firstTimed # None
    PROVE  Counted(RemoveFirstTimeout(p))
<1> DEFINE r == RemoveFirstTimeout(p)
           id == p.firstTimed
           used == Ids \ Of(p, "free")
<1>1. /\ id \in Of(p, "timed") /\ Of(r, "allocated") = Of(p, "allocated")
      /\ Of(r, "free") = Of(p, "free") \cup {id}
      /\ r.usage = p.usage - 1 /\ r.inUsage = p.inUsage
  BY RemovalKeepsLists
<1> HIDE DEF r
<1>2. Ids \ Of(r, "free") = used \ {id} /\ id \in used
  BY <1>1 DEF Of
<1>3. IsFiniteSet(used)
  BY IdsFinite
<1> HIDE DEF used
<1>4. Cardinality(used \ {id}) = Cardinality(used) - 1
  BY <1>2, <1>3, FS_RemoveElement
<1>5. QED
  BY <1>1, <1>2, <1>4 DEF Counted, r, used

\* A list stays what it is as long as its ids, their links and times do.
LEMMA ChainStays ==
    ASSUME NEW p, NEW q, NEW first, NEW s, NEW n, NEW f, Chain(p, first, s, n, f),
           Of(q, s) = Of(p, s), \A i \in Of(p, s) : q.next[i] = p.next[i]
    PROVE  Chain(q, first, s, n, f)
BY DEF Chain

LEMMA QueueStays ==
    ASSUME NEW p, NEW q, NEW n, NEW f, Queue(p, n, f),
           q.firstTimed = p.firstTimed, q.lastTimed = p.lastTimed,
           Of(q, "timed") = Of(p, "timed"),
           \A i \in Of(p, "timed") : q.next[i] = p.next[i] /\ q.timeout[i] = p.timeout[i]
    PROVE  Queue(q, n, f)
<1>1. Chain(q, q.firstTimed, "timed", n, f)
  BY ChainStays DEF Queue
<1>2. \A i \in 1 .. n : f[i] \in Of(p, "timed")
  BY DEF Queue, Chain
<1>3. QED
  BY <1>1, <1>2 DEF Queue

\* NewId takes the first of the free ids.
LEMMA TakenIs ==
    ASSUME NEW p, Lists(p), p.firstFree # None
    PROVE  LET q == Taken(p)
               id == p.firstFree
           IN /\ Lists(q) /\ q.timeout = p.timeout /\ id \in Of(p, "free")
              /\ Of(q, "allocated") = Of(p, "allocated") \cup {id}
              /\ Of(q, "timed") = Of(p, "timed")
              /\ Of(q, "free") = Of(p, "free") \ {id}
              /\ q.usage = p.usage + 1 /\ q.inUsage = p.inUsage + 1
<1> DEFINE id == p.firstFree
           states == [p.state EXCEPT ![id] = "allocated"]
           second == p.next[id]
           out == p.usage + 1
           owned == p.inUsage + 1
           q == [p EXCEPT !.firstFree = second, !.state = states, !.usage = out, !.inUsage = owned]
<1>1. PICK m, g : Chain(p, p.firstFree, "free", m, g)
  BY DEF Lists
<1>2. PICK n, f : Queue(p, n, f)
  BY DEF Lists
<1>3. p \in PoolType
  BY DEF Lists
<1>4. m \in Nat /\ m > 0 /\ id = g[1] /\ id \in Of(p, "free") /\ id \in Ids
  BY <1>1 DEF Chain, Of
<1>5. Taken(p) = q
  BY <1>3 DEF Taken, PoolType
<1>6. /\ states \in [Ids -> {"free", "allocated", "timed"}] /\ second \in Ids \cup {None}
      /\ out \in Int /\ owned \in Int
  BY <1>3, <1>4 DEF PoolType
<1> HIDE DEF states, second, out, owned
<1>7. /\ q \in PoolType /\ q.next = p.next /\ q.state = states /\ q.timeout = p.timeout
      /\ q.firstFree = second /\ q.firstTimed = p.firstTimed /\ q.lastTimed = p.lastTimed
      /\ q.usage = out /\ q.inUsage = owned
  BY <1>3, <1>6 DEF PoolType
<1> HIDE DEF q
<1>8. /\ Of(q, "allocated") = Of(p, "allocated") \cup {id}
      /\ Of(q, "timed") = Of(p, "timed")
      /\ Of(q, "free") = Of(p, "free") \ {id}
  BY <1>3, <1>4, <1>7 DEF Of, PoolType, states
<1>9. Queue(q, n, f)
  BY <1>2, <1>7, <1>8, QueueStays
<1>10. \E k, h : Chain(q, q.firstFree, "free", k, h)
  <2> DEFINE h == [k \in 1 .. m - 1 |-> g[k + 1]]
  <2>1. /\ g \in [1 .. m -> Of(p, "free")]
        /\ \A i, j \in 1 .. m : g[i] = g[j] => i = j
        /\ \A k \in 1 .. m : p.next[g[k]] = IF k = m THEN None ELSE g[k + 1]
    BY <1>1 DEF Chain
  <2>2. \A k \in 1 .. m - 1 : h[k] = g[k + 1] /\ k + 1 \in 1 .. m /\ g[k + 1] # id
    BY <1>4, <2>1
  <2>3. h \in [1 .. m - 1 -> Of(q, "free")] /\ m - 1 \in Nat
    BY <1>4, <1>8, <2>1, <2>2
  <2>4. \A i, j \in 1 .. m - 1 : h[i] = h[j] => i = j
    BY <1>4, <2>1, <2>2
  <2>5. ASSUME NEW x \in Of(q, "free")
        PROVE  \E k \in 1 .. m - 1 : h[k] = x
    <3>1. PICK k \in 1 .. m : g[k] = x
      BY <1>1, <1>8 DEF Chain
    <3>2. k # 1
      BY <1>4, <1>8, <3>1
    <3>3. k - 1 \in 1 .. m - 1 /\ h[k - 1] = x
      BY <1>4, <3>1, <3>2
    <3>4. QED
      BY <3>3
  <2>6. q.firstFree = IF m - 1 = 0 THEN None ELSE h[1]
    BY <1>4, <1>7, <2>1 DEF second
  <2>7. ASSUME NEW k \in 1 .. m - 1
        PROVE  q.next[h[k]] = IF k = m - 1 THEN None ELSE h[k + 1]
    <3>1. p.next[g[k + 1]] = IF k + 1 = m THEN None ELSE g[(k + 1) + 1]
      BY <2>1, <2>2
    <3>2. k = m - 1 \/ h[k + 1] = g[(k + 1) + 1]
      BY <1>4
    <3>3. QED
      BY <1>4, <1>7, <2>2, <3>1, <3>2
  <2> HIDE DEF h
  <2>8. Chain(q, q.firstFree, "free", m - 1, h)
    BY <2>3, <2>4, <2>5, <2>6, <2>7 DEF Chain
  <2>9. QED
    BY <2>8
<1>11. Lists(q)
  BY <1>7, <1>9, <1>10 DEF Lists
<1>12. QED
  BY <1>4, <1>5, <1>7, <1>8, <1>11 DEF out, owned

LEMMA TakenCounts ==
    ASSUME NEW p, Lists(p), Counted(p), p.firstFree # None
    PROVE  Counted(Taken(p))
<1> DEFINE q == Taken(p)
           id == p.firstFree
           used == Ids \ Of(p, "free")
           own == Of(p, "allocated")
<1>1. /\ id \in Of(p, "free") /\ Of(q, "allocated") = own \cup {id}
      /\ Of(q, "free") = Of(p, "free") \ {id}
      /\ q.usage = p.usage + 1 /\ q.inUsage = p.inUsage + 1
  BY TakenIs
<1> HIDE DEF q
<1>2. Ids \ Of(q, "free") = used \cup {id} /\ id \notin used /\ id \notin own
  BY <1>1 DEF Of
<1>3. IsFiniteSet(used) /\ IsFiniteSet(own)
  BY IdsFinite DEF Of
<1> HIDE DEF used, own
<1>4. /\ Cardinality(used \cup {id}) = Cardinality(used) + 1
      /\ Cardinality(own \cup {id}) = Cardinality(own) + 1
  BY <1>2, <1>3, FS_AddElement
<1>5. QED
  BY <1>1, <1>2, <1>4 DEF Counted, q, used, own

\* FreeId appends the id to the list of resting ids.
LEMMA FreedIs ==
    ASSUME NEW p, Lists(p), NEW id \in Of(p, "allocated"), now \in Nat,
           \A i \in Of(p, "timed") : p.timeout[i] <= now + Rest
    PROVE  LET q == Freed(p, id)
           IN /\ Lists(q) /\ q.timeout = [p.timeout EXCEPT ![id] = now + Rest]
              /\ Of(q, "allocated") = Of(p, "allocated") \ {id}
              /\ Of(q, "timed") = Of(p, "timed") \cup {id}
              /\ Of(q, "free") = Of(p, "free")
              /\ q.usage = p.usage /\ q.inUsage = p.inUsage - 1
<1> DEFINE states == [p.state EXCEPT ![id] = "timed"]
           times == [p.timeout EXCEPT ![id] = now + Rest]
           nexts == IF p.lastTimed # None THEN [p.next EXCEPT ![p.lastTimed] = id, ![id] = None]
                    ELSE [p.next EXCEPT ![id] = None]
           first == IF p.lastTimed # None THEN p.firstTimed ELSE id
           owned == p.inUsage - 1
           q == [p EXCEPT !.inUsage = owned, !.state = states, !.timeout = times, !.next = nexts,
                          !.firstTimed = first, !.lastTimed = id]
<1>1. PICK m, g : Chain(p, p.firstFree, "free", m, g)
  BY DEF Lists
<1>2. PICK n, f : Queue(p, n, f)
  BY DEF Lists
<1>3. p \in PoolType /\ id \in Ids /\ p.state[id] = "allocated"
  BY DEF Lists, Of
<1>4. Freed(p, id) = q
  BY <1>3 DEF Freed, PoolType
<1>5. n \in Nat /\ f \in [1 .. n -> Of(p, "timed")]
  BY <1>2 DEF Queue, Chain
<1>6. p.lastTimed = IF n = 0 THEN None ELSE f[n]
  BY <1>2 DEF Queue
<1>7. p.lastTimed # None <=> n # 0
  BY <1>5, <1>6, IdsFinite DEF Of
<1>8. /\ states \in [Ids -> {"free", "allocated", "timed"}]
      /\ times \in [Ids -> Nat] /\ first \in Ids \cup {None} /\ owned \in Int
  BY <1>3, PoolAssumption DEF PoolType
<1>9. /\ nexts \in [Ids -> Ids \cup {None}] /\ nexts[id] = None
      /\ n # 0 => nexts[f[n]] = id
      /\ \A i \in Ids : i # id /\ (n # 0 => i # f[n]) => nexts[i] = p.next[i]
  <2>1. p.next \in [Ids -> Ids \cup {None}]
    BY <1>3 DEF PoolType
  <2>2. n # 0 => f[n] \in Ids /\ f[n] # id
    BY <1>3, <1>5 DEF Of
  <2>3. CASE n = 0
    <3>1. nexts = [p.next EXCEPT ![id] = None]
      BY <1>7, <2>3
    <3>2. QED
      BY <1>3, <2>1, <2>3, <3>1
  <2>4. CASE n # 0
    <3>1. nexts = [p.next EXCEPT ![f[n]] = id, ![id] = None]
      BY <1>6, <1>7, <2>4
    <3> HIDE DEF nexts
    <3>2. QED
      BY <1>3, <2>1, <2>2, <2>4, <3>1
  <2>5. QED
    BY <2>3, <2>4
<1> HIDE DEF states, times, nexts, first, owned
<1>10. /\ q \in PoolType /\ q.next = nexts /\ q.state = states /\ q.timeout = times
       /\ q.firstFree = p.firstFree /\ q.firstTimed = first /\ q.lastTimed = id
       /\ q.usage = p.usage /\ q.inUsage = owned
  BY <1>3, <1>8, <1>9 DEF PoolType
<1> HIDE DEF q
<1>11. /\ Of(q, "allocated") = Of(p, "allocated") \ {id}
       /\ Of(q, "timed") = Of(p, "timed") \cup {id}
       /\ Of(q, "free") = Of(p, "free")
  BY <1>3, <1>10 DEF Of, PoolType, states
<1>12. Chain(q, q.firstFree, "free", m, g)
  <2>1. ASSUME NEW i \in Of(p, "free")
        PROVE  q.next[i] = p.next[i]
    <3>1. i \in Ids /\ i # id /\ (n # 0 => i # f[n])
      BY <1>3, <1>5, <2>1 DEF Of
    <3>2. QED
      BY <1>9, <1>10, <3>1
  <2>2. QED
    BY <1>1, <1>10, <1>11, <2>1, ChainStays
<1>13. \E k, h : Queue(q, k, h)
  <2> DEFINE h == [k \in 1 .. n + 1 |-> IF k = n + 1 THEN id ELSE f[k]]
  <2>1. /\ \A i, j \in 1 .. n : f[i] = f[j] => i = j
        /\ \A k \in 1 .. n : p.next[f[k]] = IF k = n THEN None ELSE f[k + 1]
        /\ \A k \in 1 .. n : f[k] # id /\ f[k] \in Ids
    BY <1>2, <1>3, <1>5 DEF Queue, Chain, Of
  <2>2. h \in [1 .. n + 1 -> Of(q, "timed")] /\ n + 1 \in Nat
    BY <1>5, <1>11
  <2>3. \A i, j \in 1 .. n + 1 : h[i] = h[j] => i = j
    BY <1>5, <2>1
  <2>4. ASSUME NEW x \in Of(q, "timed")
        PROVE  \E k \in 1 .. n + 1 : h[k] = x
    <3>1. CASE x = id
      <4>1. n + 1 \in 1 .. n + 1 /\ h[n + 1] = id
        BY <1>5
      <4>2. QED
        BY <3>1, <4>1
    <3>2. CASE x # id
      <4>1. PICK k \in 1 .. n : f[k] = x
        BY <1>2, <1>11, <3>2 DEF Queue, Chain
      <4>2. k \in 1 .. n + 1 /\ h[k] = x
        BY <1>5, <4>1
      <4>3. QED
        BY <4>2
    <3>3. QED
      BY <3>1, <3>2
  <2>5. q.firstTimed = h[1]
    <3>1. CASE n = 0
      BY <1>7, <1>10, <3>1 DEF first
    <3>2. CASE n # 0
      <4>1. q.firstTimed = f[1]
        BY <1>2, <1>7, <1>10, <3>2 DEF Queue, Chain, first
      <4>2. h[1] = f[1]
        BY <1>5, <3>2
      <4>3. QED
        BY <4>1, <4>2
    <3>3. QED
      BY <3>1, <3>2
  <2>6. ASSUME NEW k \in 1 .. n + 1
        PROVE  q.next[h[k]] = IF k = n + 1 THEN None ELSE h[k + 1]
    <3>1. CASE k = n + 1
      BY <1>9, <1>10, <3>1
    <3>2. CASE k = n
      <4>1. n # 0 /\ h[k] = f[n] /\ h[k + 1] = id /\ k # n + 1
        BY <1>5, <3>2
      <4>2. QED
        BY <1>9, <1>10, <4>1
    <3>3. CASE k < n
      <4>1. k \in 1 .. n /\ n \in 1 .. n /\ k # n /\ k # n + 1 /\ h[k] = f[k] /\ h[k + 1] = f[k + 1]
        BY <1>5, <3>3
      <4>2. f[k] # f[n] /\ f[k] # id /\ f[k] \in Ids
        BY <2>1, <4>1
      <4>3. q.next[f[k]] = p.next[f[k]]
        BY <1>9, <1>10, <4>2
      <4>4. QED
        BY <2>1, <4>1, <4>3
    <3>4. QED
      BY <1>5, <3>1, <3>2, <3>3
  <2>7. q.lastTimed = h[n + 1]
    BY <1>5, <1>10
  <2>8. ASSUME NEW i \in 1 .. n + 1, NEW j \in 1 .. n + 1, i <= j
        PROVE  q.timeout[h[i]] <= q.timeout[h[j]]
    <3>1. q.timeout[id] = now + Rest
      BY <1>3, <1>10 DEF times, PoolType
    <3>2. \A k \in 1 .. n : q.timeout[f[k]] = p.timeout[f[k]]
      BY <1>3, <1>10, <2>1 DEF times, PoolType
    <3>3. now + Rest \in Nat
      BY PoolAssumption
    <3>4. CASE j = n + 1
      <4>1. CASE i = n + 1
        BY <3>1, <3>3, <3>4, <4>1
      <4>2. CASE i # n + 1
        <5>1. i \in 1 .. n /\ h[i] = f[i] /\ f[i] \in Of(p, "timed") /\ h[j] = id
          BY <1>5, <3>4, <4>2
        <5>2. p.timeout[f[i]] <= now + Rest
          BY <5>1
        <5>3. QED
          BY <3>1, <3>2, <5>1, <5>2
      <4>3. QED
        BY <4>1, <4>2
    <3>5. CASE j # n + 1
      <4>1. i \in 1 .. n /\ j \in 1 .. n /\ h[i] = f[i] /\ h[j] = f[j]
        BY <1>5, <2>8, <3>5
      <4>2. QED
        BY <1>2, <2>8, <3>2, <4>1 DEF Queue
    <3>6. QED
      BY <3>4, <3>5
  <2>9. n + 1 # 0
    BY <1>5
  <2> HIDE DEF h
  <2>10. Chain(q, q.firstTimed, "timed", n + 1, h)
    BY <2>2, <2>3, <2>4, <2>5, <2>6, <2>9 DEF Chain
  <2>11. Queue(q, n + 1, h)
    BY <2>7, <2>8, <2>9, <2>10 DEF Queue
  <2>12. QED
    BY <2>11
<1>14. Lists(q)
  BY <1>10, <1>12, <1>13 DEF Lists
<1>15. QED
  BY <1>4, <1>10, <1>11, <1>14 DEF times, owned

LEMMA FreedCounts ==
    ASSUME NEW p, Lists(p), Counted(p), NEW id \in Of(p, "allocated"), now \in Nat,
           \A i \in Of(p, "timed") : p.timeout[i] <= now + Rest
    PROVE  Counted(Freed(p, id))
<1> DEFINE q == Freed(p, id)
           own == Of(p, "allocated")
<1>1. /\ Of(q, "allocated") = own \ {id} /\ Of(q, "free") = Of(p, "free")
      /\ q.usage = p.usage /\ q.inUsage = p.inUsage - 1
  BY FreedIs
<1>2. IsFiniteSet(own)
  BY IdsFinite DEF Of
<1> HIDE DEF q
<1>3. Cardinality(own \ {id}) = Cardinality(own) - 1
  BY <1>2, FS_RemoveElement
<1>4. QED
  BY <1>1, <1>3 DEF Counted, q

-----------------------------------------------------------------------------
(* The sweep of the resting ids. *)

\* A list without a head is empty.
LEMMA NoChain ==
    ASSUME NEW p, NEW s, NEW n, NEW f, Chain(p, None, s, n, f)
    PROVE  Of(p, s) = {}
<1>1. n \in Nat /\ f \in [1 .. n -> Of(p, s)] /\ None = IF n = 0 THEN None ELSE f[1]
  BY DEF Chain
<1>2. n # 0 => f[1] \in Ids
  BY <1>1 DEF Of
<1>3. n = 0
  BY <1>1, <1>2, IdsFinite
<1>4. \A id \in Of(p, s) : \E k \in 1 .. n : f[k] = id
  BY DEF Chain
<1>5. ~ \E k \in 1 .. n : TRUE
  BY <1>3
<1>6. QED
  BY <1>4, <1>5

\* The first of the resting ids has rested longest.
LEMMA HeadIs ==
    ASSUME NEW p, Lists(p)
    PROVE  /\ p.firstTimed = None => Of(p, "timed") = {}
           /\ p.firstTimed # None => p.firstTimed \in Of(p, "timed")
           /\ \A i \in Of(p, "timed") : p.timeout[p.firstTimed] <= p.timeout[i]
           /\ p.firstFree = None => Of(p, "free") = {}
<1>1. PICK n, f : Queue(p, n, f)
  BY DEF Lists
<1>2. PICK m, g : Chain(p, p.firstFree, "free", m, g)
  BY DEF Lists
<1>3. ASSUME p.firstTimed = None
      PROVE  Of(p, "timed") = {}
  <2>1. Chain(p, None, "timed", n, f)
    BY <1>1, <1>3 DEF Queue
  <2>2. QED
    BY <2>1, NoChain
<1>4. ASSUME p.firstFree = None
      PROVE  Of(p, "free") = {}
  BY <1>2, <1>4, NoChain
<1>5. QED
  BY <1>3, <1>4, RemovalKeepsLists

Pools == {p \in PoolType : Lists(p)}

\* One turn of the loop, for the ids in D.
Turn(q, D) == IF q.firstTimed # None /\ q.firstTimed \in D THEN RemoveFirstTimeout(q) ELSE q

\* The states of the pool in the loop.
IsSweep(g, p, D) ==
    /\ g \in [0 .. MaxIds -> Pools] /\ g[0] = p
    /\ \A k \in 1 .. MaxIds : g[k] = Turn(g[k - 1], D)

LEMMA SweepExists ==
    ASSUME NEW p, Lists(p), NEW D \in SUBSET Ids
    PROVE  \E g : IsSweep(g, p, D)
<1> DEFINE s == [q \in Pools |-> Turn(q, D)]
<1>1. s \in [Pools -> Pools]
  <2> SUFFICES ASSUME NEW q \in Pools
               PROVE  Turn(q, D) \in Pools
    OBVIOUS
  <2>1. CASE q.firstTimed # None
    <3>1. Lists(RemoveFirstTimeout(q))
      BY <2>1, RemovalKeepsLists DEF Pools
    <3>2. QED
      BY <3>1 DEF Pools, Turn, Lists
  <2>2. CASE q.firstTimed = None
    BY <2>2 DEF Turn
  <2>3. QED
    BY <2>1, <2>2
<1>2. p \in Pools /\ MaxIds \in Nat
  BY PoolAssumption DEF Pools, Lists
<1>3. \A q \in Pools : s[q] = Turn(q, D)
  OBVIOUS
<1> HIDE DEF s
<1>4. PICK g : IsRun(g, Pools, s, p, MaxIds)
  <2> HIDE DEF Pools
  <2> QED
    BY <1>1, <1>2, Iterates
<1>5. \A k \in 1 .. MaxIds : k - 1 \in 0 .. MaxIds
  BY <1>2
<1>6. IsSweep(g, p, D)
  BY <1>3, <1>4, <1>5 DEF IsSweep, IsRun
<1>7. QED
  BY <1>6

\* The sweep frees the ids in D, if those are the ones that have rested
\* longest, and no others.
LEMMA SweepFrees ==
    ASSUME NEW p, Lists(p), Counted(p), NEW D \in SUBSET Ids, NEW g, IsSweep(g, p, D),
           \A i, j \in Of(p, "timed") : i \in D /\ p.timeout[j] <= p.timeout[i] => j \in D
    PROVE  LET q == g[MaxIds]
           IN /\ Lists(q) /\ Counted(q) /\ q.timeout = p.timeout
              /\ Of(q, "allocated") = Of(p, "allocated")
              /\ Of(q, "timed") = Of(p, "timed") \ D
<1> DEFINE Good(q) ==
               /\ Lists(q) /\ Counted(q) /\ q.timeout = p.timeout
               /\ Of(q, "allocated") = Of(p, "allocated")
               /\ Of(q, "timed") \subseteq Of(p, "timed")
               /\ Of(p, "timed") \ D \subseteq Of(q, "timed")
           Done(q) == Of(q, "timed") \cap D = {}
           P == {k \in 0 .. MaxIds :
                    Good(g[k]) /\ (Done(g[k]) \/ Cardinality(Of(g[k], "timed")) + k <= MaxIds)}
<1>0. MaxIds \in Nat
  BY PoolAssumption
<1>1. 0 \in P
  <2>1. g[0] = p
    BY DEF IsSweep
  <2>2. Of(p, "timed") \in SUBSET Ids
    BY DEF Of
  <2>3. Cardinality(Of(p, "timed")) \in 0 .. MaxIds
    BY <2>2, IdsFinite
  <2>4. QED
    BY <1>0, <2>1, <2>3
<1>2. ASSUME NEW k \in 1 .. MaxIds, k - 1 \in P
      PROVE  k \in P
  <2> DEFINE q == g[k - 1]
             r == g[k]
  <2>1. Good(q) /\ (Done(q) \/ Cardinality(Of(q, "timed")) + (k - 1) <= MaxIds)
    BY <1>2
  <2>2. r = Turn(q, D)
    BY DEF IsSweep
  <2> HIDE DEF q, r
  <2>3. CASE q.firstTimed # None /\ q.firstTimed \in D
    <3> DEFINE id == q.firstTimed
    <3>1. r = RemoveFirstTimeout(q)
      BY <2>2, <2>3 DEF Turn
    <3>2. /\ Lists(r) /\ r.timeout = q.timeout /\ id \in Of(q, "timed")
          /\ Of(r, "allocated") = Of(q, "allocated")
          /\ Of(r, "timed") = Of(q, "timed") \ {id}
      BY <2>1, <2>3, <3>1, RemovalKeepsLists
    <3>3. Counted(r)
      BY <2>1, <2>3, <3>1, RemovalKeepsCounts
    <3>4. Good(r)
      BY <2>1, <2>3, <3>2, <3>3
    <3>5. Cardinality(Of(q, "timed")) + (k - 1) <= MaxIds
      BY <2>1, <2>3, <3>2
    <3>6. Of(q, "timed") \in SUBSET Ids
      BY DEF Of
    <3>7. IsFiniteSet(Of(q, "timed")) /\ Cardinality(Of(q, "timed")) \in Nat
      BY <3>6, IdsFinite
    <3>8. Cardinality(Of(r, "timed")) = Cardinality(Of(q, "timed")) - 1
      BY <3>2, <3>7, FS_RemoveElement
    <3>9. Cardinality(Of(r, "timed")) + k <= MaxIds
      BY <1>0, <3>5, <3>7, <3>8
    <3>10. QED
      BY <3>4, <3>9 DEF r
  <2>4. CASE ~(q.firstTimed # None /\ q.firstTimed \in D)
    <3>1. r = q
      BY <2>2, <2>4 DEF Turn
    <3>2. Done(q)
      <4> SUFFICES ASSUME NEW i \in Of(q, "timed"), i \in D
                   PROVE  FALSE
        OBVIOUS
      <4>1. q.firstTimed # None /\ q.firstTimed \in Of(q, "timed")
        BY <2>1, HeadIs
      <4>2. q.timeout[q.firstTimed] <= q.timeout[i]
        BY <2>1, HeadIs
      <4>3. q.firstTimed \in D
        BY <2>1, <4>1, <4>2
      <4>4. QED
        BY <2>4, <4>1, <4>3
    <3>3. QED
      BY <2>1, <3>1, <3>2 DEF r
  <2>5. QED
    BY <2>3, <2>4
<1>3. MaxIds \in P
  <2> HIDE DEF P
  <2>1. QED
    BY <1>0, <1>1, <1>2, UpTo
<1> DEFINE q == g[MaxIds]
<1>4. Good(q) /\ (Done(q) \/ Cardinality(Of(q, "timed")) + MaxIds <= MaxIds)
  BY <1>3
<1> HIDE DEF q
<1>5. Done(q)
  <2>1. Of(q, "timed") \in SUBSET Ids
    BY DEF Of
  <2>2. IsFiniteSet(Of(q, "timed")) /\ Cardinality(Of(q, "timed")) \in Nat
    BY <2>1, IdsFinite
  <2>3. Cardinality(Of(q, "timed")) = 0 => Of(q, "timed") = {}
    BY <2>2, FS_EmptySet
  <2>4. QED
    BY <1>0, <1>4, <2>2, <2>3
<1>6. QED
  BY <1>4, <1>5 DEF q

\* Two functions that take the same steps are the same.
LEMMA SameSweep ==
    ASSUME NEW p, NEW D \in SUBSET Ids, NEW g, IsSweep(g, p, D), NEW h, h[0] = p,
           \A k \in 1 .. MaxIds : h[k - 1] \in Pools => h[k] = Turn(h[k - 1], D)
    PROVE  h[MaxIds] = g[MaxIds]
<1> DEFINE P == {k \in 0 .. MaxIds : h[k] = g[k]}
<1>0. MaxIds \in Nat
  BY PoolAssumption
<1>1. 0 \in P
  BY <1>0 DEF IsSweep
<1>2. ASSUME NEW k \in 1 .. MaxIds, k - 1 \in P
      PROVE  k \in P
  <2>1. h[k - 1] = g[k - 1] /\ g[k - 1] \in Pools
    BY <1>2 DEF IsSweep
  <2>2. g[k] = Turn(g[k - 1], D)
    BY DEF IsSweep
  <2>3. QED
    BY <2>1, <2>2
<1>3. MaxIds \in P
  <2> HIDE DEF P
  <2>1. QED
    BY <1>0, <1>1, <1>2, UpTo
<1>4. QED
  BY <1>3

\* NewId: the loop ends at the first id that still rests.
LEMMA SweptExpired ==
    ASSUME Lists(pool)
    PROVE  \E g : IsSweep(g, pool, {i \in Ids : Expired(i)}) /\ Swept(pool, Expired) = g[MaxIds]
<1> DEFINE D == {i \in Ids : Expired(i)}
           E(h) == [k \in 0 .. MaxIds |->
                       IF k = 0 THEN pool
                       ELSE LET q == h[k - 1]
                            IN IF q.firstTimed # None /\ Expired(q.firstTimed)
                               THEN RemoveFirstTimeout(q) ELSE q]
           sweep == CHOOSE h : h = E(h)
<1>1. PICK g : IsSweep(g, pool, D)
  BY SweepExists
<1>2. Swept(pool, Expired) = sweep[MaxIds]
  BY DEF Swept
<1>3. \A q \in Pools : Turn(q, D) = IF q.firstTimed # None /\ Expired(q.firstTimed)
                                    THEN RemoveFirstTimeout(q) ELSE q
  BY DEF Pools, PoolType, Turn
<1>4. MaxIds \in Nat /\ \A k \in 1 .. MaxIds : k - 1 \in 0 .. MaxIds
  BY PoolAssumption
<1>5. g = E(g)
  <2> HIDE DEF D
  <2>1. g \in [0 .. MaxIds -> Pools] /\ g[0] = pool
    BY <1>1 DEF IsSweep
  <2>2. ASSUME NEW k \in 1 .. MaxIds
        PROVE  g[k] = E(g)[k]
    <3>1. g[k] = Turn(g[k - 1], D) /\ g[k - 1] \in Pools
      BY <1>1, <1>4, <2>1 DEF IsSweep
    <3>2. g[k] = IF g[k - 1].firstTimed # None /\ Expired(g[k - 1].firstTimed)
                 THEN RemoveFirstTimeout(g[k - 1]) ELSE g[k - 1]
      BY <1>3, <3>1
    <3>3. QED
      BY <1>4, <3>2
  <2>3. \A k \in 0 .. MaxIds : k = 0 \/ k \in 1 .. MaxIds
    BY <1>4
  <2>4. \A k \in 0 .. MaxIds : g[k] = E(g)[k]
    BY <1>4, <2>1, <2>2, <2>3
  <2>5. QED
    BY <2>1, <2>4
<1>6. sweep = E(sweep)
  BY <1>5
<1> HIDE DEF sweep, D
<1>7. /\ sweep[0] = pool
      /\ \A k \in 1 .. MaxIds : sweep[k - 1] \in Pools => sweep[k] = Turn(sweep[k - 1], D)
  BY <1>3, <1>4, <1>6
<1>8. D \in SUBSET Ids
  BY DEF D
<1>9. sweep[MaxIds] = g[MaxIds]
  BY <1>1, <1>7, <1>8, SameSweep
<1>10. QED
  BY <1>1, <1>2, <1>9 DEF D

\* TimeoutIds: the loop ends with the list.
LEMMA SweptAll ==
    ASSUME Lists(pool)
    PROVE  \E g : IsSweep(g, pool, Ids) /\ Swept(pool, LAMBDA id : TRUE) = g[MaxIds]
<1> DEFINE E(h) == [k \in 0 .. MaxIds |->
                       IF k = 0 THEN pool
                       ELSE LET q == h[k - 1]
                            IN IF q.firstTimed # None /\ TRUE THEN RemoveFirstTimeout(q) ELSE q]
           sweep == CHOOSE h : h = E(h)
<1>1. PICK g : IsSweep(g, pool, Ids)
  BY SweepExists
<1>2. Swept(pool, LAMBDA id : TRUE) = sweep[MaxIds]
  BY DEF Swept
<1>3. \A q \in Pools : Turn(q, Ids) = IF q.firstTimed # None /\ TRUE THEN RemoveFirstTimeout(q) ELSE q
  BY DEF Pools, PoolType, Turn
<1>4. MaxIds \in Nat /\ \A k \in 1 .. MaxIds : k - 1 \in 0 .. MaxIds
  BY PoolAssumption
<1>5. g = E(g)
  BY <1>1, <1>3, <1>4 DEF IsSweep
<1>6. sweep = E(sweep)
  BY <1>5
<1> HIDE DEF sweep
<1>7. /\ sweep[0] = pool
      /\ \A k \in 1 .. MaxIds : sweep[k - 1] \in Pools => sweep[k] = Turn(sweep[k - 1], Ids)
  BY <1>3, <1>4, <1>6
<1>8. sweep[MaxIds] = g[MaxIds]
  BY <1>1, <1>7, SameSweep
<1>9. QED
  BY <1>1, <1>2, <1>8

\* What NewId finds when its loop is over.
LEMMA ExpiredAreSwept ==
    ASSUME Lists(pool), Counted(pool), now \in Nat
    PROVE  LET q == Swept(pool, Expired)
           IN /\ Lists(q) /\ Counted(q) /\ q.timeout = pool.timeout
              /\ Of(q, "allocated") = Of(pool, "allocated")
              /\ Of(q, "timed") = {i \in Of(pool, "timed") : ~Expired(i)}
<1> DEFINE D == {i \in Ids : Expired(i)}
           q == Swept(pool, Expired)
<1>1. PICK g : IsSweep(g, pool, D) /\ q = g[MaxIds]
  BY SweptExpired
<1>2. \A i, j \in Of(pool, "timed") : i \in D /\ pool.timeout[j] <= pool.timeout[i] => j \in D
  <2>1. pool.timeout \in [Ids -> Nat]
    BY DEF Lists, PoolType
  <2>2. QED
    BY <2>1 DEF Of, Expired
<1>3. D \in SUBSET Ids
  OBVIOUS
<1> HIDE DEF D, q
<1>4. /\ Lists(q) /\ Counted(q) /\ q.timeout = pool.timeout
      /\ Of(q, "allocated") = Of(pool, "allocated")
      /\ Of(q, "timed") = Of(pool, "timed") \ D
  BY <1>1, <1>2, <1>3, SweepFrees
<1>5. Of(pool, "timed") \ D = {i \in Of(pool, "timed") : ~Expired(i)}
  BY DEF D, Of
<1>6. QED
  BY <1>4, <1>5 DEF q

\* A new map leaves no id resting.
LEMMA AllAreSwept ==
    ASSUME Lists(pool), Counted(pool)
    PROVE  LET q == Swept(pool, LAMBDA id : TRUE)
           IN /\ Lists(q) /\ Counted(q) /\ q.timeout = pool.timeout
              /\ Of(q, "allocated") = Of(pool, "allocated")
              /\ Of(q, "timed") = {}
<1> DEFINE q == Swept(pool, LAMBDA id : TRUE)
<1>1. PICK g : IsSweep(g, pool, Ids) /\ q = g[MaxIds]
  BY SweptAll
<1>2. \A i, j \in Of(pool, "timed") : i \in Ids /\ pool.timeout[j] <= pool.timeout[i] => j \in Ids
  BY DEF Of
<1> HIDE DEF q
<1>3. /\ Lists(q) /\ Counted(q) /\ q.timeout = pool.timeout
      /\ Of(q, "allocated") = Of(pool, "allocated")
      /\ Of(q, "timed") = Of(pool, "timed") \ Ids
  BY <1>1, <1>2, SweepFrees
<1>4. Of(pool, "timed") \ Ids = {}
  BY DEF Of
<1>5. QED
  BY <1>3, <1>4 DEF q

-----------------------------------------------------------------------------
(* The inductive invariant. *)

\* Reset leaves one list of all ids.
LEMMA FreshLists == Lists(Fresh) /\ Counted(Fresh) /\ Of(Fresh, "timed") = {} /\ Of(Fresh, "allocated") = {}
<1> DEFINE f == [k \in 1 .. MaxIds |-> k - 1]
           e == [k \in 1 .. 0 |-> 0]
           nexts == [i \in Ids |-> IF i = MaxIds - 1 THEN None ELSE i + 1]
<1>0. MaxIds \in Nat /\ MaxIds > 0
  BY PoolAssumption
<1>1. nexts \in [Ids -> Ids \cup {None}] /\ 0 \in Ids
  BY <1>0 DEF Ids
<1>2. /\ Fresh.next = nexts /\ Fresh.state = [i \in Ids |-> "free"] /\ Fresh.firstFree = 0
      /\ Fresh.firstTimed = None /\ Fresh.lastTimed = None /\ Fresh.usage = 0 /\ Fresh.inUsage = 0
  BY DEF Fresh
<1>3. Fresh \in PoolType
  <2>1. [i \in Ids |-> "free"] \in [Ids -> {"free", "allocated", "timed"}] /\ [i \in Ids |-> 0] \in [Ids -> Nat]
    OBVIOUS
  <2> HIDE DEF nexts
  <2>2. QED
    BY <1>1, <2>1 DEF Fresh, PoolType, nexts
<1>4. Of(Fresh, "free") = Ids /\ Of(Fresh, "timed") = {} /\ Of(Fresh, "allocated") = {}
  BY <1>2 DEF Of
<1> HIDE DEF nexts
<1>5. Chain(Fresh, Fresh.firstFree, "free", MaxIds, f)
  <2>1. f \in [1 .. MaxIds -> Of(Fresh, "free")] /\ \A i, j \in 1 .. MaxIds : f[i] = f[j] => i = j
    BY <1>0, <1>4 DEF Ids
  <2>2. ASSUME NEW id \in Of(Fresh, "free")
        PROVE  \E k \in 1 .. MaxIds : f[k] = id
    <3>1. id + 1 \in 1 .. MaxIds /\ f[id + 1] = id
      BY <1>0, <1>4 DEF Ids
    <3>2. QED
      BY <3>1
  <2>3. Fresh.firstFree = IF MaxIds = 0 THEN None ELSE f[1]
    BY <1>0, <1>2
  <2>4. ASSUME NEW k \in 1 .. MaxIds
        PROVE  Fresh.next[f[k]] = IF k = MaxIds THEN None ELSE f[k + 1]
    <3>1. f[k] = k - 1 /\ k - 1 \in Ids /\ (k # MaxIds => f[k + 1] = k)
      BY <1>0 DEF Ids
    <3>2. nexts[k - 1] = IF k = MaxIds THEN None ELSE k
      BY <1>0, <3>1 DEF nexts
    <3>3. QED
      BY <1>2, <3>1, <3>2
  <2> HIDE DEF f
  <2>5. QED
    BY <1>0, <2>1, <2>2, <2>3, <2>4 DEF Chain
<1>6. Queue(Fresh, 0, e)
  <2>1. Chain(Fresh, Fresh.firstTimed, "timed", 0, e)
    BY <1>2, <1>4 DEF Chain
  <2>2. QED
    BY <1>2, <2>1 DEF Queue
<1> HIDE DEF f, e
<1>7. Lists(Fresh)
  BY <1>3, <1>5, <1>6 DEF Lists
<1>8. Counted(Fresh)
  <2>1. Ids \ Of(Fresh, "free") = {} /\ Cardinality({}) = 0
    BY <1>4, FS_EmptySet
  <2>2. QED
    BY <1>2, <1>4, <2>1 DEF Counted
<1>9. QED
  BY <1>4, <1>7, <1>8

\* PoolInv holds at the start and no step breaks it: NewId and TimeoutIds
\* because the loop moves ids from the front of the one list to the front of
\* the other, FreeId because the id it appends rests longest.
LEMMA PoolInvInit == Init => PoolInv
<1> SUFFICES ASSUME Init
             PROVE  PoolInv
  OBVIOUS
<1>1. pool = Fresh /\ now = 0 /\ result = None /\ now \in 0 .. MaxTime
  BY PoolAssumption DEF Init
<1>2. QED
  BY <1>1, FreshLists DEF PoolInv

LEMMA PoolInvStep == PoolInv /\ [Next]_vars => PoolInv'
<1> SUFFICES ASSUME PoolInv, [Next]_vars
             PROVE  PoolInv'
  OBVIOUS
<1>1. /\ Lists(pool) /\ Counted(pool) /\ now \in Nat /\ now \in 0 .. MaxTime
      /\ \A i \in Of(pool, "timed") : pool.timeout[i] <= now + Rest
      /\ result \in Ids \cup {None} /\ Rest \in Nat /\ MaxTime \in Nat
  BY PoolAssumption DEF PoolInv
<1>2. pool.timeout \in [Ids -> Nat]
  BY <1>1 DEF Lists, PoolType
<1>3. CASE Tick
  <2>1. now' = now + 1 /\ now' \in 0 .. MaxTime /\ pool' = pool /\ result' = result
    BY <1>1, <1>3 DEF Tick
  <2>2. ASSUME NEW i \in Of(pool, "timed")
        PROVE  pool.timeout[i] <= (now + 1) + Rest
    <3>1. pool.timeout[i] \in Nat
      BY <1>2 DEF Of
    <3>2. QED
      BY <1>1, <3>1
  <2>3. QED
    BY <1>1, <2>1, <2>2 DEF PoolInv
<1>4. CASE NewId
  <2> DEFINE q == Swept(pool, Expired)
  <2>1. /\ Lists(q) /\ Counted(q) /\ q.timeout = pool.timeout
        /\ Of(q, "timed") = {i \in Of(pool, "timed") : ~Expired(i)}
    BY <1>1, ExpiredAreSwept
  <2>2. /\ IF q.firstFree = None THEN pool' = q /\ result' = None
           ELSE pool' = Taken(q) /\ result' = q.firstFree
        /\ now' = now
    BY <1>4 DEF NewId
  <2> HIDE DEF q
  <2>3. CASE q.firstFree = None
    BY <1>1, <2>1, <2>2, <2>3 DEF PoolInv
  <2>4. CASE q.firstFree # None
    <3>1. /\ Lists(Taken(q)) /\ Taken(q).timeout = q.timeout
          /\ Of(Taken(q), "timed") = Of(q, "timed") /\ Counted(Taken(q))
      BY <2>1, <2>4, TakenIs, TakenCounts
    <3>2. q.firstFree \in Ids \cup {None}
      BY <2>1 DEF Lists, PoolType
    <3>3. QED
      BY <1>1, <2>1, <2>2, <2>4, <3>1, <3>2 DEF PoolInv
  <2>5. QED
    BY <2>3, <2>4
<1>5. CASE TimeoutIds
  <2> DEFINE q == Swept(pool, LAMBDA id : TRUE)
  <2>1. Lists(q) /\ Counted(q) /\ Of(q, "timed") = {}
    BY <1>1, AllAreSwept
  <2>2. pool' = q /\ now' = now /\ result' = result
    BY <1>5 DEF TimeoutIds
  <2> HIDE DEF q
  <2>3. QED
    BY <1>1, <2>1, <2>2 DEF PoolInv
<1>6. ASSUME NEW id \in Ids, FreeId(id)
      PROVE  PoolInv'
  <2> DEFINE q == Freed(pool, id)
  <2>1. id \in Of(pool, "allocated") /\ pool' = q /\ now' = now /\ result' = result
    BY <1>6 DEF FreeId, Of
  <2>2. /\ Lists(q) /\ q.timeout = [pool.timeout EXCEPT ![id] = now + Rest]
        /\ Of(q, "timed") = Of(pool, "timed") \cup {id} /\ Counted(q)
    BY <1>1, <2>1, FreedIs, FreedCounts
  <2> HIDE DEF q
  <2>3. ASSUME NEW i \in Of(q, "timed")
        PROVE  q.timeout[i] <= now + Rest
    <3>1. CASE i = id
      BY <1>1, <1>2, <2>2, <3>1
    <3>2. CASE i # id
      <4>1. i \in Of(pool, "timed") /\ i \in Ids
        BY <2>2, <2>3, <3>2 DEF Of
      <4>2. q.timeout[i] = pool.timeout[i]
        BY <1>2, <2>2, <3>2, <4>1
      <4>3. QED
        BY <1>1, <4>1, <4>2
    <3>3. QED
      BY <3>1, <3>2
  <2>4. QED
    BY <1>1, <2>1, <2>2, <2>3 DEF PoolInv
<1>7. CASE UNCHANGED vars
  BY <1>1, <1>7 DEF PoolInv, vars
<1>8. QED
  BY <1>3, <1>4, <1>5, <1>6, <1>7 DEF Next

\* In every reachable state the two lists are chains of exactly the ids of
\* their state, the resting ids are in the order in which they were given back,
\* the counters are exact and no id rests longer than Rest from now on.
THEOREM Inductive == Spec => []PoolInv
BY PoolInvInit, PoolInvStep, PTL DEF Spec

-----------------------------------------------------------------------------
(* The lists are exact. *)

\* Whoever follows the links of a chain meets its ids and then the end.
LEMMA ChainIsList ==
    ASSUME Lists(pool), NEW first, NEW s, NEW n, NEW f, Chain(pool, first, s, n, f)
    PROVE  IsListOf(first, s)
<1> DEFINE ids == {i \in Ids : pool.state[i] = s}
           E(h) == [k \in Nat |-> IF k = 0 THEN first
                                  ELSE IF h[k - 1] = None THEN None ELSE pool.next[h[k - 1]]]
           nth == Nth(first)
           g == [k \in Nat |-> IF k < n THEN f[k + 1] ELSE None]
<1>1. /\ n \in Nat /\ f \in [1 .. n -> ids]
      /\ \A id \in ids : \E k \in 1 .. n : f[k] = id
      /\ first = IF n = 0 THEN None ELSE f[1]
      /\ \A k \in 1 .. n : pool.next[f[k]] = IF k = n THEN None ELSE f[k + 1]
  BY DEF Chain, Of
<1>2. Cardinality(ids) = n
  BY ChainLength DEF Of
<1>3. \A k \in 1 .. n : f[k] # None
  BY <1>1, IdsFinite
<1>4. nth = CHOOSE h : h = E(h)
  BY DEF Nth
<1> HIDE DEF ids
<1>5. g = E(g)
  <2>1. ASSUME NEW k \in Nat
        PROVE  g[k] = E(g)[k]
    <3>1. CASE k = 0
      BY <1>1, <3>1
    <3>2. CASE k > 0 /\ k - 1 < n
      <4>1. k \in 1 .. n /\ k - 1 \in Nat /\ g[k - 1] = f[k] /\ f[k] # None
        BY <1>1, <1>3, <3>2
      <4>2. E(g)[k] = pool.next[f[k]]
        BY <3>2, <4>1
      <4>3. pool.next[f[k]] = IF k = n THEN None ELSE f[k + 1]
        BY <1>1, <4>1
      <4>4. g[k] = IF k = n THEN None ELSE f[k + 1]
        BY <1>1, <3>2, <4>1
      <4>5. QED
        BY <4>2, <4>3, <4>4
    <3>3. CASE k > 0 /\ ~(k - 1 < n)
      <4>1. k - 1 \in Nat /\ ~(k < n)
        BY <1>1, <3>3
      <4>2. g[k - 1] = None /\ g[k] = None
        BY <3>3, <4>1
      <4>3. E(g)[k] = None
        BY <3>3, <4>2
      <4>4. QED
        BY <4>2, <4>3
    <3>4. QED
      BY <3>1, <3>2, <3>3
  <2> HIDE DEF g
  <2>2. g = [k \in Nat |-> g[k]]
    BY DEF g
  <2>3. QED
    BY <2>1, <2>2
<1>6. nth = E(nth)
  <2> DEFINE c == CHOOSE h : h = E(h)
  <2> HIDE DEF g, nth
  <2>1. \E h : h = E(h)
    BY <1>5
  <2>2. c = E(c)
    BY <2>1, Zenon
  <2>3. nth = c
    BY <1>4
  <2> HIDE DEF c
  <2>4. QED
    BY <2>2, <2>3
<1> HIDE DEF nth
<1>7. \A k \in 0 .. n : nth[k] = g[k]
  <2> DEFINE P == {k \in 0 .. n : nth[k] = g[k]}
  <2>1. 0 \in P
    <3>1. nth[0] = first /\ g[0] = first /\ 0 \in 0 .. n
      BY <1>1, <1>6
    <3>2. QED
      BY <3>1
  <2>2. ASSUME NEW k \in 1 .. n, k - 1 \in P
        PROVE  k \in P
    <3>1. nth[k - 1] = g[k - 1] /\ k \in Nat
      BY <1>1, <2>2
    <3>2. nth[k] = E(nth)[k] /\ g[k] = E(g)[k]
      BY <1>5, <1>6
    <3> HIDE DEF g
    <3>3. nth[k] = g[k]
      BY <3>1, <3>2
    <3>4. QED
      BY <3>3
  <2> HIDE DEF P
  <2>3. \A k \in 0 .. n : k \in P
    BY <1>1, <2>1, <2>2, UpTo
  <2>4. QED
    BY <2>3 DEF P
<1>8. nth[n] = None
  BY <1>1, <1>7
<1>9. {nth[k] : k \in 0 .. n - 1} = ids
  <2>1. ASSUME NEW k \in 0 .. n - 1
        PROVE  nth[k] \in ids
    BY <1>1, <1>7
  <2>2. ASSUME NEW id \in ids
        PROVE  \E k \in 0 .. n - 1 : nth[k] = id
    <3>1. PICK k \in 1 .. n : f[k] = id
      BY <1>1
    <3>2. k - 1 \in 0 .. n - 1 /\ nth[k - 1] = id
      BY <1>1, <1>7, <3>1
    <3>3. QED
      BY <3>2
  <2>3. QED
    BY <2>1, <2>2
<1>10. QED
  BY <1>2, <1>8, <1>9 DEF IsListOf, nth, ids

LEMMA PoolIsExact == PoolInv => ListsExact
<1> SUFFICES ASSUME PoolInv
             PROVE  ListsExact
  OBVIOUS
<1>1. PICK m, g : Chain(pool, pool.firstFree, "free", m, g)
  BY DEF PoolInv, Lists
<1>2. PICK n, f : Queue(pool, n, f)
  BY DEF PoolInv, Lists
<1>3. Lists(pool) /\ pool \in PoolType
  BY DEF PoolInv, Lists
<1>4. pool.inUsage = Cardinality(Of(pool, "allocated")) /\ pool.usage = Cardinality(Ids \ Of(pool, "free"))
  BY DEF PoolInv, Counted
<1>5. TypeOK
  <2>1. Of(pool, "allocated") \in SUBSET Ids /\ Ids \ Of(pool, "free") \in SUBSET Ids
    BY DEF Of
  <2>2. pool.inUsage \in 0 .. MaxIds /\ pool.usage \in 0 .. MaxIds
    BY <1>4, <2>1, IdsFinite
  <2>3. pool \in [next : [Ids -> Ids \cup {None}],
                  state : [Ids -> {"free", "allocated", "timed"}],
                  timeout : [Ids -> Nat],
                  firstFree : Ids \cup {None}, firstTimed : Ids \cup {None},
                  lastTimed : Ids \cup {None}, usage : 0 .. MaxIds, inUsage : 0 .. MaxIds]
    BY <1>3, <2>2 DEF PoolType
  <2>4. QED
    BY <2>3 DEF PoolInv, TypeOK
<1>6. IsListOf(pool.firstFree, "free")
  BY <1>1, <1>3, ChainIsList
<1>7. IsListOf(pool.firstTimed, "timed")
  BY <1>2, <1>3, ChainIsList DEF Queue
<1>8. /\ n \in Nat /\ f \in [1 .. n -> Of(pool, "timed")]
      /\ pool.firstTimed = IF n = 0 THEN None ELSE f[1]
      /\ pool.lastTimed = IF n = 0 THEN None ELSE f[n]
      /\ \A k \in 1 .. n : pool.next[f[k]] = IF k = n THEN None ELSE f[k + 1]
  BY <1>2 DEF Queue, Chain
<1>9. n # 0 => f[1] \in Ids /\ f[n] \in Ids /\ pool.state[f[n]] = "timed" /\ pool.next[f[n]] = None
  BY <1>8 DEF Of
<1>10. pool.lastTimed = None <=> pool.firstTimed = None
  BY <1>8, <1>9, IdsFinite
<1>11. pool.lastTimed # None => pool.state[pool.lastTimed] = "timed" /\ pool.next[pool.lastTimed] = None
  BY <1>8, <1>9
<1>12. Of(pool, "allocated") = {i \in Ids : pool.state[i] = "allocated"}
  BY DEF Of
<1>13. Ids \ Of(pool, "free") = {i \in Ids : pool.state[i] # "free"}
  BY DEF Of
<1>14. QED
  BY <1>4, <1>5, <1>6, <1>7, <1>10, <1>11, <1>12, <1>13 DEF ListsExact

\* No id is ever lost from the lists or twice on them, FreeId always finds the
\* end of the list of resting ids, and the counters of the pool are exact.
THEOREM Exact == Spec => []ListsExact
BY Inductive, PoolIsExact, PTL

-----------------------------------------------------------------------------
(* What the pool promises. *)

\* An id that NewId could give out after its loop was free or had rested.
LEMMA SweptIsAvailable ==
    ASSUME PoolInv, NEW q, Lists(q),
           Of(q, "allocated") = Of(pool, "allocated"),
           Of(q, "timed") = {i \in Of(pool, "timed") : ~Expired(i)}
    PROVE  Of(q, "free") = Ids \ (Of(pool, "allocated") \cup {i \in Of(pool, "timed") : ~Expired(i)})
<1>1. \A i \in Ids : q.state[i] \in {"free", "allocated", "timed"}
  BY DEF Lists, PoolType
<1>2. Of(q, "free") = Ids \ (Of(q, "allocated") \cup Of(q, "timed"))
  BY <1>1 DEF Of
<1>3. QED
  BY <1>2

\* NewId gives no id only if every id is in use or still rests, although it
\* looks at the resting ids only from the front of their list.
THEOREM Refused == Spec => RefusedIsExhausted
<1> DEFINE Exhausted == \A i \in Ids : pool.state[i] = "allocated" \/
                                       (pool.state[i] = "timed" /\ now <= pool.timeout[i])
<1>1. ASSUME PoolInv, NewId, result' = None
      PROVE  Exhausted
  <2> DEFINE q == Swept(pool, Expired)
  <2>1. Lists(pool) /\ Counted(pool) /\ now \in Nat /\ pool.timeout \in [Ids -> Nat]
    BY <1>1 DEF PoolInv, Lists, PoolType
  <2>2. /\ Lists(q) /\ Of(q, "allocated") = Of(pool, "allocated")
        /\ Of(q, "timed") = {i \in Of(pool, "timed") : ~Expired(i)}
    BY <2>1, ExpiredAreSwept
  <2>3. q.firstFree = None
    BY <1>1 DEF NewId
  <2> HIDE DEF q
  <2>4. Of(q, "free") = {}
    BY <2>2, <2>3, HeadIs
  <2>5. Ids \ (Of(pool, "allocated") \cup {i \in Of(pool, "timed") : ~Expired(i)}) = {}
    BY <1>1, <2>2, <2>4, SweptIsAvailable
  <2>6. QED
    BY <2>1, <2>5 DEF Of, Expired
<1> HIDE DEF Exhausted
<1>2. PoolInv /\ [Next]_vars => [NewId /\ result' = None => Exhausted]_vars
  BY <1>1
<1>3. Spec => [][NewId /\ result' = None => Exhausted]_vars
  BY <1>2, Inductive, PTL DEF Spec
<1>4. QED
  BY <1>3 DEF RefusedIsExhausted, Exhausted

\* The pool keeps its promise: an id has one owner, it gets a new one only
\* after it has rested, and a call that gives no id changes nothing.
THEOREM Promised == Spec => PromiseSpec
<1> DEFINE owned == Of(pool, "allocated")
           freedAt == [i \in Of(pool, "timed") |-> pool.timeout[i] - Rest]
           available == {i \in Ids \ owned : i \in Of(pool, "timed") => freedAt[i] + Rest < now}
           Step == \/ now' = now + 1 /\ owned' = owned /\ freedAt' = freedAt
                   \/ /\ \E id \in available : owned' = owned \cup {id}
                      /\ freedAt' = [i \in Of(pool, "timed") \ available |-> freedAt[i]]
                      /\ now' = now
                   \/ /\ freedAt' = [i \in Of(pool, "timed") \ Ids |-> freedAt[i]]
                      /\ now' = now /\ owned' = owned
                   \/ /\ \E id \in owned :
                            /\ owned' = owned \ {id}
                            /\ freedAt' = [i \in Of(pool, "timed") \cup {id} |->
                                              IF i = id THEN now ELSE freedAt[i]]
                      /\ now' = now
                   \/ now' = now /\ owned' = owned /\ freedAt' = freedAt
<1>1. Init => Promise!Init
  <2> SUFFICES ASSUME Init
               PROVE  Promise!Init
    OBVIOUS
  <2>1. pool = Fresh /\ now = 0
    BY DEF Init
  <2>2. {i \in Ids : pool.state[i] = "allocated"} = {} /\ Resting = {}
    BY <2>1, FreshLists DEF Of, Resting
  <2>3. QED
    BY <2>1, <2>2 DEF Promise!Init
<1>2. PoolInv /\ [Next]_vars => Step
  <2> SUFFICES ASSUME PoolInv, [Next]_vars
               PROVE  Step
    OBVIOUS
  <2>1. /\ Lists(pool) /\ Counted(pool) /\ now \in Nat /\ pool.timeout \in [Ids -> Nat] /\ Rest \in Nat
        /\ \A i \in Of(pool, "timed") : pool.timeout[i] <= now + Rest
    BY PoolAssumption DEF PoolInv, Lists, PoolType
  <2>2. Of(pool, "timed") \cap owned = {} /\ Of(pool, "timed") \subseteq Ids /\ owned \subseteq Ids
    BY DEF Of
  <2>3. \A i \in Of(pool, "timed") : freedAt[i] + Rest = pool.timeout[i] /\ freedAt[i] = pool.timeout[i] - Rest
    BY <2>1, <2>2
  <2>4. available = Ids \ (owned \cup {i \in Of(pool, "timed") : ~Expired(i)})
    BY <2>2, <2>3 DEF Expired
  <2> HIDE DEF available
  <2>5. CASE Tick
    BY <2>5 DEF Tick
  <2>6. CASE NewId
    <3> DEFINE q == Swept(pool, Expired)
    <3>1. /\ Lists(q) /\ q.timeout = pool.timeout /\ Of(q, "allocated") = owned
          /\ Of(q, "timed") = {i \in Of(pool, "timed") : ~Expired(i)}
      BY <2>1, ExpiredAreSwept
    <3>2. /\ IF q.firstFree = None THEN pool' = q ELSE pool' = Taken(q)
          /\ now' = now
      BY <2>6 DEF NewId
    <3> HIDE DEF q
    <3>3. Of(q, "free") = available
      BY <2>4, <3>1, SweptIsAvailable
    <3>4. CASE q.firstFree = None
      <4>1. available = {}
        BY <3>1, <3>3, <3>4, HeadIs
      <4>2. Of(q, "timed") = Of(pool, "timed")
        BY <2>2, <2>4, <3>1, <4>1
      <4>3. pool' = q
        BY <3>2, <3>4
      <4>4. QED
        BY <3>1, <3>2, <4>2, <4>3
    <3>5. CASE q.firstFree # None
      <4> DEFINE id == q.firstFree
      <4>1. /\ pool' = Taken(q) /\ id \in available /\ Taken(q).timeout = pool.timeout
            /\ Of(Taken(q), "allocated") = owned \cup {id} /\ Of(Taken(q), "timed") = Of(q, "timed")
        BY <3>1, <3>2, <3>3, <3>5, TakenIs
      <4>2. Of(q, "timed") = Of(pool, "timed") \ available
        BY <2>2, <2>4, <3>1
      <4>3. owned' = owned \cup {id}
        BY <4>1
      <4>4. freedAt' = [i \in Of(pool, "timed") \ available |-> freedAt[i]]
        BY <4>1, <4>2
      <4>5. QED
        BY <3>2, <4>1, <4>3, <4>4
    <3>6. QED
      BY <3>4, <3>5
  <2>7. CASE TimeoutIds
    <3> DEFINE q == Swept(pool, LAMBDA id : TRUE)
    <3>1. q.timeout = pool.timeout /\ Of(q, "allocated") = owned /\ Of(q, "timed") = {}
      BY <2>1, AllAreSwept
    <3>2. pool' = q /\ now' = now
      BY <2>7 DEF TimeoutIds
    <3> HIDE DEF q
    <3>3. Of(pool, "timed") \ Ids = {}
      BY <2>2
    <3>4. freedAt' = [i \in Of(pool, "timed") \ Ids |-> freedAt[i]]
      BY <3>1, <3>2, <3>3
    <3>5. QED
      BY <3>1, <3>2, <3>4
  <2>8. ASSUME NEW id \in Ids, FreeId(id)
        PROVE  Step
    <3> DEFINE q == Freed(pool, id)
    <3>1. id \in owned /\ pool' = q /\ now' = now
      BY <2>8 DEF FreeId, Of
    <3>2. /\ q.timeout = [pool.timeout EXCEPT ![id] = now + Rest]
          /\ Of(q, "allocated") = owned \ {id} /\ Of(q, "timed") = Of(pool, "timed") \cup {id}
      BY <2>1, <3>1, FreedIs
    <3> HIDE DEF q
    <3>3. q.timeout[id] - Rest = now
      BY <2>1, <3>2
    <3>4. \A i \in Of(pool, "timed") : i # id => q.timeout[i] = pool.timeout[i]
      BY <2>1, <2>2, <3>2
    <3>5. freedAt' = [i \in Of(pool, "timed") \cup {id} |-> IF i = id THEN now ELSE freedAt[i]]
      BY <3>1, <3>2, <3>3, <3>4
    <3>6. QED
      BY <3>1, <3>2, <3>5
  <2>9. CASE UNCHANGED vars
    BY <2>9 DEF vars
  <2>10. QED
    BY <2>5, <2>6, <2>7, <2>8, <2>9 DEF Next
<1>3. Step => [Promise!Next]_(Promise!vars)
  <2> SUFFICES ASSUME Step
               PROVE  [Promise!Next]_(Promise!vars)
    OBVIOUS
  <2> DEFINE o == {i \in Ids : pool.state[i] = "allocated"}
             r == [i \in Resting |-> pool.timeout[i] - Rest]
  <2>1. o = owned /\ o' = owned' /\ r = freedAt /\ r' = freedAt' /\ DOMAIN r = Of(pool, "timed")
    BY DEF Of, Resting
  <2> HIDE DEF owned, freedAt
  <2>2. Promise!Available = available
    BY <2>1 DEF Promise!Available
  <2> HIDE DEF available
  <2>3. CASE now' = now + 1 /\ owned' = owned /\ freedAt' = freedAt
    <3>1. Promise!Tick
      BY <2>1, <2>3 DEF Promise!Tick
    <3>2. QED
      BY <3>1 DEF Promise!Next
  <2>4. CASE /\ \E id \in available : owned' = owned \cup {id}
             /\ freedAt' = [i \in Of(pool, "timed") \ available |-> freedAt[i]]
             /\ now' = now
    <3>1. Promise!New
      BY <2>1, <2>2, <2>4 DEF Promise!New, Promise!Without
    <3>2. QED
      BY <3>1 DEF Promise!Next
  <2>5. CASE /\ freedAt' = [i \in Of(pool, "timed") \ Ids |-> freedAt[i]]
             /\ now' = now /\ owned' = owned
    <3>1. Promise!NewMap
      BY <2>1, <2>5 DEF Promise!NewMap, Promise!Without
    <3>2. QED
      BY <3>1 DEF Promise!Next
  <2>6. CASE /\ \E id \in owned :
                   /\ owned' = owned \ {id}
                   /\ freedAt' = [i \in Of(pool, "timed") \cup {id} |->
                                     IF i = id THEN now ELSE freedAt[i]]
             /\ now' = now
    <3>1. PICK id \in owned : /\ owned' = owned \ {id}
                              /\ freedAt' = [i \in Of(pool, "timed") \cup {id} |->
                                                IF i = id THEN now ELSE freedAt[i]]
      BY <2>6
    <3>2. id \in Ids
      BY <2>1
    <3>3. Promise!Free(id)
      BY <2>1, <2>6, <3>1 DEF Promise!Free
    <3>4. QED
      BY <3>2, <3>3 DEF Promise!Next
  <2>7. CASE now' = now /\ owned' = owned /\ freedAt' = freedAt
    BY <2>1, <2>7 DEF Promise!vars
  <2>8. QED
    BY <2>3, <2>4, <2>5, <2>6, <2>7
<1>4. QED
  BY <1>1, <1>2, <1>3, Inductive, PTL DEF Spec, PromiseSpec, Promise!Spec
=============================================================================
