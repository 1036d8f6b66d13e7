---------------------------- MODULE ThreadsProofs ----------------------------
(***************************************************************************)
(* Proofs about AsyncIo, DbPool and HttpClient as MCThreads uses them, and *)
(* about JobPool: the threads that write to files, that talk to the        *)
(* databases, that run requests and that run jobs.                         *)
(*                                                                         *)
(* AsyncIo, for any writers and sizes: the bytes in the file, those in the *)
(* block that the thread holds and those in the ring are the bytes queued, *)
(* each in one place and in its order, however the ring wraps and grows;   *)
(* who waits learns what became of the file, and the memory is freed by    *)
(* whoever leaves last.                                                    *)
(*                                                                         *)
(* DbPool: that no row is lost follows from the order of the worker's      *)
(* steps alone, and holds even when the ring overruns.  That the queries   *)
(* are taken in order, that each is answered and that an answer can be     *)
(* trusted needs a ring with room for all that waits (RoomInRing): then    *)
(* the tokens of each semaphore count the queries its thread has not taken *)
(* (Counts), a slot holds the query of its number exactly as long as the   *)
(* worker has not taken it (Slotted), and so an empty slot is found at the *)
(* shutdown only, when nothing is left.                                    *)
(*                                                                         *)
(* HttpClient, for every set of requests: a request that has been handed   *)
(* over and is not completed is in exactly one place, among the pending    *)
(* ones, the ones that are being started or the running ones, whatever the *)
(* users, libcurl and the shutdown do.  From this follows the promise to   *)
(* those who wait: HttpClient implements HttpRequests.                     *)
(*                                                                         *)
(* JobPool, for every set of jobs and every finite set of workers: until   *)
(* Shutdown there are exactly as many tokens on their way as jobs in the   *)
(* queue (Stopping), so no worker finds the queue empty, none leaves, and  *)
(* a job that is added is not left behind.  From this follow the promises  *)
(* of jobs.h.                                                              *)
(***************************************************************************)
EXTENDS MCThreads, FiniteSetTheorems, SequenceTheorems, WellFoundedInduction, TLAPS

\* Every nonempty set of natural numbers has a least element.
LEMMA LeastExists ==
    ASSUME NEW S, S \subseteq Nat, S # {}
    PROVE  \E k \in S : \A j \in S : k =< j
<1> DEFINE R == {p \in Nat \X Nat : p[1] < p[2]}
<1>1. R = OpToRel(<, Nat)
  BY Zenon DEF OpToRel
<1>2. IsWellFoundedOn(R, Nat)
  BY ONLY <1>1, NatLessThanWellFounded, Zenon
<1>3. PICK x \in S : \A y \in S : ~(<<y, x>> \in R)
  <2> HIDE DEF R
  <2> QED
    BY <1>2, WFMin
<1>4. \A y \in S : ~(y < x)
  <2> SUFFICES ASSUME NEW y \in S PROVE ~(y < x)
    OBVIOUS
  <2>1. <<y, x>> \in Nat \X Nat
    OBVIOUS
  <2>2. QED
    BY <1>3, <2>1
<1>5. QED
  BY <1>4

\* A set that holds zero, and with each number below N the next one, holds all
\* numbers up to N.
LEMMA UpTo ==
    ASSUME NEW N \in Nat, NEW P, 0 \in P, \A k \in 1 .. N : k - 1 \in P => k \in P
    PROVE  \A k \in 0 .. N : k \in P
<1> DEFINE S == {k \in 0 .. N : k \notin P}
<1> SUFFICES ASSUME S # {} PROVE FALSE
  OBVIOUS
<1>1. PICK k \in S : \A j \in S : k <= j
  <2>1. S \subseteq Nat
    OBVIOUS
  <2> HIDE DEF S
  <2>2. QED
    BY <2>1, LeastExists
<1>2. k \in 1 .. N /\ k - 1 \in 0 .. N /\ k - 1 \notin S
  BY <1>1
<1>3. QED
  BY <1>1, <1>2

\* The states of N steps from x on.
IsRun(g, S, s, x, N) == g \in [0 .. N -> S] /\ g[0] = x /\ \A k \in 1 .. N : g[k] = s[g[k - 1]]

\* A step may be taken any number of times.
LEMMA Iterates ==
    ASSUME NEW S, NEW s \in [S -> S], NEW x \in S, NEW N \in Nat
    PROVE  \E g : IsRun(g, S, s, x, N)
<1> DEFINE Good(g, n) == g[0] = x /\ \A k \in 1 .. n : g[k] = s[g[k - 1]]
           P == {n \in 0 .. N : \E g \in [0 .. n -> S] : Good(g, n)}
<1>1. 0 \in P
  <2> DEFINE h == [k \in 0 .. 0 |-> x]
  <2>1. h \in [0 .. 0 -> S] /\ Good(h, 0)
    OBVIOUS
  <2> HIDE DEF h, Good
  <2>2. QED
    BY <2>1
<1>2. ASSUME NEW n \in 1 .. N, n - 1 \in P
      PROVE  n \in P
  <2>1. PICK g \in [0 .. n - 1 -> S] : Good(g, n - 1)
    BY <1>2
  <2> DEFINE h == [k \in 0 .. n |-> IF k = n THEN s[g[n - 1]] ELSE g[k]]
  <2>2. h \in [0 .. n -> S]
    BY <2>1
  <2>3. Good(h, n)
    BY <2>1
  <2> HIDE DEF h, Good
  <2>4. QED
    BY <2>2, <2>3
<1> HIDE DEF P
<1>3. N \in P
  BY <1>1, <1>2, UpTo
<1>4. QED
  BY <1>3 DEF P, IsRun

-----------------------------------------------------------------------------
(* The ring buffer of the asynchronous file. *)

\* The buffer of next_buffer_size is large enough.
LEMMA NextSizeSuffices ==
    ASSUME NEW size \in Nat, size > 0, NEW need \in Nat
    PROVE  Aio!NextSize(size, need) \in Nat /\ Aio!NextSize(size, need) >= need /\ Aio!NextSize(size, need) > 0
<1> DEFINE s == [n \in Nat |-> IF n < need THEN 2 * n ELSE n]
           E(h) == [k \in 0 .. need |->
                       IF k = 0 THEN size
                       ELSE IF h[k - 1] < need THEN 2 * h[k - 1] ELSE h[k - 1]]
           double == CHOOSE h : h = E(h)
<1>1. s \in [Nat -> Nat] /\ \A n \in Nat : s[n] = IF n < need THEN 2 * n ELSE n
  OBVIOUS
<1> HIDE DEF s
<1>2. PICK g : IsRun(g, Nat, s, size, need)
  BY <1>1, Iterates
<1>3. g = E(g)
  <2>1. g \in [0 .. need -> Nat] /\ g[0] = size /\ \A k \in 1 .. need : g[k] = s[g[k - 1]]
    BY <1>2 DEF IsRun
  <2>2. ASSUME NEW k \in 1 .. need
        PROVE  g[k] = E(g)[k]
    <3>1. k - 1 \in 0 .. need /\ k \in 0 .. need /\ k # 0
      OBVIOUS
    <3>2. g[k - 1] \in Nat /\ g[k] = s[g[k - 1]]
      BY <2>1, <3>1
    <3>3. g[k] = IF g[k - 1] < need THEN 2 * g[k - 1] ELSE g[k - 1]
      BY <1>1, <3>2
    <3>4. QED
      BY <3>1, <3>3
  <2>3. \A k \in 0 .. need : k = 0 \/ k \in 1 .. need
    OBVIOUS
  <2>4. \A k \in 0 .. need : g[k] = E(g)[k]
    BY <2>1, <2>2, <2>3
  <2>5. QED
    BY <2>1, <2>4
<1>4. double = E(double)
  BY <1>3
<1>5. Aio!NextSize(size, need) = double[need]
  BY DEF Aio!NextSize
<1> HIDE DEF double
<1> DEFINE P == {k \in 0 .. need : double[k] \in Nat /\ double[k] > 0 /\ (double[k] >= need \/ double[k] > k)}
<1>6. 0 \in P
  BY <1>4
<1>7. ASSUME NEW k \in 1 .. need, k - 1 \in P
      PROVE  k \in P
  <2>1. k \in 0 .. need /\ k # 0 /\ k - 1 \in Nat
    OBVIOUS
  <2>2. /\ double[k - 1] \in Nat /\ double[k - 1] > 0
        /\ (double[k - 1] >= need \/ double[k - 1] > k - 1)
    BY <1>7
  <2>3. double[k] = IF double[k - 1] < need THEN 2 * double[k - 1] ELSE double[k - 1]
    BY <1>4, <2>1
  <2>4. QED
    BY <2>1, <2>2, <2>3
<1>8. need \in P
  <2> HIDE DEF P
  <2>1. QED
    BY <1>6, <1>7, UpTo
<1>9. QED
  BY <1>5, <1>8

\* A record of a ring buffer that is in order.
RingOK(b) ==
    /\ b = [data |-> b.data, size |-> b.size, read |-> b.read, write |-> b.write]
    /\ b.size \in Nat \ {0}
    /\ b.data \in [0 .. b.size - 1 -> Aio!Byte \cup {Aio!Junk}]
    /\ b.read \in 0 .. b.size - 1 /\ b.write \in 0 .. b.size - 1

\* Where the i-th byte of the buffer is.
At(b, i) == IF b.read + i - 1 < b.size THEN b.read + i - 1 ELSE b.read + i - 1 - b.size

\* The buffer holds the last bytes of those queued.
Holds(b, q) == \A i \in 1 .. Aio!BufferLen(b) : b.data[At(b, i)] = q - Aio!BufferLen(b) + i - 1

LEMMA AtIsInside ==
    ASSUME NEW b, RingOK(b)
    PROVE  /\ Aio!BufferLen(b) \in Nat /\ Aio!BufferLen(b) < b.size
           /\ Aio!BufferLen(b) = 0 <=> b.read = b.write
           /\ \A i \in 1 .. Aio!BufferLen(b) : At(b, i) \in 0 .. b.size - 1
BY DEF RingOK, Aio!BufferLen, At

LEMMA PieceIs ==
    ASSUME NEW b, RingOK(b), NEW at \in Nat, NEW n \in Nat, at + n <= b.size
    PROVE  /\ Aio!Piece(b, at, n) \in Seq(Aio!Byte \cup {Aio!Junk})
           /\ Len(Aio!Piece(b, at, n)) = n
           /\ \A i \in 1 .. n : Aio!Piece(b, at, n)[i] = b.data[at + i - 1]
<1> DEFINE p == [i \in 1 .. n |-> b.data[at + i - 1]]
<1>1. b.data \in [0 .. b.size - 1 -> Aio!Byte \cup {Aio!Junk}] /\ b.size \in Nat
  BY DEF RingOK
<1>2. \A i \in 1 .. n : at + i - 1 \in 0 .. b.size - 1
  BY <1>1
<1>3. p \in [1 .. n -> Aio!Byte \cup {Aio!Junk}]
  BY <1>1, <1>2
<1>4. p \in Seq(Aio!Byte \cup {Aio!Junk})
  BY <1>3, SeqDef
<1>5. Len(p) = n
  BY <1>4
<1>6. QED
  BY <1>4, <1>5 DEF Aio!Piece

\* The two pieces of buffer_ptrs.
LEMMA PiecesAre ==
    ASSUME NEW b, RingOK(b)
    PROVE  /\ Aio!Len1(b) \in Nat /\ Aio!Len2(b) \in Nat /\ Aio!Len1(b) + Aio!Len2(b) = Aio!BufferLen(b)
           /\ b.read \in Nat /\ b.size \in Nat /\ b.read + Aio!Len1(b) <= b.size /\ Aio!Len2(b) < b.size
           /\ Aio!Len2(b) > 0 => b.read + Aio!Len1(b) = b.size
BY DEF RingOK, Aio!Len1, Aio!Len2, Aio!BufferLen

\* What is taken from the front of the first piece, and, when that is all of
\* it, from the front of the second one, are bytes of the buffer in their order.
LEMMA BlockIs ==
    ASSUME NEW b, RingOK(b), NEW m \in Nat, NEW n \in Nat,
           m <= Aio!Len1(b), n <= Aio!Len2(b), n > 0 => m = Aio!Len1(b)
    PROVE  /\ Aio!Piece(b, b.read, m) \o Aio!Piece(b, 0, n) \in Seq(Aio!Byte \cup {Aio!Junk})
           /\ Len(Aio!Piece(b, b.read, m) \o Aio!Piece(b, 0, n)) = m + n
           /\ m + n <= Aio!BufferLen(b)
           /\ \A i \in 1 .. m + n : (Aio!Piece(b, b.read, m) \o Aio!Piece(b, 0, n))[i] = b.data[At(b, i)]
<1> DEFINE V == Aio!Byte \cup {Aio!Junk}
           a == b.read
           S == b.size
           z == 0
           p == Aio!Piece(b, a, m)
           r == Aio!Piece(b, z, n)
<1>1. /\ Aio!Len1(b) \in Nat /\ Aio!Len2(b) \in Nat /\ Aio!Len1(b) + Aio!Len2(b) = Aio!BufferLen(b)
      /\ a \in Nat /\ S \in Nat /\ a + Aio!Len1(b) <= S /\ Aio!Len2(b) < S
      /\ Aio!Len2(b) > 0 => a + Aio!Len1(b) = S
  BY PiecesAre
<1>2. \A i : At(b, i) = IF a + i - 1 < S THEN a + i - 1 ELSE a + i - 1 - S
  BY DEF At
<1> HIDE DEF V, a, S
<1>3. a + m <= S /\ z + n <= S /\ z \in Nat /\ m + n <= Aio!BufferLen(b)
  BY <1>1
<1> HIDE DEF z
<1>4. p \in Seq(V) /\ Len(p) = m /\ \A i \in 1 .. m : p[i] = b.data[a + i - 1]
  BY <1>1, <1>3, PieceIs DEF S, V
<1>5. r \in Seq(V) /\ Len(r) = n /\ \A i \in 1 .. n : r[i] = b.data[z + i - 1]
  BY <1>1, <1>3, PieceIs DEF S, V
<1> HIDE DEF p, r
<1>6. /\ p \o r \in Seq(V) /\ Len(p \o r) = m + n
      /\ \A i \in 1 .. m + n : (p \o r)[i] = IF i <= m THEN p[i] ELSE r[i - m]
  <2>1. /\ p \o r \in Seq(V) /\ Len(p \o r) = Len(p) + Len(r)
        /\ \A i \in 1 .. Len(p) + Len(r) : (p \o r)[i] = IF i <= Len(p) THEN p[i] ELSE r[i - Len(p)]
    BY <1>4, <1>5, ConcatProperties
  <2>2. QED
    BY <1>4, <1>5, <2>1
<1>7. ASSUME NEW i \in 1 .. m + n
      PROVE  (p \o r)[i] = b.data[At(b, i)]
  <2>1. CASE i <= m
    <3>1. At(b, i) = a + i - 1 /\ i \in 1 .. m
      BY <1>1, <1>2, <2>1
    <3>2. QED
      BY <1>4, <1>6, <2>1, <3>1
  <2>2. CASE ~(i <= m)
    <3>1. i - m \in 1 .. n
      BY <2>2
    <3>2. At(b, i) = z + (i - m) - 1
      BY <1>1, <1>2, <2>2, <3>1 DEF z
    <3>3. QED
      BY <1>5, <1>6, <2>2, <3>1, <3>2
  <2>3. QED
    BY <2>1, <2>2
<1>8. QED
  BY <1>3, <1>6, <1>7 DEF p, r, a, z, V

\* buffer_ptrs finds the bytes in their order.
LEMMA ContentsAre ==
    ASSUME NEW b, RingOK(b)
    PROVE  /\ Aio!Contents(b) \in Seq(Aio!Byte \cup {Aio!Junk})
           /\ Len(Aio!Contents(b)) = Aio!BufferLen(b)
           /\ \A i \in 1 .. Aio!BufferLen(b) : Aio!Contents(b)[i] = b.data[At(b, i)]
<1> DEFINE m == Aio!Len1(b)
           n == Aio!Len2(b)
<1>1. m \in Nat /\ n \in Nat /\ m + n = Aio!BufferLen(b) /\ m <= Aio!Len1(b) /\ n <= Aio!Len2(b) /\ m = Aio!Len1(b)
  BY PiecesAre
<1>2. Aio!Contents(b) = Aio!Piece(b, b.read, m) \o Aio!Piece(b, 0, n)
  BY DEF Aio!Contents
<1> HIDE DEF m, n
<1>3. /\ Aio!Piece(b, b.read, m) \o Aio!Piece(b, 0, n) \in Seq(Aio!Byte \cup {Aio!Junk})
      /\ Len(Aio!Piece(b, b.read, m) \o Aio!Piece(b, 0, n)) = m + n
      /\ \A i \in 1 .. m + n : (Aio!Piece(b, b.read, m) \o Aio!Piece(b, 0, n))[i] = b.data[At(b, i)]
  BY <1>1, BlockIs
<1>4. QED
  BY <1>1, <1>2, <1>3

\* c is data with s at position at.
IsCopy(c, V, n, data, at, s) ==
    /\ c \in [0 .. n - 1 -> V]
    /\ \A p \in 0 .. n - 1 : c[p] = IF at <= p /\ p < at + Len(s) THEN s[p - at + 1] ELSE data[p]

\* mem_copy.
LEMMA CopiedIs ==
    ASSUME NEW V, NEW n \in Nat, NEW data \in [0 .. n - 1 -> V], NEW s \in Seq(V),
           NEW at \in Nat, at + Len(s) <= n
    PROVE  IsCopy(Aio!Copied(data, at, s), V, n, data, at, s)
<1>1. \A p \in 0 .. n - 1 : p - at + 1 \in DOMAIN s <=> at <= p /\ p < at + Len(s)
  OBVIOUS
<1>2. \A i \in DOMAIN s : s[i] \in V
  OBVIOUS
<1>3. QED
  BY <1>1, <1>2 DEF Aio!Copied, IsCopy

\* A position that is moved by less than the size, once around at most.
LEMMA Wrapped ==
    ASSUME NEW S \in Nat \ {0}, NEW x \in Nat, x < 2 * S
    PROVE  x % S = IF x < S THEN x ELSE x - S
<1>1. \A r \in 0 .. S - 1 : r % S = r
  OBVIOUS
<1>2. CASE x < S
  BY <1>1, <1>2
<1>3. CASE x >= S
  <2> DEFINE d == x \div S
             r == x % S
  <2>1. d \in Nat /\ r \in 0 .. S - 1 /\ x = S * d + r
    OBVIOUS
  <2> HIDE DEF d, r
  <2>2. d # 0
    BY <1>3, <2>1
  <2>3. ~(d >= 2)
    <3> SUFFICES ASSUME d >= 2 PROVE FALSE
      OBVIOUS
    <3>1. S * d >= S * 2
      BY <2>1
    <3>2. QED
      BY <2>1, <3>1
  <2>4. d = 1
    BY <2>1, <2>2, <2>3
  <2>5. QED
    BY <1>3, <2>1, <2>4 DEF r
<1>4. QED
  BY <1>2, <1>3

\* c is data with the first k bytes of s at position w, and the others at a.
IsCopyOfTwo(c, V, S, data, s, w, k, a) ==
    /\ c \in [0 .. S - 1 -> V]
    /\ \A p \in 0 .. S - 1 :
           c[p] = IF a <= p /\ p < a + (Len(s) - k) THEN s[k + (p - a + 1)]
                  ELSE IF w <= p /\ p < w + k THEN s[p - w + 1] ELSE data[p]

LEMMA CopiedTwice ==
    ASSUME NEW V, NEW S \in Nat, NEW data \in [0 .. S - 1 -> V], NEW s \in Seq(V),
           NEW w \in Nat, NEW k \in 0 .. Len(s), NEW a \in Nat, w + k <= S, a + (Len(s) - k) <= S
    PROVE  /\ Len(SubSeq(s, k + 1, Len(s))) = Len(s) - k
           /\ IsCopyOfTwo(Aio!Copied(Aio!Copied(data, w, SubSeq(s, 1, k)), a, SubSeq(s, k + 1, Len(s))),
                          V, S, data, s, w, k, a)
<1> DEFINE n == Len(s)
           front == SubSeq(s, 1, k)
           rest == SubSeq(s, k + 1, n)
           once == Aio!Copied(data, w, front)
           twice == Aio!Copied(once, a, rest)
<1>1. n \in Nat /\ k \in Nat /\ k <= n /\ \A i \in 1 .. n : s[i] \in V
  BY ElementOfSeq
<1>2. front \in Seq(V) /\ Len(front) = k /\ \A i \in 1 .. k : front[i] = s[i]
  <2>1. 1 \in Int /\ k \in Int /\ \A i \in 1 .. k : s[i] \in V
    BY <1>1
  <2>2. /\ SubSeq(s, 1, k) \in Seq(V)
        /\ Len(SubSeq(s, 1, k)) = IF 1 <= k THEN k - 1 + 1 ELSE 0
        /\ \A i \in 1 .. k - 1 + 1 : SubSeq(s, 1, k)[i] = s[1 + i - 1]
    BY <2>1, SubSeqProperties
  <2>3. QED
    BY <1>1, <2>2
<1>3. rest \in Seq(V) /\ Len(rest) = n - k /\ \A i \in 1 .. n - k : rest[i] = s[k + i]
  <2>1. k + 1 \in Int /\ n \in Int /\ \A i \in k + 1 .. n : s[i] \in V
    BY <1>1
  <2> DEFINE m == k + 1
  <2> HIDE DEF m, n
  <2>2. /\ SubSeq(s, m, n) \in Seq(V)
        /\ Len(SubSeq(s, m, n)) = IF m <= n THEN n - m + 1 ELSE 0
        /\ \A i \in 1 .. n - m + 1 : SubSeq(s, m, n)[i] = s[m + i - 1]
    <3>1. m \in Int /\ n \in Int /\ \A i \in m .. n : s[i] \in V
      BY <2>1 DEF m
    <3>2. QED
      BY <3>1, SubSeqProperties
  <2>3. rest = SubSeq(s, m, n)
    BY DEF m
  <2>4. m = k + 1
    BY DEF m
  <2> HIDE DEF rest
  <2>5. Len(rest) = n - k
    BY <1>1, <2>2, <2>3, <2>4
  <2>6. \A i \in 1 .. n - k : n - m + 1 = n - k /\ m + i - 1 = k + i
    BY <1>1, <2>4
  <2>7. QED
    BY <2>2, <2>3, <2>5, <2>6
<1> HIDE DEF front, rest, n
<1>4. /\ once \in [0 .. S - 1 -> V]
      /\ \A p \in 0 .. S - 1 : once[p] = IF w <= p /\ p < w + k THEN front[p - w + 1] ELSE data[p]
  <2>1. w + Len(front) <= S
    BY <1>2
  <2>2. IsCopy(Aio!Copied(data, w, front), V, S, data, w, front)
    BY <1>2, <2>1, CopiedIs
  <2>3. QED
    BY <1>2, <2>2 DEF IsCopy
<1> HIDE DEF once
<1>5. /\ twice \in [0 .. S - 1 -> V]
      /\ \A p \in 0 .. S - 1 : twice[p] = IF a <= p /\ p < a + (n - k) THEN rest[p - a + 1] ELSE once[p]
  <2>1. a + Len(rest) <= S
    BY <1>3 DEF n
  <2>2. once \in [0 .. S - 1 -> V]
    BY <1>4
  <2>3. IsCopy(Aio!Copied(once, a, rest), V, S, once, a, rest)
    BY <1>3, <2>1, <2>2, CopiedIs
  <2>4. QED
    BY <1>3, <2>3 DEF IsCopy
<1> HIDE DEF twice
<1>6. ASSUME NEW p \in 0 .. S - 1
      PROVE  twice[p] = IF a <= p /\ p < a + (n - k) THEN s[k + (p - a + 1)]
                        ELSE IF w <= p /\ p < w + k THEN s[p - w + 1] ELSE data[p]
  <2>1. CASE a <= p /\ p < a + (n - k)
    <3>1. p - a + 1 \in 1 .. n - k
      BY <1>1, <2>1
    <3>2. QED
      BY <1>3, <1>5, <2>1, <3>1
  <2>2. CASE ~(a <= p /\ p < a + (n - k)) /\ w <= p /\ p < w + k
    <3>1. p - w + 1 \in 1 .. k
      BY <1>1, <2>2
    <3>2. QED
      BY <1>2, <1>4, <1>5, <2>2, <3>1
  <2>3. CASE ~(a <= p /\ p < a + (n - k)) /\ ~(w <= p /\ p < w + k)
    BY <1>4, <1>5, <2>3
  <2>4. QED
    BY <2>1, <2>2, <2>3
<1>7. QED
  BY <1>3, <1>5, <1>6 DEF IsCopyOfTwo, twice, once, front, rest, n

\* There is room: what is in the buffer stays where it is, and s follows it.
LEMMA FillIs ==
    ASSUME NEW b, RingOK(b), NEW s \in Seq(Aio!Byte \cup {Aio!Junk}), Len(s) < b.size - Aio!BufferLen(b)
    PROVE  /\ RingOK(Aio!Fill(b, s))
           /\ Aio!Fill(b, s).size = b.size /\ Aio!Fill(b, s).read = b.read
           /\ Aio!BufferLen(Aio!Fill(b, s)) = Aio!BufferLen(b) + Len(s)
           /\ \A i \in 1 .. Aio!BufferLen(b) : Aio!Fill(b, s).data[At(b, i)] = b.data[At(b, i)]
           /\ \A i \in 1 .. Len(s) : Aio!Fill(b, s).data[At(b, Aio!BufferLen(b) + i)] = s[i]
<1> DEFINE V == Aio!Byte \cup {Aio!Junk}
           S == b.size
           w == b.write
           r == b.read
           n == Len(s)
           L == Aio!BufferLen(b)
           cut == IF n > S - w THEN S - w ELSE 0
           at == IF n > S - w THEN 0 ELSE w
           rest == SubSeq(s, cut + 1, n)
           c == Aio!Copied(Aio!Copied(b.data, w, SubSeq(s, 1, cut)), at, rest)
           wr == (at + Len(rest)) % S
           f == Aio!Fill(b, s)
<1>1. /\ S \in Nat \ {0} /\ w \in 0 .. S - 1 /\ r \in 0 .. S - 1
      /\ b.data \in [0 .. S - 1 -> V] /\ n \in Nat
      /\ b = [data |-> b.data, size |-> S, read |-> r, write |-> w]
  BY DEF RingOK
<1>2. L \in Nat /\ n + L < S /\ L = IF w >= r THEN w - r ELSE S + w - r
  BY <1>1, AtIsInside DEF Aio!BufferLen
<1>3. f = [b EXCEPT !.data = c, !.write = wr]
  BY DEF Aio!Fill
<1>4. \A i \in Nat : At(b, i) = IF r + i - 1 < S THEN r + i - 1 ELSE r + i - 1 - S
  BY DEF At
<1>5. f = [data |-> c, size |-> S, read |-> r, write |-> wr]
  <2> HIDE DEF c, wr, f
  <2>1. QED
    BY <1>1, <1>3
<1>6. \/ n <= S - w /\ cut = 0 /\ at = w
      \/ n > S - w /\ cut = S - w /\ at = 0
  BY <1>1
<1> HIDE DEF V, f, cut, at, S, w, r, L, n
<1>N. S \in Nat /\ S > 0 /\ w \in Nat /\ w < S /\ r \in Nat /\ r < S /\ n \in Nat
  BY <1>1
<1>7. cut \in 0 .. n /\ at \in Nat /\ w \in Nat /\ w + cut <= S /\ at + (n - cut) <= S
  BY <1>N, <1>2, <1>6
<1>8. /\ Len(rest) = n - cut
      /\ c \in [0 .. S - 1 -> V]
      /\ \A p \in 0 .. S - 1 :
             c[p] = IF at <= p /\ p < at + (n - cut) THEN s[cut + (p - at + 1)]
                    ELSE IF w <= p /\ p < w + cut THEN s[p - w + 1] ELSE b.data[p]
  <2>1. s \in Seq(V) /\ b.data \in [0 .. S - 1 -> V]
    BY <1>1 DEF V
  <2>2. cut \in 0 .. Len(s) /\ at + (Len(s) - cut) <= S
    BY <1>7 DEF n
  <2>3. S \in Nat /\ at \in Nat /\ w \in Nat /\ w + cut <= S
    BY <1>N, <1>7
  <2>4. c = Aio!Copied(Aio!Copied(b.data, w, SubSeq(s, 1, cut)), at, SubSeq(s, cut + 1, Len(s)))
    BY DEF n
  <2> HIDE DEF c
  <2> DEFINE d == b.data
  <2>5. d \in [0 .. S - 1 -> V]
    BY <2>1
  <2> HIDE DEF d
  <2>6. /\ Len(SubSeq(s, cut + 1, Len(s))) = Len(s) - cut
        /\ IsCopyOfTwo(Aio!Copied(Aio!Copied(d, w, SubSeq(s, 1, cut)), at, SubSeq(s, cut + 1, Len(s))),
                       V, S, d, s, w, cut, at)
    BY <2>1, <2>2, <2>3, <2>5, CopiedTwice
  <2>7. Len(rest) = n - cut
    BY <2>6 DEF n
  <2>8. IsCopyOfTwo(c, V, S, d, s, w, cut, at)
    BY <2>4, <2>6 DEF d
  <2>9. QED
    BY <2>7, <2>8 DEF IsCopyOfTwo, n, d
<1> HIDE DEF c
<1>9. wr = IF at + (n - cut) < S THEN at + (n - cut) ELSE at + (n - cut) - S
  <2> DEFINE x == at + (n - cut)
  <2>1. x \in Nat /\ x < 2 * S /\ wr = x % S
    <3>1. x \in Nat /\ x < 2 * S
      BY <1>N, <1>7
    <3>2. wr = x % S
      BY <1>8
    <3> QED
      BY <3>1, <3>2
  <2> HIDE DEF x
  <2>2. x % S = IF x < S THEN x ELSE x - S
    BY <1>1, <2>1, Wrapped
  <2>3. wr = IF x < S THEN x ELSE x - S
    BY <2>1, <2>2, Zenon
  <2>4. x = at + (n - cut)
    BY DEF x
  <2> HIDE DEF wr
  <2>5. QED
    BY <1>N, <1>7, <2>1, <2>3, <2>4
<1> HIDE DEF wr, rest
<1>10. /\ wr \in 0 .. S - 1
       /\ L + n = IF wr >= r THEN wr - r ELSE S + wr - r
  BY <1>N, <1>2, <1>6, <1>9
<1>11. f.data = c /\ f.size = S /\ f.read = r /\ f.write = wr
  BY <1>5
<1>12. RingOK(f)
  BY <1>1, <1>5, <1>8, <1>10, <1>11 DEF RingOK, V
<1>13. Aio!BufferLen(f) = L + n
  BY <1>10, <1>11 DEF Aio!BufferLen
<1>14. ASSUME NEW i \in 1 .. L
       PROVE  f.data[At(b, i)] = b.data[At(b, i)]
  <2> DEFINE p == At(b, i)
  <2>1. p = IF r + i - 1 < S THEN r + i - 1 ELSE r + i - 1 - S
    BY <1>2, <1>4
  <2> HIDE DEF p
  <2>2. p \in 0 .. S - 1 /\ ~(at <= p /\ p < at + (n - cut)) /\ ~(w <= p /\ p < w + cut)
    BY <1>N, <1>2, <1>6, <2>1
  <2>3. QED
    BY <1>8, <1>11, <2>2 DEF p
<1>15. ASSUME NEW i \in 1 .. n
       PROVE  f.data[At(b, L + i)] = s[i]
  <2> DEFINE p == At(b, L + i)
  <2>1. p = IF r + L + i - 1 < S THEN r + L + i - 1 ELSE r + L + i - 1 - S
    <3>1. L + i \in Nat
      BY <1>N, <1>2
    <3>2. p = IF r + (L + i) - 1 < S THEN r + (L + i) - 1 ELSE r + (L + i) - 1 - S
      BY <1>4, <3>1
    <3>3. QED
      BY <1>N, <1>2, <3>2
  <2> HIDE DEF p
  <2>2. /\ p \in 0 .. S - 1
        /\ at <= p /\ p < at + (n - cut) => cut + (p - at + 1) = i
        /\ ~(at <= p /\ p < at + (n - cut)) => w <= p /\ p < w + cut /\ p - w + 1 = i
    BY <1>N, <1>2, <1>6, <2>1
  <2>3. QED
    BY <1>8, <1>11, <2>2 DEF p
<1>16. QED
  BY <1>11, <1>12, <1>13, <1>14, <1>15 DEF f, S, L, n, r

\* There is no room: everything lies in its order at the start of the new
\* buffer.
LEMMA GrownIs ==
    ASSUME NEW b, RingOK(b), NEW s \in Seq(Aio!Byte \cup {Aio!Junk})
    PROVE  /\ RingOK(Aio!Grown(b, s))
           /\ Aio!BufferLen(Aio!Grown(b, s)) = Aio!BufferLen(b) + Len(s)
           /\ \A i \in 1 .. Aio!BufferLen(b) + Len(s) :
                  Aio!Grown(b, s).data[At(Aio!Grown(b, s), i)] =
                      IF i <= Aio!BufferLen(b) THEN b.data[At(b, i)] ELSE s[i - Aio!BufferLen(b)]
<1> DEFINE V == Aio!Byte \cup {Aio!Junk}
           L == Aio!BufferLen(b)
           n == Len(s)
           all == Aio!Contents(b) \o s
           size == Aio!NextSize(b.size, Len(all) + 1)
           empty == [p \in 0 .. size - 1 |-> Aio!Junk]
           d == Aio!Copied(empty, 0, all)
           g == Aio!Grown(b, s)
<1>1. L \in Nat /\ n \in Nat /\ b.size \in Nat /\ b.size > 0
  BY AtIsInside DEF RingOK
<1>2. /\ Aio!Contents(b) \in Seq(V) /\ Len(Aio!Contents(b)) = L
      /\ \A i \in 1 .. L : Aio!Contents(b)[i] = b.data[At(b, i)]
  BY ContentsAre
<1>3. /\ all \in Seq(V) /\ Len(all) = L + n
      /\ \A i \in 1 .. L + n : all[i] = IF i <= L THEN b.data[At(b, i)] ELSE s[i - L]
  <2> DEFINE e == Aio!Contents(b)
  <2>1. e \in Seq(V) /\ s \in Seq(V) /\ Len(e) = L
    BY <1>2
  <2> HIDE DEF e, V, L
  <2>2. /\ e \o s \in Seq(V) /\ Len(e \o s) = Len(e) + Len(s)
        /\ \A i \in 1 .. Len(e) + Len(s) : (e \o s)[i] = IF i <= Len(e) THEN e[i] ELSE s[i - Len(e)]
    BY <2>1, ConcatProperties
  <2>3. \A i \in 1 .. L : e[i] = b.data[At(b, i)]
    BY <1>2 DEF e
  <2>4. all = e \o s
    BY DEF e
  <2> HIDE DEF all
  <2>5. QED
    BY <1>1, <2>1, <2>2, <2>3, <2>4
<1>4. g = [data |-> d, size |-> size, read |-> 0, write |-> Len(all)]
  BY DEF Aio!Grown
<1> HIDE DEF all, V, g
<1>5. size \in Nat /\ size >= L + n + 1
  <2> DEFINE old == b.size
             need == Len(all) + 1
  <2>1. old \in Nat /\ old > 0 /\ need \in Nat /\ need = L + n + 1
    BY <1>1, <1>3
  <2> HIDE DEF old, need
  <2>2. Aio!NextSize(old, need) \in Nat /\ Aio!NextSize(old, need) >= need
    BY <2>1, NextSizeSuffices
  <2>3. size = Aio!NextSize(old, need)
    BY DEF old, need
  <2> HIDE DEF size
  <2>4. QED
    BY <2>1, <2>2, <2>3
<1> HIDE DEF size, L, n
<1>6. empty \in [0 .. size - 1 -> V]
  BY DEF V
<1> HIDE DEF empty
<1>7. /\ d \in [0 .. size - 1 -> V]
      /\ \A p \in 0 .. size - 1 : p < L + n => d[p] = all[p + 1]
  <2> DEFINE z == 0
  <2>1. z \in Nat /\ z + Len(all) <= size
    BY <1>1, <1>3, <1>5
  <2>2. d = Aio!Copied(empty, z, all)
    OBVIOUS
  <2> HIDE DEF z
  <2>3. IsCopy(Aio!Copied(empty, z, all), V, size, empty, z, all)
    BY <1>3, <1>5, <1>6, <2>1, CopiedIs
  <2> HIDE DEF d
  <2>4. QED
    BY <1>1, <1>3, <1>5, <2>2, <2>3 DEF IsCopy, z
<1> HIDE DEF d
<1>8. g.data = d /\ g.size = size /\ g.read = 0 /\ g.write = L + n
  BY <1>3, <1>4
<1>9. RingOK(g)
  BY <1>1, <1>3, <1>4, <1>5, <1>7, <1>8 DEF RingOK, V
<1>10. Aio!BufferLen(g) = L + n
  BY <1>1, <1>8 DEF Aio!BufferLen
<1>11. ASSUME NEW i \in 1 .. L + n
       PROVE  g.data[At(g, i)] = IF i <= L THEN b.data[At(b, i)] ELSE s[i - L]
  <2>1. At(g, i) = i - 1
    BY <1>1, <1>5, <1>8 DEF At
  <2>2. i - 1 \in 0 .. size - 1 /\ i - 1 < L + n /\ (i - 1) + 1 = i
    BY <1>1, <1>5
  <2>3. d[i - 1] = all[i]
    BY <1>7, <2>2
  <2>4. QED
    BY <1>3, <1>8, <2>1, <2>3
<1>12. QED
  BY <1>9, <1>10, <1>11 DEF g, L, n

\* The buffer b holds n bytes more than a, the bytes from q on.
Follows(b, a, q, n) ==
    /\ RingOK(b)
    /\ Aio!BufferLen(b) = Aio!BufferLen(a) + n
    /\ \A i \in 1 .. Aio!BufferLen(a) + n :
           b.data[At(b, i)] = IF i <= Aio!BufferLen(a) THEN a.data[At(a, i)] ELSE q + (i - Aio!BufferLen(a)) - 1

\* aio_write_unlocked.
LEMMA PutIs ==
    ASSUME NEW b, RingOK(b), MaxBytes \in Nat, NEW q \in Nat, NEW n \in Nat, q + n <= MaxBytes
    PROVE  Follows(Aio!Put(b, Aio!Bytes(q, n)), b, q, n)
<1> DEFINE s == Aio!Bytes(q, n)
           V == Aio!Byte \cup {Aio!Junk}
           L == Aio!BufferLen(b)
<1>1. s \in Seq(V) /\ Len(s) = n /\ \A i \in 1 .. n : s[i] = q + i - 1
  <2>1. \A i \in 1 .. n : q + i - 1 \in Aio!Byte
    BY DEF Aio!Byte
  <2>2. s \in [1 .. n -> V]
    BY <2>1 DEF Aio!Bytes
  <2>3. s \in Seq(V)
    BY <2>2, SeqDef
  <2>4. QED
    BY <2>2, <2>3 DEF Aio!Bytes
<1> HIDE DEF s, V
<1>2. L \in Nat /\ b.size \in Nat
  BY AtIsInside DEF RingOK
<1>3. CASE n < b.size - L
  <2> DEFINE f == Aio!Fill(b, s)
  <2>1. Len(s) < b.size - Aio!BufferLen(b)
    BY <1>1, <1>3
  <2>2. /\ RingOK(f) /\ f.size = b.size /\ f.read = b.read /\ Aio!BufferLen(f) = L + n
        /\ \A i \in 1 .. L : f.data[At(b, i)] = b.data[At(b, i)]
        /\ \A i \in 1 .. n : f.data[At(b, L + i)] = s[i]
    BY <1>1, <2>1, FillIs DEF V
  <2>3. Aio!Put(b, s) = f
    BY <2>1 DEF Aio!Put
  <2> HIDE DEF f
  <2>4. ASSUME NEW i \in 1 .. L + n
        PROVE  f.data[At(f, i)] = IF i <= L THEN b.data[At(b, i)] ELSE q + (i - L) - 1
    <3>1. At(f, i) = At(b, i)
      BY <2>2 DEF At
    <3> HIDE DEF L
    <3>2. CASE i <= L
      <4>1. i \in 1 .. L
        BY <1>2, <3>2
      <4>2. QED
        BY <2>2, <3>1, <3>2, <4>1
    <3>3. CASE ~(i <= L)
      <4>1. i - L \in 1 .. n /\ L + (i - L) = i
        BY <1>2, <3>3
      <4>2. f.data[At(b, L + (i - L))] = s[i - L]
        BY <2>2, <4>1
      <4>3. QED
        BY <1>1, <3>1, <3>3, <4>1, <4>2
    <3>4. QED
      BY <3>2, <3>3
  <2>5. QED
    BY <2>2, <2>3, <2>4 DEF Follows, s
<1>4. CASE ~(n < b.size - L)
  <2> DEFINE g == Aio!Grown(b, s)
  <2>1. /\ RingOK(g) /\ Aio!BufferLen(g) = L + n
        /\ \A i \in 1 .. L + n :
               g.data[At(g, i)] = IF i <= L THEN b.data[At(b, i)] ELSE s[i - L]
    BY <1>1, GrownIs DEF V
  <2>2. Aio!Put(b, s) = g
    BY <1>1, <1>4 DEF Aio!Put
  <2> HIDE DEF g, L
  <2>3. ASSUME NEW i \in 1 .. L + n, ~(i <= L)
        PROVE  s[i - L] = q + (i - L) - 1
    <3>1. i - L \in 1 .. n
      BY <1>2, <2>3
    <3>2. QED
      BY <1>1, <3>1
  <2>4. QED
    BY <2>1, <2>2, <2>3 DEF Follows, s, L
<1>5. QED
  BY <1>3, <1>4

\* The buffer a is b without its first n bytes.
IsRest(a, b, n) ==
    /\ RingOK(a) /\ a.data = b.data /\ Aio!BufferLen(a) = Aio!BufferLen(b) - n
    /\ \A i \in 1 .. Aio!BufferLen(a) : At(a, i) = At(b, i + n)

\* Bytes are taken from the front of the buffer.
LEMMA TakenIs ==
    ASSUME NEW b, RingOK(b), NEW n \in 0 .. Aio!BufferLen(b)
    PROVE  IsRest([b EXCEPT !.read = (@ + n) % b.size], b, n)
<1> DEFINE S == b.size
           r == b.read
           w == b.write
           m == (r + n) % S
           a == [b EXCEPT !.read = m]
<1>1. /\ b = [data |-> b.data, size |-> S, read |-> r, write |-> w]
      /\ S \in Nat /\ S > 0 /\ r \in Nat /\ r < S /\ w \in Nat /\ w < S
  BY DEF RingOK
<1>2. Aio!BufferLen(b) = (IF w >= r THEN w - r ELSE S + w - r) /\ n \in Nat /\ n <= Aio!BufferLen(b)
  BY <1>1, AtIsInside DEF Aio!BufferLen
<1>3. m = IF r + n < S THEN r + n ELSE r + n - S
  <2> DEFINE x == r + n
  <2>1. S \in Nat \ {0} /\ x \in Nat /\ x < 2 * S
    BY <1>1, <1>2
  <2> HIDE DEF x, S
  <2>2. x % S = IF x < S THEN x ELSE x - S
    BY <2>1, Wrapped
  <2>3. m = x % S
    BY DEF x
  <2> HIDE DEF m
  <2>4. m = IF x < S THEN x ELSE x - S
    BY <2>2, <2>3, Zenon
  <2>5. x = r + n
    BY DEF x
  <2>6. QED
    BY <1>1, <1>2, <2>1, <2>4, <2>5
<1> HIDE DEF m
<1>4. a = [data |-> b.data, size |-> S, read |-> m, write |-> w]
  BY <1>1
<1>5. a.data = b.data /\ a.size = S /\ a.read = m /\ a.write = w
  BY <1>4
<1> HIDE DEF S, r, w
<1>6. /\ m \in 0 .. S - 1
      /\ Aio!BufferLen(b) - n = IF w >= m THEN w - m ELSE S + w - m
  BY <1>1, <1>2, <1>3
<1>7. Aio!BufferLen(a) = Aio!BufferLen(b) - n
  <2> HIDE DEF a
  <2>1. QED
    BY <1>5, <1>6 DEF Aio!BufferLen
<1>8. RingOK(a)
  <2>1. b.data \in [0 .. S - 1 -> Aio!Byte \cup {Aio!Junk}] /\ S \in Nat \ {0} /\ w \in 0 .. S - 1
    BY DEF RingOK, S, w
  <2> HIDE DEF a
  <2>2. QED
    BY <1>4, <1>5, <1>6, <2>1 DEF RingOK
<1>9. ASSUME NEW i \in 1 .. Aio!BufferLen(b) - n
      PROVE  At(a, i) = At(b, i + n)
  <2>1. At(a, i) = IF m + i - 1 < S THEN m + i - 1 ELSE m + i - 1 - S
    <3> HIDE DEF a
    <3>1. QED
      BY <1>5 DEF At
  <2>2. At(b, i + n) = IF r + (i + n) - 1 < S THEN r + (i + n) - 1 ELSE r + (i + n) - 1 - S
    BY DEF At, r, S
  <2>3. QED
    BY <1>1, <1>2, <1>3, <2>1, <2>2
<1>10. QED
  BY <1>5, <1>7, <1>8, <1>9 DEF IsRest, m, r, S

LEMMA MinOfTwo ==
    ASSUME NEW a \in Nat, NEW c \in Nat
    PROVE  Aio!Min({a, c}) = IF a <= c THEN a ELSE c
<1> DEFINE S == {a, c}
<1>1. \E x \in S : \A y \in S : x <= y
  OBVIOUS
<1> HIDE DEF S
<1>2. Aio!Min(S) \in S /\ \A y \in S : Aio!Min(S) <= y
  BY <1>1 DEF Aio!Min
<1>3. QED
  BY <1>2 DEF S

\* The block that the thread takes is the front of the buffer.
LEMMA TakenBlock ==
    ASSUME RingOK(buf), LocalSize \in Nat
    PROVE  /\ Aio!Taken1 + Aio!Taken2 \in 0 .. Aio!BufferLen(buf) /\ Aio!Taken1 + Aio!Taken2 <= LocalSize
           /\ buf.read + Aio!Taken1 + Aio!Taken2 = buf.read + (Aio!Taken1 + Aio!Taken2)
           /\ Aio!Piece(buf, buf.read, Aio!Taken1) \o Aio!Piece(buf, 0, Aio!Taken2) \in Seq(Aio!Byte \cup {Aio!Junk})
           /\ Len(Aio!Piece(buf, buf.read, Aio!Taken1) \o Aio!Piece(buf, 0, Aio!Taken2)) = Aio!Taken1 + Aio!Taken2
           /\ \A i \in 1 .. Aio!Taken1 + Aio!Taken2 :
                  (Aio!Piece(buf, buf.read, Aio!Taken1) \o Aio!Piece(buf, 0, Aio!Taken2))[i] = buf.data[At(buf, i)]
<1> DEFINE l1 == Aio!Len1(buf)
           l2 == Aio!Len2(buf)
           m == Aio!Taken1
           n == Aio!Taken2
           r == buf.read
<1>1. l1 \in Nat /\ l2 \in Nat /\ l1 + l2 = Aio!BufferLen(buf) /\ r \in Nat
  BY PiecesAre
<1>2. m = IF l1 <= LocalSize THEN l1 ELSE LocalSize
  BY <1>1, MinOfTwo DEF Aio!Taken1
<1>3. n = IF l2 <= LocalSize - m THEN l2 ELSE LocalSize - m
  <2> DEFINE rest == LocalSize - m
  <2>1. rest \in Nat
    BY <1>1, <1>2
  <2>2. n = Aio!Min({l2, rest})
    BY DEF Aio!Taken2
  <2> HIDE DEF rest, l2
  <2>3. Aio!Min({l2, rest}) = IF l2 <= rest THEN l2 ELSE rest
    BY <1>1, <2>1, MinOfTwo
  <2> HIDE DEF m, n
  <2>4. QED
    BY <2>2, <2>3 DEF rest
<1> HIDE DEF l1, l2, m, n, r
<1>4. /\ m \in Nat /\ n \in Nat /\ m <= l1 /\ n <= l2 /\ (n > 0 => m = l1) /\ m + n <= LocalSize
      /\ m + n \in 0 .. Aio!BufferLen(buf) /\ r + m + n = r + (m + n)
  BY <1>1, <1>2, <1>3
<1>5. /\ Aio!Piece(buf, buf.read, m) \o Aio!Piece(buf, 0, n) \in Seq(Aio!Byte \cup {Aio!Junk})
      /\ Len(Aio!Piece(buf, buf.read, m) \o Aio!Piece(buf, 0, n)) = m + n
      /\ \A i \in 1 .. m + n : (Aio!Piece(buf, buf.read, m) \o Aio!Piece(buf, 0, n))[i] = buf.data[At(buf, i)]
  BY <1>4, BlockIs DEF l1, l2
<1>6. QED
  BY <1>4, <1>5 DEF m, n, r

-----------------------------------------------------------------------------
(* The invariant. *)

\* The types of the variables other than the ring.
Flags == freed \in BOOLEAN /\ error \in BOOLEAN /\ ioError \in BOOLEAN /\ broken \in BOOLEAN /\ closed \in BOOLEAN
Others ==
    /\ finish \in {"running", "close", "exit"}
    /\ refcount \in 0 .. 2 /\ tokens \in Nat
    /\ thread \in {"look", "sleep", "write", "ended"} /\ local \in Seq(Aio!Byte) /\ Len(local) <= LocalSize
    /\ writer \in [Writers -> {"idle", "signal"}]
    /\ owner \in {"open", "closing", "closed", "waiting", "joining", "waited", "gone"}
    /\ file \in Seq(Aio!Byte)
    /\ queued \in 0 .. MaxBytes /\ promised \in 0 .. MaxBytes

\* The number of bytes that have left the buffer and the thread.
Gone == queued - Aio!BufferLen(buf) - Len(local)

\* The places of the bytes: each is one more than the one before it.
Placed ==
    /\ RingOK(buf)
    /\ Gone >= 0
    /\ Holds(buf, queued)
    /\ \A i \in 1 .. Len(local) : local[i] = Gone + i - 1
    /\ ~broken => Len(file) = Gone /\ \A i \in 1 .. Len(file) : file[i] = i - 1

\* How far the thread and the owner are.
FileStages ==
    /\ thread # "write" => local = << >>
    /\ ioError <=> broken
    /\ finish = "running" <=> owner = "open"
    /\ finish # "running" => promised <= queued
    /\ thread = "ended" =>
           /\ finish # "running" /\ (error <=> broken) /\ (closed <=> finish = "close")
           /\ ~broken => promised <= Len(file)
    /\ owner = "waited" => thread = "ended"
    /\ refcount = (IF thread = "ended" THEN 0 ELSE 1) + (IF owner = "gone" THEN 0 ELSE 1)
    /\ freed <=> refcount = 0
    /\ owner = "gone" => \A w \in Writers : writer[w] = "idle"

FileInv == Flags /\ Others /\ Placed /\ FileStages

LEMMA Initially ==
    ASSUME Aio!Sizes, Aio!Init
    PROVE  FileInv
<1>1. /\ buf.size = InitialSize /\ buf.read = 0 /\ buf.write = 0
      /\ buf.data = [p \in 0 .. InitialSize - 1 |-> Aio!Junk]
      /\ buf = [data |-> buf.data, size |-> buf.size, read |-> buf.read, write |-> buf.write]
  BY DEF Aio!Init
<1>2. RingOK(buf)
  BY <1>1 DEF Aio!Sizes, RingOK
<1>3. Aio!BufferLen(buf) = 0
  BY <1>1 DEF Aio!BufferLen
<1>4. << >> \in Seq(Aio!Byte) /\ Len(<< >>) = 0
  OBVIOUS
<1>5. Flags
  BY Zenon DEF Aio!Init, Flags
<1>6. Others
  BY <1>4 DEF Aio!Init, Others, Aio!Sizes
<1>7. Placed
  <2>1. queued = 0 /\ Len(local) = 0 /\ Len(file) = 0 /\ Aio!BufferLen(buf) = 0
    BY <1>3, <1>4 DEF Aio!Init
  <2>2. Gone = 0 /\ 1 .. Len(local) = {} /\ 1 .. Len(file) = {} /\ 1 .. Aio!BufferLen(buf) = {}
    BY <2>1 DEF Gone
  <2>3. QED
    BY <1>2, <2>1, <2>2 DEF Placed, Holds
<1>8. FileStages
  BY DEF Aio!Init, FileStages
<1>9. QED
  BY <1>5, <1>6, <1>7, <1>8 DEF FileInv

\* Most steps leave the bytes alone.
LEMMA SamePlaces ==
    ASSUME Placed, UNCHANGED <<buf, queued, local, file, broken>>
    PROVE  Placed'
BY DEF Placed, RingOK, Gone, Holds, Aio!BufferLen, At, Aio!Byte

LEMMA WriteKeeps ==
    ASSUME Aio!Sizes, FileInv, NEW w \in Writers, NEW n \in 1 .. MaxWrite, NEW m \in 0 .. MaxWrite, Aio!Write(w, n, m)
    PROVE  FileInv'
<1> DEFINE mid == Aio!Put(buf, Aio!Bytes(queued, n))
           L == Aio!BufferLen(buf)
<1>1. /\ queued + n + m <= MaxBytes /\ buf' = Aio!Put(mid, Aio!Bytes(queued + n, m)) /\ queued' = queued + n + m
      /\ UNCHANGED <<local, file, broken>>
  BY DEF Aio!Write, Aio!output
<1>2. queued \in Nat /\ n \in Nat /\ m \in Nat /\ MaxBytes \in Nat /\ RingOK(buf) /\ L \in Nat
  BY AtIsInside DEF FileInv, Others, Placed, Aio!Sizes
<1>3. Follows(mid, buf, queued, n)
  BY <1>1, <1>2, PutIs
<1>4. Follows(buf', mid, queued + n, m)
  <2> HIDE DEF mid
  <2>1. RingOK(mid) /\ queued + n \in Nat /\ (queued + n) + m <= MaxBytes
    BY <1>1, <1>2, <1>3 DEF Follows
  <2>2. Follows(Aio!Put(mid, Aio!Bytes(queued + n, m)), mid, queued + n, m)
    BY <1>2, <2>1, PutIs
  <2>3. QED
    BY <1>1, <2>2
<1> HIDE DEF mid, L
<1>5. Aio!BufferLen(mid) = L + n /\ (Aio!BufferLen(buf))' = L + n + m /\ RingOK(buf)'
  BY <1>2, <1>3, <1>4 DEF Follows, L, RingOK, Aio!BufferLen
<1>6. ASSUME NEW i \in 1 .. L + n + m
      PROVE  buf'.data[At(buf', i)] = (queued + n + m) - (L + n + m) + i - 1
  <2>1. buf'.data[At(buf', i)] = IF i <= L + n THEN mid.data[At(mid, i)] ELSE queued + n + (i - (L + n)) - 1
    BY <1>4, <1>5 DEF Follows
  <2>2. CASE i <= L
    <3>1. mid.data[At(mid, i)] = buf.data[At(buf, i)]
      BY <1>2, <1>3, <2>2 DEF Follows, L
    <3>2. buf.data[At(buf, i)] = queued - L + i - 1
      BY <1>2, <2>2 DEF FileInv, Placed, Holds, L
    <3>3. QED
      BY <1>2, <2>1, <2>2, <3>1, <3>2
  <2>3. CASE ~(i <= L) /\ i <= L + n
    <3>1. mid.data[At(mid, i)] = queued + (i - L) - 1
      BY <1>2, <1>3, <2>3 DEF Follows, L
    <3>2. QED
      BY <1>2, <2>1, <2>3, <3>1
  <2>4. CASE ~(i <= L + n)
    BY <1>2, <2>1, <2>4
  <2>5. QED
    BY <1>2, <2>2, <2>3, <2>4
<1>7. Gone' = Gone
  BY <1>1, <1>2, <1>5 DEF Gone, L, FileInv, Others
<1>8. Placed'
  <2>1. Holds(buf, queued)'
    BY <1>1, <1>5, <1>6 DEF Holds, Aio!BufferLen, At
  <2>2. QED
    BY <1>1, <1>5, <1>7, <2>1 DEF Placed, FileInv
<1>9. Flags' /\ Others'
  BY <1>1, <1>2 DEF FileInv, Flags, Others, Aio!Write, Aio!output, Aio!memory
<1>10. FileStages'
  BY <1>1, <1>2 DEF FileInv, Others, FileStages, Aio!Write, Aio!output, Aio!memory
<1>11. QED
  BY <1>8, <1>9, <1>10 DEF FileInv

LEMMA TakeKeeps ==
    ASSUME Aio!Sizes, FileInv, Aio!Take
    PROVE  FileInv'
<1> DEFINE block == Aio!Piece(buf, buf.read, Aio!Taken1) \o Aio!Piece(buf, 0, Aio!Taken2)
           k == Aio!Taken1 + Aio!Taken2
           L == Aio!BufferLen(buf)
<1>1. /\ local' = block /\ buf' = [buf EXCEPT !.read = (@ + Aio!Taken1 + Aio!Taken2) % buf.size]
      /\ thread = "look" /\ thread' = "write" /\ error' = ioError
      /\ UNCHANGED <<queued, finish, Aio!memory, ioError, tokens, writer, owner, Aio!output, promised>>
  BY DEF Aio!Take
<1>2. /\ RingOK(buf) /\ L \in Nat /\ queued \in 0 .. MaxBytes /\ MaxBytes \in Nat /\ LocalSize \in Nat
      /\ local = << >> /\ Len(local) = 0 /\ Gone = queued - L /\ queued - L >= 0
      /\ \A i \in 1 .. L : buf.data[At(buf, i)] = queued - L + i - 1
  BY <1>1, AtIsInside DEF FileInv, Others, Placed, FileStages, Aio!Sizes, Gone, Holds
<1>3. /\ k \in 0 .. L /\ k <= LocalSize /\ buf.read + Aio!Taken1 + Aio!Taken2 = buf.read + k
      /\ block \in Seq(Aio!Byte \cup {Aio!Junk}) /\ Len(block) = k
      /\ \A i \in 1 .. k : block[i] = buf.data[At(buf, i)]
  BY <1>2, TakenBlock
<1> HIDE DEF block, k, L
<1>4. ASSUME NEW i \in 1 .. k
      PROVE  block[i] = queued - L + i - 1 /\ block[i] \in Aio!Byte
  <2>1. i \in 1 .. L
    BY <1>2, <1>3
  <2>2. block[i] = queued - L + i - 1
    BY <1>2, <1>3, <2>1
  <2>3. QED
    BY <1>2, <2>1, <2>2 DEF Aio!Byte
<1>5. block \in Seq(Aio!Byte)
  <2>1. block \in [1 .. k -> Aio!Byte]
    BY <1>3, <1>4
  <2>2. QED
    BY <1>3, <2>1, SeqDef
<1>6. buf' = [buf EXCEPT !.read = (@ + k) % buf.size]
  BY <1>1, <1>3
<1>7. /\ RingOK(buf') /\ buf'.data = buf.data /\ Aio!BufferLen(buf') = L - k
      /\ \A i \in 1 .. L - k : At(buf', i) = At(buf, i + k)
  <2> DEFINE a == [buf EXCEPT !.read = (@ + k) % buf.size]
  <2>1. k \in 0 .. Aio!BufferLen(buf)
    BY <1>3 DEF L
  <2>2. IsRest(a, buf, k)
    BY <1>2, <2>1, TakenIs
  <2>3. buf' = a
    BY <1>6
  <2> HIDE DEF a
  <2>4. QED
    BY <2>2, <2>3 DEF IsRest, L
<1>8. Placed'
  <2>1. RingOK(buf)' /\ (Aio!BufferLen(buf))' = L - k /\ Len(local') = k
    BY <1>1, <1>3, <1>7 DEF RingOK, Aio!BufferLen, Aio!Byte
  <2>2. Gone' = queued - L /\ Gone = queued - L
    BY <1>1, <1>2, <1>3, <2>1 DEF Gone
  <2>3. Holds(buf, queued)'
    <3>1. ASSUME NEW i \in 1 .. L - k
          PROVE  buf'.data[At(buf', i)] = queued - (L - k) + i - 1
      <4>1. i + k \in 1 .. L
        BY <1>2, <1>3
      <4>2. buf'.data[At(buf', i)] = buf.data[At(buf, i + k)]
        BY <1>7
      <4>3. buf.data[At(buf, i + k)] = queued - L + (i + k) - 1
        BY <1>2, <4>1
      <4>4. QED
        BY <1>2, <1>3, <4>2, <4>3
    <3>2. QED
      BY <1>1, <1>7, <3>1 DEF Holds, Aio!BufferLen, At
  <2>4. \A i \in 1 .. Len(local') : local'[i] = Gone' + i - 1
    BY <1>1, <1>4, <2>1, <2>2
  <2>5. ~broken' => Len(file') = Gone' /\ \A i \in 1 .. Len(file') : file'[i] = i - 1
    BY <1>1, <2>2 DEF Aio!output, FileInv, Placed
  <2>6. QED
    BY <1>2, <2>1, <2>2, <2>3, <2>4, <2>5 DEF Placed
<1>9. Flags'
  BY <1>1, Zenon DEF FileInv, Flags, Aio!output, Aio!memory
<1>10. Others'
  BY <1>1, <1>3, <1>5 DEF FileInv, Others, Aio!output, Aio!memory
<1>11. FileStages'
  BY <1>1 DEF FileInv, FileStages, Aio!output, Aio!memory
<1>12. QED
  BY <1>8, <1>9, <1>10, <1>11 DEF FileInv

LEMMA WriteOutKeeps ==
    ASSUME Aio!Sizes, FileInv, NEW n \in 0 .. LocalSize, Aio!WriteOut(n)
    PROVE  FileInv'
<1> DEFINE K == Len(local)
           piece == SubSeq(local, 1, n)
<1>1. /\ thread = "write" /\ n \in 0 .. K /\ file' = file \o piece
      /\ (broken' <=> broken \/ n < K) /\ broken' \in BOOLEAN /\ ioError' = broken'
      /\ local' = << >> /\ thread' = "look"
      /\ UNCHANGED <<Aio!buffers, finish, Aio!memory, error, tokens, writer, owner, closed, promised>>
  BY DEF Aio!WriteOut
<1>2. /\ local \in Seq(Aio!Byte) /\ file \in Seq(Aio!Byte) /\ K \in Nat /\ Len(file) \in Nat
      /\ queued \in Nat /\ Aio!BufferLen(buf) \in Nat /\ RingOK(buf)
  BY AtIsInside DEF FileInv, Others, Placed
<1>3. piece \in Seq(Aio!Byte) /\ Len(piece) = n /\ \A i \in 1 .. n : piece[i] = local[i]
  <2>1. \A i \in 1 .. n : local[i] \in Aio!Byte
    BY <1>1, <1>2, ElementOfSeq
  <2>2. 1 \in Int /\ n \in Int
    OBVIOUS
  <2>3. /\ SubSeq(local, 1, n) \in Seq(Aio!Byte)
        /\ Len(SubSeq(local, 1, n)) = IF 1 <= n THEN n - 1 + 1 ELSE 0
        /\ \A i \in 1 .. n - 1 + 1 : SubSeq(local, 1, n)[i] = local[1 + i - 1]
    BY <2>1, <2>2, SubSeqProperties
  <2>4. QED
    BY <1>1, <2>3
<1> HIDE DEF piece, K
<1>4. /\ file' \in Seq(Aio!Byte) /\ Len(file') = Len(file) + n
      /\ \A i \in 1 .. Len(file) + n :
             file'[i] = IF i <= Len(file) THEN file[i] ELSE piece[i - Len(file)]
  <2>1. /\ file \o piece \in Seq(Aio!Byte) /\ Len(file \o piece) = Len(file) + Len(piece)
        /\ \A i \in 1 .. Len(file) + Len(piece) :
               (file \o piece)[i] = IF i <= Len(file) THEN file[i] ELSE piece[i - Len(file)]
    BY <1>2, <1>3, ConcatProperties
  <2>2. QED
    BY <1>1, <1>3, <2>1
<1>5. << >> \in Seq(Aio!Byte) /\ Len(<< >>) = 0
  OBVIOUS
<1>6. Gone' = Gone + K
  BY <1>1, <1>2, <1>5 DEF Gone, Aio!buffers, K
<1>7. Placed'
  <2>1. RingOK(buf)' /\ Holds(buf, queued)'
    BY <1>1 DEF FileInv, Placed, Aio!buffers, RingOK, Holds, Aio!BufferLen, At, Aio!Byte
  <2>2. ASSUME ~broken'
        PROVE  Len(file') = Gone' /\ \A i \in 1 .. Len(file') : file'[i] = i - 1
    <3>1. ~broken /\ n = K
      BY <1>1, <1>2, <2>2
    <3>2. Len(file) = Gone /\ \A i \in 1 .. Len(file) : file[i] = i - 1
      BY <3>1 DEF FileInv, Placed
    <3>3. Len(file') = Gone'
      BY <1>4, <1>6, <3>1, <3>2
    <3>4. ASSUME NEW i \in 1 .. Len(file')
          PROVE  file'[i] = i - 1
      <4>1. CASE i <= Len(file)
        BY <1>2, <1>4, <3>2, <4>1
      <4>2. CASE ~(i <= Len(file))
        <5>1. i - Len(file) \in 1 .. n
          BY <1>2, <1>4, <4>2
        <5>2. file'[i] = local[i - Len(file)]
          BY <1>3, <1>4, <4>2, <5>1
        <5>3. local[i - Len(file)] = Gone + (i - Len(file)) - 1
          BY <3>1, <5>1 DEF FileInv, Placed, K
        <5>4. QED
          BY <1>2, <3>2, <5>2, <5>3
      <4>3. QED
        BY <4>1, <4>2
    <3>5. QED
      BY <3>3, <3>4
  <2>3. Gone >= 0 /\ Gone \in Int
    BY <1>2 DEF FileInv, Placed, Gone, K
  <2>4. Gone' >= 0
    BY <1>2, <1>6, <2>3
  <2>5. \A i \in 1 .. Len(local') : local'[i] = Gone' + i - 1
    BY <1>1, <1>5
  <2>6. QED
    BY <2>1, <2>2, <2>4, <2>5 DEF Placed
<1>8. Flags'
  BY <1>1, Zenon DEF FileInv, Flags, Aio!memory
<1>9. Others'
  <2>1. LocalSize \in Nat
    BY DEF Aio!Sizes
  <2>2. QED
    BY <1>1, <1>4, <1>5, <2>1 DEF FileInv, Others, Aio!buffers, Aio!memory
<1>10. FileStages'
  <2>1. thread' = "look" /\ thread = "write" /\ local' = << >> /\ (ioError' <=> broken') /\ owner # "waited"
    BY <1>1 DEF FileInv, FileStages
  <2>2. UNCHANGED <<finish, promised, queued, owner, refcount, freed, writer>>
    BY <1>1 DEF Aio!buffers, Aio!memory
  <2>3. QED
    BY <2>1, <2>2 DEF FileInv, FileStages
<1>11. QED
  BY <1>7, <1>8, <1>9, <1>10 DEF FileInv

\* The steps that leave the bytes where they are.
LEMMA OthersKeep ==
    ASSUME Aio!Sizes, FileInv,
           \/ Aio!Close \/ Aio!Wait \/ Aio!Free \/ Aio!Waiting \/ Aio!Leave \/ Aio!Sleep \/ Aio!WakeUp
           \/ \E w \in Writers : Aio!SignalWrite(w)
           \/ UNCHANGED Aio!vars
    PROVE  FileInv'
<1>1. UNCHANGED <<buf, queued, local, file, broken, ioError>>
  BY DEF Aio!Close, Aio!Wait, Aio!Free, Aio!Waiting, Aio!SignalClose, Aio!SignalWait, Aio!Join, Aio!Leave, Aio!Sleep, Aio!WakeUp, Aio!SignalWrite,
         Aio!vars, Aio!buffers, Aio!output
<1>2. Placed'
  BY <1>1, SamePlaces DEF FileInv
<1>3. queued \in 0 .. MaxBytes /\ MaxBytes \in Nat
  BY DEF FileInv, Others, Aio!Sizes
<1>4. CASE Aio!Close
  BY <1>1, <1>2, <1>3, <1>4 DEF Aio!Close, FileInv, Flags, Others, FileStages, Aio!memory, Aio!output
<1>5. CASE Aio!Wait
  BY <1>1, <1>2, <1>3, <1>5 DEF Aio!Wait, FileInv, Flags, Others, FileStages, Aio!memory, Aio!output
<1>6. CASE Aio!Free
  <2>1. /\ owner \in {"closed", "waited"} /\ \A w \in Writers : writer[w] = "idle"
        /\ refcount' = refcount - 1 /\ freed' = (refcount' = 0) /\ owner' = "gone"
        /\ UNCHANGED <<queued, finish, error, tokens, thread, writer, closed, promised>>
    BY <1>6 DEF Aio!Free, Aio!Release, Aio!buffers, Aio!output
  <2>2. refcount = (IF thread = "ended" THEN 0 ELSE 1) + 1
    BY <2>1 DEF FileInv, FileStages
  <2>3. refcount' = (IF thread' = "ended" THEN 0 ELSE 1) + (IF owner' = "gone" THEN 0 ELSE 1)
    BY <2>1, <2>2
  <2>4. (freed' <=> refcount' = 0) /\ freed' \in BOOLEAN
    BY <2>1
  <2>5. Flags' /\ Others'
    BY <1>1, <2>1, <2>2, <2>4 DEF FileInv, Flags, Others
  <2>6. FileStages'
    BY <1>1, <2>1, <2>3, <2>4 DEF FileInv, FileStages
  <2>7. QED
    BY <1>2, <2>5, <2>6 DEF FileInv
<1>7. CASE Aio!SignalClose
  BY <1>1, <1>2, <1>3, <1>7 DEF Aio!SignalClose, FileInv, Flags, Others, FileStages, Aio!memory, Aio!output
<1>8. CASE Aio!SignalWait
  BY <1>1, <1>2, <1>3, <1>8 DEF Aio!SignalWait, FileInv, Flags, Others, FileStages, Aio!memory, Aio!output
<1>9. CASE Aio!Join
  BY <1>1, <1>2, <1>3, <1>9 DEF Aio!Join, FileInv, Flags, Others, FileStages, Aio!memory, Aio!output
<1>10. CASE Aio!Leave
  <2>1. /\ thread = "look" /\ buf.read = buf.write /\ finish # "running"
        /\ error' = ioError /\ closed' = (finish = "close")
        /\ refcount' = refcount - 1 /\ freed' = (refcount' = 0) /\ thread' = "ended"
        /\ UNCHANGED <<queued, finish, tokens, writer, owner, promised>>
    BY <1>10 DEF Aio!Leave, Aio!Release, Aio!buffers
  <2>2. ~broken => promised <= Len(file)
    <3>1. Aio!BufferLen(buf) = 0 /\ Len(local) = 0
      BY <2>1, AtIsInside DEF FileInv, Placed, FileStages
    <3>2. ~broken => Len(file) = queued
      BY <1>3, <3>1 DEF FileInv, Placed, Gone
    <3>3. QED
      BY <2>1, <3>2 DEF FileInv, FileStages
  <2>3. Flags' /\ Others'
    BY <1>1, <2>1 DEF FileInv, Flags, Others, FileStages
  <2>4. refcount' = (IF thread' = "ended" THEN 0 ELSE 1) + (IF owner' = "gone" THEN 0 ELSE 1)
    BY <2>1 DEF FileInv, FileStages
  <2>5. (freed' <=> refcount' = 0) /\ (error' <=> broken') /\ (closed' <=> finish' = "close")
    <3>1. (ioError <=> broken) /\ broken' = broken /\ finish' = finish
      BY <1>1, <2>1 DEF FileInv, FileStages
    <3>2. QED
      BY <2>1, <3>1
  <2>6. FileStages'
    BY <1>1, <2>1, <2>2, <2>4, <2>5 DEF FileInv, FileStages
  <2>7. QED
    BY <1>2, <2>3, <2>6 DEF FileInv
<1>11. CASE Aio!Sleep
  BY <1>1, <1>2, <1>3, <1>11 DEF Aio!Sleep, FileInv, Flags, Others, FileStages, Aio!memory, Aio!output
<1>12. CASE Aio!WakeUp
  BY <1>1, <1>2, <1>3, <1>12 DEF Aio!WakeUp, FileInv, Flags, Others, FileStages, Aio!memory, Aio!output
<1>13. ASSUME NEW w \in Writers, Aio!SignalWrite(w)
       PROVE  FileInv'
  BY <1>1, <1>2, <1>3, <1>13 DEF Aio!SignalWrite, FileInv, Flags, Others, FileStages, Aio!memory, Aio!output
<1>14. CASE UNCHANGED Aio!vars
  BY <1>1, <1>2, <1>14 DEF Aio!vars, FileInv, Flags, Others, FileStages, Aio!memory, Aio!output
<1>15. QED
  BY <1>4, <1>5, <1>6, <1>7, <1>8, <1>9, <1>10, <1>11, <1>12, <1>13, <1>14 DEF Aio!Waiting

\* The invariant, for any writers and sizes.
THEOREM FileInductive == Aio!Spec => []FileInv
<1> USE FileAssumption
<1>1. Aio!Init => FileInv
  BY Initially
<1>2. FileInv /\ [Aio!Next]_Aio!vars => FileInv'
  <2> SUFFICES ASSUME FileInv, [Aio!Next]_Aio!vars PROVE FileInv'
    OBVIOUS
  <2>1. ASSUME NEW w \in Writers, NEW n \in 1 .. MaxWrite, NEW m \in 0 .. MaxWrite, Aio!Write(w, n, m)
        PROVE  FileInv'
    BY <2>1, WriteKeeps
  <2>2. CASE Aio!Take
    BY <2>2, TakeKeeps
  <2>3. ASSUME NEW n \in 0 .. LocalSize, Aio!WriteOut(n)
        PROVE  FileInv'
    BY <2>3, WriteOutKeeps
  <2>4. QED
    BY <2>1, <2>2, <2>3, OthersKeep DEF Aio!Next, Aio!Thread
<1>3. QED
  BY <1>1, <1>2, PTL DEF Aio!Spec

\* Every byte is in one place and in its order: in the file, in the block the
\* thread holds, or in the ring.
THEOREM Kept == Aio!Spec => []NothingLost
<1> USE FileAssumption
<1>1. FileInv => Aio!NothingLost
  <2> SUFFICES ASSUME FileInv PROVE Aio!NothingLost
    OBVIOUS
  <2> DEFINE c == Aio!Contents(buf)
             V == Aio!Byte \cup {Aio!Junk}
             K == Len(local)
             L == Aio!BufferLen(buf)
             held == local \o c
  <2>1. /\ RingOK(buf) /\ queued \in 0 .. MaxBytes /\ MaxBytes \in Nat /\ L \in Nat
        /\ local \in Seq(Aio!Byte) /\ file \in Seq(Aio!Byte) /\ K \in Nat
    BY AtIsInside DEF FileInv, Others, Placed, Aio!Sizes
  <2>2. Aio!TypeOK
    <3>1. /\ buf.size \in Nat \ {0} /\ buf.data \in [0 .. buf.size - 1 -> Aio!Byte \cup {Aio!Junk}]
          /\ {buf.read, buf.write} \subseteq 0 .. buf.size - 1
      BY <2>1 DEF RingOK
    <3>2. {error, ioError, broken, closed} \subseteq BOOLEAN /\ freed \in BOOLEAN
      BY Zenon DEF FileInv, Flags
    <3>3. QED
      BY <3>1, <3>2, Zenon DEF FileInv, Others, Aio!TypeOK
  <2>3. c \in Seq(V) /\ Len(c) = L /\ \A i \in 1 .. L : c[i] = queued - L + i - 1
    BY <2>1, ContentsAre DEF FileInv, Placed, Holds
  <2> HIDE DEF c, V, K, L
  <2>4. /\ held \in Seq(V) /\ Len(held) = K + L
        /\ \A i \in 1 .. K + L : held[i] = queued - (K + L) + i - 1
    <3>1. local \in Seq(V)
      BY <2>1 DEF V
    <3>2. /\ local \o c \in Seq(V) /\ Len(local \o c) = Len(local) + Len(c)
          /\ \A i \in 1 .. Len(local) + Len(c) :
                 (local \o c)[i] = IF i <= Len(local) THEN local[i] ELSE c[i - Len(local)]
      BY <2>3, <3>1, ConcatProperties
    <3>3. \A i \in 1 .. K : local[i] = (queued - L - K) + i - 1
      BY DEF FileInv, Placed, Gone, K, L
    <3> HIDE DEF held
    <3>4. QED
      BY <2>1, <2>3, <3>2, <3>3 DEF K, held
  <2> HIDE DEF held
  <2>5. held = Aio!Bytes(queued - Len(held), Len(held))
    BY <2>1, <2>4, SeqDef DEF Aio!Bytes
  <2>6. ASSUME ~broken
        PROVE  file \o held = Aio!Bytes(0, queued)
    <3>1. Len(file) = queued - (K + L) /\ \A i \in 1 .. Len(file) : file[i] = i - 1
      BY <2>1, <2>6 DEF FileInv, Placed, Gone, K, L
    <3>2. file \in Seq(V)
      BY <2>1 DEF V
    <3>3. /\ file \o held \in Seq(V) /\ Len(file \o held) = Len(file) + Len(held)
          /\ \A i \in 1 .. Len(file) + Len(held) :
                 (file \o held)[i] = IF i <= Len(file) THEN file[i] ELSE held[i - Len(file)]
      BY <2>4, <3>2, ConcatProperties
    <3> DEFINE f == file \o held
    <3>4. /\ f \in Seq(V) /\ Len(f) = queued
          /\ \A i \in 1 .. queued : f[i] = i - 1
      BY <2>1, <2>4, <3>1, <3>3
    <3> HIDE DEF f
    <3>5. f = [i \in 1 .. queued |-> 0 + i - 1]
      BY <2>1, <3>4, SeqDef
    <3>6. QED
      BY <3>5 DEF f, Aio!Bytes
  <2>7. file \o local \o c = file \o held
    BY <2>1, <2>3, ConcatAssociative DEF held, V
  <2>8. QED
    BY <2>2, <2>5, <2>6, <2>7 DEF Aio!NothingLost, held, c
<1>2. QED
  BY <1>1, FileInductive, PTL DEF NothingLost

\* After the wait the owner knows what became of the file, and the memory is
\* freed when the thread and the owner have left.
THEOREM Served == Aio!Spec => []OwnerServed
<1> USE FileAssumption
<1>1. FileInv => Aio!OwnerServed
  <2> SUFFICES ASSUME FileInv PROVE Aio!OwnerServed
    OBVIOUS
  <2>1. Aio!WaitSettles
    <3> SUFFICES ASSUME owner = "waited"
                 PROVE  error = broken /\ (~error => Len(file) >= promised) /\ closed = (finish = "close")
      BY DEF Aio!WaitSettles
    <3>1. (error <=> broken) /\ (closed <=> finish = "close") /\ (~broken => promised <= Len(file))
      BY DEF FileInv, FileStages
    <3>2. error \in BOOLEAN /\ broken \in BOOLEAN /\ closed \in BOOLEAN
      BY DEF FileInv, Flags
    <3>3. promised \in Nat /\ Len(file) \in Nat
      BY DEF FileInv, Others
    <3>4. error = broken /\ closed = (finish = "close")
      BY <3>1, <3>2, Zenon
    <3>5. QED
      BY <3>1, <3>3, <3>4
  <2>2. Aio!FreedAlone
    BY DEF Aio!FreedAlone, FileInv, FileStages, Flags
  <2>3. QED
    BY <2>1, <2>2 DEF Aio!OwnerServed
<1>2. QED
  BY <1>1, FileInductive, PTL DEF OwnerServed

-----------------------------------------------------------------------------
(* The ring of queries: slots. *)

LEMMA SlotRange == ASSUME NEW S \in Nat \ {0}, NEW a \in Nat PROVE a % S \in 0 .. S - 1
OBVIOUS

LEMMA SlotDivision ==
    ASSUME NEW S \in Nat \ {0}, NEW a \in Nat
    PROVE  a \div S \in Nat /\ a = S * (a \div S) + (a % S)
OBVIOUS

LEMMA FirstSlots ==
    ASSUME NEW S \in Nat \ {0}
    PROVE  S % S = 0 /\ \A r \in 0 .. S - 1 : r % S = r
OBVIOUS

LEMMA Distributes == ASSUME NEW x \in Int, NEW y \in Int, NEW z \in Int PROVE x * (y - z) = x * y - x * z
OBVIOUS

\* Numbers less than Size apart have the distance of their slots, modulo Size.
LEMMA SlotDistance ==
    ASSUME NEW S \in Nat \ {0}, NEW a \in Nat, NEW b \in Nat, b <= a, a - b < S
    PROVE  \/ (a % S) - (b % S) = a - b
           \/ (a % S) - (b % S) = a - b - S
<1> DEFINE qa == a \div S
           qb == b \div S
           ra == a % S
           rb == b % S
<1>1. qa \in Nat /\ qb \in Nat /\ a = S * qa + ra /\ b = S * qb + rb
  <2>1. qa \in Nat /\ a = S * qa + ra
    BY SlotDivision
  <2>2. qb \in Nat /\ b = S * qb + rb
    BY SlotDivision
  <2> QED
    BY <2>1, <2>2
<1>2. ra \in 0 .. S - 1 /\ rb \in 0 .. S - 1
  BY SlotRange
<1> HIDE DEF qa, qb, ra, rb
<1>3. PICK d \in Int : d = qa - qb
  BY <1>1
<1>4. S * d = S * qa - S * qb
  BY <1>1, <1>3, Distributes
<1>5. a - b = S * d + (ra - rb)
  BY <1>1, <1>2, <1>4
<1>6. d < 2
  <2>1. d >= 2 => S * d >= 2 * S
    BY <1>3
  <2> QED
    BY <2>1, <1>2, <1>3, <1>5
<1>7. d > -1
  <2>1. d <= -1 => S * d <= -S
    BY <1>3
  <2> QED
    BY <2>1, <1>2, <1>3, <1>5
<1>8. (d = 0 => S * d = 0) /\ (d = 1 => S * d = S)
  OBVIOUS
<1> QED
  BY <1>2, <1>3, <1>5, <1>6, <1>7, <1>8 DEF ra, rb

\* Those numbers have slots of their own.
LEMMA SlotsDiffer ==
    ASSUME NEW S \in Nat \ {0}, NEW a \in Nat, NEW b \in Nat, b < a, a - b < S
    PROVE  a % S # b % S
<1> DEFINE ra == a % S
           rb == b % S
<1>1. ra \in 0 .. S - 1 /\ rb \in 0 .. S - 1
  BY SlotRange
<1>2. ra - rb = a - b \/ ra - rb = a - b - S
  <2>1. b <= a
    OBVIOUS
  <2> QED
    BY <2>1, SlotDistance
<1> HIDE DEF ra, rb
<1>3. ra # rb
  BY <1>1, <1>2
<1> QED
  BY <1>3 DEF ra, rb

\* The next number has the next slot.
LEMMA NextSlot ==
    ASSUME NEW S \in Nat \ {0}, NEW a \in Nat
    PROVE  ((a % S) + 1) % S = (a + 1) % S
<1> DEFINE r == a % S
           n == (a + 1) % S
<1>1. r \in 0 .. S - 1 /\ n \in 0 .. S - 1
  BY SlotRange
<1>2. CASE S = 1
  BY <1>1, <1>2, FirstSlots
<1>3. CASE S > 1
  <2>1. n - r = 1 \/ n - r = 1 - S
    <3>1. a + 1 \in Nat /\ a <= a + 1 /\ (a + 1) - a = 1
      OBVIOUS
    <3>2. n - r = (a + 1) - a \/ n - r = (a + 1) - a - S
      BY <1>3, <3>1, SlotDistance
    <3> QED
      BY <3>1, <3>2
  <2>2. r + 1 \in 0 .. S - 1 \/ r + 1 = S
    BY <1>1
  <2>3. (r + 1 \in 0 .. S - 1 => (r + 1) % S = r + 1) /\ S % S = 0
    BY FirstSlots
  <2>4. (r + 1) % S = n
    <3> HIDE DEF r, n
    <3>1. CASE r + 1 \in 0 .. S - 1
      BY <1>1, <2>1, <2>3, <3>1
    <3>2. CASE r + 1 = S
      BY <1>1, <2>1, <2>3, <3>2
    <3> QED
      BY <2>2, <3>1, <3>2
  <2> QED
    BY <2>4
<1> QED
  BY <1>1, <1>2, <1>3

-----------------------------------------------------------------------------
(* The invariants. *)

Count(b) == IF b THEN 1 ELSE 0

\* The first query that is still in the ring.
First == workerJob + Count(wpc \in Db!Busy)

\* Tokens are the queries that are signalled and not taken; the last one of
\* each thread is the end.
Counts ==
    /\ numBackup + backupJob + Count(bpc # "wait")
           = inserted - Count(dbMain = "signal") + Count(dbMain \in {"closing", "closed"})
    /\ numWorker + workerJob + Count(wpc \notin {"top", "wait"})
           = backupJob + Count(bpc = "exit")
    /\ dbMain = "signal" => inserted > 0

Pace ==
    /\ workerJob <= backupJob /\ backupJob <= inserted
    /\ inserted - workerJob <= Backlog
    /\ bpc \in {"exec", "signal"} => backupJob < inserted /\ backupQ = backupJob
    /\ wpc \in Db!Busy => workerJob < backupJob /\ workerQ = workerJob
    /\ bpc \in {"leave", "exit"} => backupJob = inserted /\ dbMain \in {"closing", "closed"}
    /\ wpc \in {"leave", "exit"} => workerJob = inserted /\ bpc = "exit"

Slotted ==
    /\ insertIdx = inserted % Size
    /\ \A q \in Nat : First <= q /\ q < inserted => ring[q % Size] = q
    /\ \A i \in Db!Slots : ring[i] # None =>
           First <= ring[i] /\ ring[i] < inserted /\ i = ring[i] % Size

Answered ==
    /\ \A q \in Db!Queries : result[q] \in {"ok", "failed"} <=> q < workerJob
    /\ \A q \in writes : q < inserted
    /\ wpc \in {"write", "settle"} => workerQ \in writes
    /\ wpc = "read" => workerQ \notin writes
    /\ wpc = "leave" => workerQ = None

OrderInv == Db!TypeOK /\ Counts /\ Pace /\ Slotted /\ Answered

\* What the remote database has said of the write that is being settled is
\* true.
Stored == wpc = "settle" /\ success => workerQ \in remote

RowInv == Db!RowsKept /\ Stored

\* The backup has stored nothing that the worker has not left to it.
ReportInv ==
    /\ \A q \in backed : q < backupJob \/ (bpc = "signal" /\ q = backupJob)
    /\ wpc = "settle" => hasBackup
    /\ wpc = "publish" /\ success /\ workerQ \in writes /\ (hasBackup => workerQ \in backed)
           => workerQ \in remote \cup kept
    /\ Db!OkIsStored

-----------------------------------------------------------------------------
(* Rows. *)

LEMMA RowInit == Db!Init => RowInv
BY DEF Db!Init, RowInv, Db!RowsKept, Stored

\* BACKUP_FIRST puts a row where it belongs, the worker removes one from
\* race_backup only when it is in race as well, or in the remote database.
LEMMA RowStep == RowInv /\ [Db!Next]_Db!vars => RowInv'
<1> SUFFICES ASSUME RowInv, [Db!Next]_Db!vars PROVE RowInv'
  OBVIOUS
<1> USE DEF RowInv, Db!RowsKept, Stored
<1>1. ASSUME NEW ok \in BOOLEAN, Db!BackupExec(ok) PROVE RowInv'
  BY <1>1 DEF Db!BackupExec, Db!workerVars
<1>2. ASSUME NEW a \in BOOLEAN, NEW b \in BOOLEAN, Db!WorkerWrite(a, b) PROVE RowInv'
  BY <1>2 DEF Db!WorkerWrite
<1>3. ASSUME NEW a \in BOOLEAN, NEW b \in BOOLEAN, Db!SettleFailed(a, b) PROVE RowInv'
  BY <1>3 DEF Db!SettleFailed
<1>4. ASSUME NEW deleted \in BOOLEAN, Db!SettleDone(deleted) PROVE RowInv'
  BY <1>4 DEF Db!SettleDone
<1>5. CASE UNCHANGED Db!tables /\ (wpc' = "settle" => UNCHANGED <<wpc, success, workerQ>>)
  BY <1>5 DEF Db!tables
<1>6. CASE Db!Main \/ Db!Closing \/ Db!BackupTake \/ Db!BackupLeave \/ Db!BackupSignal \/ UNCHANGED Db!vars
  BY <1>5, <1>6 DEF Db!Main, Db!Insert, Db!BeginShutdown, Db!Closing, Db!SignalBackup, Db!SignalStop, Db!EndShutdown,
     Db!BackupTake, Db!BackupLeave, Db!BackupSignal, Db!vars, Db!workerVars
<1>7. CASE Db!WorkerTop \/ Db!WorkerTake \/ Db!WorkerLeave \/ Db!Publish \/ \E ok \in BOOLEAN : Db!WorkerRead(ok)
  BY <1>5, <1>7 DEF Db!WorkerTop, Db!WorkerTake, Db!WorkerLeave, Db!Publish, Db!WorkerRead
<1> QED
  BY <1>1, <1>2, <1>3, <1>4, <1>6, <1>7 DEF Db!Next, Db!Backup, Db!Worker

\* Whatever fails, and however many queries are inserted, a row that the backup
\* database has stored stays in one of the tables (connection_pool.cpp, the
\* comment on writes that are not to be lost).
THEOREM NoRowIsLost == Db!Spec => []RowsKept
<1>1. RowInv => Db!RowsKept
  BY DEF RowInv
<1> QED
  BY <1>1, RowInit, RowStep, PTL DEF Db!Spec, RowsKept

-----------------------------------------------------------------------------
(* Order. *)

LEMMA OrderInit == ASSUME Db!RoomInRing PROVE Db!Init => OrderInv
<1> SUFFICES ASSUME Db!Init PROVE OrderInv
  OBVIOUS
<1> USE DEF Db!Init
<1>1. 0 \in Db!Slots /\ 0 % Size = 0
  BY FirstSlots DEF Db!RoomInRing, Db!Slots
<1>2. Db!TypeOK
  <2>1. hasBackup \in BOOLEAN /\ dbDown \in BOOLEAN /\ failMode \in BOOLEAN /\ success \in BOOLEAN
    OBVIOUS
  <2>2. ring \in [Db!Slots -> Db!Queries \cup {None}] /\ result \in [Db!Queries -> {"none", "pending", "ok", "failed"}]
    OBVIOUS
  <2> QED
    BY <1>1, <2>1, <2>2 DEF Db!TypeOK, Db!RoomInRing, Db!Busy
<1>3. Counts /\ Pace
  BY DEF Counts, Pace, Count, Db!Busy, Db!RoomInRing
<1>4. Slotted
  BY <1>1 DEF Slotted, First, Count, Db!Busy
<1>5. Answered
  BY DEF Answered, Db!Queries, Db!RoomInRing
<1> QED
  BY <1>2, <1>3, <1>4, <1>5 DEF OrderInv

\* The slot of the next query is empty.
LEMMA NextSlotEmpty ==
    ASSUME Db!RoomInRing, OrderInv
    PROVE  inserted % Size \in Db!Slots /\ ring[inserted % Size] = None
<1> DEFINE i == inserted % Size
<1>1. i \in Db!Slots
  BY SlotRange DEF Db!RoomInRing, OrderInv, Db!TypeOK, Db!Slots
<1>2. SUFFICES ASSUME ring[i] # None PROVE FALSE
  BY <1>1
<1>3. First <= ring[i] /\ ring[i] < inserted /\ i = ring[i] % Size /\ ring[i] \in Nat
  BY <1>1, <1>2 DEF OrderInv, Slotted, Db!TypeOK, Db!Queries
<1>4. workerJob <= First /\ First \in Nat
  BY DEF First, Count, OrderInv, Db!TypeOK
<1>5. inserted - ring[i] < Size /\ inserted \in Nat /\ Size \in Nat \ {0}
  BY <1>3, <1>4 DEF OrderInv, Pace, Db!RoomInRing, Db!TypeOK
<1> QED
  BY <1>3, <1>5, SlotsDiffer

LEMMA InsertOrder ==
    ASSUME Db!RoomInRing, OrderInv, NEW isWrite \in BOOLEAN, Db!Insert(isWrite)
    PROVE  OrderInv'
<1>1. insertIdx = inserted % Size /\ insertIdx \in Db!Slots /\ ring[insertIdx] = None
  BY NextSlotEmpty DEF OrderInv, Slotted
<1>2. /\ inserted \in Nat /\ inserted \in Db!Queries /\ inserted' = inserted + 1 /\ Size \in Nat \ {0}
      /\ workerJob \in Nat /\ backupJob \in Nat
  BY DEF Db!Insert, OrderInv, Db!TypeOK, Db!Queries, Db!RoomInRing
<1>3. insertIdx' = inserted' % Size /\ insertIdx' \in Db!Slots
  <2>1. insertIdx' = ((inserted % Size) + 1) % Size
    BY <1>1 DEF Db!Insert
  <2>2. ((inserted % Size) + 1) % Size = (inserted + 1) % Size
    BY <1>2, NextSlot
  <2>3. (inserted + 1) % Size \in 0 .. Size - 1
    BY <1>2, SlotRange
  <2> QED
    BY <1>2, <2>1, <2>2, <2>3 DEF Db!Slots
<1>4. Db!TypeOK'
  BY <1>1, <1>2, <1>3 DEF Db!Insert, OrderInv, Db!TypeOK, Db!Queries, Db!RoomInRing, Db!backupVars, Db!workerVars, Db!tables
<1>5. Counts'
  BY <1>2 DEF Db!Insert, OrderInv, Counts, Count, Db!TypeOK, Db!backupVars, Db!workerVars
<1>6. Pace'
  BY <1>2 DEF Db!Insert, OrderInv, Pace, Db!TypeOK, Db!RoomInRing, Db!backupVars, Db!workerVars
<1>7. First' = First /\ First <= inserted /\ First \in Nat /\ workerJob <= First
  BY <1>2 DEF Db!Insert, OrderInv, Pace, First, Count, Db!workerVars
<1>8. Slotted'
  <2>1. ring' = [ring EXCEPT ![insertIdx] = inserted]
    BY DEF Db!Insert
  <2>2. ASSUME NEW q \in Nat, First <= q, q < inserted PROVE ring'[q % Size] = q
    <3>1. ring[q % Size] = q /\ inserted - q < Size
      BY <2>2, <1>2, <1>7 DEF OrderInv, Slotted, Pace, Db!RoomInRing
    <3>2. q % Size # insertIdx
      BY <1>1, <1>2, <2>2, <3>1, SlotsDiffer
    <3>3. q % Size \in Db!Slots /\ ring \in [Db!Slots -> Db!Queries \cup {None}]
      BY <1>2, SlotRange DEF Db!Slots, OrderInv, Db!TypeOK
    <3> QED
      BY <2>1, <3>1, <3>2, <3>3
  <2>3. ring'[inserted % Size] = inserted
    BY <1>1, <2>1 DEF OrderInv, Db!TypeOK
  <2>4. ASSUME NEW i \in Db!Slots, ring'[i] # None
        PROVE  First <= ring'[i] /\ ring'[i] < inserted' /\ i = ring'[i] % Size
    BY <1>1, <1>2, <1>7, <2>1, <2>4 DEF OrderInv, Slotted, Db!TypeOK, Db!Queries
  <2> QED
    BY <1>2, <1>3, <1>7, <2>2, <2>3, <2>4 DEF Slotted
<1>9. Answered'
  BY <1>2 DEF Db!Insert, OrderInv, Answered, Pace, Db!TypeOK, Db!Queries, Db!workerVars, Db!Busy
<1> QED
  BY <1>4, <1>5, <1>6, <1>8, <1>9 DEF OrderInv

LEMMA BackupTakeOrder ==
    ASSUME Db!RoomInRing, OrderInv, Db!BackupTake
    PROVE  OrderInv'
<1>1. backupJob % Size \in Db!Slots /\ backupJob \in Nat /\ inserted \in Nat /\ workerJob \in Nat
  BY SlotRange DEF Db!RoomInRing, OrderInv, Db!TypeOK, Db!Slots
<1>2. First <= backupJob
  BY <1>1 DEF First, Count, OrderInv, Pace
<1>3. backupJob < inserted => ring[backupJob % Size] = backupJob
  BY <1>1, <1>2 DEF OrderInv, Slotted
<1>4. ~(backupJob < inserted) => ring[backupJob % Size] = None /\ backupJob = inserted
  BY <1>1, NextSlotEmpty DEF OrderInv, Pace
<1>5. backupJob = inserted => dbMain \in {"closing", "closed"}
  BY <1>1 DEF Db!BackupTake, OrderInv, Counts, Count, Db!TypeOK
<1>6. \/ backupJob < inserted /\ backupQ' = backupJob /\ bpc' = "exec"
      \/ backupJob = inserted /\ bpc' = "leave" /\ backupQ' = None
  BY <1>1, <1>3, <1>4 DEF Db!BackupTake, Db!RoomInRing
<1>7. Db!TypeOK'
  BY <1>1, <1>6 DEF Db!BackupTake, OrderInv, Db!TypeOK, Db!Queries, Db!mainVars, Db!workerVars, Db!tables
<1>8. Counts'
  BY <1>1, <1>6 DEF Db!BackupTake, OrderInv, Db!TypeOK, Counts, Count, Db!mainVars, Db!workerVars
<1>9. Pace'
  BY <1>1, <1>5, <1>6 DEF Db!BackupTake, OrderInv, Pace, Db!mainVars, Db!workerVars
<1>10. Slotted' /\ Answered'
  BY DEF Db!BackupTake, OrderInv, Slotted, Answered, First, Count, Db!mainVars, Db!workerVars
<1> QED
  BY <1>7, <1>8, <1>9, <1>10 DEF OrderInv

LEMMA WorkerTakeOrder ==
    ASSUME Db!RoomInRing, OrderInv, Db!WorkerTake
    PROVE  OrderInv'
<1> DEFINE i == workerJob % Size
<1>1. /\ i \in Db!Slots /\ backupJob \in Nat /\ inserted \in Nat /\ workerJob \in Nat
      /\ Size \in Nat \ {0}
  BY SlotRange DEF Db!RoomInRing, OrderInv, Db!TypeOK, Db!Slots
<1>2. First = workerJob
  BY <1>1 DEF First, Count, Db!Busy, Db!WorkerTake
<1>3. workerJob < inserted => ring[i] = workerJob
  BY <1>1, <1>2 DEF OrderInv, Slotted
<1>4. ~(workerJob < inserted) => ring[i] = None /\ workerJob = inserted
  BY <1>1, NextSlotEmpty DEF OrderInv, Pace
<1>5. workerJob < backupJob \/ (bpc = "exit" /\ workerJob = inserted)
  BY <1>1 DEF Db!WorkerTake, OrderInv, Counts, Count, Pace, Db!TypeOK
<1>6. \/ workerJob < backupJob /\ workerQ' = workerJob
         /\ wpc' = IF workerJob \in writes THEN "write" ELSE "read"
      \/ workerJob = inserted /\ wpc' = "leave" /\ workerQ' = None /\ bpc = "exit"
  <2>1. workerJob < backupJob => workerJob < inserted
    BY <1>1 DEF OrderInv, Pace
  <2> HIDE DEF i
  <2>2. workerQ' = ring[i] /\ wpc' = IF ring[i] = None THEN "leave" ELSE IF ring[i] \in writes THEN "write" ELSE "read"
    BY DEF Db!WorkerTake, i
  <2> QED
    BY <1>1, <1>3, <1>4, <1>5, <2>1, <2>2 DEF Db!RoomInRing
<1>7. ring' = [ring EXCEPT ![i] = None]
  BY DEF Db!WorkerTake
<1> HIDE DEF i
<1>8. workerJob < backupJob => workerJob \in Db!Queries
  BY <1>1 DEF OrderInv, Pace, Db!TypeOK, Db!Queries, Db!RoomInRing
<1>9. Db!TypeOK'
  <2>1. UNCHANGED <<hasBackup, numBackup, dbDown, Db!mainVars, Db!backupVars, workerJob, failMode, Db!tables, result>>
    BY DEF Db!WorkerTake
  <2>2. success' \in BOOLEAN /\ numWorker' \in Nat
    <3>1. success' = FALSE /\ numWorker > 0 /\ numWorker' = numWorker - 1
      BY DEF Db!WorkerTake
    <3>2. success' \in BOOLEAN
      BY <3>1, Zenon
    <3>3. numWorker' \in Nat
      BY <3>1 DEF OrderInv, Db!TypeOK
    <3> QED
      BY <3>2, <3>3
  <2>3. ring' \in [Db!Slots -> Db!Queries \cup {None}]
    BY <1>7 DEF OrderInv, Db!TypeOK
  <2>4. workerQ' \in Db!Queries \cup {None} /\ wpc' \in {"top", "wait", "leave", "exit"} \cup Db!Busy
    BY <1>6, <1>8 DEF Db!Busy
  <2> QED
    BY <2>1, <2>2, <2>3, <2>4 DEF OrderInv, Db!TypeOK, Db!mainVars, Db!backupVars, Db!tables
<1>10. Counts'
  BY <1>1, <1>6 DEF Db!WorkerTake, OrderInv, Db!TypeOK, Counts, Count, Db!mainVars, Db!backupVars
<1>11. Pace'
  BY <1>1, <1>6 DEF Db!WorkerTake, OrderInv, Pace, Db!mainVars, Db!backupVars, Db!Busy
<1>12. Slotted'
  <2>1. First' = workerJob + Count(workerJob < backupJob)
    BY <1>1, <1>5, <1>6 DEF First, Count, Db!Busy, OrderInv, Pace, Db!WorkerTake
  <2>2. UNCHANGED <<inserted, insertIdx>>
    BY DEF Db!WorkerTake, Db!mainVars
  <2>3. workerJob <= First' /\ First' \in Nat
    BY <1>1, <2>1 DEF Count
  <2>4. ASSUME NEW q \in Nat, First' <= q, q < inserted PROVE ring'[q % Size] = q
    <3>1. workerJob < q
      BY <1>1, <1>5, <2>1, <2>4 DEF Count
    <3>2. ring[q % Size] = q /\ q - workerJob < Size
      BY <1>1, <1>2, <2>4, <3>1 DEF OrderInv, Slotted, Pace, Db!RoomInRing
    <3>3. q % Size # i
      BY <1>1, <3>1, <3>2, SlotsDiffer DEF i
    <3>4. q % Size \in Db!Slots /\ ring \in [Db!Slots -> Db!Queries \cup {None}]
      BY <1>1, SlotRange DEF Db!Slots, OrderInv, Db!TypeOK
    <3> QED
      BY <1>7, <3>2, <3>3, <3>4
  <2>5. ASSUME NEW k \in Db!Slots, ring'[k] # None
        PROVE  First' <= ring'[k] /\ ring'[k] < inserted /\ k = ring'[k] % Size
    <3>1. k # i /\ ring'[k] = ring[k] /\ ring[k] \in Nat
      BY <1>1, <1>7, <2>5 DEF OrderInv, Db!TypeOK, Db!Queries
    <3>2. First <= ring[k] /\ ring[k] < inserted /\ k = ring[k] % Size
      BY <2>5, <3>1 DEF OrderInv, Slotted
    <3>3. ring[k] # workerJob
      BY <3>1, <3>2 DEF i
    <3> QED
      BY <1>1, <1>2, <2>1, <3>1, <3>2, <3>3 DEF Count
  <2>6. insertIdx = inserted % Size
    BY DEF OrderInv, Slotted
  <2> QED
    BY <2>2, <2>4, <2>5, <2>6 DEF Slotted
<1>13. Answered'
  BY <1>1, <1>6 DEF Db!WorkerTake, OrderInv, Answered, Db!mainVars, Db!backupVars
<1> QED
  BY <1>9, <1>10, <1>11, <1>12, <1>13 DEF OrderInv

LEMMA PublishOrder ==
    ASSUME Db!RoomInRing, OrderInv, Db!Publish
    PROVE  OrderInv'
<1>1. /\ workerQ = workerJob /\ workerJob \in Nat /\ workerJob < backupJob
      /\ backupJob \in Nat /\ inserted \in Nat /\ wpc = "publish" /\ wpc' = "top"
      /\ workerJob' = workerJob + 1 /\ workerQ' = workerQ
  BY DEF Db!Publish, OrderInv, Pace, Db!TypeOK, Db!Busy
<1>2. Db!TypeOK'
  <2>1. UNCHANGED <<hasBackup, ring, numBackup, numWorker, dbDown, Db!mainVars, Db!backupVars, workerQ, failMode, success, Db!tables>>
    BY DEF Db!Publish
  <2>2. result' \in [Db!Queries -> {"none", "pending", "ok", "failed"}]
    BY DEF Db!Publish, OrderInv, Db!TypeOK
  <2> QED
    BY <1>1, <2>1, <2>2 DEF OrderInv, Db!TypeOK, Db!mainVars, Db!backupVars, Db!tables
<1>3. Counts'
  BY <1>1 DEF Db!Publish, OrderInv, Counts, Count, Db!TypeOK, Db!mainVars, Db!backupVars
<1>4. Pace'
  BY <1>1 DEF Db!Publish, OrderInv, Pace, Db!TypeOK, Db!RoomInRing, Db!mainVars, Db!backupVars, Db!Busy
<1>5. First' = First
  BY <1>1 DEF First, Count, Db!Busy
<1>6. Slotted'
  BY <1>5 DEF Db!Publish, OrderInv, Slotted, Db!mainVars
<1>7. Answered'
  BY <1>1 DEF Db!Publish, OrderInv, Answered, Db!TypeOK, Db!Queries, Db!mainVars
<1> QED
  BY <1>2, <1>3, <1>4, <1>6, <1>7 DEF OrderInv

\* The other steps of the worker leave the ring and the semaphores alone.
LEMMA WorkerOrder ==
    ASSUME Db!RoomInRing, OrderInv,
           \/ Db!WorkerTop \/ Db!WorkerLeave \/ \E ok \in BOOLEAN : Db!WorkerRead(ok)
           \/ \E a, b \in BOOLEAN : Db!WorkerWrite(a, b) \/ Db!SettleFailed(a, b)
           \/ \E deleted \in BOOLEAN : Db!SettleDone(deleted)
    PROVE  OrderInv'
<1> USE DEF Db!WorkerTop, Db!WorkerLeave, Db!WorkerRead, Db!WorkerWrite, Db!SettleFailed, Db!SettleDone
<1>1. /\ UNCHANGED <<hasBackup, ring, numBackup, numWorker, Db!mainVars, Db!backupVars, workerJob, workerQ,
                     backed, result>>
      /\ \/ wpc = "top" /\ wpc' = "wait"
         \/ wpc = "leave" /\ wpc' = "exit"
         \/ wpc = "read" /\ wpc' = "publish"
         \/ wpc = "write" /\ wpc' \in {"settle", "publish"}
         \/ wpc = "settle" /\ wpc' = "publish"
  BY DEF Db!tables
<1>2. wpc = "write" => workerQ \in writes
  BY DEF OrderInv, Answered
<1>3. /\ remote' \subseteq writes /\ tmp' \subseteq writes /\ kept' \subseteq writes
      /\ failMode' \in BOOLEAN /\ success' \in BOOLEAN /\ dbDown' \in BOOLEAN
  BY <1>2 DEF OrderInv, Db!TypeOK, Db!tables
<1> DEFINE others == <<hasBackup, ring, numBackup, numWorker, Db!mainVars, Db!backupVars, workerJob, workerQ,
                     backed, result>>
<1>4. Db!TypeOK'
  BY <1>1, <1>3 DEF OrderInv, Db!TypeOK, Db!mainVars, Db!backupVars, Db!Busy
<1>5. Counts' /\ Pace'
  BY <1>1 DEF OrderInv, Counts, Count, Pace, Db!mainVars, Db!backupVars, Db!Busy
<1>6. Slotted'
  BY <1>1 DEF OrderInv, Slotted, First, Count, Db!mainVars, Db!Busy
<1>7. Answered'
  BY <1>1 DEF OrderInv, Answered, Db!mainVars
<1> QED
  BY <1>4, <1>5, <1>6, <1>7 DEF OrderInv

LEMMA BackupOrder ==
    ASSUME Db!RoomInRing, OrderInv, Db!BackupLeave \/ Db!BackupSignal \/ \E ok \in BOOLEAN : Db!BackupExec(ok)
    PROVE  OrderInv'
<1> USE DEF Db!BackupLeave, Db!BackupSignal, Db!BackupExec
<1>1. UNCHANGED <<ring, dbDown, Db!mainVars, Db!workerVars, result, numBackup, backupQ, hasBackup, remote, kept>>
  BY DEF Db!tables
<1>2. \/ bpc = "leave" /\ bpc' = "exit" /\ numWorker' = numWorker + 1 /\ backupJob' = backupJob
      \/ bpc = "signal" /\ bpc' = "wait" /\ numWorker' = numWorker + 1 /\ backupJob' = backupJob + 1
      \/ bpc = "exec" /\ bpc' = "signal" /\ numWorker' = numWorker /\ backupJob' = backupJob
  OBVIOUS
<1>3. tmp' \subseteq writes /\ backed' \subseteq writes
  BY DEF OrderInv, Db!TypeOK, Db!tables
<1>4. Db!TypeOK'
  BY <1>1, <1>2, <1>3 DEF OrderInv, Db!TypeOK, Db!mainVars, Db!workerVars
<1>5. Counts'
  BY <1>1, <1>2 DEF OrderInv, Db!TypeOK, Counts, Count, Db!mainVars, Db!workerVars
<1>6. Pace'
  BY <1>1, <1>2 DEF OrderInv, Db!TypeOK, Pace, Db!mainVars, Db!workerVars
<1>7. Slotted' /\ Answered'
  BY <1>1 DEF OrderInv, Slotted, Answered, First, Db!mainVars, Db!workerVars
<1> QED
  BY <1>4, <1>5, <1>6, <1>7 DEF OrderInv

LEMMA MainOrder ==
    ASSUME Db!RoomInRing, OrderInv, Db!BeginShutdown \/ Db!Closing
    PROVE  OrderInv'
<1> USE DEF Db!BeginShutdown, Db!Closing, Db!SignalBackup, Db!SignalStop, Db!EndShutdown
<1>1. UNCHANGED <<ring, insertIdx, inserted, writes, numWorker, Db!backupVars, Db!workerVars, Db!tables, result, hasBackup>>
  BY DEF Db!mainVars
<1>2. \/ dbMain = "idle" /\ dbMain' = "stop" /\ numBackup' = numBackup
      \/ dbMain = "signal" /\ dbMain' = "idle" /\ numBackup' = numBackup + 1
      \/ dbMain = "stop" /\ dbMain' = "closing" /\ numBackup' = numBackup + 1
      \/ dbMain = "closing" /\ dbMain' = "closed" /\ numBackup' = numBackup
  BY DEF Db!mainVars
<1>3. Db!TypeOK'
  <2>1. dbDown' \in BOOLEAN
    BY DEF OrderInv, Db!TypeOK
  <2> QED
    BY <1>1, <1>2, <2>1 DEF OrderInv, Db!TypeOK, Db!backupVars, Db!workerVars, Db!tables
<1>4. Counts'
  BY <1>1, <1>2 DEF OrderInv, Db!TypeOK, Counts, Count, Db!backupVars, Db!workerVars
<1>5. Pace'
  BY <1>1, <1>2 DEF OrderInv, Db!TypeOK, Pace, Db!backupVars, Db!workerVars
<1>6. Slotted' /\ Answered'
  BY <1>1 DEF OrderInv, Slotted, Answered, First, Db!workerVars
<1> QED
  BY <1>3, <1>4, <1>5, <1>6 DEF OrderInv

LEMMA OrderStep == ASSUME Db!RoomInRing PROVE OrderInv /\ [Db!Next]_Db!vars => OrderInv'
<1> SUFFICES ASSUME OrderInv, [Db!Next]_Db!vars PROVE OrderInv'
  OBVIOUS
<1>1. CASE UNCHANGED Db!vars
  BY <1>1 DEF Db!vars, Db!mainVars, Db!backupVars, Db!workerVars, Db!tables, OrderInv, Db!TypeOK, Counts, Pace, Slotted,
     First, Answered
<1>2. CASE Db!Main
  BY <1>2, InsertOrder, MainOrder DEF Db!Main
<1>3. CASE Db!Closing
  BY <1>3, MainOrder
<1>4. CASE Db!Backup
  BY <1>4, BackupTakeOrder, BackupOrder DEF Db!Backup
<1>5. CASE Db!Worker
  BY <1>5, WorkerTakeOrder, PublishOrder, WorkerOrder DEF Db!Worker
<1> QED
  BY <1>1, <1>2, <1>3, <1>4, <1>5 DEF Db!Next

-----------------------------------------------------------------------------
(* Reports. *)

LEMMA ReportInit == Db!Init => ReportInv
BY DEF Db!Init, ReportInv, Db!OkIsStored

LEMMA ReportStep == ASSUME Db!RoomInRing PROVE RowInv /\ OrderInv /\ ReportInv /\ [Db!Next]_Db!vars => ReportInv'
<1> SUFFICES ASSUME RowInv, OrderInv, ReportInv, [Db!Next]_Db!vars PROVE ReportInv'
  OBVIOUS
<1>1. /\ workerJob \in Nat /\ backupJob \in Nat /\ inserted \in Nat
      /\ workerJob <= backupJob
      /\ wpc \in Db!Busy => workerJob < backupJob /\ workerQ = workerJob
      /\ bpc \in {"exec", "signal"} => backupQ = backupJob
      /\ \A q \in Db!Queries : result[q] \in {"ok", "failed"} <=> q < workerJob
      /\ result \in [Db!Queries -> {"none", "pending", "ok", "failed"}]
      /\ writes \subseteq Db!Queries /\ backed \subseteq writes /\ \A q \in writes : q < inserted
  BY DEF OrderInv, Db!TypeOK, Pace, Answered
<1>2. ASSUME NEW isWrite \in BOOLEAN, Db!Insert(isWrite) PROVE ReportInv'
  <2>1. result' = [result EXCEPT ![inserted] = "pending"]
    BY <1>2 DEF Db!Insert
  <2>2. /\ UNCHANGED <<hasBackup, Db!backupVars, Db!workerVars, Db!tables>>
        /\ writes' \subseteq writes \cup {inserted}
    BY <1>2 DEF Db!Insert
  <2>3. ASSUME NEW q \in writes', result'[q] = "ok", hasBackup => q \in backed
        PROVE  q \in remote \cup kept
    <3>1. inserted \in Db!Queries
      BY <1>1, <1>2 DEF Db!Insert, Db!RoomInRing, Db!Queries
    <3>2. q # inserted /\ q \in writes
      BY <1>1, <2>1, <2>2, <2>3, <3>1
    <3>3. result[q] = "ok"
      BY <1>1, <2>1, <2>3, <3>2
    <3> QED
      BY <2>3, <3>2, <3>3 DEF ReportInv, Db!OkIsStored
  <2>4. Db!OkIsStored'
    BY <2>2, <2>3 DEF Db!OkIsStored, Db!tables
  <2>5. wpc = "publish" => (workerQ \in writes' => workerQ \in writes)
    BY <1>1, <2>2 DEF OrderInv, Pace, Db!Busy
  <2> QED
    BY <2>2, <2>4, <2>5 DEF ReportInv, Db!backupVars, Db!workerVars, Db!tables
<1>3. ASSUME NEW ok \in BOOLEAN, Db!BackupExec(ok) PROVE ReportInv'
  <2>1. /\ bpc = "exec" /\ bpc' = "signal" /\ backed' \subseteq backed \cup {backupJob}
        /\ UNCHANGED <<hasBackup, Db!mainVars, Db!workerVars, remote, kept, result, backupJob>>
    BY <1>1, <1>3 DEF Db!BackupExec
  <2>2. ASSUME NEW q \in writes, result[q] = "ok", hasBackup => q \in backed'
        PROVE  hasBackup => q \in backed
    BY <1>1, <2>1, <2>2
  <2>3. Db!OkIsStored'
    BY <2>1, <2>2 DEF ReportInv, Db!OkIsStored, Db!mainVars
  <2>4. wpc = "publish" => (workerQ \in backed' => workerQ \in backed)
    BY <1>1, <2>1 DEF Db!Busy
  <2> QED
    BY <1>1, <2>1, <2>3, <2>4 DEF ReportInv, Db!mainVars, Db!workerVars
<1>4. ASSUME NEW a \in BOOLEAN, NEW b \in BOOLEAN, Db!WorkerWrite(a, b) PROVE ReportInv'
  <2>1. /\ wpc = "write" /\ wpc' = (IF hasBackup THEN "settle" ELSE "publish")
        /\ remote \subseteq remote' /\ (success' => workerQ \in remote')
        /\ UNCHANGED <<hasBackup, Db!mainVars, Db!backupVars, workerQ, kept, backed, result>>
    BY <1>4 DEF Db!WorkerWrite
  <2> QED
    BY <2>1 DEF ReportInv, Db!OkIsStored, Db!mainVars, Db!backupVars
<1>5. ASSUME NEW a \in BOOLEAN, NEW b \in BOOLEAN, Db!SettleFailed(a, b) PROVE ReportInv'
  <2>1. /\ wpc = "settle" /\ wpc' = "publish" /\ hasBackup
        /\ kept \subseteq kept' /\ (success' => tmp \cap {workerQ} \subseteq kept')
        /\ UNCHANGED <<hasBackup, Db!mainVars, Db!backupVars, workerQ, remote, backed, result>>
    BY <1>5 DEF Db!SettleFailed, ReportInv
  <2>2. workerQ \in backed /\ success' => workerQ \in remote \cup kept'
    BY <2>1 DEF RowInv, Db!RowsKept
  <2> QED
    BY <2>1, <2>2 DEF ReportInv, Db!OkIsStored, Db!mainVars, Db!backupVars
<1>6. ASSUME NEW deleted \in BOOLEAN, Db!SettleDone(deleted) PROVE ReportInv'
  <2>1. /\ wpc = "settle" /\ wpc' = "publish" /\ workerQ \in remote
        /\ UNCHANGED <<hasBackup, Db!mainVars, Db!backupVars, workerQ, remote, kept, backed, result>>
    BY <1>6 DEF Db!SettleDone, RowInv, Stored
  <2> QED
    BY <2>1 DEF ReportInv, Db!OkIsStored, Db!mainVars, Db!backupVars
<1>7. CASE Db!Publish
  <2>1. /\ wpc = "publish" /\ wpc' = "top" /\ workerQ \in Db!Queries
        /\ result' = [result EXCEPT ![workerQ] = IF success THEN "ok" ELSE "failed"]
        /\ UNCHANGED <<hasBackup, Db!mainVars, Db!backupVars, Db!tables>>
    <3>1. workerQ \in Db!Queries
      <4>1. workerQ = workerJob /\ workerJob < inserted /\ inserted <= MaxQueries
        BY <1>7, <1>1 DEF Db!Publish, OrderInv, Db!TypeOK, Pace, Db!Busy, Db!RoomInRing
      <4> QED
        BY <1>1, <4>1 DEF Db!Queries, Db!RoomInRing
    <3> QED
      BY <1>7, <3>1 DEF Db!Publish
  <2>2. Db!OkIsStored'
    BY <1>1, <2>1 DEF ReportInv, Db!OkIsStored, Db!mainVars, Db!tables
  <2> QED
    BY <2>1, <2>2 DEF ReportInv, Db!mainVars, Db!backupVars, Db!tables
<1>8. ASSUME NEW ok \in BOOLEAN, Db!WorkerRead(ok) PROVE ReportInv'
  <2>1. workerQ \notin writes
    BY <1>8 DEF Db!WorkerRead, OrderInv, Answered
  <2> QED
    <3>1. wpc' = "publish" /\ UNCHANGED <<hasBackup, Db!mainVars, Db!backupVars, workerQ, Db!tables, result>>
      BY <1>8 DEF Db!WorkerRead
    <3> QED
      BY <2>1, <3>1 DEF ReportInv, Db!OkIsStored, Db!mainVars, Db!backupVars, Db!tables
<1>9. CASE Db!BackupSignal
  <2>1. /\ bpc = "signal" /\ bpc' = "wait" /\ backupJob' = backupJob + 1
        /\ UNCHANGED <<hasBackup, Db!mainVars, Db!workerVars, Db!tables, result>>
    BY <1>9 DEF Db!BackupSignal
  <2>2. \A q \in backed : q \in Nat
    BY <1>1 DEF Db!Queries
  <2>3. \A q \in backed : q < backupJob + 1
    BY <1>1, <2>1, <2>2 DEF ReportInv
  <2> QED
    BY <2>1, <2>3 DEF ReportInv, Db!OkIsStored, Db!mainVars, Db!workerVars, Db!tables
<1>10. CASE Db!BackupTake \/ Db!BackupLeave
  BY <1>1, <1>10 DEF Db!BackupTake, Db!BackupLeave, ReportInv, Db!OkIsStored, Db!mainVars, Db!workerVars, Db!tables
<1>11. CASE Db!WorkerTop \/ Db!WorkerTake \/ Db!WorkerLeave
  BY <1>11 DEF Db!WorkerTop, Db!WorkerTake, Db!WorkerLeave, ReportInv, Db!OkIsStored, Db!mainVars, Db!backupVars, Db!tables
<1>12. CASE Db!BeginShutdown \/ Db!Closing \/ UNCHANGED Db!vars
  BY <1>12 DEF Db!BeginShutdown, Db!Closing, Db!SignalBackup, Db!SignalStop, Db!EndShutdown, Db!vars, ReportInv, Db!OkIsStored,
     Db!mainVars, Db!backupVars, Db!workerVars, Db!tables
<1> QED
  BY <1>2, <1>3, <1>4, <1>5, <1>6, <1>7, <1>8, <1>9, <1>10, <1>11, <1>12 DEF Db!Next, Db!Main, Db!Backup, Db!Worker

-----------------------------------------------------------------------------
\* As long as the ring has room, every variable has its type and the counts of
\* the semaphores are those of the queries.
THEOREM Ordered == Db!Spec => []OrderInv
BY DbAssumption, OrderInit, OrderStep, PTL DEF Db!Spec

\* ... both threads take the queries of connection_pool.cpp in their order, the
\* backup thread first, and each query is answered once.
THEOREM TakenInOrder == Db!Spec => []InOrder
<1>1. OrderInv => Db!InOrder
  BY DEF OrderInv, Db!InOrder, Pace, Answered
<1> QED
  BY <1>1, Ordered, PTL DEF InOrder

\* ... "work through all database jobs after OnShutdown is called before exiting
\* the thread" is true: the overrun that db_overrun shows is the only way to
\* leave a query unanswered.
THEOREM NoQueryIsLeft == Db!Spec => []Db!AllHandled
<1>1. OrderInv => Db!AllHandled
  BY DEF OrderInv, Db!AllHandled, Pace, Answered
<1> QED
  BY <1>1, Ordered, PTL

\* ... and a write reported as a success is stored, if its backup was.
THEOREM ReportsAreTrue == Db!Spec => []OkIsStored
<1>1. ReportInv => Db!OkIsStored
  BY DEF ReportInv
<1> QED
  BY <1>1, DbAssumption, ReportInit, ReportStep, RowInit, RowStep, OrderInit, OrderStep, PTL DEF Db!Spec, OkIsStored

-----------------------------------------------------------------------------
(* The HTTP client. *)

HttpStates == Http!Final \cup {"idle", "queued", "running"}

\* s holds each of its requests once.
Once(s) == \A i, j \in DOMAIN s : s[i] = s[j] => i = j

HttpTyped ==
    /\ pending \in Seq(Requests) /\ fresh \in Seq(Requests)
    /\ transfers \subseteq Requests
    /\ request \in [Requests -> HttpStates]
    /\ ended \in [Requests -> Http!Final \cup {Http!Unknown}]

HttpPlaced ==
    /\ loop # "start" => fresh = << >>
    /\ Once(pending) /\ Once(fresh)
    /\ Http!Elements(pending) \cap Http!Elements(fresh) = {}
    /\ \A r \in Requests :
           /\ r \in transfers <=> request[r] = "running"
           /\ r \in Http!Elements(pending) \cup Http!Elements(fresh) <=> request[r] = "queued"

HttpInv == HttpTyped /\ HttpPlaced

-----------------------------------------------------------------------------
LEMMA ElementsAppended ==
    ASSUME NEW S, NEW s \in Seq(S), NEW x \in S
    PROVE  /\ Append(s, x) \in Seq(S)
           /\ Http!Elements(Append(s, x)) = Http!Elements(s) \cup {x}
           /\ Once(s) /\ x \notin Http!Elements(s) => Once(Append(s, x))
<1> DEFINE t == Append(s, x)
<1>1. /\ t \in Seq(S) /\ DOMAIN t = DOMAIN s \cup {Len(s) + 1} /\ Len(s) + 1 \notin DOMAIN s
      /\ t[Len(s) + 1] = x /\ \A i \in DOMAIN s : t[i] = s[i]
  OBVIOUS
<1> HIDE DEF t
<1>2. Http!Elements(t) = Http!Elements(s) \cup {x}
  BY <1>1 DEF Http!Elements
<1>3. Once(s) /\ x \notin Http!Elements(s) => Once(t)
  BY <1>1 DEF Http!Elements, Once
<1> QED
  BY <1>1, <1>2, <1>3 DEF t

LEMMA ElementsOfTail ==
    ASSUME NEW S, NEW s \in Seq(S), s # << >>, Once(s)
    PROVE  /\ Tail(s) \in Seq(S) /\ Head(s) \in S
           /\ Http!Elements(Tail(s)) = Http!Elements(s) \ {Head(s)} /\ Head(s) \in Http!Elements(s)
           /\ Once(Tail(s))
<1> DEFINE t == Tail(s)
<1>1. /\ t \in Seq(S) /\ Len(s) \in Nat \ {0}
      /\ DOMAIN s = 1 .. Len(s) /\ DOMAIN t = 1 .. Len(s) - 1
      /\ Head(s) = s[1] /\ s[1] \in S
      /\ \A i \in 1 .. Len(s) - 1 : t[i] = s[i + 1]
  OBVIOUS
<1> HIDE DEF t
<1>2. Http!Elements(t) \subseteq Http!Elements(s) \ {s[1]}
  BY <1>1 DEF Http!Elements, Once
<1>3. ASSUME NEW y \in Http!Elements(s), y # s[1] PROVE y \in Http!Elements(t)
  <2>1. PICK i \in 1 .. Len(s) : y = s[i]
    BY <1>1 DEF Http!Elements
  <2>2. i - 1 \in 1 .. Len(s) - 1 /\ t[i - 1] = s[i]
    BY <1>1, <1>3, <2>1
  <2> QED
    BY <1>1, <2>1, <2>2 DEF Http!Elements
<1>4. ASSUME NEW i \in DOMAIN t, NEW j \in DOMAIN t, t[i] = t[j] PROVE i = j
  <2>1. i + 1 \in DOMAIN s /\ j + 1 \in DOMAIN s /\ s[i + 1] = s[j + 1]
    BY <1>1, <1>4
  <2>2. i + 1 = j + 1
    BY <2>1 DEF Once
  <2> QED
    BY <1>1, <2>2
<1>5. s[1] \in Http!Elements(s)
  BY <1>1 DEF Http!Elements
<1>6. Once(t)
  BY <1>4 DEF Once
<1> QED
  BY <1>1, <1>2, <1>3, <1>5, <1>6 DEF t

LEMMA ElementsOfEmpty == Http!Elements(<< >>) = {} /\ Once(<< >>)
BY DEF Http!Elements, Once

LEMMA HttpInit == Http!Init => HttpInv
BY ElementsOfEmpty DEF Http!Init, HttpInv, HttpTyped, HttpPlaced, HttpStates, Http!Final, Http!Unknown

\* What is left is what is queued or running, whoever ends it.
LEMMA LeftIsOpen ==
    ASSUME HttpInv
    PROVE  Http!Left = {r \in Requests : request[r] \in {"queued", "running"}}
<1>1. Http!Elements(pending) \subseteq Requests /\ Http!Elements(fresh) \subseteq Requests
  BY DEF HttpInv, HttpTyped, Http!Elements
<1> QED
  BY <1>1 DEF HttpInv, HttpTyped, HttpPlaced, Http!Left

-----------------------------------------------------------------------------
(* What each step preserves, and that it is one of the specification. *)

HttpGood == HttpInv' /\ (Http!Promise!RequestNext \/ UNCHANGED request)

LEMMA RunGood ==
    ASSUME HttpInv, NEW r \in Requests, Http!Run(r)
    PROVE  HttpGood
<1> USE DEF HttpInv, HttpTyped, HttpPlaced, HttpStates, Http!Final
<1>1. CASE shutdown \/ client = "error"
  <2>1. /\ request' = [request EXCEPT ![r] = "aborted"]
        /\ UNCHANGED <<pending, fresh, transfers, ended>>
    BY <1>1 DEF Http!Run
  <2>2. Http!Promise!RequestNext
    BY <2>1 DEF Http!Run, Http!Promise!RequestNext, Http!Promise!Handed
  <2> QED
    BY <2>1, <2>2 DEF Http!Run, HttpGood
<1>2. CASE ~(shutdown \/ client = "error")
  <2>1. /\ pending' = Append(pending, r) /\ request' = [request EXCEPT ![r] = "queued"]
        /\ UNCHANGED <<fresh, transfers, ended, loop>> /\ request[r] = "idle"
    BY <1>2 DEF Http!Run
  <2>2. r \notin Http!Elements(pending) /\ r \notin Http!Elements(fresh) /\ r \notin transfers
    BY <2>1
  <2>3. /\ pending' \in Seq(Requests) /\ Http!Elements(pending') = Http!Elements(pending) \cup {r}
        /\ Once(pending')
    BY <2>1, <2>2, ElementsAppended
  <2>4. Http!Promise!RequestNext
    BY <2>1 DEF Http!Promise!RequestNext, Http!Promise!Handed
  <2>5. HttpTyped'
    BY <2>1, <2>3
  <2>6. HttpPlaced'
    BY <2>1, <2>2, <2>3 DEF Once
  <2> QED
    BY <2>4, <2>5, <2>6 DEF HttpGood
<1> QED
  BY <1>1, <1>2

\* The end of RunLoop: all that is left is aborted.
LEMMA LeaveGood ==
    ASSUME HttpInv, NEW status, Http!Leave(Http!Left, status), UNCHANGED ended
    PROVE  HttpGood
<1> USE DEF HttpInv, HttpTyped, HttpPlaced, HttpStates, Http!Final
<1>1. request' = [r \in Requests |-> IF request[r] \in {"queued", "running"} THEN "aborted" ELSE request[r]]
  BY LeftIsOpen DEF Http!Leave, Http!Complete, Http!Aborted
<1>2. pending' = << >> /\ fresh' = << >> /\ transfers' = {}
  BY DEF Http!Leave
<1>3. Http!Promise!RequestNext
  BY <1>1 DEF Http!Promise!RequestNext, Http!Promise!Completed, Http!Promise!Final
<1>4. HttpTyped'
  BY <1>1, <1>2
<1>5. HttpPlaced'
  BY <1>1, <1>2, ElementsOfEmpty
<1> QED
  BY <1>3, <1>4, <1>5 DEF HttpGood

\* Only running requests are completed.
LEMMA PerformGood ==
    ASSUME HttpInv, Http!Perform
    PROVE  HttpGood
<1> USE DEF HttpInv, HttpTyped, HttpPlaced, HttpStates, Http!Final
<1> DEFINE R == {r \in transfers : ended[r] # Http!Unknown}
<1>1. PICK out \in [R -> Http!Final] : Http!Complete(R, out)
  BY DEF Http!Perform
<1>2. request' = [r \in Requests |-> IF r \in R THEN out[r] ELSE request[r]]
  BY <1>1 DEF Http!Complete
<1>3. transfers' = transfers \ R /\ UNCHANGED <<pending, fresh, ended>> /\ fresh = << >>
  BY DEF Http!Perform
<1>4. R \subseteq transfers
  OBVIOUS
<1> HIDE DEF R
<1>5. Http!Promise!RequestNext
  BY <1>2, <1>4 DEF Http!Promise!RequestNext, Http!Promise!Completed, Http!Promise!Final
<1>6. HttpTyped'
  BY <1>2, <1>3, <1>4
<1>7. HttpPlaced'
  BY <1>2, <1>3, <1>4
<1> QED
  BY <1>5, <1>6, <1>7 DEF HttpGood

LEMMA SwapGood ==
    ASSUME HttpInv, Http!Swap
    PROVE  HttpGood
<1> USE DEF HttpInv, HttpTyped, HttpPlaced
<1>1. /\ pending' = << >> /\ fresh' = pending /\ UNCHANGED <<transfers, request, ended>>
      /\ loop' = "start" /\ fresh = << >>
  BY DEF Http!Swap, Http!requests
<1>2. Http!Elements(pending') = {} /\ Once(pending') /\ Http!Elements(fresh) = {}
  BY <1>1, ElementsOfEmpty
<1>3. HttpTyped'
  BY <1>1
<1>4. HttpPlaced'
  BY <1>1, <1>2
<1> QED
  BY <1>1, <1>3, <1>4 DEF HttpGood

LEMMA StartNextGood ==
    ASSUME HttpInv, Http!StartNext
    PROVE  HttpGood
<1> USE DEF HttpInv, HttpTyped, HttpPlaced, HttpStates, Http!Final
<1> DEFINE h == Head(fresh)
<1>1. PICK s \in {"running", "done", "error"} :
          /\ request' = [request EXCEPT ![h] = s]
          /\ transfers' = IF s = "running" THEN transfers \cup {h} ELSE transfers
  BY DEF Http!StartNext
<1>2. fresh # << >> /\ fresh' = Tail(fresh) /\ UNCHANGED <<pending, ended, loop>> /\ loop = "start"
  BY DEF Http!StartNext
<1>3. /\ fresh' \in Seq(Requests) /\ h \in Requests
      /\ Http!Elements(fresh') = Http!Elements(fresh) \ {h} /\ h \in Http!Elements(fresh)
      /\ Once(fresh')
  BY <1>2, ElementsOfTail
<1>4. request[h] = "queued"
  BY <1>3
<1> HIDE DEF h
<1>5. Http!Promise!RequestNext
  BY <1>1, <1>3, <1>4 DEF Http!Promise!RequestNext, Http!Promise!Started, Http!Promise!Completed, Http!Promise!Final
<1>6. HttpTyped'
  BY <1>1, <1>2, <1>3
<1>7. HttpPlaced'
  BY <1>1, <1>2, <1>3, <1>4
<1> QED
  BY <1>5, <1>6, <1>7 DEF HttpGood

LEMMA TransferGood ==
    ASSUME HttpInv, NEW r \in Requests, Http!Transfer(r)
    PROVE  HttpGood
BY DEF HttpInv, HttpTyped, HttpPlaced, HttpStates, Http!Final, Http!Transfer, HttpGood

LEMMA NextGood ==
    ASSUME HttpInv, [Http!Next]_Http!vars
    PROVE  HttpGood
<1>1. CASE \E r \in Requests : Http!Run(r)
  BY <1>1, RunGood
<1>2. CASE \E r \in Requests : Http!Transfer(r)
  BY <1>2, TransferGood
<1>3. CASE Http!LeaveLoop \/ Http!Fail
  BY <1>3, LeaveGood DEF Http!LeaveLoop, Http!Fail
<1>4. CASE Http!Perform
  BY <1>4, PerformGood
<1>5. CASE Http!Swap
  BY <1>5, SwapGood
<1>6. CASE Http!StartNext
  BY <1>6, StartNextGood
<1>7. CASE UNCHANGED <<pending, fresh, transfers, request, ended>> /\ (fresh = << >> \/ loop' = loop)
  BY <1>7 DEF HttpGood, HttpInv, HttpTyped, HttpPlaced
<1>8. loop = "start" \/ fresh = << >>
  BY DEF HttpInv, HttpPlaced
<1>9. CASE Http!Begin \/ Http!Poll \/ Http!PollFails \/ Http!LookShutdown \/ Http!Again
  BY <1>7, <1>8, <1>9 DEF Http!Begin, Http!Poll, Http!PollFails, Http!LookShutdown, Http!Again, Http!requests
<1>10. CASE Http!Shutdown \/ Http!DeadlinePasses \/ (\E r \in Requests : Http!Abort(r)) \/ UNCHANGED Http!vars
  BY <1>7, <1>10 DEF Http!Abort, Http!Shutdown, Http!DeadlinePasses, Http!vars, Http!requests
<1> QED
  BY <1>1, <1>2, <1>3, <1>4, <1>5, <1>6, <1>9, <1>10 DEF Http!Next, Http!RunLoop

-----------------------------------------------------------------------------
\* A request that is handed over and not completed is in one of the three
\* lists of http_curl.cpp, and in one only.
THEOREM HttpInductive == Http!Spec => []HttpInv
<1>1. HttpInv /\ [Http!Next]_Http!vars => HttpInv'
  BY NextGood DEF HttpGood
<1> QED
  BY <1>1, HttpInit, PTL DEF Http!Spec

\* The client of http_curl.cpp keeps what engine/http.h promises: each request
\* is taken or refused once, started at most once, completed at most once, and
\* does not change after that.
THEOREM ClientKeepsPromise == Http!Spec => RequestSpec
<1>1. Http!Init => Http!Promise!RequestInit
  BY DEF Http!Init, Http!Promise!RequestInit
<1>2. HttpInv /\ [Http!Next]_Http!vars => [Http!Promise!RequestNext]_request
  BY NextGood DEF HttpGood
<1> QED
  BY <1>1, <1>2, HttpInductive, PTL DEF Http!Spec, RequestSpec, Http!RequestSpec, Http!Promise!RequestSpec

-----------------------------------------------------------------------------
(* The job pool *)

USE JobsAssumption

-----------------------------------------------------------------------------
\* A worker that takes up, or leaves, its look at the queue is one worker more,
\* or one less, in the count of those that are coming.
LEMMA FetchersEnter ==
    ASSUME NEW p, NEW q, p \in [Workers -> Places], NEW w \in Workers, p[w] # "fetch",
           q = [p EXCEPT ![w] = "fetch"]
    PROVE  Cardinality({v \in Workers : q[v] = "fetch"})
             = Cardinality({v \in Workers : p[v] = "fetch"}) + 1
<1> DEFINE A == {v \in Workers : p[v] = "fetch"}
           B == {v \in Workers : q[v] = "fetch"}
<1>1. B = A \cup {w}
  OBVIOUS
<1>2. IsFiniteSet(A) /\ w \notin A
  <2>1. A \subseteq Workers
    OBVIOUS
  <2> QED
    BY <2>1, FS_Subset
<1> HIDE DEF A, B
<1>3. Cardinality(A \cup {w}) = Cardinality(A) + 1
  BY <1>2, FS_AddElement
<1>4. Cardinality(B) = Cardinality(A) + 1
  BY <1>1, <1>3
<1> QED
  BY <1>4 DEF A, B

LEMMA FetchersLeave ==
    ASSUME NEW p, NEW q, p \in [Workers -> Places], NEW w \in Workers, p[w] = "fetch",
           NEW x \in Places, x # "fetch", q = [p EXCEPT ![w] = x]
    PROVE  Cardinality({v \in Workers : p[v] = "fetch"})
             = Cardinality({v \in Workers : q[v] = "fetch"}) + 1
<1>1. q \in [Workers -> Places] /\ q[w] # "fetch" /\ p = [q EXCEPT ![w] = "fetch"]
  OBVIOUS
<1> QED
  BY <1>1, FetchersEnter

LEMMA FetchersStay ==
    ASSUME NEW p, NEW q, p \in [Workers -> Places], NEW w \in Workers, p[w] # "fetch",
           NEW x \in Places, x # "fetch", q = [p EXCEPT ![w] = x]
    PROVE  Cardinality({v \in Workers : p[v] = "fetch"})
             = Cardinality({v \in Workers : q[v] = "fetch"})
<1>1. {v \in Workers : p[v] = "fetch"} = {v \in Workers : q[v] = "fetch"}
  OBVIOUS
<1> QED
  BY <1>1

LEMMA FetchersCount ==
    ASSUME NEW p
    PROVE  Cardinality({v \in Workers : p[v] = "fetch"}) \in Nat
<1>1. {v \in Workers : p[v] = "fetch"} \subseteq Workers
  OBVIOUS
<1>2. IsFiniteSet({v \in Workers : p[v] = "fetch"})
  BY <1>1, FS_Subset
<1> QED
  BY <1>2, FS_CardinalityType

-----------------------------------------------------------------------------
LEMMA InitInv == Init => IndInv
<1> SUFFICES ASSUME Init PROVE IndInv
  OBVIOUS
<1> USE DEF Init
<1>1. TypeOK
  <2>1. state \in [Jobs -> States] /\ pc \in [Workers -> Places]
    BY DEF States, Places
  <2>2. job \in [Workers -> Jobs \cup {None}] /\ queue \in Seq(Jobs)
    OBVIOUS
  <2> QED
    BY <2>1, <2>2 DEF TypeOK
<1>2. OnePlace /\ AssertionsHold /\ AbortableOnly /\ RunOnce /\ Accounted /\ DoneIsComplete
  BY DEF OnePlace, AssertionsHold, AbortableOnly, RunOnce, Accounted, DoneIsComplete,
         Holding, Active
<1>3. Coming = 0
  <2>1. {w \in Workers : pc[w] = "fetch"} = {}
    OBVIOUS
  <2>2. Cardinality({w \in Workers : pc[w] = "fetch"}) = 0
    BY <2>1, FS_EmptySet
  <2> QED
    BY <2>2 DEF Coming
<1>4. NoLostWakeup /\ Stopping
  BY <1>3 DEF NoLostWakeup, Stopping
<1> QED
  BY <1>1, <1>2, <1>4 DEF IndInv

\* What Shutdown leaves of the queue is a shorter sequence of the same jobs.
LEMMA UnlinkedQueue ==
    ASSUME TypeOK, OnePlace, AbortQueued
    PROVE  /\ queue' \in Seq(Jobs)
           /\ Len(queue') <= Len(queue)
           /\ \A i \in 1 .. Len(queue') : \E k \in 1 .. Len(queue) : queue'[i] = queue[k]
           /\ \A i, k \in 1 .. Len(queue') : queue'[i] = queue'[k] => i = k
           /\ \A i \in 1 .. Len(queue) :
                  queue[i] \notin Abortables => \E k \in 1 .. Len(queue') : queue'[k] = queue[i]
           /\ \A i \in 1 .. Len(queue') : queue'[i] \notin Abortables
<1>0. PICK n \in 0 .. Len(queue) : \E f \in Choices(queue, n) :
          /\ \A i \in 1 .. Len(queue) :
                 queue[i] \notin Abortables <=> \E k \in 1 .. n : f[k] = i
          /\ queue' = [k \in 1 .. n |-> queue[f[k]]]
  BY DEF AbortQueued
<1>1. PICK f \in Choices(queue, n) :
          /\ \A i \in 1 .. Len(queue) :
                 queue[i] \notin Abortables <=> \E k \in 1 .. n : f[k] = i
          /\ queue' = [k \in 1 .. n |-> queue[f[k]]]
  BY <1>0
<1>2. f \in [1 .. n -> 1 .. Len(queue)] /\ \A i, k \in 1 .. n : i < k => f[i] < f[k]
  BY DEF Choices
<1>3. queue \in Seq(Jobs) /\ Len(queue) \in Nat /\ \A i \in 1 .. Len(queue) : queue[i] \in Jobs
  BY DEF TypeOK
<1>4. n \in Nat /\ n <= Len(queue)
  BY <1>3
<1>5. queue' \in Seq(Jobs) /\ Len(queue') = n
  BY <1>1, <1>2, <1>3, <1>4
<1>6. \A i \in 1 .. n : queue'[i] = queue[f[i]] /\ f[i] \in 1 .. Len(queue)
  BY <1>1, <1>2
<1>7. \A i, k \in 1 .. n : queue'[i] = queue'[k] => i = k
  <2> SUFFICES ASSUME NEW i \in 1 .. n, NEW k \in 1 .. n, queue'[i] = queue'[k] PROVE i = k
    OBVIOUS
  <2>1. f[i] = f[k]
    BY <1>6 DEF OnePlace
  <2> QED
    BY <2>1, <1>2, <1>4, <1>3
<1>8. \A i \in 1 .. Len(queue) :
          queue[i] \notin Abortables => \E k \in 1 .. n : queue'[k] = queue[i]
  BY <1>1, <1>6
<1>9. \A i \in 1 .. n : queue'[i] \notin Abortables
  BY <1>1, <1>6
<1> QED
  BY <1>4, <1>5, <1>6, <1>7, <1>8, <1>9

-----------------------------------------------------------------------------
LEMMA TypeStep == ASSUME IndInv, [Next]_vars PROVE TypeOK'
<1> USE DEF IndInv, TypeOK
<1>1. ASSUME NEW j \in Jobs, Add(j) PROVE TypeOK'
  BY <1>1 DEF Add
<1>2. ASSUME NEW j \in Jobs, Refuse(j) \/ Abort(j) PROVE TypeOK'
  BY <1>2 DEF Refuse, Abort, States
<1>3. CASE SignalAdd
  BY <1>3 DEF SignalAdd
<1>4. ASSUME NEW w \in Workers, Wake(w) \/ FetchNothing(w) \/ LookShutdown(w) PROVE TypeOK'
  BY <1>4 DEF Wake, FetchNothing, LookShutdown, Places
<1>5. ASSUME NEW w \in Workers, Fetch(w) PROVE TypeOK'
  BY <1>5 DEF Fetch, Places
<1>6. ASSUME NEW w \in Workers, Start(w) \/ SkipAborted(w) PROVE TypeOK'
  BY <1>6 DEF Start, SkipAborted, Places, States
<1>7. ASSUME NEW w \in Workers, Enlist(w) \/ Complete(w) PROVE TypeOK'
  <2>1. job[w] \in Jobs
    BY <1>7 DEF Enlist, Complete, OnePlace, Holding
  <2> QED
    BY <1>7, <2>1 DEF Enlist, Complete, Places
<1>8. ASSUME NEW w \in Workers, Finish(w) PROVE TypeOK'
  BY <1>8 DEF Finish, Places, States
<1>9. CASE BeginShutdown \/ AbortRunning \/ Join
  BY <1>9 DEF BeginShutdown, AbortRunning, Join, States
<1>10. CASE AbortQueued
  <2>1. queue' \in Seq(Jobs)
    BY <1>10, UnlinkedQueue
  <2> QED
    BY <1>10, <2>1 DEF AbortQueued, States
<1>11. CASE WakeAll
  <2>1. Cardinality(Workers) \in Nat
    BY FS_CardinalityType
  <2> QED
    BY <1>11, <2>1 DEF WakeAll
<1>12. CASE UNCHANGED vars
  BY <1>12 DEF vars
<1> HIDE DEF IndInv, TypeOK
<1> QED
  BY <1>1, <1>2, <1>3, <1>4, <1>5, <1>6, <1>7, <1>8, <1>9, <1>10, <1>11, <1>12
     DEF Next, RunLoop, Shutdown

-----------------------------------------------------------------------------
\* What an added job changes in the queue, and what a fetched one does.
LEMMA AddedQueue ==
    ASSUME TypeOK, NEW j \in Jobs, Add(j)
    PROVE  /\ Len(queue') = Len(queue) + 1
           /\ queue'[Len(queue) + 1] = j
           /\ \A i \in 1 .. Len(queue) : queue'[i] = queue[i]
           /\ \A k \in Jobs : InQueue(k)' <=> InQueue(k) \/ k = j
<1>1. queue \in Seq(Jobs) /\ queue' = Append(queue, j)
  BY DEF TypeOK, Add
<1>2. /\ Len(queue') = Len(queue) + 1
      /\ queue'[Len(queue) + 1] = j
      /\ \A i \in 1 .. Len(queue) : queue'[i] = queue[i]
  BY <1>1
<1>3. Len(queue) \in Nat
  BY <1>1
<1>4. \A i \in 1 .. Len(queue') : i \in 1 .. Len(queue) \/ i = Len(queue) + 1
  BY <1>2, <1>3
<1>5. 1 .. Len(queue) \subseteq 1 .. Len(queue') /\ Len(queue) + 1 \in 1 .. Len(queue')
  BY <1>2, <1>3
<1> QED
  BY <1>2, <1>4, <1>5 DEF InQueue

LEMMA FetchedQueue ==
    ASSUME TypeOK, OnePlace, NEW w \in Workers, Fetch(w)
    PROVE  /\ Len(queue) = Len(queue') + 1
           /\ queue[1] \in Jobs /\ queue[1] \in added /\ 1 \in 1 .. Len(queue)
           /\ job' = [job EXCEPT ![w] = queue[1]]
           /\ \A i \in 1 .. Len(queue') : i + 1 \in 1 .. Len(queue) /\ queue'[i] = queue[i + 1]
           /\ \A k \in Jobs : InQueue(k) <=> InQueue(k)' \/ k = queue[1]
           /\ \A k \in Jobs : k = queue[1] => ~InQueue(k)'
<1>1. /\ queue \in Seq(Jobs) /\ queue # << >>
      /\ queue' = Tail(queue) /\ job' = [job EXCEPT ![w] = Head(queue)]
  BY DEF TypeOK, Fetch
<1>2. Len(queue) \in Nat /\ Len(queue) # 0 /\ Len(queue') = Len(queue) - 1
  BY <1>1
<1>3. \A i \in 1 .. Len(queue') : i + 1 \in 1 .. Len(queue) /\ queue'[i] = queue[i + 1]
  BY <1>1, <1>2
<1>4. 1 \in 1 .. Len(queue) /\ queue[1] \in Jobs /\ queue[1] = Head(queue)
  BY <1>1, <1>2
<1>5. queue[1] \in added
  BY <1>4 DEF OnePlace
<1>6. \A i \in 1 .. Len(queue) : i = 1 \/ (i - 1 \in 1 .. Len(queue') /\ queue'[i - 1] = queue[i])
  BY <1>2, <1>3
<1>7. \A k \in Jobs : InQueue(k) <=> InQueue(k)' \/ k = queue[1]
  BY <1>3, <1>4, <1>6 DEF InQueue
<1>8. \A k \in Jobs : k = queue[1] => ~InQueue(k)'
  <2>1. SUFFICES ASSUME NEW i \in 1 .. Len(queue'), queue'[i] = queue[1] PROVE FALSE
    BY DEF InQueue
  <2>2. i + 1 = 1
    BY <2>1, <1>3, <1>4 DEF OnePlace
  <2> QED
    BY <2>2, <1>2
<1> QED
  BY <1>1, <1>2, <1>3, <1>4, <1>5, <1>7, <1>8

LEMMA UnlinkedIn ==
    ASSUME TypeOK, OnePlace, AbortQueued
    PROVE  \A j \in Jobs : InQueue(j)' <=> InQueue(j) /\ j \notin Abortables
<1>1. \A j \in Jobs : InQueue(j)' => InQueue(j) /\ j \notin Abortables
  BY UnlinkedQueue DEF InQueue
<1>2. \A j \in Jobs : InQueue(j) /\ j \notin Abortables => InQueue(j)'
  BY UnlinkedQueue DEF InQueue
<1> QED
  BY <1>1, <1>2

-----------------------------------------------------------------------------
LEMMA OnePlaceStep == ASSUME IndInv, [Next]_vars PROVE OnePlace'
<1> USE DEF IndInv
<1>1. ASSUME NEW j \in Jobs, Add(j) PROVE OnePlace'
  <2>1. j \notin added /\ added' = added \cup {j} /\ pc' = pc /\ job' = job
    BY <1>1 DEF Add
  <2>2. ~InQueue(j)
    BY <2>1 DEF OnePlace, InQueue
  <2>3. /\ Len(queue') = Len(queue) + 1
        /\ queue'[Len(queue) + 1] = j
        /\ \A i \in 1 .. Len(queue) : queue'[i] = queue[i]
        /\ \A k \in Jobs : InQueue(k)' <=> InQueue(k) \/ k = j
    BY <1>1, AddedQueue
  <2>4. Len(queue) \in Nat /\ \A i \in 1 .. Len(queue') : i \in 1 .. Len(queue) \/ i = Len(queue) + 1
    BY <2>3 DEF TypeOK
  <2>5. \A i \in 1 .. Len(queue') : queue'[i] \in added'
    BY <2>1, <2>3, <2>4 DEF OnePlace
  <2>6. \A i, k \in 1 .. Len(queue') : queue'[i] = queue'[k] => i = k
    BY <2>2, <2>3, <2>4 DEF OnePlace, InQueue
  <2>7. \A v \in Workers : pc'[v] \in Holding =>
          job'[v] \in added' /\ \A i \in 1 .. Len(queue') : queue'[i] # job'[v]
    BY <2>1, <2>3 DEF OnePlace, TypeOK, InQueue
  <2> QED
    BY <2>1, <2>5, <2>6, <2>7 DEF OnePlace, InQueue
<1>2. ASSUME NEW w \in Workers, Fetch(w) PROVE OnePlace'
  <2>1. pc[w] = "fetch" /\ pc' = [pc EXCEPT ![w] = "start"] /\ added' = added
    BY <1>2 DEF Fetch
  <2>2. /\ queue[1] \in Jobs /\ queue[1] \in added /\ 1 \in 1 .. Len(queue)
        /\ job' = [job EXCEPT ![w] = queue[1]]
        /\ Len(queue) = Len(queue') + 1
        /\ \A i \in 1 .. Len(queue') : i + 1 \in 1 .. Len(queue) /\ queue'[i] = queue[i + 1]
        /\ \A k \in Jobs : InQueue(k) <=> InQueue(k)' \/ k = queue[1]
        /\ \A k \in Jobs : k = queue[1] => ~InQueue(k)'
    BY <1>2, FetchedQueue
  <2>3. \A i \in 1 .. Len(queue') : queue'[i] \in added'
    BY <2>1, <2>2 DEF OnePlace
  <2>4. \A i, k \in 1 .. Len(queue') : queue'[i] = queue'[k] => i = k
    <3> SUFFICES ASSUME NEW i \in 1 .. Len(queue'), NEW k \in 1 .. Len(queue'),
                        queue'[i] = queue'[k]
                 PROVE  i = k
      OBVIOUS
    <3>1. i + 1 = k + 1
      BY <2>2 DEF OnePlace
    <3> QED
      BY <3>1
  <2>5. InQueue(queue[1])
    BY <2>2
  <2>6. \A v \in Workers : pc[v] \in Holding => job[v] # queue[1]
    BY <2>5 DEF OnePlace
  <2>7. \A v \in Workers : v # w => pc'[v] = pc[v] /\ job'[v] = job[v]
    BY <2>1, <2>2 DEF TypeOK
  <2>8. pc'[w] \in Holding /\ job'[w] = queue[1] /\ \A v \in Workers : job[v] \in added => job[v] \in Jobs
    BY <2>1, <2>2 DEF TypeOK, Holding
  <2>9. \A v \in Workers : pc'[v] \in Holding =>
          job'[v] \in added' /\ \A i \in 1 .. Len(queue') : queue'[i] # job'[v]
    BY <2>1, <2>2, <2>7, <2>8 DEF OnePlace, InQueue
  <2>10. \A u, v \in Workers : pc'[u] \in Holding /\ pc'[v] \in Holding /\ job'[u] = job'[v] => u = v
    BY <2>6, <2>7, <2>8 DEF OnePlace
  <2> QED
    BY <2>3, <2>4, <2>9, <2>10 DEF OnePlace, InQueue
<1>3. CASE AbortQueued
  <2>1. pc' = pc /\ job' = job /\ added' = added
    BY <1>3 DEF AbortQueued
  <2>2. \A i \in 1 .. Len(queue') : queue'[i] \in added'
    BY <1>3, <2>1, UnlinkedQueue DEF OnePlace
  <2>3. \A i, k \in 1 .. Len(queue') : queue'[i] = queue'[k] => i = k
    BY <1>3, UnlinkedQueue
  <2>4. \A v \in Workers : pc'[v] \in Holding =>
          job'[v] \in added' /\ \A i \in 1 .. Len(queue') : queue'[i] # job'[v]
    BY <1>3, <2>1, UnlinkedIn DEF OnePlace, TypeOK, InQueue
  <2> QED
    BY <2>1, <2>2, <2>3, <2>4 DEF OnePlace, InQueue
<1>4. CASE \/ SignalAdd \/ BeginShutdown \/ AbortRunning \/ WakeAll \/ Join \/ UNCHANGED vars
           \/ \E j \in Jobs : Refuse(j) \/ Abort(j)
  <2>1. queue' = queue /\ pc' = pc /\ job' = job /\ added' = added
    BY <1>4 DEF SignalAdd, BeginShutdown, AbortRunning, WakeAll, Join, vars, Refuse, Abort
  <2> QED
    BY <2>1 DEF OnePlace, InQueue
<1>5. ASSUME NEW w \in Workers,
             \/ Wake(w) \/ FetchNothing(w) \/ LookShutdown(w)
             \/ Start(w) \/ SkipAborted(w) \/ Enlist(w) \/ Complete(w) \/ Finish(w)
      PROVE  OnePlace'
  <2>1. queue' = queue /\ added' = added /\ \A v \in Workers : v # w => pc'[v] = pc[v] /\ job'[v] = job[v]
    BY <1>5 DEF Wake, FetchNothing, LookShutdown, Start, SkipAborted, Enlist, Complete, Finish,
                TypeOK
  <2>2. pc'[w] \in Holding => pc[w] \in Holding /\ job'[w] = job[w]
    BY <1>5 DEF Wake, FetchNothing, LookShutdown, Start, SkipAborted, Enlist, Complete, Finish,
                TypeOK, Holding
  <2>3. \A v \in Workers : pc'[v] \in Holding => pc[v] \in Holding /\ job'[v] = job[v]
    BY <2>1, <2>2
  <2> QED
    BY <2>1, <2>3 DEF OnePlace, InQueue
<1> HIDE DEF IndInv
<1> QED
  BY <1>1, <1>2, <1>3, <1>4, <1>5 DEF Next, RunLoop, Shutdown

-----------------------------------------------------------------------------
LEMMA AssertionsStep == ASSUME IndInv, [Next]_vars PROVE AssertionsHold'
<1> USE DEF IndInv
<1> DEFINE Worker(v) ==
        /\ pc[v] = "start" => state[job[v]] \in {"queued", "aborted"}
        /\ pc[v] \in {"enlist", "run", "finish"} => state[job[v]] \in {"running", "aborted"}
        /\ pc[v] = "run" => job[v] \in running
           Waiting == \A i \in 1 .. Len(queue) : state[queue[i]] \in {"queued", "aborted"}
<1>0. /\ \A v \in Workers : Worker(v)
      /\ \A v \in Workers : pc[v] \in Holding => job[v] \in Jobs
      /\ Waiting
      /\ \A i \in 1 .. Len(queue) : queue[i] \in Jobs
  BY DEF AssertionsHold, OnePlace, TypeOK
<1>1. ASSUME NEW j \in Jobs, Add(j) PROVE AssertionsHold'
  <2>1. state' = state /\ pc' = pc /\ job' = job /\ running' = running /\ j \notin added
    BY <1>1 DEF Add
  <2>2. /\ Len(queue') = Len(queue) + 1
        /\ queue'[Len(queue) + 1] = j
        /\ \A i \in 1 .. Len(queue) : queue'[i] = queue[i]
    BY <1>1, AddedQueue
  <2>3. Len(queue) \in Nat /\ \A i \in 1 .. Len(queue') : i \in 1 .. Len(queue) \/ i = Len(queue) + 1
    BY <2>2 DEF TypeOK
  <2>4. state[j] \in {"queued", "aborted"}
    BY <2>1 DEF AbortableOnly
  <2>5. Waiting'
    BY <1>0, <2>1, <2>2, <2>3, <2>4
  <2> QED
    BY <1>0, <2>1, <2>5 DEF AssertionsHold
<1>2. ASSUME NEW w \in Workers, Fetch(w) PROVE AssertionsHold'
  <2>1. state' = state /\ running' = running /\ pc' = [pc EXCEPT ![w] = "start"]
    BY <1>2 DEF Fetch
  <2>2. /\ job' = [job EXCEPT ![w] = queue[1]] /\ 1 \in 1 .. Len(queue)
        /\ \A i \in 1 .. Len(queue') : i + 1 \in 1 .. Len(queue) /\ queue'[i] = queue[i + 1]
    BY <1>2, FetchedQueue
  <2>3. Waiting'
    BY <1>0, <2>1, <2>2
  <2>4. Worker(w)'
    BY <1>0, <2>1, <2>2 DEF TypeOK
  <2>5. \A v \in Workers : v # w => Worker(v)'
    BY <1>0, <2>1, <2>2 DEF TypeOK
  <2> QED
    BY <2>3, <2>4, <2>5 DEF AssertionsHold
<1>3. CASE AbortQueued
  <2>1. /\ state' = [j \in Jobs |-> IF j \in Abortables /\ InQueue(j) THEN "aborted" ELSE state[j]]
        /\ pc' = pc /\ job' = job /\ running' = running
    BY <1>3 DEF AbortQueued
  <2>2. \A i \in 1 .. Len(queue') : \E k \in 1 .. Len(queue) : queue'[i] = queue[k]
    BY <1>3, UnlinkedQueue
  <2>3. Waiting'
    BY <1>0, <2>1, <2>2
  <2>4. \A v \in Workers : Worker(v)'
    BY <1>0, <2>1 DEF Holding
  <2> QED
    BY <2>3, <2>4 DEF AssertionsHold
<1>4. CASE SignalAdd \/ BeginShutdown \/ WakeAll \/ Join \/ UNCHANGED vars
  <2>1. state' = state /\ queue' = queue /\ running' = running /\ pc' = pc /\ job' = job
    BY <1>4 DEF SignalAdd, BeginShutdown, WakeAll, Join, vars
  <2> QED
    BY <2>1 DEF AssertionsHold
<1>5. CASE AbortRunning \/ \E j \in Jobs : Refuse(j) \/ Abort(j)
  <2>1. /\ queue' = queue /\ running' = running /\ pc' = pc /\ job' = job
        /\ \A k \in Jobs : state'[k] = state[k] \/ state'[k] = "aborted"
    BY <1>5 DEF AbortRunning, Refuse, Abort, TypeOK
  <2>2. \A v \in Workers : Worker(v)'
    BY <1>0, <2>1 DEF Holding
  <2>3. Waiting'
    BY <1>0, <2>1
  <2> QED
    BY <2>2, <2>3 DEF AssertionsHold
<1>6. ASSUME NEW w \in Workers, Wake(w) \/ FetchNothing(w) \/ LookShutdown(w) \/ SkipAborted(w)
      PROVE  AssertionsHold'
  <2>1. /\ state' = state /\ queue' = queue /\ running' = running
        /\ pc'[w] \notin Holding
        /\ \A v \in Workers : v # w => pc'[v] = pc[v] /\ job'[v] = job[v]
    BY <1>6 DEF Wake, FetchNothing, LookShutdown, SkipAborted, TypeOK, Holding
  <2>2. \A v \in Workers : Worker(v)'
    BY <1>0, <2>1 DEF Holding
  <2>3. Waiting'
    BY <1>0, <2>1
  <2> QED
    BY <2>2, <2>3 DEF AssertionsHold
<1>7. ASSUME NEW w \in Workers, Start(w) \/ Enlist(w) \/ Complete(w) \/ Finish(w)
      PROVE  AssertionsHold'
  <2>1. /\ queue' = queue
        /\ \A v \in Workers : v # w => pc'[v] = pc[v] /\ job'[v] = job[v]
        /\ \A k \in Jobs : k # job[w] => state'[k] = state[k] /\ (k \in running => k \in running')
    BY <1>7 DEF Start, Enlist, Complete, Finish, TypeOK
  <2>2. pc[w] \in Holding
    BY <1>7 DEF Start, Enlist, Complete, Finish, Holding
  <2>3. \A v \in Workers : v # w => (pc[v] \in Holding => job[v] # job[w])
    BY <2>2 DEF OnePlace
  <2>4. \A v \in Workers : v # w => Worker(v)'
    BY <1>0, <2>1, <2>3 DEF Holding
  <2>5. \A i \in 1 .. Len(queue) : queue[i] # job[w]
    BY <2>2 DEF OnePlace, InQueue
  <2>6. Waiting'
    BY <1>0, <2>1, <2>5
  <2>7. Worker(w)'
    <3>1. CASE Start(w)
      BY <3>1, <1>0, <2>2 DEF Start, TypeOK
    <3>2. CASE Enlist(w)
      BY <3>2, <1>0, <2>2 DEF Enlist, TypeOK
    <3>3. CASE Complete(w)
      BY <3>3, <1>0, <2>2 DEF Complete, TypeOK
    <3>4. CASE Finish(w)
      BY <3>4, <1>0, <2>2 DEF Finish, TypeOK
    <3> QED
      BY <1>7, <3>1, <3>2, <3>3, <3>4
  <2> QED
    BY <2>4, <2>6, <2>7 DEF AssertionsHold
<1> HIDE DEF IndInv
<1> QED
  BY <1>1, <1>2, <1>3, <1>4, <1>5, <1>6, <1>7 DEF Next, RunLoop, Shutdown

-----------------------------------------------------------------------------
LEMMA AbortableStep == ASSUME IndInv, [Next]_vars PROVE AbortableOnly'
<1> USE DEF IndInv
<1>1. ASSUME NEW j \in Jobs, Add(j) PROVE AbortableOnly'
  BY <1>1 DEF Add, AbortableOnly
<1>2. CASE AbortQueued \/ AbortRunning \/ \E j \in Jobs : Refuse(j) \/ Abort(j)
  <2>1. /\ \A k \in Jobs : state'[k] = state[k] \/ (state'[k] = "aborted" /\ k \in Abortables)
        /\ added' = added
    BY <1>2 DEF AbortQueued, AbortRunning, Refuse, Abort, TypeOK
  <2> QED
    BY <2>1 DEF AbortableOnly
<1>3. ASSUME NEW w \in Workers, Start(w) \/ Finish(w) PROVE AbortableOnly'
  <2>1. /\ \A k \in Jobs : state'[k] = state[k] \/ (state'[k] # "aborted" /\ k = job[w])
        /\ added' = added /\ job[w] \in added
    BY <1>3 DEF Start, Finish, TypeOK, OnePlace, Holding
  <2> QED
    BY <2>1 DEF AbortableOnly
<1>4. CASE \/ SignalAdd \/ BeginShutdown \/ WakeAll \/ Join \/ UNCHANGED vars
           \/ \E w \in Workers : \/ Wake(w) \/ Fetch(w) \/ FetchNothing(w) \/ LookShutdown(w)
                                 \/ SkipAborted(w) \/ Enlist(w) \/ Complete(w)
  <2>1. state' = state /\ added' = added
    BY <1>4 DEF SignalAdd, BeginShutdown, WakeAll, Join, vars, Wake, Fetch, FetchNothing,
                LookShutdown, SkipAborted, Enlist, Complete
  <2> QED
    BY <2>1 DEF AbortableOnly
<1> HIDE DEF IndInv
<1> QED
  BY <1>1, <1>2, <1>3, <1>4 DEF Next, RunLoop, Shutdown

LEMMA RunOnceStep == ASSUME IndInv, [Next]_vars PROVE RunOnce'
<1> USE DEF IndInv
<1>1. ASSUME NEW w \in Workers, Complete(w) PROVE RunOnce'
  <2>1. state[job[w]] # "queued" /\ job[w] \in Jobs
    BY <1>1 DEF Complete, AssertionsHold, OnePlace, Holding, TypeOK
  <2> QED
    BY <1>1, <2>1 DEF Complete, RunOnce, TypeOK
<1>2. ASSUME NEW w \in Workers, Start(w) \/ Finish(w) PROVE RunOnce'
  <2>1. /\ \A k \in Jobs : state'[k] = "queued" => state[k] = "queued"
        /\ complete' = complete
        /\ \A v \in Workers : pc'[v] = "finish" => pc[v] = "finish" /\ job'[v] = job[v]
    BY <1>2 DEF Start, Finish, TypeOK
  <2> QED
    BY <2>1 DEF RunOnce, TypeOK
<1>3. CASE \/ AbortQueued \/ AbortRunning \/ SignalAdd \/ BeginShutdown \/ WakeAll \/ Join
           \/ UNCHANGED vars \/ \E j \in Jobs : Add(j) \/ Refuse(j) \/ Abort(j)
  <2>1. /\ \A k \in Jobs : state'[k] = "queued" => state[k] = "queued"
        /\ complete' = complete /\ pc' = pc /\ job' = job
    BY <1>3 DEF AbortQueued, AbortRunning, SignalAdd, BeginShutdown, WakeAll, Join, vars,
                Add, Refuse, Abort, TypeOK
  <2> QED
    BY <2>1 DEF RunOnce, TypeOK
<1>4. ASSUME NEW w \in Workers, \/ Wake(w) \/ Fetch(w) \/ FetchNothing(w) \/ LookShutdown(w)
                                \/ SkipAborted(w) \/ Enlist(w)
      PROVE RunOnce'
  <2>1. /\ state' = state /\ complete' = complete
        /\ \A v \in Workers : pc'[v] = "finish" => pc[v] = "finish" /\ job'[v] = job[v]
    BY <1>4 DEF Wake, Fetch, FetchNothing, LookShutdown, SkipAborted, Enlist, TypeOK
  <2> QED
    BY <2>1 DEF RunOnce
<1> HIDE DEF IndInv
<1> QED
  BY <1>1, <1>2, <1>3, <1>4 DEF Next, RunLoop, Shutdown

LEMMA DoneStep == ASSUME IndInv, [Next]_vars PROVE DoneIsComplete'
<1> USE DEF IndInv
<1>1. ASSUME NEW j \in Jobs, state'[j] = "done" PROVE j \in complete'
  <2>1. complete \subseteq complete'
    BY DEF Next, RunLoop, Shutdown, AbortQueued, AbortRunning, SignalAdd, BeginShutdown, WakeAll,
           Join, vars, Add, Refuse, Abort, Wake, Fetch, FetchNothing, LookShutdown, SkipAborted,
           Start, Enlist, Complete, Finish
  <2>2. CASE state[j] = "done"
    BY <2>1, <2>2 DEF DoneIsComplete
  <2>3. CASE state[j] # "done"
    <3>1. \E w \in Workers : Finish(w) /\ job[w] = j
      BY <1>1, <2>3 DEF Next, RunLoop, Shutdown, AbortQueued, AbortRunning, SignalAdd,
           BeginShutdown, WakeAll, Join, vars, Add, Refuse, Abort, Wake, Fetch, FetchNothing,
           LookShutdown, SkipAborted, Start, Enlist, Complete, Finish, TypeOK
    <3> QED
      BY <2>1, <3>1 DEF Finish, RunOnce
  <2> QED
    BY <2>2, <2>3
<1>2. \A v \in Workers : pc'[v] \in {"enlist", "run"} => state'[job'[v]] # "done"
  BY AssertionsStep DEF AssertionsHold
<1> HIDE DEF IndInv
<1> QED
  BY <1>1, <1>2 DEF DoneIsComplete, Active

-----------------------------------------------------------------------------
LEMMA AccountedStep == ASSUME IndInv, [Next]_vars PROVE Accounted'
<1> USE DEF IndInv
<1> DEFINE Ended(j) == state[j] = "done" \/ state[j] = "aborted"
           Held(j) == \E w \in Workers : pc[w] \in Holding /\ job[w] = j
<1>0. \A j \in added : j \in Jobs /\ (InQueue(j) \/ Held(j) \/ Ended(j))
  BY DEF Accounted, TypeOK
<1>1. ASSUME NEW j \in Jobs, Add(j) PROVE Accounted'
  <2>1. state' = state /\ pc' = pc /\ job' = job /\ added' = added \cup {j}
    BY <1>1 DEF Add
  <2>2. \A k \in Jobs : InQueue(k)' <=> InQueue(k) \/ k = j
    BY <1>1, AddedQueue
  <2>3. \A k \in added' : InQueue(k)' \/ Held(k)' \/ Ended(k)'
    BY <1>0, <2>1, <2>2
  <2> QED
    BY <2>3 DEF Accounted
<1>2. ASSUME NEW w \in Workers, Fetch(w) PROVE Accounted'
  <2>1. state' = state /\ added' = added /\ pc[w] = "fetch" /\ pc' = [pc EXCEPT ![w] = "start"]
    BY <1>2 DEF Fetch
  <2>2. /\ job' = [job EXCEPT ![w] = queue[1]]
        /\ \A k \in Jobs : InQueue(k) <=> InQueue(k)' \/ k = queue[1]
    BY <1>2, FetchedQueue
  <2>3. \A k \in Jobs : Held(k) => Held(k)'
    <3>1. \A v \in Workers : pc[v] \in Holding => pc'[v] = pc[v] /\ job'[v] = job[v]
      BY <2>1, <2>2 DEF TypeOK, Holding
    <3> QED
      BY <3>1
  <2>4. \A k \in added' : InQueue(k)' \/ Held(k)' \/ Ended(k)'
    <3> SUFFICES ASSUME NEW k \in added' PROVE InQueue(k)' \/ Held(k)' \/ Ended(k)'
      OBVIOUS
    <3>1. CASE InQueue(k)
      <4>1. CASE k = queue[1]
        <5>1. job'[w] = k /\ pc'[w] \in Holding
          BY <4>1, <2>1, <2>2 DEF TypeOK, Holding
        <5> QED
          BY <5>1
      <4>2. CASE k # queue[1]
        BY <3>1, <4>2, <1>0, <2>1, <2>2
      <4> QED
        BY <4>1, <4>2
    <3>2. CASE Held(k)
      BY <3>2, <2>1, <2>3, <1>0
    <3>3. CASE Ended(k)
      BY <3>3, <2>1
    <3> QED
      BY <1>0, <2>1, <3>1, <3>2, <3>3
  <2> QED
    BY <2>4 DEF Accounted
<1>3. CASE AbortQueued
  <2>1. /\ state' = [j \in Jobs |-> IF j \in Abortables /\ InQueue(j) THEN "aborted" ELSE state[j]]
        /\ pc' = pc /\ job' = job /\ added' = added
    BY <1>3 DEF AbortQueued
  <2>2. \A j \in Jobs : InQueue(j)' <=> InQueue(j) /\ j \notin Abortables
    BY <1>3, UnlinkedIn
  <2>3. \A k \in added' : InQueue(k)' \/ Held(k)' \/ Ended(k)'
    BY <1>0, <2>1, <2>2
  <2> QED
    BY <2>3 DEF Accounted
<1>4. CASE \/ SignalAdd \/ BeginShutdown \/ AbortRunning \/ WakeAll \/ Join \/ UNCHANGED vars
           \/ \E j \in Jobs : Refuse(j) \/ Abort(j)
  <2>1. queue' = queue /\ pc' = pc /\ job' = job /\ added' = added
    BY <1>4 DEF SignalAdd, BeginShutdown, AbortRunning, WakeAll, Join, vars, Refuse, Abort
  <2>2. \A k \in Jobs : state'[k] = state[k] \/ state'[k] = "aborted"
    BY <1>4 DEF SignalAdd, BeginShutdown, AbortRunning, WakeAll, Join, vars, Refuse, Abort, TypeOK
  <2>3. \A k \in added' : InQueue(k)' \/ Held(k)' \/ Ended(k)'
    BY <1>0, <2>1, <2>2 DEF InQueue
  <2> QED
    BY <2>3 DEF Accounted
<1>5. ASSUME NEW w \in Workers,
             \/ Wake(w) \/ FetchNothing(w) \/ LookShutdown(w) \/ SkipAborted(w)
             \/ Start(w) \/ Enlist(w) \/ Complete(w) \/ Finish(w)
      PROVE  Accounted'
  <2>1. /\ queue' = queue /\ added' = added
        /\ \A v \in Workers : v # w => pc'[v] = pc[v] /\ job'[v] = job[v]
        /\ \A k \in Jobs : k # job[w] => state'[k] = state[k]
    BY <1>5 DEF Wake, FetchNothing, LookShutdown, Start, SkipAborted, Enlist, Complete, Finish,
                TypeOK
  <2>2. ASSUME pc[w] \in Holding
        PROVE  \/ state'[job[w]] \in {"done", "aborted"}
               \/ pc'[w] \in Holding /\ job'[w] = job[w]
    <3>0. job[w] \in Jobs
      BY <2>2 DEF OnePlace, TypeOK
    <3>1. CASE Wake(w) \/ FetchNothing(w) \/ LookShutdown(w)
      BY <2>2, <3>1 DEF Wake, FetchNothing, LookShutdown, Holding
    <3>2. CASE SkipAborted(w)
      BY <3>2 DEF SkipAborted
    <3>3. CASE Start(w) \/ Enlist(w) \/ Complete(w)
      BY <3>3 DEF Start, Enlist, Complete, Holding, TypeOK
    <3>4. CASE Finish(w)
      BY <3>4, <3>0 DEF Finish, AssertionsHold, Holding, TypeOK
    <3> QED
      BY <1>5, <3>1, <3>2, <3>3, <3>4
  <2>3. pc[w] \notin Holding => state' = state
    BY <1>5 DEF Wake, FetchNothing, LookShutdown, Start, SkipAborted, Enlist, Complete, Finish,
                Holding
  <2>4. ASSUME NEW k \in added PROVE InQueue(k)' \/ Held(k)' \/ Ended(k)'
    <3>1. CASE InQueue(k)
      BY <3>1, <2>1 DEF InQueue
    <3>2. ASSUME NEW v \in Workers, pc[v] \in Holding, job[v] = k
          PROVE  Held(k)' \/ Ended(k)'
      <4>1. CASE v # w
        BY <2>1, <3>2, <4>1
      <4>2. CASE v = w
        BY <2>2, <3>2, <4>2
      <4> QED
        BY <4>1, <4>2
    <3>3. CASE Ended(k)
      <4>1. CASE k = job[w] /\ pc[w] \in Holding
        BY <2>2, <4>1
      <4>2. CASE ~ (k = job[w] /\ pc[w] \in Holding)
        BY <1>0, <2>1, <2>3, <3>3, <4>2
      <4> QED
        BY <4>1, <4>2
    <3> QED
      BY <1>0, <3>1, <3>2, <3>3
  <2> QED
    BY <2>1, <2>4 DEF Accounted
<1> HIDE DEF IndInv
<1> QED
  BY <1>1, <1>2, <1>3, <1>4, <1>5 DEF Next, RunLoop, Shutdown

-----------------------------------------------------------------------------
\* Coming is counted step by step; what the queue loses or gains goes with it.
LEMMA CountStep == ASSUME IndInv, [Next]_vars PROVE NoLostWakeup' /\ Stopping'
<1> USE DEF IndInv
<1> DEFINE F == Cardinality({w \in Workers : pc[w] = "fetch"})
           S == IF main = "signal" THEN 1 ELSE 0
<1>0. /\ F \in Nat /\ F' \in Nat /\ sem \in Nat /\ sem' \in Nat
      /\ Len(queue) \in Nat /\ Len(queue') \in Nat
      /\ S \in {0, 1} /\ S' \in {0, 1}
  <2>1. F \in Nat /\ F' \in Nat
    BY FetchersCount
  <2>2. TypeOK'
    BY TypeStep
  <2> QED
    BY <2>1, <2>2 DEF TypeOK
<1>1. /\ Coming = sem + F + S /\ Coming' = sem' + F' + S'
      /\ Len(queue) <= sem + F + S
      /\ ~down => Len(queue) = sem + F + S
  BY DEF Coming, NoLostWakeup, Stopping
<1>2. /\ down <=> main \notin {"idle", "signal"}
      /\ \A w \in Workers : pc[w] \in {"look", "exit"} => down /\ queue = << >>
      /\ main = "closed" => \A w \in Workers : pc[w] = "exit"
  BY DEF Stopping
<1>3. SUFFICES /\ Len(queue') <= sem' + F' + S'
               /\ ~down' => Len(queue') = sem' + F' + S'
               /\ down' <=> main' \notin {"idle", "signal"}
               /\ \A w \in Workers : pc'[w] \in {"look", "exit"} => down' /\ queue' = << >>
               /\ main' = "closed" => \A w \in Workers : pc'[w] = "exit"
  BY <1>1 DEF NoLostWakeup, Stopping
<1> DEFINE Goal == /\ Len(queue') <= sem' + F' + S'
                   /\ ~down' => Len(queue') = sem' + F' + S'
                   /\ down' <=> main' \notin {"idle", "signal"}
                   /\ \A w \in Workers : pc'[w] \in {"look", "exit"} => down' /\ queue' = << >>
                   /\ main' = "closed" => \A w \in Workers : pc'[w] = "exit"
<1>4. ASSUME NEW j \in Jobs, Add(j) PROVE Goal
  <2>1. Len(queue') = Len(queue) + 1
    BY <1>4, AddedQueue
  <2>2. F' = F
    BY <1>4 DEF Add
  <2> HIDE DEF F
  <2> QED
    BY <1>4, <1>0, <1>1, <1>2, <2>1, <2>2 DEF Add
<1>5. CASE SignalAdd
  <2>1. F' = F
    BY <1>5 DEF SignalAdd
  <2> HIDE DEF F
  <2> QED
    BY <1>5, <1>0, <1>1, <1>2, <2>1 DEF SignalAdd
<1>6. CASE BeginShutdown \/ AbortRunning
  <2>1. F' = F
    BY <1>6 DEF BeginShutdown, AbortRunning
  <2> HIDE DEF F
  <2> QED
    BY <1>6, <1>0, <1>1, <1>2, <2>1 DEF BeginShutdown, AbortRunning
<1>7. CASE AbortQueued
  <2>1. F' = F
    BY <1>7 DEF AbortQueued
  <2>2. Len(queue') <= Len(queue)
    BY <1>7, UnlinkedQueue
  <2>3. queue = << >> => queue' = << >>
    <3>1. queue' \in Seq(Jobs)
      BY <1>7, UnlinkedQueue
    <3> QED
      BY <2>2, <1>0, <3>1
  <2> HIDE DEF F
  <2> QED
    BY <1>7, <1>0, <1>1, <1>2, <2>1, <2>2, <2>3 DEF AbortQueued
<1>8. CASE WakeAll
  <2>1. F' = F
    BY <1>8 DEF WakeAll
  <2>2. Cardinality(Workers) \in Nat
    BY FS_CardinalityType
  <2> HIDE DEF F
  <2> QED
    BY <1>8, <1>0, <1>1, <1>2, <2>1, <2>2 DEF WakeAll
<1>9. CASE Join
  <2>1. F' = F
    BY <1>9 DEF Join
  <2> HIDE DEF F
  <2> QED
    BY <1>9, <1>0, <1>1, <1>2, <2>1 DEF Join
<1>10. CASE UNCHANGED vars \/ \E j \in Jobs : Refuse(j) \/ Abort(j)
  <2>1. UNCHANGED <<queue, sem, down, pc, main>>
    BY <1>10 DEF vars, Refuse, Abort
  <2>2. F' = F
    BY <2>1
  <2> HIDE DEF F
  <2> QED
    BY <1>0, <1>1, <1>2, <2>1, <2>2
<1>11. ASSUME NEW w \in Workers, Wake(w) PROVE Goal
  <2>1. F' = F + 1
    BY <1>11, FetchersEnter DEF Wake, TypeOK
  <2> HIDE DEF F
  <2> QED
    BY <1>11, <1>0, <1>1, <1>2, <2>1 DEF Wake, TypeOK
<1>12. ASSUME NEW w \in Workers, Fetch(w) PROVE Goal
  <2>1. F = F' + 1
    BY <1>12, FetchersLeave DEF Fetch, TypeOK, Places
  <2>2. Len(queue) = Len(queue') + 1
    BY <1>12, FetchedQueue
  <2>3. queue # << >> /\ pc' = [pc EXCEPT ![w] = "start"] /\ UNCHANGED <<sem, down, main>>
    BY <1>12 DEF Fetch
  <2>4. \A v \in Workers : pc'[v] \notin {"look", "exit"}
    BY <1>2, <2>3 DEF TypeOK
  <2>5. main' # "closed"
    BY <1>2, <2>3, <1>12 DEF Fetch
  <2>6. S' = S
    BY <2>3
  <2>7. \A l, m, f, g, t, k \in Nat :
            l = k + 1 /\ f = g + 1 /\ l <= m + f + t => k <= m + g + t
    OBVIOUS
  <2>8. S \in Nat
    OBVIOUS
  <2> HIDE DEF F, S
  <2>9. Len(queue') <= sem' + F' + S'
    BY <1>0, <1>1, <2>1, <2>2, <2>3, <2>6, <2>7, <2>8
  <2>10. ~down' => Len(queue') = sem' + F' + S'
    <3> SUFFICES ASSUME ~down' PROVE Len(queue') = sem' + F' + S'
      OBVIOUS
    <3>1. Len(queue) = sem + F + S
      BY <1>1, <2>3
    <3>2. Len(queue) - 1 = sem + (F - 1) + S
      BY <1>0, <3>1, <2>8
    <3>3. \A l, k \in Nat : l = k + 1 => k = l - 1
      OBVIOUS
    <3>4. Len(queue') = Len(queue) - 1
      BY <1>0, <2>2, <3>3, Zenon
    <3>5. F' = F - 1
      BY <1>0, <2>1, <3>3, Zenon
    <3>6. Len(queue') = Len(queue) - 1 /\ F' = F - 1
      BY <3>4, <3>5
    <3>7. Len(queue') = sem + F' + S
      BY <3>2, <3>6, Zenon
    <3> QED
      BY <3>7, <2>3, <2>6
  <2>11. down' <=> main' \notin {"idle", "signal"}
    BY <1>2, <2>3
  <2> QED
    BY <2>4, <2>5, <2>9, <2>10, <2>11
<1>13. ASSUME NEW w \in Workers, FetchNothing(w) PROVE Goal
  <2>1. F = F' + 1
    BY <1>13, FetchersLeave DEF FetchNothing, TypeOK, Places
  <2>2. queue = << >> /\ pc' = [pc EXCEPT ![w] = "look"] /\ UNCHANGED <<queue, sem, down, main>>
    BY <1>13 DEF FetchNothing
  <2>3. Len(queue) = 0
    BY <2>2
  <2>4. main # "closed"
    BY <1>2, <1>13 DEF FetchNothing
  <2> HIDE DEF F
  <2>5. down
    <3>1. SUFFICES ASSUME ~down PROVE FALSE
      OBVIOUS
    <3>2. Len(queue) = sem + F + S
      BY <1>1, <3>1
    <3>3. \A l, m, f, g, t \in Nat : l = 0 /\ f = g + 1 => l # m + f + t
      OBVIOUS
    <3>4. S \in Nat
      OBVIOUS
    <3> HIDE DEF S
    <3> QED
      BY <1>0, <2>1, <2>3, <3>2, <3>3, <3>4
  <2>6. \A v \in Workers : pc'[v] \in {"look", "exit"} => down' /\ queue' = << >>
    BY <2>2, <2>5
  <2>7. Len(queue') = 0 /\ S' \in Nat
    BY <2>2, <2>3
  <2>8. \A m, g, t \in Nat : 0 <= m + g + t
    OBVIOUS
  <2> HIDE DEF S
  <2>9. Len(queue') <= sem' + F' + S'
    BY <1>0, <2>7, <2>8
  <2>10. down' /\ main' \notin {"idle", "signal"} /\ main' # "closed"
    BY <1>2, <2>2, <2>4, <2>5
  <2> QED
    BY <2>6, <2>9, <2>10
<1>14. ASSUME NEW w \in Workers,
              LookShutdown(w) \/ SkipAborted(w) \/ Start(w) \/ Enlist(w) \/ Complete(w) \/ Finish(w)
       PROVE  Goal
  <2>1. PICK x \in Places : /\ pc[w] \notin {"fetch", "exit"} /\ x # "fetch"
                            /\ pc' = [pc EXCEPT ![w] = x]
                            /\ x \in {"look", "exit"} => pc[w] \in {"look", "exit"}
    BY <1>14 DEF LookShutdown, SkipAborted, Start, Enlist, Complete, Finish, Places
  <2>2. F = F'
    BY <2>1, FetchersStay DEF TypeOK
  <2>3. UNCHANGED <<queue, sem, down, main>>
    BY <1>14 DEF LookShutdown, SkipAborted, Start, Enlist, Complete, Finish
  <2>4. main # "closed"
    BY <1>2, <2>1
  <2>5. \A v \in Workers : pc'[v] \in {"look", "exit"} => pc[v] \in {"look", "exit"}
    BY <2>1 DEF TypeOK
  <2> HIDE DEF F
  <2> QED
    BY <1>0, <1>1, <1>2, <2>2, <2>3, <2>4, <2>5
<1> HIDE DEF IndInv
<1> QED
  BY <1>4, <1>5, <1>6, <1>7, <1>8, <1>9, <1>10, <1>11, <1>12, <1>13, <1>14
     DEF Next, RunLoop, Shutdown

-----------------------------------------------------------------------------
\* In every state each job of jobs.cpp is in one place, with the state it may
\* have there, and the semaphore counts the jobs of the queue.
THEOREM JobsInductive == Spec => []IndInv
<1>1. IndInv /\ [Next]_vars => IndInv'
  <2> SUFFICES ASSUME IndInv, [Next]_vars PROVE IndInv'
    OBVIOUS
  <2> QED
    BY TypeStep, OnePlaceStep, AssertionsStep, AbortableStep, RunOnceStep, AccountedStep,
       CountStep, DoneStep DEF IndInv
<1> QED
  BY InitInv, <1>1, PTL DEF Spec

\* Every variable keeps its type.
THEOREM TypeCorrect == Spec => []TypeOK
<1>1. IndInv => TypeOK
  BY DEF IndInv
<1> QED
  BY JobsInductive, <1>1, PTL

\* No assertion of RunLoop fails, however the workers, the aborts and the
\* shutdown interleave.
THEOREM Assertions == Spec => []AssertionsHold
<1>1. IndInv => AssertionsHold
  BY DEF IndInv
<1> QED
  BY JobsInductive, <1>1, PTL

\* The semaphore never falls behind the queue.
THEOREM Wakeups == Spec => []NoLostWakeup
<1>1. IndInv => NoLostWakeup
  BY DEF IndInv
<1> QED
  BY JobsInductive, <1>1, PTL

\* A job that is DONE has been run to its end, and is run no more.
THEOREM Results == Spec => []DoneIsComplete
<1>1. IndInv => DoneIsComplete
  BY DEF IndInv
<1> QED
  BY JobsInductive, <1>1, PTL

\* When Shutdown returns, every job that could not be aborted has been run to
\* its end: the guarantee of IsAbortable in jobs.h.
THEOREM Guarantee == Spec => []UnabortableComplete
<1>1. IndInv => UnabortableComplete
  <2> SUFFICES ASSUME IndInv, main = "closed", NEW j \in added \ Abortables
               PROVE  state[j] = "done" /\ j \in complete
    BY DEF UnabortableComplete
  <2>1. \A w \in Workers : pc[w] = "exit"
    BY DEF IndInv, Stopping
  <2>2. queue = << >>
    BY <2>1, JobsAssumption DEF IndInv, Stopping
  <2>3. ~InQueue(j)
    BY <2>2 DEF InQueue
  <2>4. j \in Jobs /\ state[j] # "aborted"
    BY DEF IndInv, TypeOK, AbortableOnly
  <2>5. state[j] = "done"
    BY <2>1, <2>3, <2>4 DEF IndInv, Accounted, Holding
  <2> QED
    BY <2>4, <2>5 DEF IndInv, DoneIsComplete
<1> QED
  BY JobsInductive, <1>1, PTL

\* Both together: whoever waits for a job gets its results.
THEOREM Completion == Spec => []ResultsHold
<1>1. DoneIsComplete /\ UnabortableComplete <=> ResultsHold
  BY DEF ResultsHold
<1> QED
  BY Results, Guarantee, <1>1, PTL

\* An aborted job stays aborted, and a job is run once at most, and not when it
\* was aborted before.
THEOREM Aborts == Spec => AbortHolds
<1> DEFINE A == \A j \in Jobs :
          /\ state[j] = "aborted" => state'[j] = "aborted"
          /\ ~Active(j) /\ Active(j)' => state[j] # "aborted" /\ j \notin complete
<1>1. IndInv /\ [Next]_vars => [A]_vars
  <2> SUFFICES ASSUME IndInv, Next PROVE A
    BY DEF vars
  <2>1. ASSUME NEW j \in Jobs, state[j] = "aborted" PROVE state'[j] = "aborted"
    BY <2>1 DEF IndInv, TypeOK, Next, RunLoop, Shutdown, AbortQueued, AbortRunning, SignalAdd,
       BeginShutdown, WakeAll, Join, Add, Refuse, Abort, Wake, Fetch, FetchNothing,
       LookShutdown, SkipAborted, Start, Enlist, Complete, Finish
  <2>2. ASSUME NEW j \in Jobs, ~Active(j), Active(j)'
        PROVE  state[j] # "aborted" /\ j \notin complete
    <3>1. PICK v \in Workers : job'[v] = j /\ pc'[v] \in {"enlist", "run"}
      BY <2>2 DEF Active
    <3>2. ~ (job[v] = j /\ pc[v] \in {"enlist", "run"})
      BY <2>2 DEF Active
    <3>3. Start(v) /\ job[v] = j
      BY <3>1, <3>2 DEF IndInv, TypeOK, Next, RunLoop, Shutdown, AbortQueued, AbortRunning,
         SignalAdd, BeginShutdown, WakeAll, Join, Add, Refuse, Abort, Wake, Fetch, FetchNothing,
         LookShutdown, SkipAborted, Start, Enlist, Complete, Finish
    <3>4. state[j] = "queued"
      BY <3>3 DEF Start
    <3> QED
      BY <3>4 DEF IndInv, RunOnce
  <2> QED
    BY <2>1, <2>2
<1> QED
  BY JobsInductive, <1>1, PTL DEF Spec, AbortHolds
=============================================================================
