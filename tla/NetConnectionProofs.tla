------------------------- MODULE NetConnectionProofs -------------------------
(***************************************************************************)
(* Proofs about NetConnection for every value of the constants: what the   *)
(* modular sequence numbers of NetSeq say about the counters they stand    *)
(* for, the inductive invariant IndInv, the safety properties it implies,  *)
(* and the refinement of ReliableStream.                                   *)
(*                                                                         *)
(* All facts about the numbers follow from one: the numbers of two         *)
(* counters less than MaxSeq apart differ by the distance of the counters, *)
(* or by that distance minus MaxSeq.                                       *)
(***************************************************************************)
EXTENDS NetConnection, SequenceTheorems, WellFoundedInduction, TLAPS

\* A counter taken modulo MaxSeq is a sequence number.
LEMMA ModIsSeqNum == ASSUME NEW a \in Nat PROVE a % MaxSeq \in SeqNum
BY MaxSeqAssumption DEF SeqNum

\* The division theorem, for MaxSeq.
LEMMA ModDivision ==
    ASSUME NEW a \in Nat
    PROVE  /\ a \div MaxSeq \in Nat
           /\ a = MaxSeq * (a \div MaxSeq) + (a % MaxSeq)
BY MaxSeqAssumption

LEMMA ModDistance ==
    ASSUME NEW a \in Nat, NEW b \in Nat, b <= a, a - b < MaxSeq
    PROVE  \/ (a % MaxSeq) - (b % MaxSeq) = a - b
           \/ (a % MaxSeq) - (b % MaxSeq) = a - b - MaxSeq
<1> DEFINE qa == a \div MaxSeq
           qb == b \div MaxSeq
           ra == a % MaxSeq
           rb == b % MaxSeq
<1>1. /\ qa \in Nat /\ qb \in Nat
      /\ a = MaxSeq * qa + ra /\ b = MaxSeq * qb + rb
      BY ModDivision
<1>2. ra \in 0 .. MaxSeq - 1 /\ rb \in 0 .. MaxSeq - 1
      BY ModIsSeqNum DEF SeqNum
<1>3. PICK d \in Int : d = qa - qb
      BY <1>1
<1>4. a - b = MaxSeq * d + (ra - rb)
  <2>1. MaxSeq * d = MaxSeq * qa - MaxSeq * qb
        BY <1>1, <1>3, MaxSeqAssumption
  <2>2. QED BY <2>1, <1>1, <1>2, MaxSeqAssumption
<1>5. d < 2
  <2>1. SUFFICES ASSUME d >= 2 PROVE FALSE
        BY <1>3
  <2>2. MaxSeq * d >= 2 * MaxSeq
        BY <2>1, <1>3, MaxSeqAssumption
  <2>3. QED BY <2>2, <1>4, <1>2, <1>3, MaxSeqAssumption
<1>6. d > -1
  <2>1. SUFFICES ASSUME d <= -1 PROVE FALSE
        BY <1>3
  <2>2. MaxSeq * d <= -MaxSeq
        BY <2>1, <1>3, MaxSeqAssumption
  <2>3. QED BY <2>2, <1>4, <1>2, <1>3, MaxSeqAssumption
<1>7. d = 0 \/ d = 1
      BY <1>5, <1>6, <1>3
<1>8. QED
  <2>1. d = 0 => MaxSeq * d = 0
        BY MaxSeqAssumption
  <2>2. d = 1 => MaxSeq * d = MaxSeq
        BY MaxSeqAssumption
  <2>3. QED BY <2>1, <2>2, <1>7, <1>4, <1>2, MaxSeqAssumption

\* Counters less than MaxSeq apart are told apart by their numbers.
LEMMA ModInjective ==
    ASSUME NEW a \in Nat, NEW b \in Nat, a % MaxSeq = b % MaxSeq,
           a - b < MaxSeq, b - a < MaxSeq
    PROVE  a = b
<1>1. a % MaxSeq \in Int /\ b % MaxSeq \in Int
      BY ModIsSeqNum DEF SeqNum
<1>2. CASE b <= a
  <2>1. \/ (a % MaxSeq) - (b % MaxSeq) = a - b
        \/ (a % MaxSeq) - (b % MaxSeq) = a - b - MaxSeq
        BY <1>2, ModDistance
  <2>2. QED BY <1>1, <2>1, MaxSeqAssumption
<1>3. CASE a <= b
  <2>1. \/ (b % MaxSeq) - (a % MaxSeq) = b - a
        \/ (b % MaxSeq) - (a % MaxSeq) = b - a - MaxSeq
        BY <1>3, ModDistance
  <2>2. QED BY <1>1, <2>1, MaxSeqAssumption
<1>4. QED BY <1>2, <1>3

\* The next number belongs to the next counter.
LEMMA NextSeqMod ==
    ASSUME NEW a \in Nat
    PROVE  NextSeq(a % MaxSeq) = (a + 1) % MaxSeq
<1> DEFINE r == a % MaxSeq
<1>1. r \in SeqNum /\ (a + 1) % MaxSeq \in SeqNum
      BY ModIsSeqNum
<1>2. \/ (a + 1) % MaxSeq = r + 1
      \/ (a + 1) % MaxSeq = r + 1 - MaxSeq
  <2>1. a + 1 \in Nat /\ a <= a + 1 /\ (a + 1) - a < MaxSeq /\ (a + 1) - a = 1
        BY MaxSeqAssumption
  <2>2. \/ ((a + 1) % MaxSeq) - r = (a + 1) - a
        \/ ((a + 1) % MaxSeq) - r = (a + 1) - a - MaxSeq
        BY <2>1, ModDistance
  <2>3. QED BY <2>1, <2>2, <1>1, MaxSeqAssumption DEF SeqNum
<1>3. \/ (r + 1) % MaxSeq = r + 1 /\ r + 1 < MaxSeq
      \/ (r + 1) % MaxSeq = 0 /\ r + 1 = MaxSeq
      BY <1>1, MaxSeqAssumption DEF SeqNum
<1>4. QED BY <1>1, <1>2, <1>3, MaxSeqAssumption DEF SeqNum, NextSeq

\* IsSeqInBackroom splits the counters within MaxSeq of k in the middle: those
\* up to MaxSeq/2 behind k, or MaxSeq/2 and more ahead of it, are "old".
THEOREM BackroomMeaning ==
    ASSUME NEW n \in Nat, NEW k \in Nat, n - k < MaxSeq, k - n < MaxSeq
    PROVE  IsSeqInBackroom(n % MaxSeq, k % MaxSeq) <=>
              \/ n <= k /\ 2 * (k - n) <= MaxSeq
              \/ n > k /\ 2 * (n - k) >= MaxSeq
<1> DEFINE s == n % MaxSeq
           a == k % MaxSeq
           half == MaxSeq \div 2
<1>1. s \in SeqNum /\ a \in SeqNum
      BY ModIsSeqNum
<1>2. half \in Nat /\ MaxSeq = 2 * half
      BY MaxSeqAssumption
<1>3. \/ n <= k /\ (a - s = k - n \/ a - s = k - n - MaxSeq)
      \/ n > k /\ (s - a = n - k \/ s - a = n - k - MaxSeq)
  <2>1. CASE n <= k
        BY <2>1, ModDistance
  <2>2. CASE n > k
    <3>1. k <= n
          BY <2>2
    <3>2. s - a = n - k \/ s - a = n - k - MaxSeq
          BY <3>1, ModDistance
    <3>3. QED BY <2>2, <3>2
  <2>3. QED BY <2>1, <2>2
<1>4. IsSeqInBackroom(s, a) <=>
         \/ a - half < 0 /\ (s <= a \/ s >= a - half + MaxSeq)
         \/ a - half >= 0 /\ s <= a /\ s >= a - half
      BY DEF IsSeqInBackroom
<1>5. QED
  <2> HIDE DEF s, a, half
  <2>1. IsSeqInBackroom(s, a) <=>
              \/ n <= k /\ 2 * (k - n) <= MaxSeq
              \/ n > k /\ 2 * (n - k) >= MaxSeq
        BY <1>1, <1>2, <1>3, <1>4, MaxSeqAssumption DEF SeqNum
  <2>2. QED BY <2>1 DEF s, a

\* AckAcceptable accepts an acknowledgement x exactly when it is not older than
\* the last one accepted, h, provided that x and the last chunk sent, s, are
\* less than MaxSeq apart.
THEOREM AckAcceptableMeaning ==
    ASSUME NEW s \in Nat, NEW h \in Nat, NEW x \in Nat,
           h <= s, x <= s, s - h < MaxSeq, s - x < MaxSeq
    PROVE  AckAcceptable(s % MaxSeq, h % MaxSeq, x % MaxSeq) <=> h <= x
<1> DEFINE ms == s % MaxSeq
           mh == h % MaxSeq
           mx == x % MaxSeq
<1>1. ms \in SeqNum /\ mh \in SeqNum /\ mx \in SeqNum
      BY ModIsSeqNum
<1>2. ms - mh = s - h \/ ms - mh = s - h - MaxSeq
      BY ModDistance
<1>3. ms - mx = s - x \/ ms - mx = s - x - MaxSeq
      BY ModDistance
<1>4. \/ h <= x /\ (mx - mh = x - h \/ mx - mh = x - h - MaxSeq)
      \/ h > x /\ (mh - mx = h - x \/ mh - mx = h - x - MaxSeq)
  <2>1. CASE h <= x
    <3>1. x - h < MaxSeq
          BY MaxSeqAssumption
    <3>2. QED BY <2>1, <3>1, ModDistance
  <2>2. CASE h > x
    <3>1. x <= h /\ h - x < MaxSeq
          BY <2>2, MaxSeqAssumption
    <3>2. mh - mx = h - x \/ mh - mx = h - x - MaxSeq
          BY <3>1, ModDistance
    <3>3. QED BY <2>2, <3>2
  <2>3. QED BY <2>1, <2>2
<1>5. AckAcceptable(ms, mh, mx) <=>
         \/ ms >= mh /\ ~(mx < mh \/ mx > ms)
         \/ ms < mh /\ ~(mx < mh /\ mx > ms)
      BY <1>1, MaxSeqAssumption DEF AckAcceptable, SeqNum
<1>6. QED
  <2> HIDE DEF ms, mh, mx
  <2>1. AckAcceptable(ms, mh, mx) <=> h <= x
        BY <1>1, <1>2, <1>3, <1>4, <1>5, MaxSeqAssumption DEF SeqNum
  <2>2. QED BY <2>1 DEF ms, mh, mx

-----------------------------------------------------------------------------
USE DEF Endpoints

\* The endpoints are two, and each is the peer of the other.
LEMMA PeerProperties ==
    \A e \in Endpoints : Peer(e) \in Endpoints /\ Peer(e) # e /\ Peer(Peer(e)) = e
BY EndpointsAssumption DEF Peer

LEMMA GotType == ASSUME TypeOK, NEW e \in Endpoints PROVE Got(e) \in Nat
<1>1. log[e] \in Seq(Nat) /\ Start[Peer(e)] \in Nat
      BY PeerProperties, CapacityAssumption DEF TypeOK
<1>2. QED BY <1>1, LenProperties DEF Got

\* Every nonempty set of natural numbers has a least element.
LEMMA LeastExists ==
    ASSUME NEW S, S \subseteq Nat, S # {}
    PROVE  \E k \in S : \A j \in S : k <= j
<1> DEFINE R == {p \in Nat \X Nat : p[1] < p[2]}
<1>1. R = OpToRel(<, Nat)
      BY Zenon DEF OpToRel
<1>2. IsWellFoundedOn(R, Nat)
      BY ONLY <1>1, NatLessThanWellFounded, Zenon
<1>3. PICK x \in S : \A y \in S : ~ (<<y, x>> \in R)
  <2> HIDE DEF R
  <2> QED BY <1>2, WFMin
<1>4. \A y \in S : ~(y < x)
  <2>1. SUFFICES ASSUME NEW y \in S PROVE ~(y < x)
        OBVIOUS
  <2>2. <<y, x>> \in Nat \X Nat
        OBVIOUS
  <2>3. QED BY <1>3, <2>2
<1>5. QED BY <1>4

-----------------------------------------------------------------------------
\* A construct, and the packets e may send, made of chunks of the set G.
ConstructOf(G) == {c \in Construct : c.chunks \in Seq(G) /\ Len(c.chunks) <= PacketCap}
PacketOf(e, G) ==
    {p \in Packet : /\ p.ack = ack[e] /\ p.seen = Got(e)
                    /\ p.chunks \in Seq(G) /\ Len(p.chunks) <= PacketCap}

LEMMA ChunkSeq == ASSUME NEW G \in SUBSET Chunk, NEW s \in Seq(G) PROVE s \in Seq(Chunk)
BY SeqMonotonic

LEMMA DataPacketOf ==
    ASSUME TypeOK, NEW e \in Endpoints, NEW G \in SUBSET Chunk,
           NEW r \in BOOLEAN, NEW s \in Seq(G), Len(s) <= PacketCap
    PROVE  DataPacket(e, r, s) \in PacketOf(e, G)
<1>1. s \in Seq(Chunk) /\ Got(e) \in Nat /\ ack[e] \in SeqNum
      BY ChunkSeq, GotType DEF TypeOK
<1>2. QED BY <1>1 DEF DataPacket, PacketOf, Packet

LEMMA ControlPacketOf ==
    ASSUME TypeOK, NEW e \in Endpoints, NEW G \in SUBSET Chunk,
           NEW c \in {"close", "keepalive"}
    PROVE  ControlPacket(e, c) \in PacketOf(e, G)
<1>1. << >> \in Seq(G) /\ << >> \in Seq(Chunk) /\ Len(<< >>) = 0
      BY EmptySeq
<1>2. Got(e) \in Nat /\ ack[e] \in SeqNum
      BY GotType DEF TypeOK
<1>3. ControlPacket(e, c) =
         [ctrl |-> c, resend |-> FALSE, ack |-> ack[e], seen |-> Got(e), chunks |-> << >>]
      BY DEF ControlPacket
<1>4. ControlPacket(e, c) \in Packet
      BY <1>1, <1>2, <1>3 DEF Packet
<1>5. Len(<< >>) <= PacketCap
      BY <1>1, CapacityAssumption
<1>6. /\ ControlPacket(e, c).ack = ack[e] /\ ControlPacket(e, c).seen = Got(e)
      /\ ControlPacket(e, c).chunks = << >>
      BY <1>3
<1>7. ControlPacket(e, c).chunks \in Seq(G) /\ Len(ControlPacket(e, c).chunks) <= PacketCap
      BY <1>1, <1>5, <1>6, Zenon
<1>8. QED BY <1>4, <1>6, <1>7, Zenon DEF PacketOf

\* Queueing chunks sends packets no larger than PacketCap, leaves no more under
\* construction, and invents no chunk.
LEMMA QueuedOf ==
    ASSUME TypeOK, NEW e \in Endpoints, NEW G \in SUBSET Chunk,
           NEW cons \in ConstructOf(G), NEW chunks \in Seq(G)
    PROVE  /\ Queued(e, cons, chunks).out \subseteq PacketOf(e, G)
           /\ Queued(e, cons, chunks).rest \in ConstructOf(G)
<1> DEFINE all == cons.chunks \o chunks
           full == IF all = << >> THEN 0 ELSE (Len(all) - 1) \div PacketCap
           part(i) == SubSeq(all, (i - 1) * PacketCap + 1, i * PacketCap)
           rest == SubSeq(all, full * PacketCap + 1, Len(all))
<1>1. all \in Seq(G)
      BY ConcatProperties DEF ConstructOf
<1>2. Len(all) \in Nat /\ \A i \in 1 .. Len(all) : all[i] \in G
      BY <1>1, LenProperties, ElementOfSeq
<1>3. /\ full \in Nat
      /\ full * PacketCap \in Nat
      /\ full * PacketCap <= Len(all)
      /\ Len(all) - full * PacketCap <= PacketCap
  <2>1. CASE all = << >>
        BY <2>1, <1>2, CapacityAssumption
  <2>2. CASE all # << >>
    <3>1. Len(all) - 1 \in Nat
          BY <1>1, <2>2, EmptySeq
    <3>2. full = (Len(all) - 1) \div PacketCap
          BY <2>2
    <3> HIDE DEF all, full
    <3>3. PacketCap \in Nat /\ PacketCap > 0
          BY CapacityAssumption
    <3>4. /\ full \in Nat
          /\ Len(all) - 1 = PacketCap * full + ((Len(all) - 1) % PacketCap)
          /\ (Len(all) - 1) % PacketCap \in 0 .. PacketCap - 1
          BY <3>1, <3>2, <3>3
    <3>5. PacketCap * full \in Nat /\ PacketCap * full = full * PacketCap
          BY <3>3, <3>4
    <3>6. QED BY <3>1, <3>3, <3>4, <3>5
  <2>3. QED BY <2>1, <2>2
<1>4. \A i \in 1 .. full : part(i) \in Seq(G) /\ Len(part(i)) <= PacketCap
  <2>1. SUFFICES ASSUME NEW i \in 1 .. full
                 PROVE  part(i) \in Seq(G) /\ Len(part(i)) <= PacketCap
        OBVIOUS
  <2> HIDE DEF all, full
  <2>2. PacketCap \in Nat
        BY CapacityAssumption
  <2>3. /\ (i - 1) * PacketCap \in Nat /\ i * PacketCap \in Nat
        /\ i * PacketCap = (i - 1) * PacketCap + PacketCap
        /\ i * PacketCap <= full * PacketCap
        BY <2>2, <1>3
  <2>4. \A j \in (i - 1) * PacketCap + 1 .. i * PacketCap : all[j] \in G
        BY <2>2, <2>3, <1>2, <1>3
  <2>5. /\ SubSeq(all, (i - 1) * PacketCap + 1, i * PacketCap) \in Seq(G)
        /\ Len(SubSeq(all, (i - 1) * PacketCap + 1, i * PacketCap)) =
             IF (i - 1) * PacketCap + 1 <= i * PacketCap
             THEN i * PacketCap - ((i - 1) * PacketCap + 1) + 1 ELSE 0
        BY <2>3, <2>4, SubSeqProperties
  <2>6. QED BY <2>5, <2>3, <2>2
<1>5. rest \in Seq(G) /\ Len(rest) <= PacketCap
  <2> HIDE DEF all, full
  <2>1. PacketCap \in Nat
        BY CapacityAssumption
  <2>2. \A j \in full * PacketCap + 1 .. Len(all) : all[j] \in G
        BY <1>2, <1>3
  <2>3. /\ SubSeq(all, full * PacketCap + 1, Len(all)) \in Seq(G)
        /\ Len(SubSeq(all, full * PacketCap + 1, Len(all))) =
             IF full * PacketCap + 1 <= Len(all)
             THEN Len(all) - (full * PacketCap + 1) + 1 ELSE 0
        BY <2>2, <1>2, <1>3, SubSeqProperties
  <2>4. QED BY <2>1, <2>3, <1>2, <1>3
<1>6. cons.resend \in BOOLEAN
      BY DEF ConstructOf, Construct
<1>7. Queued(e, cons, chunks).out \subseteq PacketOf(e, G)
  <2>1. Queued(e, cons, chunks).out =
           {DataPacket(e, cons.resend /\ i = 1, part(i)) : i \in 1 .. full}
        BY DEF Queued
  <2> HIDE DEF part, full
  <2>2. \A i \in 1 .. full : DataPacket(e, cons.resend /\ i = 1, part(i)) \in PacketOf(e, G)
        BY <1>4, DataPacketOf
  <2>3. QED BY <2>1, <2>2
<1>8. Queued(e, cons, chunks).rest \in ConstructOf(G)
  <2>1. Queued(e, cons, chunks).rest = [resend |-> cons.resend /\ full = 0, chunks |-> rest]
        BY DEF Queued
  <2> HIDE DEF rest, full
  <2>2. rest \in Seq(Chunk)
        BY <1>5, ChunkSeq
  <2>3. QED BY <2>1, <2>2, <1>5 DEF ConstructOf, Construct
<1>9. QED BY <1>7, <1>8

LEMMA FlushedOf ==
    ASSUME TypeOK, NEW e \in Endpoints, NEW G \in SUBSET Chunk, NEW cons \in ConstructOf(G)
    PROVE  /\ Flushed(e, cons).out \subseteq PacketOf(e, G)
           /\ Flushed(e, cons).rest \in ConstructOf(G)
<1>1. EmptyConstruct \in ConstructOf(G)
  <2>1. << >> \in Seq(G) /\ << >> \in Seq(Chunk) /\ Len(<< >>) = 0
        BY EmptySeq
  <2>2. EmptyConstruct \in Construct
        BY <2>1 DEF EmptyConstruct, Construct
  <2>3. EmptyConstruct.chunks = << >>
        BY DEF EmptyConstruct
  <2>4. EmptyConstruct.chunks \in Seq(G) /\ Len(EmptyConstruct.chunks) = 0
        BY <2>1, <2>3, Zenon
  <2>5. QED BY <2>2, <2>4, CapacityAssumption DEF ConstructOf
<1>2. DataPacket(e, cons.resend, cons.chunks) \in PacketOf(e, G)
      BY DataPacketOf DEF ConstructOf, Construct
<1>3. QED BY <1>1, <1>2 DEF Flushed

LEMMA AnsweredOf ==
    ASSUME TypeOK, NEW e \in Endpoints, NEW G \in SUBSET Chunk,
           NEW cons \in ConstructOf(G), buffer[e] \in Seq(G), NEW answer
    PROVE  /\ Answered(e, cons, answer).out \subseteq PacketOf(e, G)
           /\ Answered(e, cons, answer).rest \in ConstructOf(G)
BY QueuedOf DEF Answered

LEMMA ResentOf ==
    ASSUME TypeOK, NEW e \in Endpoints, NEW G \in SUBSET Chunk,
           NEW cons \in ConstructOf(G), buffer[e] \in Seq(G), NEW resend,
           resend => buffer[e] # << >>
    PROVE  /\ Resent(e, cons, resend).out \subseteq PacketOf(e, G)
           /\ Resent(e, cons, resend).rest \in ConstructOf(G)
<1>1. CASE resend
  <2>1. Head(buffer[e]) \in G
        BY <1>1, HeadTailProperties
  <2>2. <<Head(buffer[e])>> \in Seq(G)
        BY <2>1
  <2>3. QED BY <1>1, <2>2, QueuedOf DEF Resent
<1>2. CASE ~resend
      BY <1>2 DEF Resent
<1>3. QED BY <1>1, <1>2

LEMMA InFlightOf ==
    ASSUME NEW flying, NEW out, NEW s \in InFlight(flying, out)
    PROVE  s \subseteq flying \cup out
BY DEF InFlight

\* AckChunks keeps a suffix of the buffer, and drops only what is behind a.
LEMMA UnackedOf ==
    ASSUME NEW G, NEW b \in Seq(G), NEW a
    PROVE  \E k \in 1 .. Len(b) + 1 :
              /\ Unacked(b, a) = SubSeq(b, k, Len(b))
              /\ \A i \in 1 .. k - 1 : IsSeqInBackroom(b[i].seq, a)
<1> DEFINE held == {k \in 1 .. Len(b) + 1 : k <= Len(b) => ~IsSeqInBackroom(b[k].seq, a)}
           first == CHOOSE k \in held : \A j \in held : k <= j
<1>1. Len(b) \in Nat
      BY LenProperties
<1>2. held \subseteq Nat /\ Len(b) + 1 \in held
      BY <1>1
<1>3. \E k \in held : \A j \in held : k <= j
  <2> HIDE DEF held
  <2> QED BY <1>2, LeastExists
<1>4. first \in held /\ \A j \in held : first <= j
  <2> HIDE DEF held
  <2> QED BY <1>3
<1>5. Unacked(b, a) = SubSeq(b, first, Len(b))
      BY DEF Unacked
<1>6. first \in 1 .. Len(b) + 1
      BY <1>4
<1>7. \A i \in 1 .. first - 1 : IsSeqInBackroom(b[i].seq, a)
  <2> HIDE DEF first
  <2>1. SUFFICES ASSUME NEW i \in 1 .. first - 1, ~IsSeqInBackroom(b[i].seq, a) PROVE FALSE
        OBVIOUS
  <2>2. i \in 1 .. Len(b) + 1 /\ i < first
        BY <1>1, <1>6
  <2>3. i \in held
        BY <2>1, <2>2
  <2>4. QED BY <2>2, <2>3, <1>4, <1>6
<1>8. QED
  <2> HIDE DEF first
  <2> QED BY <1>5, <1>6, <1>7

LEMMA TransmitOf ==
    ASSUME net \in [Endpoints -> SUBSET Packet], NEW e \in Endpoints,
           NEW out \in SUBSET Packet, Transmit(e, out)
    PROVE  /\ net' \in [Endpoints -> SUBSET Packet]
           /\ net'[Peer(e)] \subseteq net[Peer(e)] \cup out
           /\ net'[e] = net[e]
<1>1. PICK s \in InFlight(net[Peer(e)], out) : net' = [net EXCEPT ![Peer(e)] = s]
      BY DEF Transmit
<1>2. s \subseteq net[Peer(e)] \cup out
      BY InFlightOf
<1>3. Peer(e) \in Endpoints /\ Peer(e) # e
      BY PeerProperties
<1>4. QED BY <1>1, <1>2, <1>3

-----------------------------------------------------------------------------
\* What e may send now is what it may have sent.
LEMMA PacketOfSendable ==
    ASSUME TypeOK, NumbersOK, NEW e \in Endpoints, state[e] # "OFFLINE"
    PROVE  PacketOf(e, Queueable(e)) \subseteq Sendable(e)
<1>1. Got(e) \in Nat /\ ack[e] = Got(e) % MaxSeq
      BY GotType DEF NumbersOK
<1>2. QED BY <1>1 DEF PacketOf, Sendable

LEMMA QueueableChunks == \A e : Queueable(e) \in SUBSET Chunk
BY DEF Queueable

LEMMA ConstructNow ==
    ASSUME TypeOK, ChunksOK, NEW e \in Endpoints
    PROVE  construct[e] \in ConstructOf(Queueable(e))
BY DEF TypeOK, ChunksOK, ConstructOf

\* A step that changes only what waits in constructs and in the network.
EmitsOK ==
    /\ construct' \in [Endpoints -> Construct]
    /\ \A e \in Endpoints : construct'[e].chunks \in Seq(Queueable(e)) /\ Len(construct'[e].chunks) <= PacketCap
    /\ net' \in [Endpoints -> SUBSET Packet]
    /\ \A e \in Endpoints : net'[Peer(e)] \subseteq Sendable(e)

LEMMA EmitsStep ==
    ASSUME IndInv, NEW e \in Endpoints, state[e] # "OFFLINE",
           NEW rest \in ConstructOf(Queueable(e)),
           NEW out \in SUBSET PacketOf(e, Queueable(e)),
           construct' = [construct EXCEPT ![e] = rest],
           Transmit(e, out)
    PROVE  EmitsOK
<1> USE DEF IndInv
<1>1. out \subseteq Sendable(e)
      BY PacketOfSendable
<1>2. /\ net' \in [Endpoints -> SUBSET Packet]
      /\ net'[Peer(e)] \subseteq net[Peer(e)] \cup out
      /\ net'[e] = net[e]
  <2>1. out \in SUBSET Packet
        BY DEF PacketOf
  <2>2. QED BY <2>1, TransmitOf DEF TypeOK
<1>3. \A x \in Endpoints : net'[Peer(x)] \subseteq Sendable(x)
  <2>1. SUFFICES ASSUME NEW x \in Endpoints PROVE net'[Peer(x)] \subseteq Sendable(x)
        OBVIOUS
  <2>2. net[Peer(x)] \subseteq Sendable(x)
        BY DEF PacketsOK
  <2>3. CASE x = e
        BY <2>2, <2>3, <1>1, <1>2
  <2>4. CASE x = Peer(e)
        BY <2>2, <2>4, <1>2, PeerProperties
  <2>5. QED BY <2>3, <2>4, PeerProperties, EndpointsAssumption DEF Peer
<1>4. construct' \in [Endpoints -> Construct]
      BY DEF TypeOK, ConstructOf
<1>5. \A x \in Endpoints : construct'[x].chunks \in Seq(Queueable(x)) /\ Len(construct'[x].chunks) <= PacketCap
      BY DEF TypeOK, ConstructOf, ChunksOK
<1>6. QED BY <1>2, <1>3, <1>4, <1>5 DEF EmitsOK

LEMMA QuietStep ==
    ASSUME IndInv, EmitsOK,
           UNCHANGED <<seq, ack, peerAck, buffer, rx, sent, log, heard>>,
           state' \in [Endpoints -> {"ONLINE", "ERROR", "OFFLINE"}],
           requested' \in [Endpoints -> BOOLEAN],
           closed' \in [Endpoints -> BOOLEAN],
           timedOut' \in [Endpoints -> BOOLEAN],
           \A e \in Endpoints : state'[e] # "OFFLINE" => state[e] # "OFFLINE"
    PROVE  IndInv'
<1> USE DEF IndInv, EmitsOK
<1>1. TypeOK'
      BY DEF TypeOK
<1>2. \A e : Got(e)' = Got(e) /\ Queueable(e)' = Queueable(e)
      BY DEF Got, Queueable
<1>3. \A e : Sendable(e)' = Sendable(e)
      BY <1>2 DEF Sendable
<1>4. NumbersOK'
      BY <1>2 DEF NumbersOK
<1>5. WindowOK'
      BY <1>2 DEF WindowOK
<1>6. ChunksOK'
      BY <1>2 DEF ChunksOK
<1>7. PacketsOK'
      BY <1>3 DEF PacketsOK
<1>8. PendingOK'
      BY <1>2 DEF PendingOK
<1>9. LogOK'
      BY DEF LogOK
<1>10. QED BY <1>1, <1>4, <1>5, <1>6, <1>7, <1>8, <1>9

-----------------------------------------------------------------------------
LEMMA InitIndInv == Init => IndInv
<1> SUFFICES ASSUME Init PROVE IndInv
    OBVIOUS
<1> USE DEF Init
<1>1. \A S : << >> \in Seq(S) /\ Len(<< >>) = 0
      BY EmptySeq
<1>2. EmptyConstruct \in Construct
      BY <1>1 DEF EmptyConstruct, Construct
<1>3. \A e \in Endpoints : Start[e] \in Nat /\ Start[Peer(e)] \in Nat
      BY PeerProperties, CapacityAssumption
<1>4. TypeOK
      BY <1>1, <1>2, <1>3, ModIsSeqNum, CapacityAssumption DEF TypeOK
<1>5. \A e \in Endpoints : Len(log[e]) = 0 /\ Got(e) = Start[Peer(e)]
      BY <1>1, <1>3 DEF Got
<1>6. NumbersOK
      BY <1>5 DEF NumbersOK
<1>7. WindowOK
      BY <1>3, <1>5, PeerProperties, WindowAssumption DEF WindowOK
<1>8. ChunksOK
  <2>1. \A e \in Endpoints : /\ buffer[e] = << >>
                             /\ construct[e].chunks = << >>
                             /\ rx[Peer(e)] = << >>
        BY PeerProperties DEF EmptyConstruct
  <2>2. Len(<< >>) <= PacketCap
        BY <1>1, CapacityAssumption
  <2>3. \A i \in 1 .. Len(<< >>) : << >>[i].vital
        BY <1>1
  <2>4. \A x \in Endpoints : << >> \in Seq(Queueable(x))
        BY <1>1
  <2>5. QED BY <2>1, <2>2, <2>3, <2>4, Zenon DEF ChunksOK
<1>9. PacketsOK
      BY PeerProperties DEF PacketsOK
<1>10. PendingOK
      BY <1>1 DEF PendingOK
<1>11. LogOK
      BY <1>5 DEF LogOK
<1>12. QED BY <1>4, <1>6, <1>7, <1>8, <1>9, <1>10, <1>11 DEF IndInv

LEMMA FlushStep == ASSUME IndInv, NEW e \in Endpoints, Flush(e) PROVE IndInv'
<1>1. TypeOK /\ ChunksOK /\ state[e] # "OFFLINE"
      BY DEF IndInv, Flush
<1>2. EmitsOK
      BY <1>1, FlushedOf, QueueableChunks, ConstructNow, EmitsStep DEF Flush
<1>3. QED BY <1>1, <1>2, QuietStep DEF Flush, TypeOK

LEMMA QueuePlainStep == ASSUME IndInv, NEW e \in Endpoints, QueuePlain(e) PROVE IndInv'
<1>1. TypeOK /\ ChunksOK /\ state[e] # "OFFLINE"
      BY DEF IndInv, QueuePlain
<1>2. <<Plain>> \in Seq(Queueable(e))
  <2>1. Plain \in Queueable(e)
        BY MaxSeqAssumption DEF Plain, Queueable, Chunk, SeqNum
  <2>2. QED BY <2>1
<1>3. EmitsOK
      BY <1>1, <1>2, QueuedOf, QueueableChunks, ConstructNow, EmitsStep DEF QueuePlain
<1>4. QED BY <1>1, <1>3, QuietStep DEF QueuePlain, TypeOK

LEMMA UpdateStep ==
    ASSUME IndInv, NEW e \in Endpoints,
           NEW due \in SUBSET {"answer", "resend", "flush", "keepalive"}, Update(e, due)
    PROVE  IndInv'
<1> DEFINE G == Queueable(e)
           a == Answered(e, construct[e], "answer" \in due)
           r == Resent(e, a.rest, "resend" \in due)
           quiet == a.out = {} /\ r.out = {}
           f == IF "flush" \in due /\ quiet
                THEN Flushed(e, r.rest) ELSE [out |-> {}, rest |-> r.rest]
           k == IF "keepalive" \in due /\ quiet /\ f.out = {}
                THEN {ControlPacket(e, "keepalive")} ELSE {}
<1>1. /\ TypeOK /\ ChunksOK /\ state[e] # "OFFLINE"
      /\ G \in SUBSET Chunk /\ buffer[e] \in Seq(G)
      BY QueueableChunks DEF IndInv, Update, ChunksOK
<1>2. a.out \subseteq PacketOf(e, G) /\ a.rest \in ConstructOf(G)
  <2>1. construct[e] \in ConstructOf(G)
        BY <1>1, ConstructNow
  <2> HIDE DEF G
  <2>2. QED BY <1>1, <2>1, AnsweredOf, Zenon
<1>3. r.out \subseteq PacketOf(e, G) /\ r.rest \in ConstructOf(G)
  <2>1. "resend" \in due => buffer[e] # << >>
        BY DEF Update
  <2> HIDE DEF G, a
  <2>2. QED BY <1>1, <1>2, <2>1, ResentOf, Zenon DEF r
<1>4. f.out \subseteq PacketOf(e, G) /\ f.rest \in ConstructOf(G)
  <2> HIDE DEF G, a, r
  <2> QED BY <1>1, <1>3, FlushedOf
<1>5. k \subseteq PacketOf(e, G)
  <2> HIDE DEF G, a, r, f
  <2> QED BY <1>1, ControlPacketOf
<1>6. construct' = [construct EXCEPT ![e] = f.rest] /\ Transmit(e, a.out \cup r.out \cup f.out \cup k)
      BY Zenon DEF Update
<1>7. EmitsOK
  <2> HIDE DEF G, a, r, f, k
  <2>1. a.out \cup r.out \cup f.out \cup k \in SUBSET PacketOf(e, G)
        BY <1>2, <1>3, <1>4, <1>5
  <2>2. QED BY <1>1, <1>4, <1>6, <2>1, EmitsStep DEF G
<1>8. /\ UNCHANGED <<state, seq, ack, peerAck, buffer, closed, rx, sent, log, heard>>
      /\ requested' = [requested EXCEPT ![e] = @ /\ "answer" \notin due]
      /\ timedOut' = [timedOut EXCEPT ![e] = FALSE]
      BY DEF Update
<1>9. QED
  <2> HIDE DEF G, a, r, f, k
  <2> QED BY <1>1, <1>7, <1>8, QuietStep DEF TypeOK

LEMMA UpdateTimeoutStep ==
    ASSUME IndInv, NEW e \in Endpoints, NEW answer \in BOOLEAN, UpdateTimeout(e, answer)
    PROVE  IndInv'
<1>1. /\ TypeOK /\ ChunksOK /\ state[e] # "OFFLINE" /\ buffer[e] \in Seq(Queueable(e))
      BY DEF IndInv, UpdateTimeout, ChunksOK
<1>2. EmitsOK
      BY <1>1, AnsweredOf, QueueableChunks, ConstructNow, EmitsStep DEF UpdateTimeout
<1>3. /\ UNCHANGED <<seq, ack, peerAck, buffer, closed, rx, sent, log, heard>>
      /\ requested' = [requested EXCEPT ![e] = @ /\ ~answer]
      /\ state' = [state EXCEPT ![e] = "ERROR"]
      /\ timedOut' = [timedOut EXCEPT ![e] = TRUE]
      BY DEF UpdateTimeout
<1>4. QED BY <1>1, <1>2, <1>3, QuietStep DEF TypeOK

LEMMA LoseStep == ASSUME IndInv, NEW e \in Endpoints, NEW p \in net[e], Lose(e, p) PROVE IndInv'
<1>1. net' = [net EXCEPT ![e] = @ \ {p}] /\ UNCHANGED <<code, sent, log, heard>>
      BY DEF Lose
<1>2. net \in [Endpoints -> SUBSET Packet] /\ \A x \in Endpoints : net[Peer(x)] \subseteq Sendable(x)
      BY DEF IndInv, TypeOK, PacketsOK
<1>3. /\ net' \in [Endpoints -> SUBSET Packet]
      /\ \A x \in Endpoints : net'[Peer(x)] \subseteq net[Peer(x)]
      BY <1>1, <1>2, PeerProperties
<1>4. EmitsOK
      BY <1>1, <1>2, <1>3 DEF EmitsOK, IndInv, TypeOK, ChunksOK, code
<1>5. QED BY <1>1, <1>4, QuietStep DEF code, IndInv, TypeOK

LEMMA UpdateProtectionOverStep ==
    ASSUME IndInv, NEW e \in Endpoints, UpdateProtectionOver(e) PROVE IndInv'
<1>1. EmitsOK
      BY DEF EmitsOK, IndInv, TypeOK, ChunksOK, PacketsOK, UpdateProtectionOver
<1>2. QED BY <1>1, QuietStep DEF UpdateProtectionOver, IndInv, TypeOK

\* A step that changes only net[e], taking packets away, and rx[e], to nothing.
LEMMA DiscardPendingStep ==
    ASSUME IndInv, NEW e \in Endpoints, DiscardPending(e) PROVE IndInv'
<1> USE DEF IndInv, DiscardPending
<1>0. \A S : << >> \in Seq(S) /\ Len(<< >>) = 0
      BY EmptySeq
<1>1. TypeOK'
      BY <1>0 DEF TypeOK
<1>2. \A x : Got(x)' = Got(x) /\ Queueable(x)' = Queueable(x)
      BY DEF Got, Queueable
<1>3. \A x : Sendable(x)' = Sendable(x)
      BY <1>2 DEF Sendable
<1>4. NumbersOK'
      BY <1>2 DEF NumbersOK
<1>5. WindowOK'
      BY <1>2 DEF WindowOK
<1>6. ChunksOK'
  <2>1. \A x \in Endpoints : rx'[x] = rx[x] \/ rx'[x] = << >>
        BY DEF TypeOK
  <2>2. \A x \in Endpoints : rx'[Peer(x)] \in Seq(Queueable(x))
        BY <2>1, <1>0, PeerProperties, Zenon DEF ChunksOK
  <2>3. QED BY <2>2, <1>2 DEF ChunksOK
<1>7. PacketsOK'
      BY <1>3 DEF PacketsOK
<1>8. PendingOK'
  <2>1. \A x \in Endpoints : rx'[x] = rx[x] \/ rx'[x] = << >>
        BY DEF TypeOK
  <2>2. SUFFICES ASSUME NEW x \in Endpoints, NEW i \in 1 .. Len(rx'[x]), rx'[x][i].vital
                 PROVE  Got(x) - rx'[x][i].n <= MaxAge + PacketCap - Len(rx'[x])
        BY <1>2 DEF PendingOK
  <2>3. rx'[x] = rx[x]
        BY <2>1, <2>2, <1>0
  <2>4. QED BY <2>2, <2>3 DEF PendingOK
<1>9. LogOK'
      BY DEF LogOK
<1>10. QED BY <1>1, <1>4, <1>5, <1>6, <1>7, <1>8, <1>9

\* Disconnect resets the connection; from then on it is OFFLINE.
LEMMA DisconnectStep == ASSUME IndInv, NEW e \in Endpoints, Disconnect(e) PROVE IndInv'
<1> USE DEF IndInv
<1>0. \A S : << >> \in Seq(S) /\ Len(<< >>) = 0
      BY EmptySeq
<1>1. EmptyConstruct \in ConstructOf(Queueable(e))
  <2>1. EmptyConstruct \in Construct /\ EmptyConstruct.chunks = << >>
        BY <1>0 DEF EmptyConstruct, Construct
  <2>2. << >> \in Seq(Queueable(e)) /\ Len(<< >>) <= PacketCap
        BY <1>0, CapacityAssumption
  <2>3. QED BY <2>1, <2>2, Zenon DEF ConstructOf
<1>2. EmitsOK
  <2>1. state[e] # "OFFLINE" /\ construct' = [construct EXCEPT ![e] = EmptyConstruct]
        BY DEF Disconnect
  <2>2. PICK out \in SUBSET PacketOf(e, Queueable(e)) : Transmit(e, out)
        BY ControlPacketOf, QueueableChunks DEF Disconnect
  <2>3. QED BY <1>1, <2>1, <2>2, EmitsStep
<1>3. TypeOK'
      BY <1>0, <1>2, MaxSeqAssumption DEF TypeOK, EmitsOK, Disconnect, SeqNum
<1>4. \A x : Got(x)' = Got(x) /\ Queueable(x)' = Queueable(x)
      BY DEF Got, Queueable, Disconnect
<1>5. \A x : Sendable(x)' = Sendable(x)
      BY <1>4 DEF Sendable
<1>6. NumbersOK'
      BY <1>4 DEF NumbersOK, TypeOK, Disconnect
<1>7. WindowOK'
      BY <1>4 DEF WindowOK, Disconnect
<1>8. ChunksOK'
  <2>1. \A x \in Endpoints : buffer'[x] = buffer[x] \/ buffer'[x] = << >>
        BY DEF TypeOK, Disconnect
  <2>2. \A i \in 1 .. Len(<< >>) : << >>[i].vital
        BY <1>0
  <2>3. \A x \in Endpoints : /\ buffer'[x] \in Seq(Queueable(x))
                             /\ \A i \in 1 .. Len(buffer'[x]) : buffer'[x][i].vital
        BY <2>1, <2>2, <1>0, Zenon DEF ChunksOK
  <2>4. QED BY <2>3, <1>2, <1>4 DEF ChunksOK, EmitsOK, Disconnect
<1>9. PacketsOK'
      BY <1>2, <1>5 DEF PacketsOK, EmitsOK
<1>10. PendingOK'
      BY <1>4 DEF PendingOK, Disconnect
<1>11. LogOK'
      BY DEF LogOK, Disconnect
<1>12. QED BY <1>3, <1>6, <1>7, <1>8, <1>9, <1>10, <1>11

\* The chunks a step makes Queueable are the ones it queues.
LEMMA QueueVitalStep == ASSUME IndInv, NEW e \in Endpoints, QueueVital(e) PROVE IndInv'
<1> USE DEF IndInv
<1> DEFINE G == {c \in Chunk : c.vital => c.n <= sent[e] + 1 /\ c.seq = c.n % MaxSeq}
           chunk == [vital |-> TRUE, seq |-> NextSeq(seq[e]), n |-> sent[e] + 1]
           q == Queued(e, construct[e], <<chunk>>)
<1>1. /\ sent[e] \in Nat /\ heard[e] \in Nat /\ seq[e] \in SeqNum
      /\ sent[e] - heard[e] < MaxUnacked
      /\ seq' = [seq EXCEPT ![e] = NextSeq(@)]
      /\ sent' = [sent EXCEPT ![e] = @ + 1]
      /\ UNCHANGED <<state, ack, peerAck, requested, closed, timedOut, rx, log, heard>>
      BY DEF TypeOK, QueueVital
<1>2. NextSeq(seq[e]) \in SeqNum
  <2>1. seq[e] + 1 \in Nat
        BY <1>1, MaxSeqAssumption DEF SeqNum
  <2>2. QED BY <2>1, ModIsSeqNum DEF NextSeq
<1>3. \A x : Got(x)' = Got(x)
      BY <1>1 DEF Got
<1>4. \A x \in Endpoints : sent'[x] \in Nat /\ sent[x] <= sent'[x] /\ (x # e => sent'[x] = sent[x])
      BY <1>1 DEF TypeOK
<1>5. sent'[e] = sent[e] + 1 /\ Queueable(e)' = G
  <2>1. sent'[e] = sent[e] + 1
        BY <1>1 DEF TypeOK
  <2>2. QED BY <2>1 DEF Queueable
<1>6. \A x \in Endpoints : Queueable(x) \subseteq Queueable(x)'
      BY <1>4 DEF Queueable, TypeOK, Chunk
<1>7. \A x \in Endpoints : Seq(Queueable(x)) \subseteq Seq(Queueable(x)')
      BY <1>6, SeqMonotonic
<1>8. \A x \in Endpoints : Sendable(x) \subseteq Sendable(x)'
      BY <1>3, <1>7 DEF Sendable
<1>9. state[e] # "OFFLINE" => NextSeq(seq[e]) = (sent[e] + 1) % MaxSeq
      BY <1>1, NextSeqMod DEF NumbersOK
<1>10. NumbersOK'
  <2>1. SUFFICES ASSUME NEW x \in Endpoints, state[x] # "OFFLINE"
                 PROVE  seq'[x] = sent'[x] % MaxSeq
        BY <1>1, <1>3 DEF NumbersOK
  <2>2. CASE x = e
        BY <2>1, <2>2, <1>1, <1>5, <1>9 DEF TypeOK
  <2>3. CASE x # e
        BY <2>1, <2>3, <1>1, <1>4 DEF TypeOK, NumbersOK
  <2>4. QED BY <2>2, <2>3
<1>11. WindowOK'
  <2>1. SUFFICES ASSUME NEW x \in Endpoints
                 PROVE  /\ heard[x] <= Got(Peer(x)) /\ Got(Peer(x)) <= sent'[x]
                        /\ sent'[x] - heard[x] <= MaxUnacked
        BY <1>1, <1>3 DEF WindowOK
  <2>2. /\ Got(Peer(x)) \in Nat /\ sent[x] \in Nat /\ heard[x] \in Nat /\ MaxUnacked \in Nat
        /\ heard[x] <= Got(Peer(x)) /\ Got(Peer(x)) <= sent[x]
        /\ sent[x] - heard[x] <= MaxUnacked
        BY GotType, PeerProperties, WindowAssumption DEF TypeOK, WindowOK
  <2>3. QED BY <2>2, <1>1, <1>4, <1>5
<1>12. PendingOK' /\ LogOK'
      BY <1>1, <1>3 DEF PendingOK, LogOK
<1>13. CASE state[e] # "ONLINE"
  <2>1. UNCHANGED <<construct, net, buffer>>
        BY <1>13 DEF QueueVital
  <2>2. TypeOK'
        BY <2>1, <1>1, <1>2, <1>4 DEF TypeOK
  <2>3. ChunksOK'
        BY <2>1, <1>1, <1>7, Zenon DEF ChunksOK
  <2>4. PacketsOK'
        BY <2>1, <1>8 DEF PacketsOK
  <2>5. QED BY <2>2, <2>3, <2>4, <1>10, <1>11, <1>12
<1>14. CASE state[e] = "ONLINE"
  <2>1. /\ construct' = [construct EXCEPT ![e] = q.rest]
        /\ Transmit(e, q.out)
        /\ buffer' = [buffer EXCEPT ![e] = IF Len(@) < BufferCap THEN Append(@, chunk) ELSE @]
        BY <1>14 DEF QueueVital
  <2>2. chunk \in G /\ G \in SUBSET Chunk
        BY <1>1, <1>2, <1>9, <1>14 DEF Chunk
  <2>3. <<chunk>> \in Seq(G)
    <3> HIDE DEF chunk, G
    <3> QED BY <2>2
  <2>4. construct[e] \in ConstructOf(G)
    <3>1. construct[e] \in ConstructOf(Queueable(e))
          BY ConstructNow
    <3>2. Seq(Queueable(e)) \subseteq Seq(G)
          BY <1>5, <1>7
    <3> HIDE DEF G
    <3>3. QED BY <3>1, <3>2 DEF ConstructOf
  <2>5. q.out \subseteq PacketOf(e, G) /\ q.rest \in ConstructOf(G)
    <3> HIDE DEF chunk, G
    <3> QED BY <2>2, <2>3, <2>4, QueuedOf
  <2>6. PacketOf(e, G) \subseteq Sendable(e)'
    <3>1. Got(e) \in Nat /\ ack[e] = Got(e) % MaxSeq
          BY <1>14, GotType DEF NumbersOK
    <3> HIDE DEF G
    <3>2. QED BY <3>1, <1>3, <1>5 DEF PacketOf, Sendable
  <2> HIDE DEF G, q
  <2>7. /\ net' \in [Endpoints -> SUBSET Packet]
        /\ net'[Peer(e)] \subseteq net[Peer(e)] \cup q.out
        /\ net'[e] = net[e]
    <3>1. q.out \in SUBSET Packet
          BY <2>5 DEF PacketOf
    <3>2. QED BY <2>1, <3>1, TransmitOf DEF TypeOK
  <2>8. PacketsOK'
    <3>1. SUFFICES ASSUME NEW x \in Endpoints PROVE net'[Peer(x)] \subseteq Sendable(x)'
          BY DEF PacketsOK
    <3>2. net[Peer(x)] \subseteq Sendable(x)'
          BY <1>8 DEF PacketsOK
    <3>3. CASE x = e
          BY <3>2, <3>3, <2>5, <2>6, <2>7
    <3>4. CASE x = Peer(e)
          BY <3>2, <3>4, <2>7, PeerProperties
    <3>5. QED BY <3>3, <3>4, PeerProperties, EndpointsAssumption DEF Peer
  <2>9. /\ construct' \in [Endpoints -> Construct]
        /\ \A x \in Endpoints : construct'[x].chunks \in Seq(Queueable(x)') /\ Len(construct'[x].chunks) <= PacketCap
    <3>1. q.rest \in Construct /\ q.rest.chunks \in Seq(G) /\ Len(q.rest.chunks) <= PacketCap
          BY <2>5 DEF ConstructOf
    <3>2. SUFFICES ASSUME NEW x \in Endpoints
                   PROVE  /\ construct'[x] \in Construct
                          /\ construct'[x].chunks \in Seq(Queueable(x)')
                          /\ Len(construct'[x].chunks) <= PacketCap
          BY <2>1 DEF TypeOK
    <3>3. CASE x = e
          BY <3>1, <3>3, <2>1, <1>5 DEF TypeOK
    <3>4. CASE x # e
          BY <3>4, <2>1, <1>7 DEF TypeOK, ChunksOK
    <3>5. QED BY <3>3, <3>4
  <2>10. \A x \in Endpoints : /\ buffer'[x] \in Seq(Queueable(x)')
                              /\ \A i \in 1 .. Len(buffer'[x]) : buffer'[x][i].vital
    <3>1. SUFFICES ASSUME NEW x \in Endpoints
                   PROVE  /\ buffer'[x] \in Seq(Queueable(x)')
                          /\ \A i \in 1 .. Len(buffer'[x]) : buffer'[x][i].vital
          OBVIOUS
    <3>2. buffer[x] \in Seq(Queueable(x)') /\ \A i \in 1 .. Len(buffer[x]) : buffer[x][i].vital
          BY <1>7 DEF ChunksOK
    <3>3. CASE x = e /\ buffer'[e] = Append(buffer[e], chunk)
      <4>1. chunk \in Queueable(x)' /\ chunk.vital
            BY <3>3, <2>2, <1>5
      <4> HIDE DEF chunk
      <4>2. /\ Append(buffer[x], chunk) \in Seq(Queueable(x)')
            /\ Len(Append(buffer[x], chunk)) = Len(buffer[x]) + 1
            /\ \A i \in 1 .. Len(buffer[x]) : Append(buffer[x], chunk)[i] = buffer[x][i]
            /\ Append(buffer[x], chunk)[Len(buffer[x]) + 1] = chunk
            BY <4>1, <3>2, AppendProperties
      <4>3. Len(buffer[x]) \in Nat
            BY <3>2, LenProperties
      <4>4. QED BY <4>1, <4>2, <4>3, <3>2, <3>3
    <3>4. CASE buffer'[x] = buffer[x]
          BY <3>2, <3>4
    <3>5. QED
      <4> HIDE DEF chunk
      <4> QED BY <3>3, <3>4, <2>1 DEF TypeOK
  <2>11. ChunksOK'
        BY <2>9, <2>10, <1>1, <1>7 DEF ChunksOK
  <2>12. TypeOK'
    <3>1. buffer' \in [Endpoints -> Seq(Chunk)]
      <4>1. \A x \in Endpoints : buffer'[x] \in Seq(Chunk)
            BY <2>10, QueueableChunks, SeqMonotonic DEF Queueable
      <4> HIDE DEF chunk
      <4>2. QED BY <4>1, <2>1 DEF TypeOK
    <3>2. QED BY <3>1, <2>7, <2>9, <1>1, <1>2, <1>4 DEF TypeOK
  <2>13. QED BY <2>8, <2>11, <2>12, <1>10, <1>11, <1>12
<1>15. QED BY <1>13, <1>14

\* Chunks of a packet that is not too old are not too old, wherever they
\* are in it, and stay so while the packet is unpacked.
LEMMA AgeArithmetic ==
    ASSUME NEW g \in Nat, NEW n \in Nat, NEW age \in Nat, NEW cap \in Nat, NEW len \in Nat
    PROVE  /\ g - n <= age /\ len <= cap => g - n <= age + cap - len
           /\ g - n <= age + cap - len => g - n <= age + cap - (len - 1)
           /\ g - n <= age + cap - len => (g + 1) - n <= age + cap - (len - 1)
OBVIOUS

\* A step that takes the packet p from net[e] at most.
LEMMA RejectStep ==
    ASSUME IndInv, NEW e \in Endpoints, NEW p \in net[e], NEW keep, RejectPacket(e, p, keep)
    PROVE  IndInv'
<1>1. net' = [net EXCEPT ![e] = Arrival(e, p, keep)] /\ UNCHANGED <<code, sent, log, heard>>
      BY DEF RejectPacket
<1>2. Arrival(e, p, keep) \subseteq net[e]
      BY DEF Arrival
<1>3. net \in [Endpoints -> SUBSET Packet] /\ \A x \in Endpoints : net[Peer(x)] \subseteq Sendable(x)
      BY DEF IndInv, TypeOK, PacketsOK
<1>4. /\ net' \in [Endpoints -> SUBSET Packet]
      /\ \A x \in Endpoints : net'[Peer(x)] \subseteq net[Peer(x)]
      BY <1>1, <1>2, <1>3, PeerProperties
<1>5. EmitsOK
      BY <1>1, <1>3, <1>4 DEF EmitsOK, IndInv, TypeOK, ChunksOK, code
<1>6. QED BY <1>1, <1>5, QuietStep DEF code, IndInv, TypeOK

\* The window check accepts a packet only if it acknowledges no less than the
\* last one accepted.
LEMMA AckWindow ==
    ASSUME IndInv, NEW e \in Endpoints, state[e] # "OFFLINE", NEW p \in net[e], Fresh(e, p)
    PROVE  /\ AckAcceptable(seq[e], peerAck[e], p.ack) <=> p.seen >= heard[e]
           /\ p.seen <= Got(Peer(e))
<1>1. /\ sent[e] \in Nat /\ heard[e] \in Nat /\ Got(Peer(e)) \in Nat
      /\ MaxUnacked \in Nat /\ MaxAge \in Nat /\ MaxUnacked + MaxAge < MaxSeq
      BY GotType, PeerProperties, WindowAssumption DEF IndInv, TypeOK
<1>2. p \in Sendable(Peer(e))
      BY PeerProperties DEF IndInv, PacketsOK
<1>3. p.seen \in Nat /\ p.ack = p.seen % MaxSeq /\ p.seen <= Got(Peer(e))
      BY <1>2 DEF Sendable, Packet
<1>4. /\ heard[e] <= Got(Peer(e)) /\ Got(Peer(e)) <= sent[e]
      /\ sent[e] - heard[e] <= MaxUnacked
      BY DEF IndInv, WindowOK
<1>5. heard[e] - p.seen <= MaxAge
      BY DEF Fresh
<1>6. /\ heard[e] <= sent[e] /\ p.seen <= sent[e]
      /\ sent[e] - heard[e] < MaxSeq /\ sent[e] - p.seen < MaxSeq
      BY <1>1, <1>3, <1>4, <1>5, MaxSeqAssumption
<1>7. AckAcceptable(sent[e] % MaxSeq, heard[e] % MaxSeq, p.seen % MaxSeq) <=> heard[e] <= p.seen
      BY <1>1, <1>3, <1>6, AckAcceptableMeaning
<1>8. seq[e] = sent[e] % MaxSeq /\ peerAck[e] = heard[e] % MaxSeq
      BY DEF IndInv, NumbersOK
<1>9. QED BY <1>1, <1>3, <1>7, <1>8

LEMMA UnackedSuffix ==
    ASSUME NEW G, NEW b \in Seq(G), \A i \in 1 .. Len(b) : b[i].vital, NEW a
    PROVE  Unacked(b, a) \in Seq(G) /\ \A i \in 1 .. Len(Unacked(b, a)) : Unacked(b, a)[i].vital
<1>1. PICK k \in 1 .. Len(b) + 1 : Unacked(b, a) = SubSeq(b, k, Len(b))
      BY UnackedOf
<1>2. Len(b) \in Nat /\ \A i \in 1 .. Len(b) : b[i] \in G
      BY LenProperties, ElementOfSeq
<1>3. k \in Nat /\ k >= 1 /\ k <= Len(b) + 1
      BY <1>2
<1>4. /\ SubSeq(b, k, Len(b)) \in Seq(G)
      /\ Len(SubSeq(b, k, Len(b))) = IF k <= Len(b) THEN Len(b) - k + 1 ELSE 0
      /\ \A i \in 1 .. Len(b) - k + 1 : SubSeq(b, k, Len(b))[i] = b[k + i - 1]
      BY <1>2, <1>3, SubSeqProperties
<1>5. \A i \in 1 .. Len(SubSeq(b, k, Len(b))) : SubSeq(b, k, Len(b))[i].vital
      BY <1>2, <1>3, <1>4
<1>6. QED BY <1>1, <1>4, <1>5

LEMMA AcceptStep ==
    ASSUME IndInv, NEW e \in Endpoints, NEW p \in net[e], Fresh(e, p),
           state[e] = "ONLINE", rx[e] = << >>, NEW keep, NEW answer \in BOOLEAN,
           AcceptPacket(e, p, keep, answer)
    PROVE  IndInv'
<1> USE DEF IndInv
<1> DEFINE f == Peer(e)
           a == Answered(e, construct[e], answer)
<1>1. /\ f \in Endpoints /\ f # e /\ Peer(f) = e /\ Endpoints = {e, f}
      BY PeerProperties, EndpointsAssumption DEF Peer
<1>2. /\ p \in Sendable(f) /\ p \in Packet
      /\ p.seen \in Nat /\ p.ack \in SeqNum /\ p.ack = p.seen % MaxSeq
      /\ p.chunks \in Seq(Queueable(f)) /\ Len(p.chunks) <= PacketCap
      BY <1>1 DEF PacketsOK, Sendable, Packet
<1>3. p.seen >= heard[e] /\ p.seen <= Got(f)
      BY AckWindow DEF AcceptPacket
<1>4. /\ construct' = [construct EXCEPT ![e] = a.rest]
      /\ \E s \in InFlight(net[f], a.out) :
            net' = [net EXCEPT ![e] = Arrival(e, p, keep), ![f] = s]
      /\ peerAck' = [peerAck EXCEPT ![e] = p.ack]
      /\ heard' = [heard EXCEPT ![e] = p.seen]
      /\ requested' = [requested EXCEPT ![e] = (@ \/ p.resend) /\ ~answer]
      /\ \/ /\ state' = [state EXCEPT ![e] = "ERROR"]
            /\ closed' = [closed EXCEPT ![e] = TRUE]
            /\ UNCHANGED <<buffer, rx>>
         \/ /\ buffer' = [buffer EXCEPT ![e] = Unacked(@, p.ack)]
            /\ rx' = [rx EXCEPT ![e] = p.chunks]
            /\ UNCHANGED <<state, closed>>
      /\ UNCHANGED <<seq, ack, timedOut, sent, log>>
      BY DEF AcceptPacket
<1>5. a.out \subseteq PacketOf(e, Queueable(e)) /\ a.rest \in ConstructOf(Queueable(e))
      BY QueueableChunks, ConstructNow, AnsweredOf DEF ChunksOK
<1> HIDE DEF a
<1>6. a.out \subseteq Sendable(e) /\ a.out \subseteq Packet
      BY <1>5, PacketOfSendable DEF PacketOf
<1>7. /\ net' \in [Endpoints -> SUBSET Packet]
      /\ net'[e] \subseteq net[e]
      /\ net'[f] \subseteq net[f] \cup a.out
  <2>1. PICK s \in InFlight(net[f], a.out) :
                net' = [net EXCEPT ![e] = Arrival(e, p, keep), ![f] = s]
        BY <1>4
  <2>2. s \subseteq net[f] \cup a.out
        BY InFlightOf
  <2>3. Arrival(e, p, keep) \subseteq net[e]
        BY DEF Arrival
  <2> HIDE DEF f
  <2>4. QED BY <2>1, <2>2, <2>3, <1>1, <1>6 DEF TypeOK
<1>8. \A x : Got(x)' = Got(x) /\ Queueable(x)' = Queueable(x)
      BY <1>4 DEF Got, Queueable
<1>9. \A x : Sendable(x)' = Sendable(x)
      BY <1>8 DEF Sendable
<1>10. PacketsOK'
  <2>1. net[e] \subseteq Sendable(f) /\ net[f] \subseteq Sendable(e)
        BY <1>1 DEF PacketsOK
  <2>2. net'[e] \subseteq Sendable(f) /\ net'[f] \subseteq Sendable(e)
        BY <2>1, <1>6, <1>7
  <2> HIDE DEF f
  <2>3. QED BY <2>2, <1>1, <1>9 DEF PacketsOK, f
<1>11. /\ construct' \in [Endpoints -> Construct]
       /\ \A x \in Endpoints : construct'[x].chunks \in Seq(Queueable(x)) /\ Len(construct'[x].chunks) <= PacketCap
  <2>1. a.rest \in Construct /\ a.rest.chunks \in Seq(Queueable(e)) /\ Len(a.rest.chunks) <= PacketCap
        BY <1>5 DEF ConstructOf
  <2>2. QED BY <2>1, <1>4 DEF TypeOK, ChunksOK
<1>12. \A x \in Endpoints : /\ buffer'[x] \in Seq(Queueable(x))
                            /\ \A i \in 1 .. Len(buffer'[x]) : buffer'[x][i].vital
  <2>1. \A x \in Endpoints : buffer[x] \in Seq(Queueable(x)) /\ \A i \in 1 .. Len(buffer[x]) : buffer[x][i].vital
        BY DEF ChunksOK
  <2>2. /\ Unacked(buffer[e], p.ack) \in Seq(Queueable(e))
        /\ \A i \in 1 .. Len(Unacked(buffer[e], p.ack)) : Unacked(buffer[e], p.ack)[i].vital
        BY <2>1, UnackedSuffix
  <2>3. \A x \in Endpoints : buffer'[x] = buffer[x] \/ (x = e /\ buffer'[x] = Unacked(buffer[e], p.ack))
        BY <1>4 DEF TypeOK
  <2>4. QED BY <2>1, <2>2, <2>3
<1>13. \A x \in Endpoints : rx'[x] = rx[x] \/ (x = e /\ rx'[x] = p.chunks)
       BY <1>4 DEF TypeOK
<1>14. ChunksOK'
  <2>1. \A x \in Endpoints : rx'[Peer(x)] \in Seq(Queueable(x))
    <3>1. rx[e] \in Seq(Queueable(f)) /\ rx[f] \in Seq(Queueable(e))
          BY <1>1 DEF ChunksOK
    <3>2. rx'[e] \in Seq(Queueable(f)) /\ rx'[f] \in Seq(Queueable(e))
          BY <3>1, <1>1, <1>2, <1>13
    <3> HIDE DEF f
    <3>3. QED BY <3>2, <1>1 DEF f
  <2>2. QED BY <2>1, <1>8, <1>11, <1>12 DEF ChunksOK
<1>15. TypeOK'
  <2>1. buffer' \in [Endpoints -> Seq(Chunk)]
    <3>1. \A x \in Endpoints : buffer'[x] \in Seq(Chunk)
          BY <1>12, QueueableChunks, SeqMonotonic
    <3>2. QED BY <3>1, <1>4 DEF TypeOK
  <2>2. rx' \in [Endpoints -> Seq(Chunk)]
    <3>1. p.chunks \in Seq(Chunk)
          BY <1>2 DEF Packet
    <3>2. QED BY <3>1, <1>4 DEF TypeOK
  <2>3. /\ state' \in [Endpoints -> {"ONLINE", "ERROR", "OFFLINE"}]
        /\ closed' \in [Endpoints -> BOOLEAN]
    <3>1. state' = state \/ state' = [state EXCEPT ![e] = "ERROR"]
          BY <1>4
    <3>2. closed' = closed \/ closed' = [closed EXCEPT ![e] = TRUE]
          BY <1>4
    <3>3. state' \in [Endpoints -> {"ONLINE", "ERROR", "OFFLINE"}]
          BY <3>1 DEF TypeOK
    <3>4. closed' \in [Endpoints -> BOOLEAN]
          BY <3>2, Zenon DEF TypeOK
    <3>5. QED BY <3>3, <3>4
  <2>4. p.resend \in BOOLEAN
        BY <1>2 DEF Packet
  <2>5. requested' \in [Endpoints -> BOOLEAN]
        BY <2>4, <1>4, Zenon DEF TypeOK
  <2>6. /\ peerAck' \in [Endpoints -> SeqNum] /\ heard' \in [Endpoints -> Nat]
        /\ seq' \in [Endpoints -> SeqNum] /\ ack' \in [Endpoints -> SeqNum]
        /\ timedOut' \in [Endpoints -> BOOLEAN] /\ sent' \in [Endpoints -> Nat]
        /\ log' \in [Endpoints -> Seq(Nat)]
        BY <1>2, <1>4 DEF TypeOK
  <2>7. QED BY <2>1, <2>2, <2>3, <2>5, <2>6, <1>7, <1>11 DEF TypeOK
<1>16. NumbersOK'
  <2>1. SUFFICES ASSUME NEW x \in Endpoints, state'[x] # "OFFLINE"
                 PROVE  /\ seq[x] = sent[x] % MaxSeq /\ ack[x] = Got(x) % MaxSeq
                        /\ peerAck'[x] = heard'[x] % MaxSeq
        BY <1>4, <1>8 DEF NumbersOK
  <2>2. state[x] # "OFFLINE"
        BY <2>1, <1>4 DEF TypeOK
  <2>3. CASE x = e
        BY <2>2, <2>3, <1>2, <1>4 DEF NumbersOK, TypeOK
  <2>4. CASE x # e
        BY <2>2, <2>4, <1>4 DEF NumbersOK, TypeOK
  <2>5. QED BY <2>3, <2>4
<1>17. WindowOK'
  <2>1. /\ Got(f) \in Nat /\ sent[e] \in Nat /\ heard[e] \in Nat /\ MaxUnacked \in Nat
        /\ Got(f) <= sent[e] /\ sent[e] - heard[e] <= MaxUnacked
        BY <1>1, GotType, WindowAssumption DEF TypeOK, WindowOK
  <2>2. heard'[e] = p.seen /\ \A x \in Endpoints : x # e => heard'[x] = heard[x]
        BY <1>4 DEF TypeOK
  <2>3. p.seen <= Got(f) /\ Got(f) <= sent[e] /\ sent[e] - p.seen <= MaxUnacked
        BY <2>1, <1>2, <1>3
  <2>4. \A x \in Endpoints : /\ heard'[x] <= Got(Peer(x))
                             /\ Got(Peer(x)) <= sent[x]
                             /\ sent[x] - heard'[x] <= MaxUnacked
        BY <2>2, <2>3 DEF WindowOK
  <2>5. QED BY <2>4, <1>4, <1>8 DEF WindowOK
<1>18. PendingOK'
  <2>1. SUFFICES ASSUME NEW x \in Endpoints, NEW i \in 1 .. Len(rx'[x]), rx'[x][i].vital
                 PROVE  Got(x) - rx'[x][i].n <= MaxAge + PacketCap - Len(rx'[x])
        BY <1>8 DEF PendingOK
  <2>2. CASE rx'[x] = rx[x]
        BY <2>1, <2>2 DEF PendingOK
  <2>3. CASE x = e /\ rx'[x] = p.chunks
    <3>1. Len(p.chunks) \in Nat /\ DOMAIN p.chunks = 1 .. Len(p.chunks)
          BY <1>2, LenProperties
    <3>2. Got(e) - p.chunks[i].n <= MaxAge
          BY <3>1, <2>1, <2>3 DEF Fresh
    <3>3. p.chunks[i] \in Queueable(f)
          BY <2>1, <2>3, <1>2, ElementOfSeq
    <3>4. p.chunks[i].n \in Nat
          BY <3>3 DEF Queueable, Chunk
    <3>5. Got(e) \in Nat /\ MaxAge \in Nat /\ PacketCap \in Nat
          BY GotType, WindowAssumption, CapacityAssumption
    <3> DEFINE n == p.chunks[i].n
    <3>6. Got(e) - n <= MaxAge + PacketCap - Len(p.chunks)
      <4>1. n \in Nat /\ Got(e) - n <= MaxAge
            BY <3>2, <3>4
      <4>2. Len(p.chunks) \in Nat /\ Len(p.chunks) <= PacketCap
            BY <3>1, <1>2
      <4> HIDE DEF n
      <4>3. QED BY <4>1, <4>2, <3>5, AgeArithmetic, Zenon
    <3>7. QED BY <3>6, <2>3
  <2>4. QED BY <2>2, <2>3, <1>13
<1>19. LogOK'
       BY <1>4 DEF LogOK
<1>20. QED BY <1>10, <1>14, <1>15, <1>16, <1>17, <1>18, <1>19

LEMMA RecvStep == ASSUME IndInv, NEW e \in Endpoints, NEW p \in net[e], Recv(e, p) PROVE IndInv'
<1>1. PICK keep \in {FALSE, MayDuplicate}, answer \in BOOLEAN :
          RejectPacket(e, p, keep) \/ AcceptPacket(e, p, keep, answer)
      BY DEF Recv
<1>2. Fresh(e, p) /\ state[e] = "ONLINE" /\ rx[e] = << >>
      BY DEF Recv
<1>3. QED BY <1>1, <1>2, RejectStep, AcceptStep

-----------------------------------------------------------------------------
\* What a vital chunk that waits to be unpacked can be: at most MaxAge +
\* PacketCap - 1 chunks old, and at most MaxUnacked chunks ahead.
LEMMA PendingRange ==
    ASSUME IndInv, NEW e \in Endpoints, rx[e] # << >>, Head(rx[e]).vital
    PROVE  LET c == Head(rx[e]) IN
           /\ c \in Queueable(Peer(e)) /\ c.n \in Nat /\ c.seq = c.n % MaxSeq
           /\ c.n <= sent[Peer(e)]
           /\ c.n - Got(e) <= MaxUnacked
           /\ Got(e) - c.n <= MaxAge + PacketCap - Len(rx[e])
           /\ Len(rx[e]) >= 1
<1> DEFINE f == Peer(e)
           c == Head(rx[e])
<1>1. f \in Endpoints /\ Peer(f) = e
      BY PeerProperties
<1>2. rx[e] \in Seq(Queueable(f))
      BY <1>1 DEF IndInv, ChunksOK
<1>3. c \in Queueable(f) /\ Len(rx[e]) \in Nat /\ Len(rx[e]) >= 1 /\ c = rx[e][1]
      BY <1>2, HeadTailProperties, LenProperties, EmptySeq
<1>4. c.n \in Nat /\ c.n <= sent[f] /\ c.seq = c.n % MaxSeq
      BY <1>3 DEF Queueable, Chunk
<1>5. Got(e) - c.n <= MaxAge + PacketCap - Len(rx[e])
  <2>1. 1 \in 1 .. Len(rx[e])
        BY <1>3
  <2>2. QED BY <2>1, <1>3 DEF IndInv, PendingOK
<1>6. /\ heard[f] <= Got(e) /\ sent[f] - heard[f] <= MaxUnacked
      /\ heard[f] \in Nat /\ sent[f] \in Nat /\ Got(e) \in Nat /\ MaxUnacked \in Nat
      BY <1>1, GotType, WindowAssumption DEF IndInv, WindowOK, TypeOK
<1>7. c.n - Got(e) <= MaxUnacked
      BY <1>4, <1>6
<1>8. QED BY <1>3, <1>4, <1>5, <1>7

\* A chunk with the next number is the next chunk.
LEMMA InSequenceIsNext ==
    ASSUME IndInv, NEW e \in Endpoints, state[e] # "OFFLINE", rx[e] # << >>,
           Head(rx[e]).vital, InSequence(e, Head(rx[e]))
    PROVE  Head(rx[e]).n = Got(e) + 1
<1> DEFINE n == Head(rx[e]).n
<1>1. /\ n \in Nat /\ Head(rx[e]).seq = n % MaxSeq
      /\ n - Got(e) <= MaxUnacked
      /\ Got(e) - n <= MaxAge + PacketCap - Len(rx[e])
      /\ Len(rx[e]) >= 1
      BY PendingRange
<1>2. Got(e) \in Nat /\ ack[e] = Got(e) % MaxSeq
      BY GotType DEF IndInv, NumbersOK
<1>3. Head(rx[e]).seq = (Got(e) + 1) % MaxSeq
      BY <1>2, NextSeqMod DEF InSequence
<1> HIDE DEF n
<1>4. n % MaxSeq = (Got(e) + 1) % MaxSeq
      BY <1>1, <1>3
<1>5. /\ PacketCap \in Nat /\ MaxAge \in Nat /\ MaxUnacked \in Nat /\ MaxSeq \in Nat
      /\ 2 * MaxUnacked < MaxSeq /\ MaxAge + PacketCap < MaxSeq
      BY WindowAssumption, CapacityAssumption, MaxSeqAssumption
<1>6. Len(rx[e]) \in Nat
      BY LenProperties DEF IndInv, TypeOK
<1>7. n - (Got(e) + 1) < MaxSeq /\ (Got(e) + 1) - n < MaxSeq
  <2>1. \A g, m, u, age, cap, len, q \in Nat :
            /\ 2 * u < q /\ age + cap < q /\ len >= 1
            /\ m - g <= u /\ g - m <= age + cap - len
            => m - (g + 1) < q /\ (g + 1) - m < q
        OBVIOUS
  <2>2. n \in Nat /\ Got(e) \in Nat
        BY <1>1, <1>2
  <2>3. QED BY <2>1, <2>2, <1>1, <1>5, <1>6, Zenon
<1>8. QED BY <1>1, <1>2, <1>4, <1>7, ModInjective DEF n

\* Taking a chunk from rx[e] moves Got(e) by one or not at all.
LEMMA UnpackStep == ASSUME IndInv, NEW e \in Endpoints, Unpack(e) PROVE IndInv'
<1> USE DEF IndInv
<1> DEFINE f == Peer(e)
           c == Head(rx[e])
<1>1. /\ f \in Endpoints /\ f # e /\ Peer(f) = e /\ Endpoints = {e, f}
      BY PeerProperties, EndpointsAssumption DEF Peer
<1>2. /\ state[e] # "OFFLINE" /\ rx[e] # << >>
      /\ rx' = [rx EXCEPT ![e] = Tail(@)]
      /\ UNCHANGED <<state, seq, peerAck, buffer, requested, closed, timedOut, net, sent, heard>>
      BY DEF Unpack
<1>3. /\ Len(rx[e]) \in Nat /\ Len(rx[e]) >= 1
      /\ Tail(rx[e]) \in Seq(Queueable(f)) /\ Tail(rx[e]) \in Seq(Chunk)
      /\ Len(Tail(rx[e])) = Len(rx[e]) - 1
      /\ \A i \in 1 .. Len(Tail(rx[e])) : Tail(rx[e])[i] = rx[e][i + 1]
  <2>1. rx[e] \in Seq(Queueable(f)) /\ rx[e] \in Seq(Chunk)
        BY <1>1 DEF ChunksOK, TypeOK
  <2>2. QED BY <2>1, <1>2, HeadTailProperties, LenProperties, EmptySeq
<1>4. \/ /\ c.vital /\ InSequence(e, c)
         /\ ack' = [ack EXCEPT ![e] = c.seq]
         /\ log' = [log EXCEPT ![e] = Append(@, c.n)]
         /\ construct' = construct
      \/ /\ UNCHANGED <<ack, log>>
         /\ construct' \in {construct, [construct EXCEPT ![e].resend = TRUE]}
      BY DEF Unpack, Deliver, DeliverPlain, SkipOld, SignalResend
<1>5. \/ /\ c.n = Got(e) + 1 /\ c.n \in Nat /\ c.n <= sent[f] /\ c.seq = c.n % MaxSeq
         /\ ack' = [ack EXCEPT ![e] = c.seq]
         /\ log' = [log EXCEPT ![e] = Append(@, c.n)]
         /\ construct' = construct
      \/ /\ UNCHANGED <<ack, log>>
         /\ construct' \in {construct, [construct EXCEPT ![e].resend = TRUE]}
      BY <1>2, <1>4, InSequenceIsNext, PendingRange
<1> HIDE DEF c
<1>6. log' \in [Endpoints -> Seq(Nat)] /\ ack' \in [Endpoints -> SeqNum]
  <2>1. log[e] \in Seq(Nat)
        BY DEF TypeOK
  <2>2. c.n \in Nat => Append(log[e], c.n) \in Seq(Nat)
        BY <2>1, AppendProperties
  <2>3. c.n \in Nat => c.n % MaxSeq \in SeqNum
        BY ModIsSeqNum
  <2>4. CASE UNCHANGED <<ack, log>>
        BY <2>4 DEF TypeOK
  <2>5. CASE /\ c.n \in Nat /\ c.seq = c.n % MaxSeq
             /\ ack' = [ack EXCEPT ![e] = c.seq]
             /\ log' = [log EXCEPT ![e] = Append(@, c.n)]
    <3>1. Append(log[e], c.n) \in Seq(Nat) /\ c.seq \in SeqNum
          BY <2>2, <2>3, <2>5
    <3>2. QED BY <3>1, <2>5 DEF TypeOK
  <2>6. QED BY <2>4, <2>5, <1>5, Zenon
<1>7. /\ Got(f)' = Got(f)
      /\ \/ Got(e)' = Got(e) + 1 /\ Got(e)' <= sent[f] /\ ack'[e] = Got(e)' % MaxSeq
            /\ log'[e] = Append(log[e], Got(e) + 1)
         \/ Got(e)' = Got(e) /\ UNCHANGED <<ack, log>>
      /\ \A x \in Endpoints : x # e => ack'[x] = ack[x] /\ log'[x] = log[x]
  <2>1. CASE UNCHANGED <<ack, log>>
        BY <2>1 DEF Got
  <2>2. CASE /\ c.n = Got(e) + 1 /\ c.n \in Nat /\ c.n <= sent[f] /\ c.seq = c.n % MaxSeq
             /\ ack' = [ack EXCEPT ![e] = c.seq]
             /\ log' = [log EXCEPT ![e] = Append(@, c.n)]
    <3>1. /\ log'[e] = Append(log[e], c.n) /\ ack'[e] = c.n % MaxSeq
          /\ \A x \in Endpoints : x # e => ack'[x] = ack[x] /\ log'[x] = log[x]
          BY <2>2 DEF TypeOK
    <3>2. Len(log'[e]) = Len(log[e]) + 1
          BY <3>1, <2>2, AppendProperties DEF TypeOK
    <3>3. Got(e)' = Got(e) + 1
      <4>1. Start[f] \in Nat /\ Len(log[e]) \in Nat
            BY <1>1, CapacityAssumption, LenProperties DEF TypeOK
      <4>2. Got(e)' = Start[f] + Len(log'[e])
            BY DEF Got
      <4>3. QED BY <4>1, <4>2, <3>2 DEF Got
    <3>4. Got(f)' = Got(f)
          BY <3>1, <1>1 DEF Got
    <3>5. QED BY <3>1, <3>3, <3>4, <2>2
  <2>3. QED BY <2>1, <2>2, <1>5
<1>8. Got(e) \in Nat /\ Got(f) \in Nat /\ Got(e)' \in Nat /\ Got(e) <= Got(e)' /\ Got(f) <= Got(f)'
      BY <1>1, <1>7, GotType
<1>9. \A x : Queueable(x)' = Queueable(x)
      BY <1>2 DEF Queueable
<1>10. \A x \in Endpoints : Sendable(x) \subseteq Sendable(x)'
  <2>1. SUFFICES ASSUME NEW x \in Endpoints, NEW p \in Sendable(x) PROVE p \in Sendable(x)'
        OBVIOUS
  <2>2. p.seen \in Nat /\ p.seen <= Got(x)
        BY <2>1 DEF Sendable, Packet
  <2>3. p.seen <= Got(x)'
        BY <2>2, <1>1, <1>7, <1>8
  <2>4. QED BY <2>1, <2>3, <1>9 DEF Sendable
<1>11. /\ construct' \in [Endpoints -> Construct]
       /\ \A x \in Endpoints : construct'[x].chunks = construct[x].chunks
  <2>1. construct' = construct \/ construct' = [construct EXCEPT ![e].resend = TRUE]
        BY <1>5
  <2>2. construct \in [Endpoints -> Construct]
        BY DEF TypeOK
  <2>3. CASE construct' = [construct EXCEPT ![e].resend = TRUE]
    <3>1. construct[e] \in Construct
          BY <2>2
    <3>2. /\ [construct[e] EXCEPT !.resend = TRUE] \in Construct
          /\ [construct[e] EXCEPT !.resend = TRUE].chunks = construct[e].chunks
          BY <3>1 DEF Construct
    <3>3. construct' = [construct EXCEPT ![e] = [construct[e] EXCEPT !.resend = TRUE]]
          BY <2>3
    <3>4. QED BY <2>2, <3>2, <3>3
  <2>4. QED BY <2>1, <2>2, <2>3
<1>12. rx' \in [Endpoints -> Seq(Chunk)]
       BY <1>2, <1>3 DEF TypeOK
<1>13. TypeOK'
       BY <1>2, <1>6, <1>11, <1>12 DEF TypeOK
<1>14. NumbersOK'
  <2>1. /\ seq[e] = sent[e] % MaxSeq /\ ack'[e] = Got(e)' % MaxSeq
        /\ peerAck[e] = heard[e] % MaxSeq
        BY <1>2, <1>7 DEF NumbersOK
  <2>2. state[f] # "OFFLINE" => /\ seq[f] = sent[f] % MaxSeq /\ ack'[f] = Got(f)' % MaxSeq
                                /\ peerAck[f] = heard[f] % MaxSeq
        BY <1>1, <1>7 DEF NumbersOK
  <2> HIDE DEF f
  <2>3. \A x \in Endpoints : state[x] # "OFFLINE" => /\ seq[x] = sent[x] % MaxSeq
                                                     /\ ack'[x] = Got(x)' % MaxSeq
                                                     /\ peerAck[x] = heard[x] % MaxSeq
        BY <2>1, <2>2, <1>1
  <2>4. QED BY <2>3, <1>2 DEF NumbersOK
<1>15. WindowOK'
  <2>1. /\ heard[e] <= Got(f)' /\ Got(f)' <= sent[e] /\ sent[e] - heard[e] <= MaxUnacked
        BY <1>1, <1>7 DEF WindowOK
  <2>2. /\ heard[f] <= Got(e)' /\ Got(e)' <= sent[f] /\ sent[f] - heard[f] <= MaxUnacked
    <3>1. /\ heard[f] <= Got(e) /\ Got(e) <= sent[f] /\ sent[f] - heard[f] <= MaxUnacked
          /\ heard[f] \in Nat
          BY <1>1 DEF WindowOK, TypeOK
    <3>2. QED BY <3>1, <1>7, <1>8
  <2> HIDE DEF f
  <2>3. \A x \in Endpoints : /\ heard[x] <= Got(Peer(x))' /\ Got(Peer(x))' <= sent[x]
                             /\ sent[x] - heard[x] <= MaxUnacked
        BY <2>1, <2>2, <1>1 DEF f
  <2>4. QED BY <2>3, <1>2 DEF WindowOK
<1>16. ChunksOK'
  <2>1. \A x \in Endpoints : rx'[Peer(x)] \in Seq(Queueable(x))
    <3>1. rx'[e] \in Seq(Queueable(f)) /\ rx'[f] \in Seq(Queueable(e))
          BY <1>1, <1>2, <1>3 DEF ChunksOK, TypeOK
    <3> HIDE DEF f
    <3>2. QED BY <3>1, <1>1 DEF f
  <2>2. QED BY <2>1, <1>2, <1>9, <1>11 DEF ChunksOK
<1>17. PacketsOK'
       BY <1>2, <1>10 DEF PacketsOK
<1>18. PendingOK'
  <2>1. SUFFICES ASSUME NEW x \in Endpoints, NEW i \in 1 .. Len(rx'[x]), rx'[x][i].vital
                 PROVE  Got(x)' - rx'[x][i].n <= MaxAge + PacketCap - Len(rx'[x])
        BY DEF PendingOK
  <2>2. CASE x = f
        BY <2>1, <2>2, <1>1, <1>2, <1>7 DEF PendingOK, TypeOK
  <2>3. CASE x = e
    <3>1. rx'[e] = Tail(rx[e])
          BY <1>2 DEF TypeOK
    <3>2. i + 1 \in 1 .. Len(rx[e]) /\ rx'[e][i] = rx[e][i + 1]
      <4>1. i \in 1 .. Len(Tail(rx[e]))
            BY <3>1, <2>1, <2>3
      <4>2. i + 1 \in 1 .. Len(rx[e])
            BY <4>1, <1>3
      <4>3. QED BY <4>1, <4>2, <3>1, <1>3
    <3>3. Got(e) - rx[e][i + 1].n <= MaxAge + PacketCap - Len(rx[e])
          BY <3>2, <2>1, <2>3 DEF PendingOK
    <3>4. rx[e][i + 1].n \in Nat
      <4>1. rx[e] \in Seq(Chunk)
            BY DEF TypeOK
      <4>2. rx[e][i + 1] \in Chunk
            BY <4>1, <3>2, ElementOfSeq
      <4>3. QED BY <4>2 DEF Chunk
    <3>5. MaxAge \in Nat /\ PacketCap \in Nat
          BY WindowAssumption, CapacityAssumption
    <3> DEFINE n == rx[e][i + 1].n
    <3>6. Got(e)' - n <= MaxAge + PacketCap - (Len(rx[e]) - 1)
      <4>1. n \in Nat /\ Got(e) - n <= MaxAge + PacketCap - Len(rx[e])
            BY <3>3, <3>4
      <4>2. Got(e)' = Got(e) \/ Got(e)' = Got(e) + 1
            BY <1>7
      <4>3. Got(e) \in Nat /\ Len(rx[e]) \in Nat
            BY <1>3, <1>8
      <4> HIDE DEF n
      <4>4. /\ Got(e) - n <= MaxAge + PacketCap - (Len(rx[e]) - 1)
            /\ (Got(e) + 1) - n <= MaxAge + PacketCap - (Len(rx[e]) - 1)
            BY <4>1, <4>3, <3>5, AgeArithmetic, Zenon
      <4>5. QED BY <4>2, <4>4, Zenon
    <3>7. QED BY <3>1, <3>2, <3>6, <2>3, <1>3
  <2>4. QED BY <2>2, <2>3, <1>1
<1>19. LogOK'
  <2>1. SUFFICES ASSUME NEW x \in Endpoints, NEW i \in 1 .. Len(log'[x])
                 PROVE  log'[x][i] = Start[Peer(x)] + i
        BY DEF LogOK
  <2>2. CASE log'[x] = log[x]
        BY <2>1, <2>2 DEF LogOK
  <2>3. CASE x = e /\ log'[e] = Append(log[e], Got(e) + 1)
    <3>1. log[e] \in Seq(Nat) /\ Len(log[e]) \in Nat /\ Start[f] \in Nat
          BY <1>1, LenProperties, CapacityAssumption DEF TypeOK
    <3>2. /\ Len(log'[e]) = Len(log[e]) + 1
          /\ \A j \in 1 .. Len(log[e]) : log'[e][j] = log[e][j]
          /\ log'[e][Len(log[e]) + 1] = Got(e) + 1
          BY <3>1, <2>3, <1>8, AppendProperties
    <3>3. Got(e) = Start[f] + Len(log[e])
          BY DEF Got
    <3>4. CASE i \in 1 .. Len(log[e])
          BY <3>2, <3>4, <2>3 DEF LogOK
    <3>5. CASE i = Len(log[e]) + 1
      <4>1. Got(e) + 1 = Start[f] + (Len(log[e]) + 1)
            BY <3>1, <3>3
      <4>2. log'[x][i] = Got(e) + 1 /\ Start[Peer(x)] + i = Start[f] + (Len(log[e]) + 1)
            BY <3>2, <3>5, <2>3
      <4>3. QED BY <4>1, <4>2, Zenon
    <3>6. i \in 1 .. Len(log[e]) + 1
          BY <3>2, <2>1, <2>3
    <3>7. QED BY <3>1, <3>4, <3>5, <3>6
  <2>4. QED BY <2>2, <2>3, <1>7
<1>20. QED BY <1>13, <1>14, <1>15, <1>16, <1>17, <1>18, <1>19

-----------------------------------------------------------------------------
LEMMA StutterStep == ASSUME IndInv, UNCHANGED vars PROVE IndInv'
<1>1. EmitsOK
      BY DEF EmitsOK, IndInv, TypeOK, ChunksOK, PacketsOK, vars, code
<1>2. QED BY <1>1, QuietStep DEF vars, code, IndInv, TypeOK

LEMMA NextIndInv == IndInv /\ [Next]_vars => IndInv'
<1>1. SUFFICES ASSUME IndInv, [Next]_vars PROVE IndInv'
      OBVIOUS
<1>2. CASE UNCHANGED vars
      BY <1>1, <1>2, StutterStep
<1>3. ASSUME NEW e \in Endpoints, QueueVital(e) PROVE IndInv'
      BY <1>1, <1>3, QueueVitalStep
<1>4. ASSUME NEW e \in Endpoints, QueuePlain(e) PROVE IndInv'
      BY <1>1, <1>4, QueuePlainStep
<1>5. ASSUME NEW e \in Endpoints, Flush(e) PROVE IndInv'
      BY <1>1, <1>5, FlushStep
<1>6. ASSUME NEW e \in Endpoints, NEW p \in net[e], Recv(e, p) PROVE IndInv'
      BY <1>1, <1>6, RecvStep
<1>7. ASSUME NEW e \in Endpoints, NEW p \in net[e], Lose(e, p) PROVE IndInv'
      BY <1>1, <1>7, LoseStep
<1>8. ASSUME NEW e \in Endpoints, Unpack(e) PROVE IndInv'
      BY <1>1, <1>8, UnpackStep
<1>9. ASSUME NEW e \in Endpoints, DiscardPending(e) PROVE IndInv'
      BY <1>1, <1>9, DiscardPendingStep
<1>10. ASSUME NEW e \in Endpoints,
              NEW due \in SUBSET {"answer", "resend", "flush", "keepalive"}, Update(e, due)
       PROVE IndInv'
       BY <1>1, <1>10, UpdateStep
<1>11. ASSUME NEW e \in Endpoints, NEW answer \in BOOLEAN, UpdateTimeout(e, answer)
       PROVE IndInv'
       BY <1>1, <1>11, UpdateTimeoutStep
<1>12. ASSUME NEW e \in Endpoints, UpdateProtectionOver(e) PROVE IndInv'
       BY <1>1, <1>12, UpdateProtectionOverStep
<1>13. ASSUME NEW e \in Endpoints, Disconnect(e) PROVE IndInv'
       BY <1>1, <1>13, DisconnectStep
<1>14. QED
       BY <1>1, <1>2, <1>3, <1>4, <1>5, <1>6, <1>7, <1>8, <1>9, <1>10, <1>11, <1>12, <1>13
       DEF Next

\* In every state the numbers of network_conn.cpp stand for the chunks that IndInv
\* says, no further apart than IndInv says.
THEOREM Inductive == Spec => []IndInv
<1>1. Init => IndInv
      BY InitIndInv
<1>2. IndInv /\ [Next]_vars => IndInv'
      BY NextIndInv
<1>3. QED BY <1>1, <1>2, PTL DEF Spec

-----------------------------------------------------------------------------
\* The safety properties follow from the invariant.

\* Type correctness of the connection.
THEOREM TypeCorrect == Spec => []TypeOK
<1>1. IndInv => TypeOK
      BY DEF IndInv
<1>2. QED BY <1>1, Inductive, PTL

\* UnpackNextChunk hands vital chunks to the game in order, each once, with no
\* gap, for every size of the number space, the packets and the resend buffer
\* that keeps to WindowAssumption.
THEOREM Delivery == Spec => []InOrderOnce
<1>1. IndInv => InOrderOnce
  <2>1. SUFFICES ASSUME IndInv, NEW e \in Endpoints PROVE Got(e) <= sent[Peer(e)]
        BY DEF IndInv, LogOK, InOrderOnce
  <2>2. QED BY <2>1, PeerProperties DEF IndInv, WindowOK
<1>2. QED BY <1>1, Inductive, PTL

\* The unpacker skips only what was delivered before.
THEOREM Skipping == Spec => []SkippedIsDelivered
<1>1. IndInv => SkippedIsDelivered
  <2>1. SUFFICES ASSUME IndInv, NEW e \in Endpoints, rx[e] # << >>, state[e] = "ONLINE",
                        Head(rx[e]).vital, IsSeqInBackroom(Head(rx[e]).seq, ack[e])
                 PROVE  Head(rx[e]).n <= Got(e)
        BY DEF SkippedIsDelivered
  <2> DEFINE n == Head(rx[e]).n
  <2>2. /\ n \in Nat /\ Head(rx[e]).seq = n % MaxSeq
        /\ n - Got(e) <= MaxUnacked
        /\ Got(e) - n <= MaxAge + PacketCap - Len(rx[e])
        /\ Len(rx[e]) >= 1
        BY <2>1, PendingRange
  <2>3. Got(e) \in Nat /\ ack[e] = Got(e) % MaxSeq
        BY <2>1, GotType DEF IndInv, NumbersOK
  <2>4. /\ PacketCap \in Nat /\ MaxAge \in Nat /\ MaxUnacked \in Nat /\ MaxSeq \in Nat
        /\ 2 * MaxUnacked < MaxSeq /\ MaxAge + PacketCap < MaxSeq
        BY WindowAssumption, CapacityAssumption, MaxSeqAssumption
  <2>5. Len(rx[e]) \in Nat
        BY <2>1, LenProperties DEF IndInv, TypeOK
  <2> HIDE DEF n
  <2>6. n - Got(e) < MaxSeq /\ Got(e) - n < MaxSeq /\ 2 * (n - Got(e)) < MaxSeq
    <3>1. \A g, m, u, age, cap, len, q \in Nat :
              /\ 2 * u < q /\ age + cap < q /\ len >= 1
              /\ m - g <= u /\ g - m <= age + cap - len
              => m - g < q /\ g - m < q /\ 2 * (m - g) < q
          OBVIOUS
    <3>2. QED BY <3>1, <2>2, <2>3, <2>4, <2>5, Zenon
  <2>7. IsSeqInBackroom(n % MaxSeq, Got(e) % MaxSeq)
        BY <2>1, <2>2, <2>3
  <2>8. \/ n <= Got(e)
        \/ n > Got(e) /\ 2 * (n - Got(e)) >= MaxSeq
        BY <2>2, <2>3, <2>6, <2>7, BackroomMeaning
  <2>9. QED BY <2>2, <2>3, <2>4, <2>6, <2>8 DEF n
<1>2. QED BY <1>1, Inductive, PTL

\* The window check of Feed refuses exactly the packets that were overtaken.
THEOREM Window == Spec => []AckWindowExact
<1>1. IndInv => AckWindowExact
  <2>1. SUFFICES ASSUME IndInv, NEW e \in Endpoints, state[e] = "ONLINE",
                        NEW p \in net[e], Fresh(e, p)
                 PROVE  AckAcceptable(seq[e], peerAck[e], p.ack) <=> p.seen >= heard[e]
        BY DEF AckWindowExact
  <2>2. QED BY <2>1, AckWindow
<1>2. QED BY <1>1, Inductive, PTL

-----------------------------------------------------------------------------
\* The resend buffer.  A step leaves it alone, appends the chunk just
\* numbered, drops what the peer acknowledged, or empties it for good.
BufferKept(e) ==
    \/ buffer'[e] = buffer[e] /\ heard'[e] = heard[e] /\ (state'[e] = "ONLINE" => state[e] = "ONLINE")
    \/ buffer'[e] = buffer[e] /\ state'[e] # "ONLINE"
BufferGrows(e) ==
    \E c \in Queueable(e)' : /\ buffer'[e] = Append(buffer[e], c)
                             /\ c.vital /\ c.n = sent[e] + 1
                             /\ heard'[e] = heard[e] /\ state'[e] = state[e]
BufferAcked(e) ==
    \E p \in net[e] : /\ Fresh(e, p) /\ AckAcceptable(seq[e], peerAck[e], p.ack)
                      /\ state[e] = "ONLINE" /\ state'[e] = "ONLINE"
                      /\ buffer'[e] = Unacked(buffer[e], p.ack)
                      /\ heard'[e] = p.seen
BufferReset(e) == buffer'[e] = << >> /\ state'[e] = "OFFLINE"

\* What a step does to the buffer of x, and to what x still has to unpack.
BufferStep ==
    \A x \in Endpoints :
        /\ BufferKept(x) \/ BufferGrows(x) \/ BufferAcked(x) \/ BufferReset(x)
        /\ state'[x] = "ERROR" => \/ rx'[x] = rx[x] /\ (rx[x] = << >> \/ state[x] = "ERROR")
                                  \/ state[x] = "ERROR" /\ rx[x] # << >>

LEMMA NextBuffer == ASSUME IndInv, [Next]_vars PROVE BufferStep
<1> USE DEF BufferStep, BufferKept
<1>0. TypeOK
      BY DEF IndInv
<1>1. CASE UNCHANGED vars
      BY <1>1 DEF vars, code
<1>2. ASSUME NEW e \in Endpoints, QueueVital(e) PROVE BufferStep
  <2> DEFINE c == [vital |-> TRUE, seq |-> NextSeq(seq[e]), n |-> sent[e] + 1]
  <2>1. /\ UNCHANGED <<state, rx, heard>>
        /\ \/ buffer' = buffer
           \/ state[e] = "ONLINE" /\ buffer' = [buffer EXCEPT ![e] = Append(@, c)]
        /\ sent' = [sent EXCEPT ![e] = @ + 1]
    <3>1. \/ buffer' = buffer
          \/ state[e] = "ONLINE" /\ buffer' = [buffer EXCEPT ![e] =
                                       IF Len(@) < BufferCap THEN Append(@, c) ELSE @]
          BY <1>2 DEF QueueVital
    <3> HIDE DEF c
    <3>2. QED BY <1>0, <1>2, <3>1 DEF QueueVital, TypeOK
  <2>2. CASE buffer' = buffer
        BY <2>1, <2>2
  <2>3. CASE state[e] = "ONLINE" /\ buffer' = [buffer EXCEPT ![e] = Append(@, c)]
    <3>1. c \in Queueable(e)' /\ c.vital /\ c.n = sent[e] + 1
      <4>1. sent[e] \in Nat /\ seq[e] = sent[e] % MaxSeq /\ sent'[e] = sent[e] + 1
            BY <1>0, <2>1, <2>3 DEF IndInv, NumbersOK, TypeOK
      <4>2. NextSeq(seq[e]) = (sent[e] + 1) % MaxSeq /\ NextSeq(seq[e]) \in SeqNum
        <5>1. sent[e] + 1 \in Nat
              BY <4>1
        <5>2. QED BY <4>1, <5>1, NextSeqMod, ModIsSeqNum
      <4>3. QED BY <4>1, <4>2 DEF Queueable, Chunk
    <3> HIDE DEF c
    <3>2. buffer'[e] = Append(buffer[e], c)
          BY <1>0, <2>3 DEF TypeOK
    <3>3. BufferGrows(e)
          BY <3>1, <3>2, <2>1 DEF BufferGrows
    <3>4. \A x \in Endpoints : x # e => BufferKept(x)
          BY <1>0, <2>1, <2>3 DEF TypeOK
    <3>5. QED BY <3>3, <3>4, <2>1
  <2>4. QED BY <2>1, <2>2, <2>3
<1>3. ASSUME NEW e \in Endpoints, NEW p \in net[e], Recv(e, p) PROVE BufferStep
  <2>1. /\ Fresh(e, p) /\ state[e] = "ONLINE" /\ rx[e] = << >>
        BY <1>3 DEF Recv
  <2>2. PICK keep \in {FALSE, MayDuplicate}, answer \in BOOLEAN :
            RejectPacket(e, p, keep) \/ AcceptPacket(e, p, keep, answer)
        BY <1>3 DEF Recv
  <2>3. CASE RejectPacket(e, p, keep)
        BY <2>3 DEF RejectPacket, code
  <2>4. CASE AcceptPacket(e, p, keep, answer) /\ p.ctrl = "close"
    <3>1. /\ state' = [state EXCEPT ![e] = "ERROR"] /\ UNCHANGED <<buffer, rx>>
          /\ heard' = [heard EXCEPT ![e] = p.seen]
          BY <2>4 DEF AcceptPacket
    <3>2. QED BY <3>1, <2>1, <1>0 DEF TypeOK
  <2>5. CASE AcceptPacket(e, p, keep, answer) /\ p.ctrl # "close"
    <3>1. /\ buffer' = [buffer EXCEPT ![e] = Unacked(@, p.ack)]
          /\ rx' = [rx EXCEPT ![e] = p.chunks]
          /\ UNCHANGED state
          /\ heard' = [heard EXCEPT ![e] = p.seen]
          /\ AckAcceptable(seq[e], peerAck[e], p.ack)
          BY <2>5 DEF AcceptPacket
    <3>2. BufferAcked(e)
          BY <3>1, <2>1, <1>0 DEF BufferAcked, TypeOK
    <3>3. \A x \in Endpoints : x # e => BufferKept(x) /\ rx'[x] = rx[x]
          BY <3>1, <1>0 DEF TypeOK
    <3>4. QED BY <3>1, <3>2, <3>3, <2>1
  <2>6. QED BY <2>2, <2>3, <2>4, <2>5
<1>4. ASSUME NEW e \in Endpoints, Unpack(e) PROVE BufferStep
  <2>1. UNCHANGED <<state, buffer, heard>> /\ rx[e] # << >> /\ rx' = [rx EXCEPT ![e] = Tail(@)]
        BY <1>4 DEF Unpack
  <2>2. QED BY <2>1, <1>0 DEF TypeOK
<1>5. ASSUME NEW e \in Endpoints, DiscardPending(e) PROVE BufferStep
  <2>1. UNCHANGED <<state, buffer, heard>> /\ state[e] = "OFFLINE" /\ rx' = [rx EXCEPT ![e] = << >>]
        BY <1>5 DEF DiscardPending
  <2>2. QED BY <2>1, <1>0 DEF TypeOK
<1>6. ASSUME NEW e \in Endpoints, NEW answer \in BOOLEAN, UpdateTimeout(e, answer)
      PROVE  BufferStep
  <2>1. /\ UNCHANGED <<buffer, heard, rx>> /\ state' = [state EXCEPT ![e] = "ERROR"]
        /\ rx[e] = << >>
        BY <1>6 DEF UpdateTimeout
  <2>2. QED BY <2>1, <1>0 DEF TypeOK
<1>7. ASSUME NEW e \in Endpoints, Disconnect(e) PROVE BufferStep
  <2>1. /\ UNCHANGED <<heard, rx>> /\ state' = [state EXCEPT ![e] = "OFFLINE"]
        /\ buffer' = [buffer EXCEPT ![e] = << >>]
        BY <1>7 DEF Disconnect
  <2>2. BufferReset(e) /\ \A x \in Endpoints : x # e => BufferKept(x) /\ state'[x] = state[x]
        BY <2>1, <1>0 DEF TypeOK, BufferReset
  <2>3. state'[e] # "ERROR"
        BY <2>1, <1>0 DEF TypeOK
  <2>4. QED BY <2>1, <2>2, <2>3
<1>8. ASSUME NEW e \in Endpoints,
             \/ QueuePlain(e) \/ Flush(e) \/ UpdateProtectionOver(e)
             \/ \E p \in net[e] : Lose(e, p)
             \/ \E due \in SUBSET {"answer", "resend", "flush", "keepalive"} : Update(e, due)
      PROVE  BufferStep
  <2>1. UNCHANGED <<state, buffer, heard, rx>>
        BY <1>8 DEF QueuePlain, Flush, UpdateProtectionOver, Lose, Update, code
  <2>2. QED BY <2>1
<1>9. QED BY <1>1, <1>2, <1>3, <1>4, <1>5, <1>6, <1>7, <1>8 DEF Next

\* AckChunks: exactly the chunks that p acknowledges leave the buffer.
LEMMA AckedChunks ==
    ASSUME IndInv, BufferOK, NEW e \in Endpoints, state[e] = "ONLINE",
           NEW p \in net[e], Fresh(e, p), AckAcceptable(seq[e], peerAck[e], p.ack)
    PROVE  \E k \in 1 .. Len(buffer[e]) + 1 :
              /\ Unacked(buffer[e], p.ack) = SubSeq(buffer[e], k, Len(buffer[e]))
              /\ \A i \in 1 .. k - 1 : buffer[e][i].n <= p.seen
              /\ \A i \in k .. Len(buffer[e]) : buffer[e][i].n > p.seen
<1> DEFINE b == buffer[e]
<1>1. p.seen \in Nat /\ p.ack = p.seen % MaxSeq /\ p.seen >= heard[e] /\ p.seen <= sent[e]
  <2>1. p \in Sendable(Peer(e))
        BY PeerProperties DEF IndInv, PacketsOK
  <2>2. p.seen \in Nat /\ p.ack = p.seen % MaxSeq
        BY <2>1 DEF Sendable, Packet
  <2>3. p.seen >= heard[e] /\ p.seen <= Got(Peer(e))
        BY AckWindow
  <2>4. Got(Peer(e)) <= sent[e] /\ Got(Peer(e)) \in Nat /\ sent[e] \in Nat
        BY GotType, PeerProperties DEF IndInv, WindowOK, TypeOK
  <2>5. QED BY <2>2, <2>3, <2>4
<1>2. /\ sent[e] \in Nat /\ heard[e] \in Nat /\ sent[e] - heard[e] <= MaxUnacked
      /\ MaxUnacked \in Nat /\ 2 * MaxUnacked < MaxSeq /\ MaxSeq \in Nat
      BY WindowAssumption, MaxSeqAssumption DEF IndInv, WindowOK, TypeOK
<1>3. b \in Seq(Queueable(e)) /\ Len(b) \in Nat
      BY LenProperties DEF IndInv, ChunksOK
<1>4. \A i \in 1 .. Len(b) : /\ b[i].n \in Nat /\ b[i].seq = b[i].n % MaxSeq
                             /\ heard[e] < b[i].n /\ b[i].n <= sent[e]
  <2>1. SUFFICES ASSUME NEW i \in 1 .. Len(b)
                 PROVE  /\ b[i].n \in Nat /\ b[i].seq = b[i].n % MaxSeq
                        /\ heard[e] < b[i].n /\ b[i].n <= sent[e]
        OBVIOUS
  <2>2. b[i] \in Queueable(e) /\ b[i].vital
        BY <1>3, ElementOfSeq DEF IndInv, ChunksOK
  <2>3. b[i].n \in Nat /\ b[i].seq = b[i].n % MaxSeq /\ b[i].n <= sent[e]
        BY <2>2 DEF Queueable, Chunk
  <2>4. b[i].n > heard[e]
        BY DEF BufferOK
  <2>5. QED BY <2>3, <2>4, <1>2
<1>5. \A i \in 1 .. Len(b) : IsSeqInBackroom(b[i].seq, p.ack) <=> b[i].n <= p.seen
  <2>1. SUFFICES ASSUME NEW i \in 1 .. Len(b)
                 PROVE  IsSeqInBackroom(b[i].seq, p.ack) <=> b[i].n <= p.seen
        OBVIOUS
  <2>2. PICK n \in Nat : n = b[i].n /\ heard[e] < n /\ n <= sent[e]
        BY <1>4
  <2>3. \A m, x, h, s, u, q \in Nat :
            /\ h < m /\ m <= s /\ h <= x /\ x <= s /\ s - h <= u /\ 2 * u < q
            => m - x < q /\ x - m < q /\ 2 * (x - m) <= q /\ 2 * (m - x) < q
        OBVIOUS
  <2>4. /\ n - p.seen < MaxSeq /\ p.seen - n < MaxSeq
        /\ 2 * (p.seen - n) <= MaxSeq /\ 2 * (n - p.seen) < MaxSeq
        BY <2>2, <2>3, <1>1, <1>2
  <2>5. IsSeqInBackroom(n % MaxSeq, p.seen % MaxSeq) <=>
              \/ n <= p.seen /\ 2 * (p.seen - n) <= MaxSeq
              \/ n > p.seen /\ 2 * (n - p.seen) >= MaxSeq
        BY <2>4, <1>1, BackroomMeaning
  <2>6. IsSeqInBackroom(n % MaxSeq, p.seen % MaxSeq) <=> n <= p.seen
    <3>1. n > p.seen => ~(2 * (n - p.seen) >= MaxSeq)
          BY <2>4, <1>1, <1>2
    <3>2. n > p.seen \/ n <= p.seen
          BY <1>1
    <3>3. QED BY <2>4, <2>5, <3>1, <3>2, Zenon
  <2>7. QED BY <2>2, <2>6, <1>1, <1>4
<1> DEFINE held == {k \in 1 .. Len(b) + 1 : k <= Len(b) => ~IsSeqInBackroom(b[k].seq, p.ack)}
           first == CHOOSE k \in held : \A j \in held : k <= j
<1>6. first \in held /\ \A j \in held : first <= j
  <2>1. held \subseteq Nat /\ Len(b) + 1 \in held
        BY <1>3
  <2> HIDE DEF held
  <2>2. QED BY <2>1, LeastExists
<1>7. Unacked(b, p.ack) = SubSeq(b, first, Len(b))
      BY DEF Unacked
<1> HIDE DEF first
<1>8. first \in 1 .. Len(b) + 1
      BY <1>6
<1>9. \A i \in 1 .. first - 1 : b[i].n <= p.seen
  <2>1. SUFFICES ASSUME NEW i \in 1 .. first - 1, ~(b[i].n <= p.seen) PROVE FALSE
        OBVIOUS
  <2>2. i \in 1 .. Len(b) /\ i < first /\ i \in 1 .. Len(b) + 1
        BY <1>3, <1>8
  <2>3. i \in held
        BY <2>1, <2>2, <1>5
  <2>4. QED BY <2>2, <2>3, <1>6, <1>8
<1>10. \A i \in first .. Len(b) : b[i].n > p.seen
  <2>1. SUFFICES ASSUME NEW i \in first .. Len(b) PROVE b[i].n > p.seen
        OBVIOUS
  <2>2. i \in 1 .. Len(b) /\ first \in 1 .. Len(b)
        BY <1>3, <1>8
  <2>3. b[first].n > p.seen
        BY <2>2, <1>1, <1>4, <1>5, <1>6
  <2>4. i = first \/ b[first].n < b[i].n
    <3>1. i = first \/ first \in 1 .. i - 1
          BY <2>2, <1>3, <1>8
    <3>2. QED BY <3>1, <2>2 DEF BufferOK
  <2>5. QED BY <2>2, <2>3, <2>4, <1>1, <1>4
<1>11. QED BY <1>7, <1>8, <1>9, <1>10

LEMMA NextFullInv == FullInv /\ [Next]_vars => FullInv'
<1>1. SUFFICES ASSUME FullInv, [Next]_vars PROVE FullInv'
      OBVIOUS
<1>2. IndInv /\ BufferOK /\ IndInv' /\ BufferStep
      BY <1>1, NextIndInv, NextBuffer DEF FullInv
<1>3. SUFFICES ASSUME NEW e \in Endpoints
               PROVE  /\ state'[e] = "ONLINE" => \A i \in 1 .. Len(buffer'[e]) : buffer'[e][i].n > heard'[e]
                      /\ \A i \in 1 .. Len(buffer'[e]) : \A j \in 1 .. i - 1 : buffer'[e][j].n < buffer'[e][i].n
                      /\ state'[e] = "ERROR" => rx'[e] = << >>
      BY <1>2 DEF FullInv, BufferOK
<1>4. state'[e] = "ERROR" => rx'[e] = << >>
      BY <1>2 DEF BufferStep, BufferOK
<1>5. buffer[e] \in Seq(Queueable(e)) /\ Len(buffer[e]) \in Nat /\ heard[e] \in Nat /\ sent[e] \in Nat
      BY <1>2, LenProperties DEF IndInv, ChunksOK, TypeOK
<1>6. \A i \in 1 .. Len(buffer[e]) : buffer[e][i].n \in Nat /\ buffer[e][i].n <= sent[e]
  <2>1. SUFFICES ASSUME NEW i \in 1 .. Len(buffer[e])
                 PROVE  buffer[e][i].n \in Nat /\ buffer[e][i].n <= sent[e]
        OBVIOUS
  <2>2. buffer[e][i] \in Queueable(e) /\ buffer[e][i].vital
        BY <1>2, <1>5, ElementOfSeq DEF IndInv, ChunksOK
  <2>3. QED BY <2>2 DEF Queueable, Chunk
<1>7. CASE BufferKept(e)
      BY <1>2, <1>4, <1>7 DEF BufferKept, BufferOK
<1>8. CASE BufferGrows(e)
  <2>1. PICK c \in Queueable(e)' : /\ buffer'[e] = Append(buffer[e], c)
                                   /\ c.n = sent[e] + 1
                                   /\ heard'[e] = heard[e] /\ state'[e] = state[e]
        BY <1>8 DEF BufferGrows
  <2>2. buffer[e] \in Seq(Chunk) /\ c \in Chunk
        BY <1>5, QueueableChunks, SeqMonotonic DEF Queueable
  <2>3. /\ Len(buffer'[e]) = Len(buffer[e]) + 1
        /\ \A i \in 1 .. Len(buffer[e]) : buffer'[e][i] = buffer[e][i]
        /\ buffer'[e][Len(buffer[e]) + 1] = c
        BY <2>1, <2>2, AppendProperties
  <2>4. heard[e] <= sent[e]
    <3>1. heard[e] <= Got(Peer(e)) /\ Got(Peer(e)) <= sent[e] /\ Got(Peer(e)) \in Nat
          BY <1>2, GotType, PeerProperties DEF IndInv, WindowOK
    <3>2. QED BY <3>1, <1>5
  <2>5. ASSUME NEW i \in 1 .. Len(buffer'[e]), state'[e] = "ONLINE" PROVE buffer'[e][i].n > heard'[e]
    <3>1. i \in 1 .. Len(buffer[e]) \/ i = Len(buffer[e]) + 1
          BY <2>3, <1>5
    <3>2. CASE i \in 1 .. Len(buffer[e])
          BY <3>2, <2>1, <2>3, <2>5, <1>2 DEF BufferOK
    <3>3. CASE i = Len(buffer[e]) + 1
          BY <3>3, <2>1, <2>3, <2>4, <1>5
    <3>4. QED BY <3>1, <3>2, <3>3
  <2>6. ASSUME NEW i \in 1 .. Len(buffer'[e]), NEW j \in 1 .. i - 1
        PROVE  buffer'[e][j].n < buffer'[e][i].n
    <3>1. /\ j \in 1 .. Len(buffer[e])
          /\ i \in 1 .. Len(buffer[e]) \/ i = Len(buffer[e]) + 1
          BY <2>3, <1>5
    <3>2. CASE i \in 1 .. Len(buffer[e])
          BY <3>1, <3>2, <2>3, <1>2 DEF BufferOK
    <3>3. CASE i = Len(buffer[e]) + 1
          BY <3>1, <3>3, <2>1, <2>3, <1>5, <1>6
    <3>4. QED BY <3>1, <3>2, <3>3
  <2>7. QED BY <2>5, <2>6, <1>4
<1>9. CASE BufferAcked(e)
  <2>1. PICK p \in net[e] : /\ Fresh(e, p) /\ AckAcceptable(seq[e], peerAck[e], p.ack)
                            /\ state[e] = "ONLINE"
                            /\ buffer'[e] = Unacked(buffer[e], p.ack)
                            /\ heard'[e] = p.seen
        BY <1>9 DEF BufferAcked
  <2>2. PICK k \in 1 .. Len(buffer[e]) + 1 :
              /\ buffer'[e] = SubSeq(buffer[e], k, Len(buffer[e]))
              /\ \A i \in k .. Len(buffer[e]) : buffer[e][i].n > p.seen
        BY <2>1, <1>2, AckedChunks
  <2>3. \A i \in 1 .. Len(buffer'[e]) : /\ k + i - 1 \in k .. Len(buffer[e])
                                        /\ buffer'[e][i] = buffer[e][k + i - 1]
    <3>1. k \in Nat /\ k >= 1 /\ k <= Len(buffer[e]) + 1
          BY <1>5
    <3>2. \A i \in k .. Len(buffer[e]) : buffer[e][i] \in Queueable(e)
          BY <3>1, <1>5, ElementOfSeq
    <3>3. /\ Len(SubSeq(buffer[e], k, Len(buffer[e]))) =
                IF k <= Len(buffer[e]) THEN Len(buffer[e]) - k + 1 ELSE 0
          /\ \A i \in 1 .. Len(buffer[e]) - k + 1 :
                SubSeq(buffer[e], k, Len(buffer[e]))[i] = buffer[e][k + i - 1]
          BY <3>1, <3>2, <1>5, SubSeqProperties
    <3>4. QED BY <3>1, <3>3, <2>2, <1>5
  <2>4. \A i \in 1 .. Len(buffer'[e]) : buffer'[e][i].n > heard'[e]
        BY <2>1, <2>2, <2>3
  <2>5. ASSUME NEW i \in 1 .. Len(buffer'[e]), NEW j \in 1 .. i - 1
        PROVE  buffer'[e][j].n < buffer'[e][i].n
    <3>1. Len(buffer'[e]) \in Nat
          BY <1>2, LenProperties DEF IndInv, TypeOK
    <3>2. j \in 1 .. Len(buffer'[e])
          BY <3>1
    <3>3. /\ k + i - 1 \in 1 .. Len(buffer[e]) /\ k + j - 1 \in 1 .. (k + i - 1) - 1
          BY <3>1, <2>3, <1>5
    <3>4. QED BY <3>2, <3>3, <2>3, <1>2 DEF BufferOK
  <2>6. QED BY <2>4, <2>5, <1>4
<1>10. CASE BufferReset(e)
  <2>1. buffer'[e] = << >> /\ state'[e] = "OFFLINE" /\ Len(<< >>) = 0
        BY <1>10, EmptySeq DEF BufferReset
  <2>2. 1 .. Len(buffer'[e]) = {}
        BY <2>1
  <2>3. QED BY <2>1, <2>2
<1>11. QED BY <1>2, <1>7, <1>8, <1>9, <1>10 DEF BufferStep

\* And the resend buffer holds the chunks from the first unacknowledged one on.
THEOREM FullInductive == Spec => []FullInv
<1>1. Init => FullInv
  <2>1. SUFFICES ASSUME Init PROVE IndInv /\ BufferOK
        BY DEF FullInv
  <2>2. \A e \in Endpoints : /\ buffer[e] = << >> /\ rx[e] = << >>
        BY <2>1 DEF Init
  <2>3. 1 .. Len(<< >>) = {}
        BY EmptySeq
  <2>4. QED BY <2>1, <2>2, <2>3, InitIndInv, Zenon DEF BufferOK
<1>2. FullInv /\ [Next]_vars => FullInv'
      BY NextFullInv
<1>3. QED BY <1>1, <1>2, PTL DEF Spec

\* AckChunks never forgets a chunk the peer has not handed to its game.
THEOREM Release == Spec => ReleasedIsDelivered
<1>1. ASSUME FullInv, [Next]_vars, NEW e \in Endpoints PROVE ReleasesDelivered(e)
  <2>1. IndInv /\ BufferOK /\ BufferStep
        BY <1>1, NextBuffer DEF FullInv
  <2>2. SUFFICES ASSUME state'[e] # "OFFLINE", NEW i \in 1 .. Len(buffer[e])
                 PROVE  \/ buffer[e][i].n <= Got(Peer(e))
                        \/ \E j \in 1 .. Len(buffer'[e]) : buffer'[e][j] = buffer[e][i]
        BY DEF ReleasesDelivered
  <2>3. buffer[e] \in Seq(Queueable(e)) /\ buffer[e] \in Seq(Chunk) /\ Len(buffer[e]) \in Nat
        BY <2>1, LenProperties DEF IndInv, ChunksOK, TypeOK
  <2>4. CASE buffer'[e] = buffer[e]
        BY <2>4
  <2>5. CASE BufferGrows(e)
    <3>1. PICK c \in Chunk : buffer'[e] = Append(buffer[e], c)
          BY <2>5 DEF BufferGrows, Queueable
    <3>2. Len(buffer'[e]) = Len(buffer[e]) + 1 /\ buffer'[e][i] = buffer[e][i]
          BY <3>1, <2>3, AppendProperties
    <3>3. i \in 1 .. Len(buffer'[e])
          BY <3>2, <2>3
    <3>4. QED BY <3>2, <3>3
  <2>6. CASE BufferAcked(e)
    <3>1. PICK p \in net[e] : /\ Fresh(e, p) /\ AckAcceptable(seq[e], peerAck[e], p.ack)
                              /\ state[e] = "ONLINE"
                              /\ buffer'[e] = Unacked(buffer[e], p.ack)
          BY <2>6 DEF BufferAcked
    <3>2. PICK k \in 1 .. Len(buffer[e]) + 1 :
              /\ buffer'[e] = SubSeq(buffer[e], k, Len(buffer[e]))
              /\ \A x \in 1 .. k - 1 : buffer[e][x].n <= p.seen
          BY <3>1, <2>1, AckedChunks
    <3>3. p.seen <= Got(Peer(e)) /\ p.seen \in Nat /\ Got(Peer(e)) \in Nat
      <4>1. p \in Packet
            BY <2>1 DEF IndInv, TypeOK
      <4>2. QED BY <4>1, <3>1, <2>1, AckWindow, GotType, PeerProperties DEF IndInv, Packet
    <3>4. CASE i < k
      <4>1. i \in 1 .. k - 1 /\ buffer[e][i] \in Chunk
            BY <3>4, <2>3, ElementOfSeq
      <4>2. buffer[e][i].n <= p.seen /\ buffer[e][i].n \in Nat
            BY <4>1, <3>2 DEF Chunk
      <4>3. QED BY <4>2, <3>3
    <3>5. CASE i >= k
      <4>1. k \in Nat /\ k >= 1 /\ k <= Len(buffer[e]) /\ i - k + 1 \in 1 .. Len(buffer[e]) - k + 1
            BY <3>5, <2>3
      <4>2. \A x \in k .. Len(buffer[e]) : buffer[e][x] \in Chunk
            BY <4>1, <2>3, ElementOfSeq
      <4>3. /\ Len(buffer'[e]) = Len(buffer[e]) - k + 1
            /\ buffer'[e][i - k + 1] = buffer[e][k + (i - k + 1) - 1]
            BY <4>1, <4>2, <3>2, <2>3, SubSeqProperties
      <4>4. buffer'[e][i - k + 1] = buffer[e][i]
            BY <4>1, <4>3
      <4>5. QED BY <4>1, <4>3, <4>4
    <3>6. QED BY <3>4, <3>5, <2>3
  <2>7. QED BY <2>1, <2>2, <2>4, <2>5, <2>6 DEF BufferStep, BufferKept, BufferReset
<1>2. FullInv /\ [Next]_vars => [\A e \in Endpoints : ReleasesDelivered(e)]_vars
      BY <1>1
<1>3. QED BY <1>2, FullInductive, PTL DEF ReleasedIsDelivered, Spec

-----------------------------------------------------------------------------
\* The refinement: every step of the connections is a step of the stream, or
\* leaves the stream alone.
Streams == <<sent, log, heard, [e \in Endpoints |-> StatusOf[state[e]]]>>

LEMMA StatusUnchanged ==
    ASSUME state' = state
    PROVE  [e \in Endpoints |-> StatusOf[state[e]]]' = [e \in Endpoints |-> StatusOf[state[e]]]
BY DEF StatusOf

LEMMA StatusChanges ==
    ASSUME TypeOK, NEW e \in Endpoints, NEW s \in {"ONLINE", "ERROR", "OFFLINE"},
           state' = [state EXCEPT ![e] = s]
    PROVE  [x \in Endpoints |-> StatusOf[state[x]]]' =
              [[x \in Endpoints |-> StatusOf[state[x]]] EXCEPT ![e] = StatusOf[s]]
<1>1. \A x \in Endpoints : state'[x] = IF x = e THEN s ELSE state[x]
      BY DEF TypeOK
<1> DEFINE new == [x \in Endpoints |-> StatusOf[state'[x]]]
           old == [x \in Endpoints |-> StatusOf[state[x]]]
<1>2. [x \in Endpoints |-> StatusOf[state[x]]]' = new
      BY DEF StatusOf
<1>3. \A x \in Endpoints : new[x] = IF x = e THEN StatusOf[s] ELSE old[x]
      BY <1>1
<1>4. new = [x \in Endpoints |-> IF x = e THEN StatusOf[s] ELSE old[x]]
      BY <1>3
<1>5. [old EXCEPT ![e] = StatusOf[s]] = [x \in Endpoints |-> IF x = e THEN StatusOf[s] ELSE old[x]]
      OBVIOUS
<1>6. QED BY <1>2, <1>4, <1>5

LEMMA StatusValues ==
    StatusOf["ONLINE"] = "open" /\ StatusOf["ERROR"] = "failed" /\ StatusOf["OFFLINE"] = "left"
BY DEF StatusOf

LEMMA StreamInit == Init => Stream!Init
<1>1. SUFFICES ASSUME Init PROVE Stream!Init
      OBVIOUS
<1>2. [e \in Endpoints |-> StatusOf[state[e]]] = [e \in Endpoints |-> "open"]
      BY <1>1, StatusValues DEF Init
<1>3. QED BY <1>1, <1>2 DEF Init, Stream!Init

LEMMA StreamStep == FullInv /\ [Next]_vars => [Stream!Next]_Streams
<1>1. SUFFICES ASSUME FullInv, [Next]_vars PROVE Stream!Next \/ UNCHANGED Streams
      OBVIOUS
<1>2. IndInv /\ BufferOK /\ TypeOK /\ IndInv'
      BY <1>1, NextIndInv DEF FullInv, IndInv
<1>3. ASSUME UNCHANGED <<sent, log, heard, state>> PROVE UNCHANGED Streams
      BY <1>3, StatusUnchanged DEF Streams
<1>4. CASE UNCHANGED vars
      BY <1>3, <1>4 DEF vars, code
<1>5. ASSUME NEW e \in Endpoints, QueueVital(e) PROVE Stream!Next
  <2>1. sent' = [sent EXCEPT ![e] = @ + 1] /\ UNCHANGED <<log, heard, state>>
        BY <1>5 DEF QueueVital
  <2>2. Stream!Offer(e)
        BY <2>1, StatusUnchanged DEF Stream!Offer
  <2>3. QED BY <2>2 DEF Stream!Next
<1>6. ASSUME NEW e \in Endpoints, NEW p \in net[e], Recv(e, p)
      PROVE  Stream!Next \/ UNCHANGED Streams
  <2>1. Fresh(e, p) /\ state[e] = "ONLINE"
        BY <1>6 DEF Recv
  <2>2. PICK keep \in {FALSE, MayDuplicate}, answer \in BOOLEAN :
            RejectPacket(e, p, keep) \/ AcceptPacket(e, p, keep, answer)
        BY <1>6 DEF Recv
  <2>3. CASE RejectPacket(e, p, keep)
        BY <2>3, <1>3 DEF RejectPacket, code
  <2>4. CASE AcceptPacket(e, p, keep, answer)
    <3>1. /\ heard' = [heard EXCEPT ![e] = p.seen] /\ UNCHANGED <<sent, log>>
          /\ state' = state \/ state' = [state EXCEPT ![e] = "ERROR"]
          /\ AckAcceptable(seq[e], peerAck[e], p.ack)
          BY <2>4 DEF AcceptPacket
    <3>2. p.seen >= heard[e] /\ p.seen <= Got(Peer(e))
          BY <3>1, <2>1, <1>2, AckWindow
    <3>3. p.seen \in heard[e] .. Got(Peer(e))
      <4>1. p.seen \in Nat /\ heard[e] \in Nat /\ Got(Peer(e)) \in Nat
            BY <1>2, GotType, PeerProperties DEF TypeOK, Packet
      <4>2. QED BY <4>1, <3>2
    <3>4. Got(Peer(e)) = Stream!Taken(Peer(e))
          BY DEF Got, Stream!Taken
    <3>5. [x \in Endpoints |-> StatusOf[state[x]]][e] = "open"
          BY <2>1, StatusValues
    <3>6. Stream!Confirm(e)
          BY <3>1, <3>3, <3>4, <3>5, Zenon DEF Stream!Confirm
    <3>7. [x \in Endpoints |-> StatusOf[state[x]]]' \in
             {[x \in Endpoints |-> StatusOf[state[x]]],
              [[x \in Endpoints |-> StatusOf[state[x]]] EXCEPT ![e] = "failed"]}
          BY <3>1, <1>2, StatusUnchanged, StatusChanges, StatusValues
    <3>8. QED BY <3>6, <3>7, Zenon DEF Stream!Next
  <2>5. QED BY <2>2, <2>3, <2>4
<1>7. ASSUME NEW e \in Endpoints, Unpack(e) PROVE Stream!Next \/ UNCHANGED Streams
  <2> DEFINE c == Head(rx[e])
  <2>1. /\ state[e] # "OFFLINE" /\ rx[e] # << >>
        /\ UNCHANGED <<state, sent, heard>>
        /\ \/ c.vital /\ InSequence(e, c) /\ log' = [log EXCEPT ![e] = Append(@, c.n)]
           \/ log' = log
        BY <1>7 DEF Unpack, Deliver, DeliverPlain, SkipOld, SignalResend
  <2>2. CASE log' = log
        BY <2>1, <2>2, <1>3
  <2>3. CASE c.vital /\ InSequence(e, c) /\ log' = [log EXCEPT ![e] = Append(@, c.n)]
    <3>1. c.n = Got(e) + 1
          BY <2>1, <2>3, <1>2, InSequenceIsNext
    <3>2. c.n <= sent[Peer(e)]
          BY <2>1, <2>3, <1>2, PendingRange
    <3>3. Got(e) \in Nat /\ sent[Peer(e)] \in Nat
          BY <1>2, GotType, PeerProperties DEF TypeOK
    <3>4. Got(e) < sent[Peer(e)]
      <4> HIDE DEF c
      <4> QED BY <3>1, <3>2, <3>3
    <3>5. Got(e) = Stream!Taken(e)
          BY DEF Got, Stream!Taken
    <3>6. [x \in Endpoints |-> StatusOf[state[x]]][e] = "open"
      <4>1. state[e] = "ONLINE"
            BY <2>1, <1>2 DEF TypeOK, BufferOK
      <4>2. QED BY <4>1, StatusValues
    <3>7. log' = [log EXCEPT ![e] = Append(@, Stream!Taken(e) + 1)]
          BY <2>3, <3>1, <3>5
    <3>8. UNCHANGED <<sent, heard, [x \in Endpoints |-> StatusOf[state[x]]]>>
          BY <2>1, StatusUnchanged
    <3>9. Stream!Take(e)
          BY <3>4, <3>5, <3>6, <3>7, <3>8, Zenon DEF Stream!Take
    <3>10. QED BY <3>9 DEF Stream!Next
  <2>4. QED BY <2>1, <2>2, <2>3
<1>8. ASSUME NEW e \in Endpoints, NEW answer \in BOOLEAN, UpdateTimeout(e, answer)
      PROVE  Stream!Next
  <2>1. /\ state[e] = "ONLINE" /\ state' = [state EXCEPT ![e] = "ERROR"]
        /\ UNCHANGED <<sent, log, heard>>
        BY <1>8 DEF UpdateTimeout
  <2>2. [x \in Endpoints |-> StatusOf[state[x]]][e] = "open"
        BY <2>1, StatusValues
  <2>3. [x \in Endpoints |-> StatusOf[state[x]]]' =
              [[x \in Endpoints |-> StatusOf[state[x]]] EXCEPT ![e] = "failed"]
        BY <2>1, <1>2, StatusChanges, StatusValues
  <2>4. Stream!Fail(e)
        BY <2>1, <2>2, <2>3, Zenon DEF Stream!Fail
  <2>5. QED BY <2>4 DEF Stream!Next
<1>9. ASSUME NEW e \in Endpoints, Disconnect(e) PROVE Stream!Next
  <2>1. /\ state[e] # "OFFLINE" /\ state' = [state EXCEPT ![e] = "OFFLINE"]
        /\ UNCHANGED <<sent, log, heard>>
        BY <1>9 DEF Disconnect
  <2>2. [x \in Endpoints |-> StatusOf[state[x]]][e] # "left"
        BY <2>1, <1>2, StatusValues DEF TypeOK
  <2>3. [x \in Endpoints |-> StatusOf[state[x]]]' =
              [[x \in Endpoints |-> StatusOf[state[x]]] EXCEPT ![e] = "left"]
        BY <2>1, <1>2, StatusChanges, StatusValues
  <2>4. Stream!Leave(e)
        BY <2>1, <2>2, <2>3, Zenon DEF Stream!Leave
  <2>5. QED BY <2>4 DEF Stream!Next
<1>10. ASSUME NEW e \in Endpoints,
              \/ QueuePlain(e) \/ Flush(e) \/ UpdateProtectionOver(e) \/ DiscardPending(e)
              \/ \E p \in net[e] : Lose(e, p)
              \/ \E due \in SUBSET {"answer", "resend", "flush", "keepalive"} : Update(e, due)
       PROVE  UNCHANGED Streams
  <2>1. UNCHANGED <<sent, log, heard, state>>
        BY <1>10 DEF QueuePlain, Flush, UpdateProtectionOver, DiscardPending, Lose, Update, code
  <2>2. QED BY <2>1, <1>3
<1>11. QED BY <1>1, <1>4, <1>5, <1>6, <1>7, <1>8, <1>9, <1>10 DEF Next

\* Two connections are a reliable stream in each direction.
THEOREM Refinement == Spec => StreamSpec
<1>1. Init => Stream!Init
      BY StreamInit
<1>2. FullInv /\ [Next]_vars => [Stream!Next]_Stream!vars
      BY StreamStep DEF Streams, Stream!vars
<1>3. QED BY <1>1, <1>2, FullInductive, PTL DEF Spec, StreamSpec, Stream!Spec
=============================================================================
