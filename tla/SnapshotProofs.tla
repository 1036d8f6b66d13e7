--------------------------- MODULE SnapshotProofs ---------------------------
(***************************************************************************)
(* Proofs about SnapshotSync, for any contents, ticks, periods and numbers *)
(* of parts, errors and messages in flight.                                *)
(***************************************************************************)
EXTENDS SnapshotSync, WellFoundedInduction, TLAPS

\* Nothing is known of a tick to come.
Times ==
    /\ \A m \in down : m.base < m.tick
    /\ lastAcked <= tick
    /\ \A a \in up : a <= tick

\* A message holds what was built on its tick and on the tick of its base.
AsBuilt(m) ==
    /\ m.tick \in DOMAIN built /\ m.to = built[m.tick]
    /\ m.base = None => m.from = Empty
    /\ m.base # None => m.base \in DOMAIN built /\ m.from = built[m.base]

Contents ==
    /\ \A t \in DOMAIN snaps : t \in DOMAIN built /\ snaps[t] = built[t]
    /\ \A m \in down : AsBuilt(m)
    /\ StoredAsBuilt

\* What is stored is older than what is awaited, and up to the acknowledgement
\* if there is one; the game is shown two snapshots, or none yet.
Order ==
    /\ \A t \in DOMAIN store : t < recvTick \/ (t = recvTick /\ t = ackTick)
    /\ ackTick # None => ackTick \in DOMAIN store /\ \A t \in DOMAIN store : t <= ackTick
    /\ received > 0 => DOMAIN store # {}
    /\ received = 2 => {prev, cur} \subseteq DOMAIN store /\ prev < cur
    /\ received < 2 => prev = None /\ cur = None

Inv == TypeOK /\ Times /\ Contents /\ Order

\* The server keeps nothing that is older than a base it sent; the client
\* keeps what the server may still use as base, and what it used.
Bases ==
    /\ entered
    /\ \A a \in up \cup {lastAcked, ackTick} : a \in DOMAIN snaps => a \in DOMAIN store
    /\ \A m \in down, t \in DOMAIN snaps : m.base <= t
    /\ \A m \in down : m.tick >= recvTick /\ m.base # None => m.base \in DOMAIN store
    /\ \A m, q \in down : m.tick <= q.tick /\ q.base # None => m.base <= q.base

-----------------------------------------------------------------------------
(* Least and greatest elements. *)

\* Every nonempty set of natural numbers has a least element.
LEMMA LeastExists ==
    ASSUME NEW S, S \subseteq Nat, S # {}
    PROVE  \E k \in S : \A j \in S : k =< j
<1> DEFINE R == {p \in Nat \X Nat : p[1] < p[2]}
<1>1. R = OpToRel(<, Nat)
  BY Zenon DEF OpToRel
<1>2. IsWellFoundedOn(R, Nat)
  BY ONLY <1>1, NatLessThanWellFounded, Zenon
<1>3. PICK x \in S : \A y \in S : ~(<<y, x>> \in R)
  <2> HIDE DEF R
  <2> QED
    BY <1>2, WFMin
<1>4. \A y \in S : ~(y < x)
  <2> SUFFICES ASSUME NEW y \in S PROVE ~(y < x)
    OBVIOUS
  <2>1. <<y, x>> \in Nat \X Nat
    OBVIOUS
  <2>2. QED
    BY <1>3, <2>1
<1>5. QED
  BY <1>4

\* Ticks, and what stands for none.
LEMMA MinIsLeast ==
    ASSUME NEW S, S \subseteq Nat \cup {None}, S # {}
    PROVE  Min(S) \in S /\ \A x \in S : Min(S) <= x
<1>1. \E k \in S : \A j \in S : k <= j
  <2>1. CASE None \in S
    BY <2>1 DEF None
  <2>2. CASE None \notin S
    BY <2>2, LeastExists
  <2>3. QED
    BY <2>1, <2>2
<1>2. QED
  BY <1>1 DEF Min

LEMMA MaxIsGreatest ==
    ASSUME NEW S, S \subseteq Int, NEW x \in S, \A y \in S : y <= x
    PROVE  Max(S) = x
<1>1. Max(S) \in S /\ \A y \in S : Max(S) >= y
  <2>1. \E z \in S : \A y \in S : z >= y
    OBVIOUS
  <2>2. QED
    BY <2>1 DEF Max
<1>2. Max(S) \in Int /\ x \in Int /\ Max(S) >= x /\ Max(S) <= x
  BY <1>1
<1>3. QED
  BY ONLY <1>2

-----------------------------------------------------------------------------
(* The operators of the model. *)

\* What a slot keeps is not older than the acknowledgement.
LEMMA KeptFromLow ==
    ASSUME TypeOK, NEW t \in Ticks
    PROVE  KeptFrom(t) \in Int /\ lastAcked <= KeptFrom(t)
<1>1. t - Keep \in Int /\ lastAcked \in Int
  BY SnapshotAssumption DEF Ticks, TypeOK, None
<1>2. PICK x \in {t - Keep, lastAcked} : \A y \in {t - Keep, lastAcked} : y <= x
  BY <1>1
<1>3. Max({t - Keep, lastAcked}) = x
  BY <1>1, <1>2, MaxIsGreatest
<1>4. QED
  BY <1>1, <1>2, <1>3 DEF KeptFrom

\* The client purges nothing of what it shows and of what a message builds on.
LEMMA PurgeTickLow ==
    ASSUME TypeOK, NEW m \in Message
    PROVE  /\ PurgeTick(m) \in Int /\ PurgeTick(m) <= m.base
           /\ prev # None => PurgeTick(m) <= prev
           /\ cur # None => PurgeTick(m) <= cur
<1> DEFINE S == {m.base} \cup {t \in {prev, cur} : t # None}
<1>1. S \subseteq Nat \cup {None} /\ m.base \in S
  BY DEF Message, TypeOK, Ticks
<1>2. Min(S) \in S /\ \A x \in S : Min(S) <= x
  BY <1>1, MinIsLeast
<1>3. Min(S) \in Int
  BY <1>1, <1>2 DEF None
<1>4. QED
  BY <1>2, <1>3 DEF PurgeTick

\* The numbers there are.
LEMMA TypeNumbers ==
    ASSUME TypeOK
    PROVE  /\ tick \in Nat /\ recvTick \in Nat /\ recvTick <= tick
           /\ DOMAIN store \subseteq Nat /\ DOMAIN snaps \subseteq Nat /\ DOMAIN built \subseteq Nat
           /\ lastAcked \in Int /\ ackTick \in Int /\ prev \in Int /\ cur \in Int
           /\ up \subseteq Int
BY SnapshotAssumption DEF TypeOK, Ticks, None

LEMMA FiledIsParts ==
    ASSUME TypeOK, NEW m \in Message
    PROVE  Filed(m) \subseteq [part : 1 .. MaxParts, tick : Ticks]
BY DEF Filed, TypeOK, Message

LEMMA TicksAreNat == Ticks \subseteq Nat /\ None \notin Nat /\ None \in Int
BY SnapshotAssumption DEF Ticks, None

\* A message in flight is of a tick that has passed.
LEMMA Arrives ==
    ASSUME Inv, NEW m \in down
    PROVE  /\ m \in Message /\ m.tick \in 0 .. tick /\ m.base \in 0 .. tick \cup {None}
           /\ m.base < m.tick /\ AsBuilt(m)
BY DEF Inv, TypeOK, Times, Contents, AsBuilt

\* Everything stored is older than the next snapshot.
LEMMA Newer ==
    ASSUME Inv, NEW m \in down, IsNew(m)
    PROVE  \A t \in DOMAIN store : t < m.tick
<1>1. m.tick \in Nat /\ recvTick \in Nat /\ DOMAIN store \subseteq Nat /\ ackTick \in Int
  BY Arrives, TypeNumbers DEF Inv
<1>2. QED
  BY <1>1 DEF Inv, Order, IsNew

\* The difference is applied to the base it was made against.
LEMMA UnpackedIsBuilt ==
    ASSUME Inv, NEW m \in down, HasBase(m), IsEmpty(m) \/ Unpacked(m) = m.to
    PROVE  Unpacked(m) = built[m.tick] /\ m.tick \in DOMAIN built
<1>1. AsBuilt(m) /\ m.base \in Nat \cup {None}
  BY Arrives, TicksAreNat DEF Inv, TypeOK
<1>2. CASE Unpacked(m) = m.to
  BY <1>1, <1>2 DEF AsBuilt
<1>3. CASE IsEmpty(m)
  <2>1. m.base # None => m.base \in DOMAIN store /\ store[m.base] = built[m.base]
    BY <1>1 DEF HasBase, Inv, Contents, StoredAsBuilt
  <2>2. (IF m.base >= 0 THEN store[m.base] ELSE Empty) = m.from
    BY <1>1, <2>1 DEF AsBuilt, None
  <2>3. QED
    BY <1>1, <1>3, <2>2 DEF Unpacked, IsEmpty, AsBuilt
<1>4. QED
  BY <1>2, <1>3

-----------------------------------------------------------------------------
(* The steps of the server. *)

LEMMA TickKeeps == Inv /\ Tick => Inv'
<1> SUFFICES ASSUME Inv, Tick PROVE Inv'
  OBVIOUS
<1>1. /\ tick \in Ticks /\ tick' = tick + 1 /\ tick' \in Ticks
      /\ UNCHANGED <<snaps, lastAcked, rate, built, client, down, up>>
  BY SnapshotAssumption DEF Tick, Inv, TypeOK, Ticks
<1>2. TypeOK'
  BY <1>1, TicksAreNat DEF Inv, TypeOK, client, Ticks
<1>3. Times'
  BY <1>1, TypeNumbers DEF Inv, Times
<1>4. Contents' /\ Order'
  BY <1>1 DEF Inv, Contents, AsBuilt, StoredAsBuilt, Order, client
<1>5. QED
  BY <1>2, <1>3, <1>4 DEF Inv

\* What DoSnapshot does, named part by part.
Sent(t, base, from, v, n) ==
    {[tick |-> t, base |-> base, from |-> from, to |-> v, n |-> n, part |-> i] : i \in 1 .. n}

LEMMA DoSnapshotIs ==
    ASSUME Inv, NEW v \in Items, NEW n \in 1 .. MaxParts, NEW toolarge \in BOOLEAN,
           DoSnapshot(v, n, toolarge)
    PROVE  /\ tick + 1 \in Ticks /\ tick' = tick + 1
           /\ snaps' = Added(Purged(snaps, KeptFrom(tick + 1)), tick + 1, v)
           /\ built' = Added(built, tick + 1, v)
           /\ rate' \in {"init", "full", "recover"}
           /\ UNCHANGED <<lastAcked, client, up>>
           /\ \E base \in 0 .. tick \cup {None}, from \in Items :
                /\ down' \subseteq down \cup Sent(tick + 1, base, from, v, n)
                /\ base = None => from = Empty
                /\ base # None => /\ base = lastAcked /\ base \in DOMAIN snaps
                                  /\ base \in DOMAIN built /\ from = built[base]
<1> DEFINE t == tick + 1
           kept == Added(Purged(snaps, KeptFrom(t)), t, v)
           found == lastAcked >= 0 /\ lastAcked \in DOMAIN kept
           base == IF found THEN lastAcked ELSE None
           from == IF found THEN kept[lastAcked] ELSE Empty
<1>1. /\ t <= MaxTick /\ tick' = t /\ snaps' = kept /\ built' = Added(built, t, v)
      /\ rate' = IF ~found /\ rate = "full" THEN "recover" ELSE rate
      /\ down' = IF toolarge THEN down ELSE down \cup Sent(t, base, from, v, n)
      /\ UNCHANGED <<lastAcked, client, up>>
  BY DEF DoSnapshot, Sent
<1>2. t \in Ticks /\ tick \in Nat /\ lastAcked \in Nat \cup {None} /\ lastAcked <= tick
  BY <1>1, SnapshotAssumption, TicksAreNat DEF Ticks, Inv, TypeOK, Times
<1>3. /\ found => lastAcked \in 0 .. tick /\ lastAcked \in DOMAIN snaps /\ kept[lastAcked] = snaps[lastAcked]
      /\ found => snaps[lastAcked] = built[lastAcked] /\ lastAcked \in DOMAIN built
      /\ found => snaps[lastAcked] \in Items
  <2>1. lastAcked # t
    BY <1>2 DEF None
  <2>2. found => lastAcked \in DOMAIN Purged(snaps, KeptFrom(t))
    BY <2>1 DEF Added
  <2>3. found => lastAcked \in DOMAIN snaps /\ kept[lastAcked] = snaps[lastAcked]
    BY <2>1, <2>2 DEF Purged, Added
  <2>4. QED
    BY <1>2, <2>3 DEF Inv, Contents, TypeOK, None
<1>4. base \in 0 .. tick \cup {None} /\ from \in Items
  BY <1>3, SnapshotAssumption
<1>5. rate' \in {"init", "full", "recover"}
  BY <1>1 DEF Inv, TypeOK
<1>6. down' \subseteq down \cup Sent(t, base, from, v, n)
  BY <1>1
<1>7. /\ base = None => from = Empty
      /\ base # None => /\ base = lastAcked /\ base \in DOMAIN snaps
                        /\ base \in DOMAIN built /\ from = built[base]
  BY <1>3 DEF None
<1> HIDE DEF t, base, from
<1>8. QED
  BY <1>1, <1>2, <1>4, <1>5, <1>6, <1>7 DEF t

LEMMA SentIs ==
    ASSUME NEW t \in Ticks, NEW base \in Ticks \cup {None}, NEW from \in Items, NEW v \in Items,
           NEW n \in 1 .. MaxParts
    PROVE  /\ Sent(t, base, from, v, n) \subseteq Message
           /\ \A m \in Sent(t, base, from, v, n) :
                m.tick = t /\ m.base = base /\ m.from = from /\ m.to = v
BY SnapshotAssumption DEF Sent, Message

LEMMA DoSnapshotKeeps ==
    ASSUME Inv, NEW v \in Items, NEW n \in 1 .. MaxParts, NEW toolarge \in BOOLEAN,
           DoSnapshot(v, n, toolarge)
    PROVE  Inv'
<1> DEFINE t == tick + 1
<1>1. /\ t \in Ticks /\ tick' = t
      /\ snaps' = Added(Purged(snaps, KeptFrom(t)), t, v)
      /\ built' = Added(built, t, v) /\ rate' \in {"init", "full", "recover"}
      /\ UNCHANGED <<lastAcked, client, up>>
  BY DoSnapshotIs
<1>2. PICK base \in 0 .. tick \cup {None}, from \in Items :
        /\ down' \subseteq down \cup Sent(t, base, from, v, n)
        /\ base = None => from = Empty
        /\ base # None => /\ base = lastAcked /\ base \in DOMAIN snaps
                          /\ base \in DOMAIN built /\ from = built[base]
  BY DoSnapshotIs
<1>3. tick \in Nat /\ t \in Nat /\ tick < t /\ base \in Ticks \cup {None} /\ base < t
  BY <1>1, TypeNumbers, SnapshotAssumption DEF Inv, Ticks, None
<1>4. \A m \in down' : m \in down \/ (/\ m \in Message /\ m.tick = t /\ m.base = base
                                      /\ m.from = from /\ m.to = v)
  BY <1>1, <1>2, <1>3, SentIs
<1>5. /\ DOMAIN built' = DOMAIN built \cup {t} /\ t \notin DOMAIN built
      /\ built'[t] = v /\ \A u \in DOMAIN built : built'[u] = built[u]
  BY <1>1, <1>3 DEF Added, Inv, TypeOK
<1>6. /\ DOMAIN snaps' \subseteq DOMAIN snaps \cup {t} /\ t \in DOMAIN snaps' /\ snaps'[t] = v
      /\ \A u \in DOMAIN snaps' : u # t => snaps'[u] = snaps[u]
  BY <1>1 DEF Added, Purged
<1> HIDE DEF t
<1>7. TypeOK'
  <2>1. tick' \in Ticks /\ 0 .. tick \subseteq 0 .. tick'
    BY <1>1, <1>3
  <2>2. DOMAIN snaps' \subseteq 0 .. tick' /\ \A u \in DOMAIN snaps' : snaps'[u] \in Items
    BY <1>1, <1>3, <1>6, <2>1 DEF Inv, TypeOK
  <2>3. DOMAIN built' \subseteq 0 .. tick' /\ \A u \in DOMAIN built' : built'[u] \in Items
    BY <1>1, <1>3, <1>5, <2>1 DEF Inv, TypeOK
  <2>4. down' \subseteq Message
    BY <1>4 DEF Inv, TypeOK
  <2>5. DOMAIN store' \subseteq 0 .. tick' /\ recvTick' \in 0 .. tick'
    BY <1>1, <2>1 DEF Inv, TypeOK, client
  <2>6. QED
    BY <1>1, <2>1, <2>2, <2>3, <2>4, <2>5 DEF Inv, TypeOK, client
<1>8. Times'
  <2>1. lastAcked' <= tick' /\ \A a \in up' : a <= tick'
    BY <1>1, <1>3, TypeNumbers DEF Inv, Times
  <2>2. \A m \in down' : m.base < m.tick
    BY <1>3, <1>4 DEF Inv, Times
  <2>3. QED
    BY <2>1, <2>2 DEF Times
<1>9. Contents'
  <2>1. \A u \in DOMAIN snaps' : u \in DOMAIN built' /\ snaps'[u] = built'[u]
    BY <1>5, <1>6 DEF Inv, Contents
  <2>2. ASSUME NEW m \in down' PROVE AsBuilt(m)'
    <3>1. CASE m \in down
      BY <1>5, <3>1 DEF Inv, Contents, AsBuilt
    <3>2. CASE m.tick = t /\ m.base = base /\ m.from = from /\ m.to = v
      BY <1>2, <1>5, <3>2 DEF AsBuilt
    <3>3. QED
      BY <1>4, <3>1, <3>2
  <2>3. StoredAsBuilt'
    BY <1>1, <1>5 DEF Inv, Contents, StoredAsBuilt, client
  <2>4. QED
    BY <2>1, <2>2, <2>3 DEF Contents
<1>10. Order'
  BY <1>1 DEF Inv, Order, client
<1>11. QED
  BY <1>7, <1>8, <1>9, <1>10 DEF Inv

LEMMA RecvInputKeeps ==
    ASSUME Inv, NEW a \in up, NEW keep \in BOOLEAN, RecvInput(a, keep)
    PROVE  Inv'
<1>1. /\ up' \subseteq up /\ lastAcked' \in {lastAcked, a} /\ rate' \in {rate, "full"}
      /\ a > tick => lastAcked' = lastAcked
      /\ UNCHANGED <<tick, snaps, built, client, down>>
  BY DEF RecvInput
<1>2. TypeOK'
  BY <1>1 DEF Inv, TypeOK, client
<1>3. Times'
  BY <1>1 DEF Inv, Times
<1>4. QED
  BY <1>1, <1>2, <1>3 DEF Inv, Contents, AsBuilt, StoredAsBuilt, Order, client

LEMMA ResumeKeeps == Inv /\ Resume => Inv'
<1> SUFFICES ASSUME Inv, Resume PROVE Inv'
  OBVIOUS
<1>1. /\ snaps' = [t \in {} |-> Empty] /\ lastAcked' = None /\ rate' \in {"init", "full", "recover"}
      /\ UNCHANGED <<tick, built, client, down, up>>
  BY DEF Resume
<1>2. DOMAIN snaps' = {}
  BY <1>1
<1>3. TypeOK'
  BY <1>1, <1>2 DEF Inv, TypeOK, client
<1>4. Times'
  BY <1>1, TypeNumbers DEF Inv, Times, None
<1>5. Contents' /\ Order'
  BY <1>1, <1>2 DEF Inv, Contents, AsBuilt, StoredAsBuilt, Order, client
<1>6. QED
  BY <1>3, <1>4, <1>5 DEF Inv

-----------------------------------------------------------------------------
(* The steps of the client, and of the network. *)

LEMMA EnterGameKeeps == Inv /\ EnterGame => Inv'
<1> SUFFICES ASSUME Inv, EnterGame PROVE Inv'
  OBVIOUS
<1>1. /\ store' = [t \in {} |-> Empty] /\ recvTick' = 0 /\ parts' = {} /\ ackTick' = None
      /\ received' = 0 /\ prev' = None /\ cur' = None /\ errors' = 0 /\ entered' = TRUE
      /\ UNCHANGED <<server, down, up>>
  BY DEF EnterGame
<1>2. DOMAIN store' = {}
  BY <1>1
<1>3. TypeOK'
  BY <1>1, <1>2, TypeNumbers, SnapshotAssumption DEF Inv, TypeOK, server
<1>4. Times' /\ Contents'
  BY <1>1, <1>2 DEF Inv, Times, Contents, AsBuilt, StoredAsBuilt, server
<1>5. Order'
  BY <1>1, <1>2 DEF Order
<1>6. QED
  BY <1>3, <1>4, <1>5 DEF Inv

LEMMA SendInputKeeps == Inv /\ SendInput => Inv'
<1> SUFFICES ASSUME Inv, SendInput PROVE Inv'
  OBVIOUS
<1>1. up' = up \cup {ackTick} /\ UNCHANGED <<server, client, down>>
  BY DEF SendInput
<1>2. ackTick <= tick
  BY TypeNumbers DEF Inv, Order, TypeOK, None
<1>3. TypeOK'
  BY <1>1 DEF Inv, TypeOK, server, client
<1>4. Times'
  BY <1>1, <1>2 DEF Inv, Times, server
<1>5. QED
  BY <1>1, <1>3, <1>4 DEF Inv, Contents, AsBuilt, StoredAsBuilt, Order, server, client

\* Less is in flight.
LEMMA LoseKeeps ==
    ASSUME Inv, up' \subseteq up, down' \subseteq down, UNCHANGED <<server, client>>
    PROVE  Inv'
<1>1. TypeOK'
  BY DEF Inv, TypeOK, server, client
<1>2. Times'
  BY DEF Inv, Times, server
<1>3. QED
  BY <1>1, <1>2 DEF Inv, Contents, AsBuilt, StoredAsBuilt, Order, server, client

LEMMA SwitchSnapshotKeeps == Inv /\ SwitchSnapshot => Inv'
<1> SUFFICES ASSUME Inv, SwitchSnapshot PROVE Inv'
  OBVIOUS
<1> DEFINE later == {t \in DOMAIN store : t > cur}
<1>1. /\ cur # None /\ later # {} /\ prev' = cur /\ cur' = Min(later)
      /\ UNCHANGED <<server, store, recvTick, parts, ackTick, received, errors, entered, down, up>>
  BY DEF SwitchSnapshot
<1>2. Min(later) \in later
  <2>1. later \subseteq Nat \cup {None}
    BY TypeNumbers DEF Inv
  <2>2. QED
    BY <1>1, <2>1, MinIsLeast
<1>3. cur' \in DOMAIN store /\ cur < cur' /\ cur \in DOMAIN store /\ received = 2
  <2>1. received = 2
    BY <1>1 DEF Inv, Order, TypeOK
  <2>2. QED
    BY <1>1, <1>2, <2>1 DEF Inv, Order
<1> HIDE DEF later
<1>4. TypeOK'
  <2>1. cur' \in Ticks
    BY <1>3, SnapshotAssumption DEF Inv, TypeOK, Ticks
  <2>2. QED
    BY <1>1, <2>1 DEF Inv, TypeOK, server
<1>5. Order'
  BY <1>1, <1>3 DEF Inv, Order
<1>6. QED
  BY <1>1, <1>4, <1>5 DEF Inv, Times, Contents, AsBuilt, StoredAsBuilt, server

\* A message arrives and nothing is stored for now; the acknowledgement may be
\* withdrawn.
LEMMA WaitKeeps ==
    ASSUME Inv, NEW m \in down, IsNew(m), down' \subseteq down, up' \subseteq up \cup {None},
           recvTick' = m.tick, parts' \subseteq [part : 1 .. MaxParts, tick : Ticks],
           ackTick' \in {ackTick, None}, errors' \in 0 .. MaxErrors,
           UNCHANGED <<server, store, received, prev, cur, entered>>
    PROVE  Inv'
<1>1. m.tick \in 0 .. tick /\ \A t \in DOMAIN store : t < m.tick
  BY Arrives, Newer
<1>2. TypeOK'
  BY <1>1 DEF Inv, TypeOK, server
<1>3. Times'
  BY TypeNumbers DEF Inv, Times, server, None
<1>4. Contents'
  BY DEF Inv, Contents, AsBuilt, StoredAsBuilt, server
<1>5. Order'
  BY <1>1 DEF Inv, Order
<1>6. QED
  BY <1>2, <1>3, <1>4, <1>5 DEF Inv

LEMMA CollectKeeps ==
    ASSUME Inv, NEW m \in down, Collect(m), down' \subseteq down, UNCHANGED server
    PROVE  Inv'
<1>1. parts' \subseteq [part : 1 .. MaxParts, tick : Ticks]
  BY Arrives, FiledIsParts DEF Collect, Inv
<1>2. errors' \in 0 .. MaxErrors
  BY DEF Collect, Inv, TypeOK
<1>3. QED
  BY <1>1, <1>2, WaitKeeps DEF Collect

LEMMA MissBaseKeeps ==
    ASSUME Inv, NEW m \in down, MissBase(m), down' \subseteq down, UNCHANGED server
    PROVE  Inv'
<1>1. up' \subseteq up \cup {None} /\ ackTick' = None /\ errors' \in 0 .. MaxErrors
  BY DEF MissBase, StartOver, Inv, TypeOK
<1>2. QED
  BY <1>1, WaitKeeps DEF MissBase

LEMMA FailUnpackKeeps ==
    ASSUME Inv, NEW m \in down, FailUnpack(m), down' \subseteq down, UNCHANGED server
    PROVE  Inv'
<1>1. errors' \in 0 .. MaxErrors /\ IsNew(m)
  BY DEF FailUnpack, HasBase, Inv, TypeOK
<1>2. QED
  BY <1>1, WaitKeeps DEF FailUnpack

LEMMA FailChecksumKeeps ==
    ASSUME Inv, NEW m \in down, FailChecksum(m), down' \subseteq down, UNCHANGED server
    PROVE  Inv'
<1>1. up' \subseteq up \cup {None} /\ ackTick' \in {ackTick, None}
  BY DEF FailChecksum, StartOver
<1>2. errors' \in 0 .. MaxErrors /\ IsNew(m)
  BY SnapshotAssumption DEF FailChecksum, HasBase, Inv, TypeOK
<1>3. QED
  BY <1>1, <1>2, WaitKeeps DEF FailChecksum

\* What a complete snapshot leaves of the storage: the base, what the game is
\* shown, and the acknowledged snapshot.
LEMMA PurgedIs ==
    ASSUME Inv, NEW m \in down, HasBase(m)
    PROVE  LET left == Purged(store, PurgeTick(m)) IN
           /\ DOMAIN left \subseteq DOMAIN store
           /\ \A t \in DOMAIN left : left[t] = store[t]
           /\ \A t \in DOMAIN store : m.base <= t \/ t \in {prev, cur, ackTick} => t \in DOMAIN left
           /\ DOMAIN store # {} => DOMAIN left # {}
<1> DEFINE left == Purged(store, PurgeTick(m))
<1>1. /\ PurgeTick(m) \in Int /\ PurgeTick(m) <= m.base /\ m.base \in Int
      /\ prev # None => PurgeTick(m) <= prev
      /\ cur # None => PurgeTick(m) <= cur
  BY Arrives, PurgeTickLow, TypeNumbers DEF Inv, None
<1>2. DOMAIN left = {t \in DOMAIN store : t >= PurgeTick(m)} /\ \A t \in DOMAIN left : left[t] = store[t]
  BY DEF Purged
<1>3. DOMAIN store \subseteq Nat /\ None \notin Nat
  BY TypeNumbers DEF Inv, None
<1>4. m.base = None \/ m.base \in DOMAIN store
  BY Arrives, TypeNumbers DEF Inv, HasBase, None
<1>5. m.base = None => \A t \in DOMAIN store : PurgeTick(m) <= t
  BY <1>1, <1>3 DEF None
<1>6. m.base \in DOMAIN store => ackTick = None \/ m.base <= ackTick
  BY DEF Inv, Order
<1>7. \A t \in DOMAIN store : m.base <= t \/ t \in {prev, cur, ackTick} => t \in DOMAIN left
  <2> SUFFICES ASSUME NEW t \in DOMAIN store, m.base <= t \/ t \in {prev, cur, ackTick}
               PROVE  PurgeTick(m) <= t
    BY <1>1, <1>2, <1>3
  <2>1. t \in Nat /\ t # None
    BY <1>3
  <2>2. CASE m.base <= t
    BY <1>1, <2>1, <2>2
  <2>3. CASE t = prev \/ t = cur
    BY <1>1, <2>1, <2>3
  <2>4. CASE t = ackTick
    BY <1>1, <1>4, <1>5, <1>6, <2>1, <2>4
  <2>5. QED
    BY <2>2, <2>3, <2>4
<1>8. DOMAIN store # {} => DOMAIN left # {}
  BY <1>1, <1>2, <1>3, <1>4, <1>5
<1>9. QED
  BY <1>2, <1>7, <1>8

LEMMA FewerErrorsIsType ==
    ASSUME TypeOK
    PROVE  FewerErrors \in 0 .. MaxErrors
BY SnapshotAssumption DEF TypeOK, FewerErrors

LEMMA FailValidateKeeps ==
    ASSUME Inv, NEW m \in down, FailValidate(m), down' \subseteq down, UNCHANGED server
    PROVE  Inv'
<1>1. /\ HasBase(m) /\ IsNew(m) /\ recvTick' = m.tick /\ parts' = {} /\ errors' = FewerErrors
      /\ store' = Purged(store, PurgeTick(m))
      /\ UNCHANGED <<server, ackTick, received, prev, cur, entered, up>>
  BY DEF FailValidate, HasBase
<1>2. m.tick \in 0 .. tick /\ \A t \in DOMAIN store : t < m.tick
  BY <1>1, Arrives, Newer
<1>3. /\ DOMAIN store' \subseteq DOMAIN store
      /\ \A t \in DOMAIN store' : store'[t] = store[t]
      /\ \A t \in DOMAIN store : t \in {prev, cur, ackTick} => t \in DOMAIN store'
      /\ DOMAIN store # {} => DOMAIN store' # {}
  BY <1>1, PurgedIs
<1>4. TypeOK'
  BY <1>1, <1>2, <1>3, FewerErrorsIsType DEF Inv, TypeOK, server
<1>5. Times'
  BY <1>1 DEF Inv, Times, server
<1>6. Contents'
  BY <1>1, <1>3 DEF Inv, Contents, AsBuilt, StoredAsBuilt, server
<1>7. Order'
  BY <1>1, <1>2, <1>3 DEF Inv, Order
<1>8. QED
  BY <1>4, <1>5, <1>6, <1>7 DEF Inv

\* What Accept does: the storage gets its newest snapshot; the second one
\* starts the game.
LEMMA AcceptIs ==
    ASSUME Inv, NEW m \in down, Accept(m), UNCHANGED server
    PROVE  /\ recvTick' = m.tick /\ ackTick' = m.tick /\ parts' = {} /\ errors' = FewerErrors
           /\ UNCHANGED <<entered, up>>
           /\ m.tick \in 0 .. tick /\ \A t \in DOMAIN store : t < m.tick
           /\ DOMAIN store' \subseteq DOMAIN store \cup {m.tick} /\ m.tick \in DOMAIN store'
           /\ \A t \in DOMAIN store : m.base <= t \/ t \in {prev, cur} => t \in DOMAIN store'
           /\ \A t \in DOMAIN store' : t \in DOMAIN built /\ store'[t] = built[t]
           /\ \/ received = 0 /\ received' = 1 /\ UNCHANGED <<prev, cur>>
              \/ /\ received = 1 /\ received' = 2 /\ cur' = m.tick
                 /\ prev' \in DOMAIN store' /\ prev' < cur'
              \/ received = 2 /\ received' = 2 /\ UNCHANGED <<prev, cur>>
<1> DEFINE left == Purged(store, PurgeTick(m))
<1>1. /\ HasBase(m) /\ IsNew(m) /\ recvTick' = m.tick /\ parts' = {} /\ errors' = FewerErrors
      /\ IsEmpty(m) \/ Unpacked(m) = m.to
      /\ store' = Added(left, m.tick, Unpacked(m))
      /\ received' = Min({received + 1, 2})
      /\ IF received = 1
         THEN prev' = Min(DOMAIN store') /\ cur' = Max(DOMAIN store')
         ELSE UNCHANGED <<prev, cur>>
      /\ ackTick' = m.tick /\ UNCHANGED <<entered, up>>
  BY DEF Accept, HasBase
<1>2. m.tick \in 0 .. tick /\ \A t \in DOMAIN store : t < m.tick
  BY <1>1, Arrives, Newer
<1>3. /\ DOMAIN left \subseteq DOMAIN store
      /\ \A t \in DOMAIN left : left[t] = store[t]
      /\ \A t \in DOMAIN store : m.base <= t \/ t \in {prev, cur, ackTick} => t \in DOMAIN left
      /\ DOMAIN store # {} => DOMAIN left # {}
  BY <1>1, PurgedIs
<1> HIDE DEF left
<1>4. DOMAIN store' = DOMAIN left \cup {m.tick}
  BY <1>1 DEF Added
<1>5. \A t \in DOMAIN store' : store'[t] = IF t = m.tick THEN Unpacked(m) ELSE left[t]
  BY <1>1 DEF Added
<1>6. Unpacked(m) = built[m.tick] /\ m.tick \in DOMAIN built
  BY <1>1, UnpackedIsBuilt
<1>7. \A t \in DOMAIN store' : t \in DOMAIN built /\ store'[t] = built[t]
  BY <1>3, <1>4, <1>5, <1>6 DEF Inv, Contents, StoredAsBuilt
<1>8. /\ received = 0 => Min({received + 1, 2}) = 1
      /\ received = 1 => Min({received + 1, 2}) = 2
      /\ received = 2 => Min({received + 1, 2}) = 2
  <2>1. received \in 0 .. 2
    BY DEF Inv, TypeOK
  <2>2. Min({received + 1, 2}) \in {received + 1, 2} /\ \A x \in {received + 1, 2} : Min({received + 1, 2}) <= x
    BY <2>1, MinIsLeast
  <2>3. QED
    BY <2>1, <2>2
<1>9. ASSUME received = 1
      PROVE  cur' = m.tick /\ prev' \in DOMAIN store' /\ prev' < cur'
  <2>1. DOMAIN store' \subseteq Nat /\ \A t \in DOMAIN store' : t <= m.tick
    BY <1>2, <1>3, <1>4, TypeNumbers DEF Inv
  <2>2. Max(DOMAIN store') = m.tick
    BY <1>4, <2>1, MaxIsGreatest
  <2>3. Min(DOMAIN store') \in DOMAIN store' /\ \A t \in DOMAIN store' : Min(DOMAIN store') <= t
    BY <1>4, <2>1, MinIsLeast
  <2>4. PICK t \in DOMAIN left : t < m.tick
    BY <1>2, <1>3, <1>9 DEF Inv, Order
  <2>5. Min(DOMAIN store') <= t
    BY <1>4, <2>3, <2>4
  <2>6. Min(DOMAIN store') < m.tick
    BY <1>4, <2>1, <2>3, <2>4, <2>5
  <2>7. QED
    BY <1>1, <1>9, <2>2, <2>3, <2>6
<1>10. received \in 0 .. 2
  BY DEF Inv, TypeOK
<1>11. QED
  BY <1>1, <1>2, <1>3, <1>4, <1>7, <1>8, <1>9, <1>10

LEMMA AcceptKeeps ==
    ASSUME Inv, NEW m \in down, Accept(m), down' \subseteq down, UNCHANGED server
    PROVE  Inv'
<1>1. /\ recvTick' = m.tick /\ ackTick' = m.tick /\ parts' = {} /\ errors' = FewerErrors
      /\ UNCHANGED <<entered, up>>
      /\ m.tick \in 0 .. tick /\ \A t \in DOMAIN store : t < m.tick
      /\ DOMAIN store' \subseteq DOMAIN store \cup {m.tick} /\ m.tick \in DOMAIN store'
      /\ \A t \in DOMAIN store : m.base <= t \/ t \in {prev, cur} => t \in DOMAIN store'
      /\ \A t \in DOMAIN store' : t \in DOMAIN built /\ store'[t] = built[t]
  BY AcceptIs
<1>2. \/ received = 0 /\ received' = 1 /\ UNCHANGED <<prev, cur>>
      \/ received = 1 /\ received' = 2 /\ cur' = m.tick /\ prev' \in DOMAIN store' /\ prev' < cur'
      \/ received = 2 /\ received' = 2 /\ UNCHANGED <<prev, cur>>
  BY AcceptIs
<1>3. TypeOK'
  <2>1. tick' = tick /\ tick \in Nat /\ 0 .. tick \subseteq Ticks
    BY TypeNumbers, SnapshotAssumption DEF server, Inv, TypeOK, Ticks
  <2>2. DOMAIN store' \subseteq 0 .. tick' /\ \A t \in DOMAIN store' : store'[t] \in Items
    BY <1>1, <2>1 DEF Inv, TypeOK
  <2>3. {ackTick', prev', cur'} \subseteq Ticks \cup {None} /\ received' \in 0 .. 2
    BY <1>1, <1>2, <2>1, <2>2 DEF Inv, TypeOK
  <2>4. errors' \in 0 .. MaxErrors
    BY <1>1, FewerErrorsIsType DEF Inv
  <2>5. QED
    BY <1>1, <2>1, <2>2, <2>3, <2>4 DEF Inv, TypeOK, server
<1>4. Times'
  BY <1>1 DEF Inv, Times, server
<1>5. Contents'
  BY <1>1 DEF Inv, Contents, AsBuilt, StoredAsBuilt, server
<1>6. Order'
  BY <1>1, <1>2, TypeNumbers DEF Inv, Order
<1>7. QED
  BY <1>3, <1>4, <1>5, <1>6 DEF Inv

LEMMA RecvSnapshotKeeps ==
    ASSUME Inv, NEW m \in down, NEW keep \in BOOLEAN, RecvSnapshot(m, keep)
    PROVE  Inv'
<1>1. down' \subseteq down /\ UNCHANGED server
  BY DEF RecvSnapshot
<1>2. CASE Ignore(m)
  BY <1>1, <1>2, LoseKeeps DEF Ignore
<1>3. CASE ~Ignore(m)
  BY <1>1, <1>3, CollectKeeps, MissBaseKeeps, FailUnpackKeeps, FailChecksumKeeps, FailValidateKeeps,
     AcceptKeeps DEF RecvSnapshot
<1>4. QED
  BY <1>2, <1>3

-----------------------------------------------------------------------------
LEMMA InitKeeps == Init => Inv
<1> SUFFICES ASSUME Init PROVE Inv
  OBVIOUS
<1>1. DOMAIN snaps = {} /\ DOMAIN store = {} /\ DOMAIN built = {}
  BY DEF Init
<1>2. TypeOK
  BY <1>1, SnapshotAssumption DEF Init, TypeOK, Ticks
<1>3. Times /\ Contents /\ Order
  BY <1>1 DEF Init, Times, Contents, StoredAsBuilt, Order, None
<1>4. QED
  BY <1>2, <1>3 DEF Inv

LEMMA StepKeeps == Inv /\ [Next]_vars => Inv'
<1> SUFFICES ASSUME Inv, [Next]_vars PROVE Inv'
  OBVIOUS
<1>1. ASSUME NEW v \in Items, NEW n \in 1 .. MaxParts, NEW toolarge \in {FALSE, MayBreak},
             DoSnapshot(v, n, toolarge)
      PROVE  Inv'
  BY <1>1, DoSnapshotKeeps, SnapshotAssumption
<1>2. ASSUME NEW a \in up, NEW keep \in BOOLEAN, RecvInput(a, keep)
      PROVE  Inv'
  BY <1>2, RecvInputKeeps
<1>3. ASSUME NEW m \in down, NEW keep \in BOOLEAN, RecvSnapshot(m, keep)
      PROVE  Inv'
  BY <1>3, RecvSnapshotKeeps
<1>4. ASSUME NEW a \in up, LoseInput(a)
      PROVE  Inv'
  BY <1>4, LoseKeeps DEF LoseInput
<1>5. ASSUME NEW m \in down, LoseSnapshot(m)
      PROVE  Inv'
  BY <1>5, LoseKeeps DEF LoseSnapshot
<1>6. CASE UNCHANGED vars
  BY <1>6, LoseKeeps DEF vars
<1>7. QED
  BY <1>1, <1>2, <1>3, <1>4, <1>5, <1>6, TickKeeps, ResumeKeeps, EnterGameKeeps, SendInputKeeps,
     SwitchSnapshotKeeps DEF Next

\* In every state the storages of server and client, the messages between them
\* and the two snapshots that are shown hold what was built for their ticks, in
\* the order in which CSnapshotStorage needs them.
THEOREM Inductive == Spec => []Inv
<1>1. QED
  BY InitKeeps, StepKeeps, PTL DEF Spec

\* Type correctness of both ends of the snapshot protocol.
THEOREM TypeCorrect == Spec => []TypeOK
<1>1. Inv => TypeOK
  BY DEF Inv
<1>2. QED
  BY <1>1, Inductive, PTL

\* Whatever the client has stored is what the server built for it: no
\* difference is ever applied to another base than its own.
THEOREM Stored == Spec => []StoredAsBuilt
<1>1. Inv => StoredAsBuilt
  BY DEF Inv, Contents
<1>2. QED
  BY <1>1, Inductive, PTL

\* Snapshots are stored in the order of their ticks, and purging leaves those
\* that are shown and the acknowledged one.
THEOREM Storage == Spec => []StorageServes
<1>1. ASSUME Inv PROVE StorageServes
  <2>1. NewestLast
    BY <1>1, Newer DEF NewestLast, HasBase
  <2>2. received = 2 \/ (prev = None /\ cur = None)
    BY <1>1 DEF Inv, Order, TypeOK
  <2>3. QED
    BY <1>1, <2>1, <2>2 DEF StorageServes, Inv, Order
<1>2. QED
  BY <1>1, Inductive, PTL

-----------------------------------------------------------------------------
(* The bases. *)

LEMMA DoSnapshotBases ==
    ASSUME Inv, Bases, NEW v \in Items, NEW n \in 1 .. MaxParts, NEW toolarge \in BOOLEAN,
           DoSnapshot(v, n, toolarge)
    PROVE  Bases'
<1> DEFINE t == tick + 1
<1>1. /\ t \in Ticks /\ snaps' = Added(Purged(snaps, KeptFrom(t)), t, v)
      /\ UNCHANGED <<lastAcked, client, up>>
  BY DoSnapshotIs
<1>2. PICK base \in 0 .. tick \cup {None}, from \in Items :
        /\ down' \subseteq down \cup Sent(t, base, from, v, n)
        /\ base = None => from = Empty
        /\ base # None => /\ base = lastAcked /\ base \in DOMAIN snaps
                          /\ base \in DOMAIN built /\ from = built[base]
  BY DoSnapshotIs
<1>3. /\ tick \in Nat /\ t \in Nat /\ tick < t /\ base \in Ticks \cup {None} /\ base \in Int /\ base < t
      /\ base >= None /\ lastAcked \in Int /\ DOMAIN snaps \subseteq Nat
  BY <1>1, TypeNumbers, SnapshotAssumption DEF Inv, Ticks, None
<1>4. \A m \in down' : m \in down \/ (m.tick = t /\ m.base = base)
  BY <1>1, <1>2, <1>3, SentIs
<1>5. \A m \in down : m.tick < t /\ m.base < t /\ m.base \in Int
  <2>1. \A m \in down : m.tick \in 0 .. tick /\ m.base \in 0 .. tick \cup {None}
    BY Arrives
  <2>2. QED
    BY <1>3, <2>1 DEF None
<1>6. DOMAIN snaps' = {u \in DOMAIN snaps : u >= KeptFrom(t)} \cup {t}
  BY <1>1 DEF Added, Purged
<1>7. KeptFrom(t) \in Int /\ lastAcked <= KeptFrom(t)
  BY <1>1, KeptFromLow DEF Inv
<1> HIDE DEF t
<1>8. \A a \in up \cup {lastAcked, ackTick} : a # t
  <2>1. ackTick <= tick
    BY TypeNumbers DEF Inv, Order, TypeOK, None
  <2>2. QED
    BY <1>3, <2>1, TypeNumbers DEF Inv, Times
<1>9. \A a \in up' \cup {lastAcked', ackTick'} : a \in DOMAIN snaps' => a \in DOMAIN store'
  BY <1>1, <1>6, <1>8 DEF Bases, client
<1>10. ASSUME NEW m \in down', NEW u \in DOMAIN snaps'
       PROVE  m.base <= u
  <2>1. CASE m \in down
    BY <1>3, <1>5, <1>6, <2>1 DEF Bases
  <2>2. CASE m.base = base
    <3>1. CASE u = t
      BY <1>3, <2>2, <3>1
    <3>2. CASE u \in DOMAIN snaps /\ u >= KeptFrom(t)
      <4>1. base = None \/ base = lastAcked
        BY <1>2
      <4>2. u \in Nat
        BY <1>3, <3>2
      <4>3. QED
        BY <1>3, <1>7, <2>2, <3>2, <4>1, <4>2 DEF None
    <3>3. QED
      BY <1>6, <3>1, <3>2
  <2>3. QED
    BY <1>4, <2>1, <2>2
<1>11. ASSUME NEW m \in down', m.tick >= recvTick', m.base # None
       PROVE  m.base \in DOMAIN store'
  BY <1>1, <1>2, <1>4, <1>11 DEF Bases, client
<1>12. ASSUME NEW m \in down', NEW q \in down', m.tick <= q.tick, q.base # None
       PROVE  m.base <= q.base
  <2>1. CASE q \in down
    <3>1. m \in down
      BY <1>3, <1>4, <1>5, <1>12, <2>1, Arrives
    <3>2. QED
      BY <1>12, <2>1, <3>1 DEF Bases
  <2>2. CASE q.base = base
    <3>1. q.base \in DOMAIN snaps
      BY <1>2, <1>12, <2>2
    <3>2. CASE m \in down
      BY <3>1, <3>2 DEF Bases
    <3>3. CASE m.base = base
      BY <1>3, <2>2, <3>3
    <3>4. QED
      BY <1>4, <3>2, <3>3
  <2>3. QED
    BY <1>4, <2>1, <2>2
<1>13. entered'
  BY <1>1 DEF Bases, client
<1>14. QED
  BY <1>9, <1>10, <1>11, <1>12, <1>13 DEF Bases

\* A message arrives and nothing is stored or purged.
LEMMA WaitBases ==
    ASSUME Inv, Bases, NEW m \in down, IsNew(m), down' \subseteq down, up' \subseteq up \cup {None},
           recvTick' = m.tick, ackTick' \in {ackTick, None},
           UNCHANGED <<server, store, entered>>
    PROVE  Bases'
<1>1. m.tick \in Nat /\ recvTick \in Nat /\ m.tick >= recvTick /\ None \notin DOMAIN snaps
  BY Arrives, TypeNumbers DEF Inv, IsNew, None
<1>2. \A q \in down : q.tick \in Nat /\ (q.tick >= m.tick => q.tick >= recvTick)
  BY <1>1, Arrives, TypeNumbers DEF Inv
<1>3. QED
  BY <1>1, <1>2 DEF Bases, server

\* A message arrives, what is older than its base is purged, and what is
\* acknowledged then is stored.
LEMMA PurgeBases ==
    ASSUME Inv, Bases, NEW m \in down, IsNew(m), down' \subseteq down, recvTick' = m.tick,
           ackTick' = ackTick \/ ackTick' \in DOMAIN store',
           \A t \in DOMAIN store : m.base <= t => t \in DOMAIN store',
           UNCHANGED <<server, entered, up>>
    PROVE  Bases'
<1>1. m.tick \in Nat /\ recvTick \in Nat /\ m.tick >= recvTick
  BY Arrives, TypeNumbers DEF Inv, IsNew
<1>2. \A q \in down : q.tick \in Nat /\ (q.tick >= m.tick => q.tick >= recvTick)
  BY <1>1, Arrives, TypeNumbers DEF Inv
<1>3. \A a \in up \cup {lastAcked, ackTick} : a \in DOMAIN snaps => a \in DOMAIN store'
  BY DEF Bases
<1>4. ASSUME NEW q \in down, q.tick >= m.tick, q.base # None
      PROVE  q.base \in DOMAIN store'
  <2>1. q.base \in DOMAIN store
    BY <1>2, <1>4 DEF Bases
  <2>2. m.base <= q.base
    BY <1>1, <1>2, <1>4 DEF Bases
  <2>3. QED
    BY <2>1, <2>2
<1>5. QED
  BY <1>3, <1>4 DEF Bases, server

LEMMA RecvSnapshotBases ==
    ASSUME Inv, Bases, NEW m \in down, NEW keep \in BOOLEAN, RecvSnapshot(m, keep)
    PROVE  Bases'
<1>1. down' \subseteq down /\ UNCHANGED server
  BY DEF RecvSnapshot
<1>2. CASE Ignore(m)
  BY <1>1, <1>2 DEF Ignore, Bases, server, client
<1>3. CASE Collect(m)
  BY <1>1, <1>3, WaitBases DEF Collect
<1>4. CASE MissBase(m)
  <2>1. up' \subseteq up \cup {None} /\ ackTick' = None
    BY <1>4 DEF MissBase, StartOver
  <2>2. QED
    BY <1>1, <1>4, <2>1, WaitBases DEF MissBase
<1>5. CASE FailUnpack(m)
  BY <1>1, <1>5, WaitBases DEF FailUnpack, HasBase
<1>6. CASE FailChecksum(m)
  <2>1. up' \subseteq up \cup {None} /\ ackTick' \in {ackTick, None}
    BY <1>6 DEF FailChecksum, StartOver
  <2>2. QED
    BY <1>1, <1>6, <2>1, WaitBases DEF FailChecksum, HasBase
<1>7. CASE FailValidate(m)
  <2>1. HasBase(m) /\ IsNew(m) /\ store' = Purged(store, PurgeTick(m))
    BY <1>7 DEF FailValidate, HasBase
  <2>2. \A t \in DOMAIN store : m.base <= t => t \in DOMAIN store'
    BY <2>1, PurgedIs
  <2>3. QED
    BY <1>1, <1>7, <2>1, <2>2, PurgeBases DEF FailValidate
<1>8. CASE Accept(m)
  <2>1. /\ recvTick' = m.tick /\ ackTick' = m.tick /\ UNCHANGED <<entered, up>>
        /\ m.tick \in DOMAIN store'
        /\ \A t \in DOMAIN store : m.base <= t => t \in DOMAIN store'
    BY <1>1, <1>8, AcceptIs
  <2>2. IsNew(m)
    BY <1>8 DEF Accept, HasBase
  <2>3. QED
    BY <1>1, <2>1, <2>2, PurgeBases
<1>9. QED
  BY <1>2, <1>3, <1>4, <1>5, <1>6, <1>7, <1>8 DEF RecvSnapshot

LEMMA BasesStep == Inv /\ Bases /\ [Next]_vars => Bases'
<1> SUFFICES ASSUME Inv, Bases, [Next]_vars PROVE Bases'
  OBVIOUS
<1>1. ASSUME NEW v \in Items, NEW n \in 1 .. MaxParts, NEW toolarge \in {FALSE, MayBreak},
             DoSnapshot(v, n, toolarge)
      PROVE  Bases'
  BY <1>1, DoSnapshotBases, SnapshotAssumption
<1>2. ASSUME NEW a \in up, NEW keep \in BOOLEAN, RecvInput(a, keep)
      PROVE  Bases'
  <2>1. /\ up' \subseteq up /\ lastAcked' \in {lastAcked, a}
        /\ UNCHANGED <<snaps, client, down>>
    BY <1>2 DEF RecvInput
  <2>2. QED
    BY <2>1 DEF Bases, client
<1>3. ASSUME NEW m \in down, NEW keep \in BOOLEAN, RecvSnapshot(m, keep)
      PROVE  Bases'
  BY <1>3, RecvSnapshotBases
<1>4. ASSUME NEW a \in up, LoseInput(a)
      PROVE  Bases'
  BY <1>4 DEF LoseInput, Bases, server, client
<1>5. ASSUME NEW m \in down, LoseSnapshot(m)
      PROVE  Bases'
  BY <1>5 DEF LoseSnapshot, Bases, server, client
<1>6. ASSUME Tick \/ UNCHANGED vars
      PROVE  Bases'
  BY <1>6 DEF Tick, Bases, vars, server, client
<1>7. ASSUME Resume
      PROVE  Bases'
  <2>1. DOMAIN snaps' = {} /\ UNCHANGED <<client, down, up>>
    BY <1>7 DEF Resume
  <2>2. QED
    BY <2>1 DEF Bases, client
<1>8. ASSUME EnterGame
      PROVE  Bases'
  BY <1>8 DEF EnterGame, Bases
<1>9. ASSUME SendInput
      PROVE  Bases'
  BY <1>9 DEF SendInput, Bases, server, client
<1>10. ASSUME SwitchSnapshot
       PROVE  Bases'
  BY <1>10 DEF SwitchSnapshot, Bases, server
<1>11. QED
  BY <1>1, <1>2, <1>3, <1>4, <1>5, <1>6, <1>7, <1>8, <1>9, <1>10 DEF Next

\* The main connection of a client, which enters the game before the first
\* snapshot is sent, never misses a base.
THEOREM MainHasBases == ~IsDummy => (Spec => []BaseAtHand)
<1> SUFFICES ASSUME ~IsDummy PROVE Spec => []BaseAtHand
  OBVIOUS
<1>1. Init => Bases
  BY DEF Init, Bases
<1>2. Inv /\ Bases => BaseAtHand
  BY Arrives DEF Bases, BaseAtHand, IsNew, None
<1>3. QED
  BY <1>1, <1>2, Inductive, BasesStep, PTL DEF Spec

-----------------------------------------------------------------------------
(* What the game of the client is shown. *)

Shown == IF cur = None THEN [tick |-> None] ELSE [tick |-> cur, items |-> store[cur]]

LEMMA ShownTick == Inv => Shown.tick = cur /\ (cur # None => cur \in DOMAIN store)
<1> SUFFICES ASSUME Inv PROVE Shown.tick = cur /\ (cur # None => cur \in DOMAIN store)
  OBVIOUS
<1>1. Shown.tick = cur
  BY DEF Shown
<1>2. cur # None => cur \in DOMAIN store
  BY DEF Inv, Order, TypeOK
<1>3. QED
  BY <1>1, <1>2

\* The game goes on to a later snapshot.
LEMMA ShowsLater ==
    ASSUME Inv, Inv', UNCHANGED built, cur' \in DOMAIN store', cur < cur'
    PROVE  Feed!Next
<1>1. /\ store'[cur'] = built[cur'] /\ cur' \in DOMAIN built
  BY DEF Inv, Contents, StoredAsBuilt
<1>2. cur' # None
  BY TypeNumbers DEF Inv, TypeOK, None
<1>3. Shown' = [tick |-> cur', items |-> built[cur']]
  BY <1>1, <1>2 DEF Shown
<1>4. Feed!Show
  BY <1>1, <1>3, ShownTick DEF Feed!Show, Shown
<1>5. QED
  BY <1>4 DEF Feed!Next

\* What it is shown stays what it is, also when the storage is purged.
LEMMA ShowsSame ==
    ASSUME Inv, Inv', UNCHANGED <<built, cur>>
    PROVE  UNCHANGED Feed!vars
<1>1. CASE cur = None
  BY <1>1 DEF Feed!vars
<1>2. CASE cur # None
  <2>1. cur \in DOMAIN store /\ cur \in DOMAIN store'
    BY <1>2, ShownTick DEF Inv, Order, TypeOK
  <2>2. store'[cur] = store[cur]
    BY <2>1 DEF Inv, Contents, StoredAsBuilt
  <2>3. QED
    BY <1>2, <2>2 DEF Feed!vars
<1>3. QED
  BY <1>1, <1>2

LEMMA FeedStep == Inv /\ Inv' /\ [Next]_vars => [Feed!Next]_Feed!vars
<1> SUFFICES ASSUME Inv, Inv', [Next]_vars PROVE Feed!Next \/ UNCHANGED Feed!vars
  OBVIOUS
<1>1. ASSUME UNCHANGED <<built, cur>> PROVE UNCHANGED Feed!vars
  BY <1>1, ShowsSame
<1>2. ASSUME NEW v \in Items, NEW n \in 1 .. MaxParts, NEW toolarge \in BOOLEAN,
             DoSnapshot(v, n, toolarge)
      PROVE  Feed!Next
  <2> DEFINE t == tick + 1
  <2>1. t \in Nat /\ built' = Added(built, t, v) /\ UNCHANGED client
    BY <1>2, TypeNumbers, DoSnapshotIs DEF Inv
  <2>2. t \notin DOMAIN built /\ \A u \in DOMAIN built : u < t
    BY TypeNumbers DEF Inv, TypeOK
  <2> HIDE DEF t
  <2>3. t \in DOMAIN built' \ DOMAIN built
    BY <2>1, <2>2 DEF Added
  <2>4. built' = [u \in DOMAIN built \cup {t} |-> IF u = t THEN v ELSE built[u]]
    BY <2>1 DEF Added
  <2>5. UNCHANGED Shown
    BY <2>1 DEF client, Shown
  <2>6. Feed!Build
    BY <2>2, <2>3, <2>4, <2>5 DEF Feed!Build, Shown
  <2>7. QED
    BY <2>6 DEF Feed!Next
<1>3. ASSUME NEW m \in down, NEW keep \in BOOLEAN, RecvSnapshot(m, keep)
      PROVE  Feed!Next \/ UNCHANGED Feed!vars
  <2>1. UNCHANGED server /\ UNCHANGED built
    BY <1>3 DEF RecvSnapshot, server
  <2>2. CASE Accept(m)
    <3>1. UNCHANGED cur \/ (cur = None /\ cur' = m.tick /\ m.tick \in DOMAIN store')
      BY <2>1, <2>2, AcceptIs DEF Inv, Order
    <3>2. CASE UNCHANGED cur
      BY <1>1, <2>1, <3>2
    <3>3. CASE cur = None /\ cur' = m.tick /\ m.tick \in DOMAIN store'
      <4>1. cur < cur'
        BY <3>3, Arrives, TypeNumbers DEF Inv, None
      <4>2. QED
        BY <2>1, <3>3, <4>1, ShowsLater
    <3>4. QED
      BY <3>1, <3>2, <3>3
  <2>3. CASE ~Accept(m)
    BY <1>1, <1>3, <2>1, <2>3
       DEF RecvSnapshot, Ignore, Collect, MissBase, FailUnpack, FailChecksum, FailValidate, client
  <2>4. QED
    BY <2>2, <2>3
<1>4. ASSUME SwitchSnapshot PROVE Feed!Next
  <2> DEFINE later == {t \in DOMAIN store : t > cur}
  <2>1. later # {} /\ cur' = Min(later) /\ UNCHANGED <<server, store>>
    BY <1>4 DEF SwitchSnapshot
  <2>2. Min(later) \in later
    BY <2>1, TypeNumbers, MinIsLeast DEF Inv
  <2>3. cur' \in DOMAIN store' /\ cur < cur'
    BY <2>1, <2>2, TypeNumbers DEF Inv
  <2>4. QED
    BY <2>1, <2>3, ShowsLater DEF server
<1>5. ASSUME EnterGame PROVE Feed!Next
  <2>1. cur' = None /\ UNCHANGED built
    BY <1>5 DEF EnterGame, server
  <2>2. Feed!Restart
    BY <2>1 DEF Feed!Restart, None
  <2>3. QED
    BY <2>2 DEF Feed!Next
<1>6. ASSUME NEW a \in up, LoseInput(a) \/ \E keep \in BOOLEAN : RecvInput(a, keep)
      PROVE  UNCHANGED Feed!vars
  BY <1>1, <1>6 DEF LoseInput, RecvInput, server, client
<1>7. ASSUME NEW m \in down, LoseSnapshot(m)
      PROVE  UNCHANGED Feed!vars
  BY <1>1, <1>7 DEF LoseSnapshot, server, client
<1>8. ASSUME Tick \/ Resume \/ SendInput \/ UNCHANGED vars
      PROVE  UNCHANGED Feed!vars
  BY <1>1, <1>8 DEF Tick, Resume, SendInput, vars, server, client
<1>9. QED
  BY <1>2, <1>3, <1>4, <1>5, <1>6, <1>7, <1>8, SnapshotAssumption DEF Next

\* The protocol implements the feed: the game is shown what the server built,
\* each snapshot of a later tick than the one before.
THEOREM FeedRefined == Spec => FeedSpec
<1>1. Init => Feed!Init
  BY DEF Init, Feed!Init, None
<1>2. QED
  BY <1>1, Inductive, FeedStep, PTL DEF Spec, FeedSpec, Feed!Spec
=============================================================================
