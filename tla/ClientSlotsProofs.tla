-------------------------- MODULE ClientSlotsProofs --------------------------
(***************************************************************************)
(* Proofs about ClientSlots, for any number of slots, any addresses, codes *)
(* and limit.  What is in a slot is described slot by slot (SlotOK); only  *)
(* the address and the limit relate several slots.                         *)
(***************************************************************************)
EXTENDS ClientSlots, FiniteSetTheorems, WellFoundedInduction, TLAPS

Conn == [st: {"offline", "online", "error"}, addr: Addrs \cup {None},
         token: {"token", "unsupported", "unknown", None}, prot: BOOLEAN, situ: BOOLEAN]
Client == [state: States, ibr: BOOLEAN, persist: BOOLEAN]
Player == [ready: BOOLEAN, code: Codes \cup {None}] \cup {None}

\* Connection c, client k and player q of a slot belong together.
SlotOK(c, k, q) ==
    /\ c.st = "offline" => c = Offline
    /\ c.addr = None => c.st = "offline"
    /\ c.st = "offline" <=> k.state = "empty"
    /\ q # None <=> k.state \in {"ready", "ingame"} \/ k.ibr
    /\ k.state = "ingame" \/ k.ibr => q.ready
    /\ k.ibr => k.state \in {"connecting", "ready"}
    /\ k.persist => k.state = "connecting" /\ ~k.ibr

\* One slot for an address.
OneSlot(c) ==
    \A i, k \in Slots: c[i].st = "online" /\ c[k].st = "online" /\ c[i].addr = c[k].addr => i = k

SlotsInv ==
    /\ conn \in [Slots -> Conn] /\ client \in [Slots -> Client] /\ player \in [Slots -> Player]
    /\ \A i \in Slots: SlotOK(conn[i], client[i], player[i])
    /\ OneSlot(conn)

IndInv == SlotsInv /\ pump \in BOOLEAN

-----------------------------------------------------------------------------
\* Every nonempty set of natural numbers has a least element.
LEMMA LeastExists ==
    ASSUME NEW S, S \subseteq Nat, S # {}
    PROVE  \E k \in S: \A j \in S: k =< j
<1> DEFINE R == {p \in Nat \X Nat: p[1] < p[2]}
<1>1. R = OpToRel(<, Nat)
  BY Zenon DEF OpToRel
<1>2. IsWellFoundedOn(R, Nat)
  BY ONLY <1>1, NatLessThanWellFounded, Zenon
<1>3. PICK x \in S: \A y \in S: ~(<<y, x>> \in R)
  <2> HIDE DEF R
  <2> QED
    BY <1>2, WFMin
<1>4. \A y \in S: ~(y < x)
  <2> SUFFICES ASSUME NEW y \in S PROVE ~(y < x)
    OBVIOUS
  <2>1. <<y, x>> \in Nat \X Nat
    OBVIOUS
  <2>2. QED
    BY <1>3, <2>1
<1>5. QED
  BY <1>4

\* GetClientSlot and the search for a free slot find one.
LEMMA MinIsSlot ==
    ASSUME NEW S \in SUBSET Slots, S # {}
    PROVE  Min(S) \in S
<1>1. S \subseteq Nat
  BY SlotsAssumption DEF Slots
<1>2. \E k \in S: \A j \in S: k =< j
  BY <1>1, LeastExists
<1>3. QED
  BY <1>2 DEF Min

LEMMA OfflineIsConn == Offline \in Conn /\ None \notin Addrs
BY SlotsAssumption DEF Offline, Conn

LEMMA DirectIsConn ==
    ASSUME NEW a \in Addrs, NEW token \in {"token", "unsupported"}
    PROVE  /\ Direct(a, token) \in Conn
           /\ Direct(a, token).st = "online" /\ Direct(a, token).addr = a
BY DEF Direct, Offline, Conn

-----------------------------------------------------------------------------
(* The steps several actions share. *)

\* Slots are dropped; the others are as connections c, clients and players are.
LEMMA DropKeeps ==
    ASSUME SlotsInv, NEW c \in [Slots -> Conn], NEW gone \in SUBSET Slots,
           \A i \in Slots \ gone: SlotOK(c[i], client[i], player[i]),
           OneSlot(c), Drop(c, gone)
    PROVE  SlotsInv'
<1>1. /\ conn' \in [Slots -> Conn] /\ client' \in [Slots -> Client]
      /\ player' \in [Slots -> Player]
  BY OfflineIsConn DEF Drop, SlotsInv, Deleted, PlayerAfterDel, Client, Player, States
<1>2. ASSUME NEW i \in Slots
      PROVE  SlotOK(conn'[i], client'[i], player'[i])
  <2>1. CASE i \notin gone
    BY <2>1 DEF Drop
  <2>2. CASE i \in gone
    <3>1. conn'[i] = Offline /\ client'[i] = Deleted /\ player'[i] = None
      BY <2>2 DEF Drop, SlotsInv, SlotOK, PlayerAfterDel, IsReady
    <3>2. QED
      BY <3>1 DEF SlotOK, Offline, Deleted
  <2>3. QED
    BY <2>1, <2>2
<1>3. OneSlot(conn')
  BY DEF Drop, OneSlot, Offline
<1>4. QED
  BY <1>1, <1>2, <1>3 DEF SlotsInv

LEMMA DropSome ==
    ASSUME SlotsInv, NEW gone \in SUBSET Slots, Drop(conn, gone)
    PROVE  SlotsInv'
BY DropKeeps DEF SlotsInv

\* One slot changes, and its connection has an address no other has.
LEMMA OneChanges ==
    ASSUME SlotsInv, NEW i \in Slots, NEW c \in Conn, NEW k \in Client, NEW q \in Player,
           SlotOK(c, k, q),
           c.st = "online" => \A j \in Slots \ {i}: conn[j].st = "online" => conn[j].addr # c.addr,
           conn' = [conn EXCEPT ![i] = c], client' = [client EXCEPT ![i] = k],
           player' = [player EXCEPT ![i] = q]
    PROVE  SlotsInv'
<1>1. \A j \in Slots: SlotOK(conn'[j], client'[j], player'[j])
  BY DEF SlotsInv
<1>2. OneSlot(conn')
  BY DEF SlotsInv, OneSlot
<1>3. QED
  BY <1>1, <1>2 DEF SlotsInv

\* A connection is accepted, in a free slot or in the one of its address.
LEMMA AcceptKeeps ==
    ASSUME SlotsInv, NEW a \in Addrs, NEW token \in {"token", "unsupported"}, NEW vanilla \in BOOLEAN,
           TryAcceptClient(a, token, vanilla)
    PROVE  SlotsInv'
<1> DEFINE c == Direct(a, token)
<1>1. c \in Conn /\ c.st = "online" /\ c.addr = a
  BY DirectIsConn
<1>2. CASE NewClient(a, token, vanilla)
  <2> DEFINE free == {i \in Slots: conn[i].st = "offline"}
             i == Min(free)
             k == Fresh(client[i], vanilla)
  <2>1. i \in Slots /\ conn[i].st = "offline"
    BY <1>2, MinIsSlot DEF NewClient
  <2>2. conn' = [conn EXCEPT ![i] = c] /\ client' = [client EXCEPT ![i] = k] /\ UNCHANGED player
    BY <1>2 DEF NewClient
  <2>3. \A j \in Slots: conn[j].st = "online" => conn[j].addr # a
    BY <1>2 DEF NewClient, SlotsOf, Online
  <2> HIDE DEF i, c
  <2>4. k \in Client /\ player[i] \in Player /\ SlotOK(c, k, player[i])
    BY <1>1, <2>1, OfflineIsConn DEF SlotsInv, SlotOK, Fresh, Client, States, Downloading
  <2>5. player' = [player EXCEPT ![i] = player[i]]
    BY <2>2 DEF SlotsInv
  <2> HIDE DEF k
  <2>6. QED
    BY <1>1, <2>1, <2>2, <2>3, <2>4, <2>5, OneChanges
<1>3. CASE Rejoin(a, token, vanilla)
  <2> DEFINE i == Min(SlotsOf(a))
  <2>1. i \in Slots /\ conn[i].st = "online" /\ conn[i].addr = a
    <3>1. SlotsOf(a) \subseteq Slots /\ SlotsOf(a) # {}
      BY <1>3 DEF Rejoin, SlotsOf
    <3>2. i \in SlotsOf(a)
      BY <3>1, MinIsSlot
    <3>3. QED
      BY <3>2 DEF SlotsOf, Online
  <2>2. conn' = [conn EXCEPT ![i] = c]
    BY <1>3 DEF Rejoin
  <2>3. \A j \in Slots \ {i}: conn[j].st = "online" => conn[j].addr # a
    BY <2>1 DEF SlotsInv, OneSlot
  <2>4. CASE IsKnownToGame(i)
    <3> DEFINE k == [client[i] EXCEPT !.state = "connecting", !.ibr = TRUE]
    <3>1. client' = [client EXCEPT ![i] = k] /\ UNCHANGED player
      BY <1>3, <2>4 DEF Rejoin
    <3> HIDE DEF i, c
    <3>2. k \in Client /\ player[i] \in Player /\ SlotOK(c, k, player[i])
      BY <1>1, <2>1, <2>4, OfflineIsConn
         DEF SlotsInv, SlotOK, Client, States, Downloading, IsKnownToGame
    <3>3. player' = [player EXCEPT ![i] = player[i]]
      BY <3>1 DEF SlotsInv
    <3> HIDE DEF k
    <3>4. QED
      BY <1>1, <2>1, <2>2, <2>3, <3>1, <3>2, <3>3, OneChanges
  <2>5. CASE ~IsKnownToGame(i)
    <3> DEFINE k == Fresh(Deleted, vanilla)
    <3>1. client' = [client EXCEPT ![i] = k] /\ player' = [player EXCEPT ![i] = PlayerAfterDel(i)]
      BY <1>3, <2>5 DEF Rejoin
    <3> HIDE DEF i, c
    <3>2. PlayerAfterDel(i) = None
      BY <2>1, <2>5 DEF SlotsInv, SlotOK, PlayerAfterDel, IsReady, IsKnownToGame
    <3>3. k \in Client /\ None \in Player /\ SlotOK(c, k, None)
      BY <1>1, OfflineIsConn DEF SlotOK, Fresh, Deleted, Client, Player, States, Downloading
    <3> HIDE DEF k
    <3>4. QED
      BY <1>1, <2>1, <2>2, <2>3, <3>1, <3>2, <3>3, OneChanges
  <2>6. QED
    BY <2>4, <2>5
<1>4. QED
  BY <1>2, <1>3 DEF TryAcceptClient

-----------------------------------------------------------------------------
(* The actions. *)

\* What an online client does with its own slot.
LEMMA OwnKeeps ==
    ASSUME SlotsInv, NEW i \in Slots, Online(i), NEW k \in Client, NEW q \in Player,
           NEW c \in Conn, c.st \in {"online", "error"}, c.addr = conn[i].addr,
           SlotOK(c, k, q),
           conn' = [conn EXCEPT ![i] = c], client' = [client EXCEPT ![i] = k],
           player' = [player EXCEPT ![i] = q]
    PROVE  SlotsInv'
<1>1. \A j \in Slots \ {i}: conn[j].st = "online" => conn[j].addr # c.addr
  BY DEF SlotsInv, OneSlot, Online
<1>2. QED
  BY <1>1, OneChanges

\* With an unchanged connection.
LEMMA MessageKeeps ==
    ASSUME SlotsInv, NEW i \in Slots, Online(i), NEW k \in Client, NEW q \in Player,
           SlotOK(conn[i], k, q), UNCHANGED conn,
           client' = [client EXCEPT ![i] = k], player' = [player EXCEPT ![i] = q]
    PROVE  SlotsInv'
<1>1. conn[i] \in Conn /\ conn[i].st = "online" /\ conn' = [conn EXCEPT ![i] = conn[i]]
  BY DEF SlotsInv, Online
<1>2. QED
  BY <1>1, OwnKeeps

LEMMA ConnectVanillaKeeps ==
    ASSUME SlotsInv, NEW a \in Addrs, ConnectVanilla(a)
    PROVE  SlotsInv'
<1>1. PICK i \in Slots: Online(i) /\ conn' = [conn EXCEPT ![i] = [conn[i] EXCEPT !.token = "unknown"]]
  BY DEF ConnectVanilla, SlotsOf
<1> DEFINE c == [conn[i] EXCEPT !.token = "unknown"]
<1>2. /\ c \in Conn /\ c.st = "online" /\ c.addr = conn[i].addr
      /\ client[i] \in Client /\ player[i] \in Player
      /\ SlotOK(c, client[i], player[i])
  BY <1>1, OfflineIsConn DEF SlotsInv, SlotOK, Conn, Online
<1>3. client' = [client EXCEPT ![i] = client[i]] /\ player' = [player EXCEPT ![i] = player[i]]
  BY DEF ConnectVanilla, SlotsInv
<1> HIDE DEF c
<1>4. QED
  BY <1>1, <1>2, <1>3, OwnKeeps DEF c

LEMMA CloseKeeps ==
    ASSUME SlotsInv, NEW i \in Slots, Close(i)
    PROVE  SlotsInv'
<1> DEFINE c == [conn[i] EXCEPT !.st = "error"]
<1>1. Online(i) /\ conn' = [conn EXCEPT ![i] = c]
  BY DEF Close
<1>2. /\ c \in Conn /\ c.st = "error" /\ c.addr = conn[i].addr
      /\ client[i] \in Client /\ player[i] \in Player
      /\ SlotOK(c, client[i], player[i])
  BY <1>1, OfflineIsConn DEF SlotsInv, SlotOK, Conn, Online
<1>3. client' = [client EXCEPT ![i] = client[i]] /\ player' = [player EXCEPT ![i] = player[i]]
  BY DEF Close, SlotsInv
<1> HIDE DEF c
<1>4. QED
  BY <1>1, <1>2, <1>3, OwnKeeps

LEMMA ClientVerKeeps ==
    ASSUME SlotsInv, NEW i \in Slots, ClientVer(i)
    PROVE  SlotsInv'
<1> DEFINE k == [client[i] EXCEPT !.state = "auth"]
<1>1. Online(i) /\ client[i].state = "preauth" /\ client' = [client EXCEPT ![i] = k] /\ UNCHANGED conn
  BY DEF ClientVer
<1>2. k \in Client /\ player[i] \in Player /\ SlotOK(conn[i], k, player[i])
  BY <1>1 DEF SlotsInv, SlotOK, Client, States, Downloading, Online
<1>3. player' = [player EXCEPT ![i] = player[i]]
  BY DEF ClientVer, SlotsInv
<1> HIDE DEF k
<1>4. QED
  BY <1>1, <1>2, <1>3, MessageKeeps

LEMMA InfoKeeps ==
    ASSUME SlotsInv, NEW i \in Slots, Info(i)
    PROVE  SlotsInv'
<1> DEFINE k == [client[i] EXCEPT !.state = "connecting"]
<1>1. Online(i) /\ client[i].state \in {"preauth", "auth"}
  BY DEF Info
<1>2. CASE Drop(conn, {i})
  BY <1>2, DropSome
<1>3. CASE client' = [client EXCEPT ![i] = k] /\ UNCHANGED <<conn, player>>
  <2>1. k \in Client /\ player[i] \in Player /\ SlotOK(conn[i], k, player[i])
    BY <1>1 DEF SlotsInv, SlotOK, Client, States, Downloading, Online
  <2>2. player' = [player EXCEPT ![i] = player[i]]
    BY <1>3 DEF SlotsInv
  <2> HIDE DEF k
  <2>3. QED
    BY <1>1, <1>3, <2>1, <2>2, MessageKeeps
<1>4. QED
  BY <1>2, <1>3 DEF Info

LEMMA ReadyKeeps ==
    ASSUME SlotsInv, NEW i \in Slots, Ready(i)
    PROVE  SlotsInv'
<1> DEFINE k == [client[i] EXCEPT !.state = "ready", !.persist = FALSE]
           q == IF client[i].ibr THEN player[i] ELSE NewPlayer
<1>1. Online(i) /\ client[i].state = "connecting" /\ client' = [client EXCEPT ![i] = k] /\ UNCHANGED conn
  BY DEF Ready
<1>2. NewPlayer \in Player /\ NewPlayer # None
  <2>1. NewPlayer \in [ready: BOOLEAN, code: Codes \cup {None}]
    BY DEF NewPlayer
  <2>2. QED
    BY <2>1, SlotsAssumption DEF Player
<1>3. q \in Player /\ q # None
  BY <1>2 DEF SlotsInv, SlotOK
<1>4. k \in Client /\ SlotOK(conn[i], k, q)
  BY <1>1, <1>3 DEF SlotsInv, SlotOK, Client, States, Downloading, Online
<1>5. player' = [player EXCEPT ![i] = q]
  BY DEF Ready, SlotsInv
<1> HIDE DEF k, q
<1>6. QED
  BY <1>1, <1>3, <1>4, <1>5, MessageKeeps

LEMMA StartInfoKeeps ==
    ASSUME SlotsInv, NEW i \in Slots, StartInfo(i)
    PROVE  SlotsInv'
<1> DEFINE q == [player[i] EXCEPT !.ready = TRUE]
<1>1. Online(i) /\ IsReady(i) /\ ~player[i].ready
  BY DEF StartInfo
<1>2. CASE Drop(conn, {i})
  BY <1>2, DropSome
<1>3. CASE player' = [player EXCEPT ![i] = q] /\ UNCHANGED <<conn, client>>
  <2>1. player[i] # None /\ player[i] \in Player
    BY <1>1 DEF SlotsInv, SlotOK, IsReady
  <2>2. q \in Player /\ q # None /\ q.ready
    BY <2>1, SlotsAssumption DEF Player
  <2>3. client[i] \in Client /\ SlotOK(conn[i], client[i], q)
    BY <1>1, <2>1, <2>2 DEF SlotsInv, SlotOK, IsReady
  <2>4. client' = [client EXCEPT ![i] = client[i]]
    BY <1>3 DEF SlotsInv
  <2> HIDE DEF q
  <2>5. QED
    BY <1>1, <1>3, <2>2, <2>3, <2>4, MessageKeeps
<1>4. QED
  BY <1>2, <1>3 DEF StartInfo

LEMMA EnterGameKeeps ==
    ASSUME SlotsInv, NEW i \in Slots, EnterGame(i)
    PROVE  SlotsInv'
<1> DEFINE k == [client[i] EXCEPT !.state = "ingame", !.ibr = FALSE]
<1>1. /\ Online(i) /\ client[i].state = "ready" /\ player[i] # None /\ player[i].ready
      /\ client' = [client EXCEPT ![i] = k] /\ UNCHANGED conn
  BY DEF EnterGame, IsClientReady
<1>2. k \in Client /\ player[i] \in Player /\ SlotOK(conn[i], k, player[i])
  BY <1>1 DEF SlotsInv, SlotOK, Client, States, Online
<1>3. player' = [player EXCEPT ![i] = player[i]]
  BY DEF EnterGame, SlotsInv
<1> HIDE DEF k
<1>4. QED
  BY <1>1, <1>2, <1>3, MessageKeeps

\* SetTimedOut: slot i takes over the connection of orig.
LEMMA SetTimedOutKeeps ==
    ASSUME SlotsInv, NEW i \in Slots, NEW orig \in Slots, i # orig, HasErrored(i), Online(orig),
           SetTimedOut(i, orig)
    PROVE  SlotsInv'
<1> DEFINE c == [conn[i] EXCEPT !.st = "online", !.addr = conn[orig].addr, !.token = conn[orig].token]
<1>1. conn' = [j \in Slots |-> IF j = i THEN c ELSE IF j = orig THEN Offline ELSE conn[j]]
  BY DEF SetTimedOut, SlotsInv
<1>2. client' = [client EXCEPT ![orig] = Deleted] /\ player' = [player EXCEPT ![orig] = PlayerAfterDel(orig)]
  BY DEF SetTimedOut
<1>3. /\ c \in Conn /\ c.st = "online" /\ c.addr = conn[orig].addr
      /\ SlotOK(c, client[i], player[i])
  BY OfflineIsConn DEF SlotsInv, SlotOK, Conn, Online, HasErrored
<1>4. PlayerAfterDel(orig) = None
  BY DEF SlotsInv, SlotOK, PlayerAfterDel, IsReady
<1> HIDE DEF c
<1>5. /\ conn' \in [Slots -> Conn] /\ client' \in [Slots -> Client] /\ player' \in [Slots -> Player]
  BY <1>1, <1>2, <1>3, <1>4, OfflineIsConn DEF SlotsInv, Deleted, Client, Player, States
<1>6. ASSUME NEW j \in Slots
      PROVE  SlotOK(conn'[j], client'[j], player'[j])
  <2>1. CASE j = orig
    <3>1. conn'[j] = Offline /\ client'[j] = Deleted /\ player'[j] = None
      BY <1>1, <1>2, <1>4, <2>1 DEF SlotsInv
    <3>2. QED
      BY <3>1 DEF SlotOK, Offline, Deleted
  <2>2. CASE j # orig
    <3>1. client'[j] = client[j] /\ player'[j] = player[j]
      BY <1>2, <2>2 DEF SlotsInv
    <3>2. QED
      BY <1>1, <1>3, <2>2, <3>1 DEF SlotsInv
  <2>3. QED
    BY <2>1, <2>2
<1>7. OneSlot(conn')
  BY <1>1, <1>3 DEF OneSlot, SlotsInv, Online, Offline
<1>8. QED
  BY <1>5, <1>6, <1>7 DEF SlotsInv

LEMMA TimeoutKeeps ==
    ASSUME SlotsInv, NEW i \in Slots, NEW arg \in Codes \cup {None}, Timeout(i, arg)
    PROVE  SlotsInv'
<1> DEFINE code == IF arg = None THEN player[i].code ELSE arg
           lost == {k \in Slots \ {i}: /\ player[k] # None /\ player[k].code = code
                                       /\ HasErrored(k)}
<1>1. Online(i) /\ player[i] # None
  BY DEF Timeout
<1>2. CASE lost # {}
  <2>1. Min(lost) \in lost
    BY <1>2, MinIsSlot
  <2>2. SetTimedOut(Min(lost), i)
    BY <1>2 DEF Timeout
  <2>3. QED
    BY <1>1, <2>1, <2>2, SetTimedOutKeeps
<1>3. CASE lost = {}
  <2> DEFINE c == [conn[i] EXCEPT !.prot = TRUE]
             q == [player[i] EXCEPT !.code = arg]
  <2>1. conn' = [conn EXCEPT ![i] = c] /\ player' = [player EXCEPT ![i] = q] /\ UNCHANGED client
    BY <1>3 DEF Timeout
  <2>2. q \in Player /\ q # None /\ q.ready = player[i].ready
    <3>1. player[i] \in [ready: BOOLEAN, code: Codes \cup {None}]
      BY <1>1 DEF SlotsInv, Player
    <3>2. q \in [ready: BOOLEAN, code: Codes \cup {None}]
      BY <3>1
    <3>3. QED
      BY <3>1, <3>2, SlotsAssumption DEF Player
  <2>3. /\ c \in Conn /\ c.st = "online" /\ c.addr = conn[i].addr
        /\ client[i] \in Client /\ SlotOK(c, client[i], q)
    BY <1>1, <2>2, OfflineIsConn DEF SlotsInv, SlotOK, Conn, Online
  <2>4. client' = [client EXCEPT ![i] = client[i]]
    BY <2>1 DEF SlotsInv
  <2> HIDE DEF c, q
  <2>5. QED
    BY <1>1, <2>1, <2>2, <2>3, <2>4, OwnKeeps
<1>4. QED
  BY <1>2, <1>3

LEMMA UpdateKeeps ==
    ASSUME SlotsInv, Update({})
    PROVE  SlotsInv'
<1>1. PICK late \in SUBSET {i \in Slots: Online(i)},
           over \in SUBSET {i \in Slots: HasErrored(i) /\ conn[i].situ}:
           LET c == Aged(late, over)
           IN Drop(c, {i \in Slots: c[i].st = "error" /\ ~Protected(c[i])})
  BY DEF Update
<1> DEFINE c == Aged(late, over)
           gone == {i \in Slots: c[i].st = "error" /\ ~Protected(c[i])}
<1>2. Drop(c, gone)
  BY <1>1
<1>3. ASSUME NEW i \in Slots
      PROVE  /\ c[i] \in Conn
             /\ c[i].addr = conn[i].addr
             /\ c[i].st = conn[i].st \/ (conn[i].st = "online" /\ c[i].st = "error")
             /\ conn[i].st = "offline" => c[i] = conn[i]
  <2> DEFINE st == IF i \in late THEN "error" ELSE conn[i].st
             situ == IF Online(i) THEN i \in late ELSE conn[i].situ /\ i \notin over
  <2>1. conn[i] \in Conn /\ (conn[i].st = "offline" => conn[i] = Offline)
    BY DEF SlotsInv, SlotOK
  <2>2. c[i] = [conn[i] EXCEPT !.st = st, !.situ = situ]
    BY Zenon DEF Aged
  <2>3. st \in {"offline", "online", "error"} /\ situ \in BOOLEAN
    <3>1. conn[i].st \in {"offline", "online", "error"}
      BY <2>1 DEF Conn
    <3>2. situ \in BOOLEAN
      <4>1. CASE Online(i)
        BY <4>1
      <4>2. CASE ~Online(i)
        BY <4>2
      <4>3. QED
        BY <4>1, <4>2
    <3>3. QED
      BY <3>1, <3>2
  <2>4. st = conn[i].st \/ (conn[i].st = "online" /\ st = "error")
    BY DEF Online
  <2>5. conn[i].st = "offline" => situ = FALSE
    BY <2>1 DEF Online, Offline
  <2> HIDE DEF c, st, situ
  <2>6. c[i] \in Conn /\ c[i].st = st /\ c[i].addr = conn[i].addr
    BY <2>1, <2>2, <2>3 DEF Conn
  <2>7. ASSUME conn[i].st = "offline" PROVE c[i] = conn[i]
    <3>1. st = "offline" /\ situ = FALSE /\ conn[i] = Offline
      BY <2>1, <2>4, <2>5, <2>7
    <3>2. c[i] = [Offline EXCEPT !.st = "offline", !.situ = FALSE]
      BY <2>2, <3>1, Zenon
    <3>3. QED
      BY <3>1, <3>2 DEF Offline
  <2>8. QED
    BY <2>4, <2>6, <2>7
<1>4. c \in [Slots -> Conn]
  BY <1>3 DEF Aged
<1> HIDE DEF c, gone
<1>5. \A i \in Slots: SlotOK(c[i], client[i], player[i])
  BY <1>3 DEF SlotsInv, SlotOK
<1>6. OneSlot(c)
  BY <1>3 DEF SlotsInv, OneSlot
<1>7. gone \in SUBSET Slots
  BY DEF gone
<1>8. QED
  BY <1>2, <1>4, <1>5, <1>6, <1>7, DropKeeps

LEMMA MapReloadKeeps ==
    ASSUME SlotsInv, MapReload
    PROVE  SlotsInv'
<1> DEFINE persists(i) == IF IsKnownToGame(i) THEN player[i] # None ELSE client[i].persist
           early(i) == client[i].state \in {"empty", "preauth", "auth"}
<1>1. /\ client' = [i \in Slots |->
                       IF early(i) THEN [client[i] EXCEPT !.persist = persists(i)]
                       ELSE [state |-> "connecting", ibr |-> FALSE, persist |-> persists(i)]]
      /\ player' = [i \in Slots |-> None] /\ UNCHANGED conn
  BY DEF MapReload
<1>2. \A i \in Slots: persists(i) \in BOOLEAN /\ (early(i) => persists(i) = FALSE /\ client[i].ibr = FALSE)
  BY DEF SlotsInv, SlotOK, IsKnownToGame, Client
<1> HIDE DEF persists
<1>3. client' \in [Slots -> Client] /\ player' \in [Slots -> Player]
  BY <1>1, <1>2 DEF SlotsInv, Client, States, Downloading, Player
<1>4. \A i \in Slots: SlotOK(conn[i], client'[i], None)
  BY <1>1, <1>2 DEF SlotsInv, SlotOK, Client, States, Downloading
<1>5. QED
  BY <1>1, <1>3, <1>4 DEF SlotsInv, OneSlot

LEMMA StepKeeps == IndInv /\ [Next]_vars => IndInv'
<1> SUFFICES ASSUME IndInv, [Next]_vars PROVE IndInv'
  OBVIOUS
<1> SlotsInv
  BY DEF IndInv
<1>1. pump' \in BOOLEAN
  BY DEF IndInv, Next, vars, AcceptToken, ConnectDirect, ConnectVanilla, InputVanilla, Close,
         ClientVer, Info, Ready, StartInfo, EnterGame, Timeout, Kick, BanAddr, Update, EndPump,
         MapReload
<1>2. ASSUME NEW a \in Addrs, AcceptToken(a) \/ ConnectDirect(a) \/ InputVanilla(a)
      PROVE  SlotsInv'
  BY <1>2, AcceptKeeps DEF AcceptToken, ConnectDirect, InputVanilla
<1>3. ASSUME NEW a \in Addrs, ConnectVanilla(a)
      PROVE  SlotsInv'
  BY <1>3, ConnectVanillaKeeps
<1>4. ASSUME NEW i \in Slots,
             Close(i) \/ ClientVer(i) \/ Info(i) \/ Ready(i) \/ StartInfo(i) \/ EnterGame(i)
      PROVE  SlotsInv'
  BY <1>4, CloseKeeps, ClientVerKeeps, InfoKeeps, ReadyKeeps, StartInfoKeeps, EnterGameKeeps
<1>5. ASSUME NEW i \in Slots, NEW arg \in Codes \cup {None}, Timeout(i, arg)
      PROVE  SlotsInv'
  BY <1>5, TimeoutKeeps
<1>6. ASSUME NEW i \in Slots, Kick(i)
      PROVE  SlotsInv'
  BY <1>6, DropSome DEF Kick
<1>7. ASSUME NEW a \in Addrs, BanAddr(Ip[a])
      PROVE  SlotsInv'
  BY <1>7, DropSome DEF BanAddr
<1>8. ASSUME Update({}) PROVE SlotsInv'
  BY <1>8, UpdateKeeps
<1>9. ASSUME EndPump PROVE SlotsInv'
  BY <1>9 DEF EndPump, SlotsInv, OneSlot
<1>10. ASSUME MapReload PROVE SlotsInv'
  BY <1>10, MapReloadKeeps
<1>11. ASSUME UNCHANGED vars PROVE SlotsInv'
  BY <1>11 DEF vars, SlotsInv, OneSlot
<1>12. QED
  BY <1>1, <1>2, <1>3, <1>4, <1>5, <1>6, <1>7, <1>8, <1>9, <1>10, <1>11 DEF Next, IndInv

LEMMA InitKeeps == Init => IndInv
<1> SUFFICES ASSUME Init PROVE IndInv
  OBVIOUS
<1>1. conn \in [Slots -> Conn] /\ client \in [Slots -> Client] /\ player \in [Slots -> Player]
  BY OfflineIsConn DEF Init, Client, States, Player
<1>2. \A i \in Slots: SlotOK(conn[i], client[i], player[i])
  BY DEF Init, SlotOK, Offline
<1>3. OneSlot(conn)
  BY DEF Init, OneSlot, Offline
<1>4. QED
  BY <1>1, <1>2, <1>3 DEF IndInv, SlotsInv, Init

\* In every state the connection of network_server.cpp, the client of server.cpp
\* and the player of gamecontext.cpp fit together in each slot (SlotOK), and an
\* address is online in one slot only.
THEOREM Inductive == Spec => []IndInv
<1>1. QED
  BY InitKeeps, StepKeeps, PTL DEF Spec

LEMMA SlotsInvMeans == IndInv => SlotsAgree
<1> SUFFICES ASSUME IndInv PROVE SlotsAgree
  OBVIOUS
<1>1. TypeOK
  BY DEF IndInv, SlotsInv, SlotOK, TypeOK, Conn, Client, Player
<1>2. PlayerKnown
  BY DEF IndInv, SlotsInv, SlotOK, PlayerKnown, IsReady, IsKnownToGame, IsClientReady
<1>3. QED
  BY <1>1, <1>2 DEF IndInv, SlotsInv, SlotOK, OneSlot, SlotsAgree, Online

\* Connection, client and player of a slot belong together, and no address has
\* two slots.
THEOREM Agreement == Spec => []SlotsAgree
<1>1. QED
  BY Inductive, SlotsInvMeans, PTL

-----------------------------------------------------------------------------
(* The limit on the slots of one machine. *)

\* Connection c counts against the limit of its machine.
Counts(c) == c.st = "online" \/ Protected(c)

\* The slots that count against the limit of machine ip.
Holders(c, ip) == {i \in Slots: Counts(c[i]) /\ Ip[c[i].addr] = ip}

Limited(c) == \A a \in Addrs: Cardinality(Holders(c, Ip[a])) <= MaxClientsPerIp

LEMMA LimitIs == PerIpLimit <=> Limited(conn)
BY DEF PerIpLimit, NumClientsWithAddr, Limited, Holders, Counts, Online

LEMMA HoldersFinite ==
    ASSUME NEW c, NEW ip
    PROVE  IsFiniteSet(Holders(c, ip)) /\ Cardinality(Holders(c, ip)) \in Nat
<1>1. IsFiniteSet(Slots)
  BY SlotsAssumption, FS_Interval DEF Slots
<1>2. Holders(c, ip) \in SUBSET Slots
  BY DEF Holders
<1>3. QED
  BY <1>1, <1>2, FS_Subset, FS_CardinalityType

\* A slot that counts has counted with the same address before.
LEMMA Fewer ==
    ASSUME NEW c, NEW d, Limited(c),
           \A i \in Slots: Counts(d[i]) => Counts(c[i]) /\ d[i].addr = c[i].addr
    PROVE  Limited(d)
<1> SUFFICES ASSUME NEW a \in Addrs
             PROVE  Cardinality(Holders(d, Ip[a])) <= MaxClientsPerIp
  BY DEF Limited
<1>1. Holders(d, Ip[a]) \in SUBSET Holders(c, Ip[a])
  BY DEF Holders
<1>2. Cardinality(Holders(d, Ip[a])) <= Cardinality(Holders(c, Ip[a]))
  BY <1>1, HoldersFinite, FS_Subset
<1>3. Cardinality(Holders(c, Ip[a])) <= MaxClientsPerIp
  BY DEF Limited
<1>4. QED
  BY <1>2, <1>3, HoldersFinite, SlotsAssumption

\* Only slot i changes.
LEMMA FewerOne ==
    ASSUME SlotsInv, Limited(conn), NEW i \in Slots, NEW c, conn' = [conn EXCEPT ![i] = c],
           Counts(c) => Counts(conn[i]) /\ c.addr = conn[i].addr
    PROVE  Limited(conn')
<1>1. \A j \in Slots: Counts(conn'[j]) => Counts(conn[j]) /\ conn'[j].addr = conn[j].addr
  BY DEF SlotsInv
<1>2. QED
  BY <1>1, Fewer

\* Slots are dropped from connections c that are within the limit.
LEMMA DropLimited ==
    ASSUME NEW c, NEW gone, Limited(c), Drop(c, gone)
    PROVE  Limited(conn')
<1>1. ~Counts(Offline)
  BY DEF Counts, Protected, Offline
<1>2. \A i \in Slots: Counts(conn'[i]) => Counts(c[i]) /\ conn'[i].addr = c[i].addr
  BY <1>1 DEF Drop
<1>3. QED
  BY <1>2, Fewer

\* TryAcceptClient: the count is taken before the slot is given.
LEMMA AcceptLimited ==
    ASSUME SlotsInv, Limited(conn), NEW a \in Addrs, NEW token \in {"token", "unsupported"},
           NEW vanilla, TryAcceptClient(a, token, vanilla)
    PROVE  Limited(conn')
<1> DEFINE c == Direct(a, token)
<1>1. c.st = "online" /\ c.addr = a
  BY DirectIsConn
<1>2. CASE NewClient(a, token, vanilla)
  <2> DEFINE free == {j \in Slots: conn[j].st = "offline"}
             i == Min(free)
             before(b) == Holders(conn, Ip[b])
             after(b) == Holders(conn', Ip[b])
  <2>1. i \in Slots
    BY <1>2, MinIsSlot DEF NewClient
  <2>2. conn' = [conn EXCEPT ![i] = c]
    BY <1>2 DEF NewClient
  <2>3. Cardinality(before(a)) + 1 <= MaxClientsPerIp
    BY <1>2 DEF NewClient, NumClientsWithAddr, Holders, Counts, Online
  <2> HIDE DEF i, c
  <2> SUFFICES ASSUME NEW b \in Addrs
               PROVE  Cardinality(after(b)) <= MaxClientsPerIp
    BY DEF Limited
  <2>4. CASE Ip[b] = Ip[a]
    <3>1. after(b) \in SUBSET (before(a) \cup {i})
      BY <2>2, <2>4 DEF Holders, SlotsInv
    <3>2. IsFiniteSet(before(a)) /\ Cardinality(before(a)) \in Nat
      BY HoldersFinite
    <3>3. /\ IsFiniteSet(before(a) \cup {i})
          /\ Cardinality(before(a) \cup {i}) <= Cardinality(before(a)) + 1
      BY <3>2, FS_AddElement
    <3>4. Cardinality(after(b)) <= Cardinality(before(a) \cup {i})
      BY <3>1, <3>3, FS_Subset
    <3>5. /\ Cardinality(after(b)) \in Nat
          /\ Cardinality(before(a) \cup {i}) \in Nat
      BY <3>3, HoldersFinite, FS_CardinalityType
    <3>6. QED
      BY <2>3, <3>2, <3>3, <3>4, <3>5, SlotsAssumption
  <2>5. CASE Ip[b] # Ip[a]
    <3>1. after(b) \in SUBSET before(b)
      BY <1>1, <2>1, <2>2, <2>5 DEF Holders, SlotsInv
    <3>2. Cardinality(after(b)) <= Cardinality(before(b))
      BY <3>1, HoldersFinite, FS_Subset
    <3>3. Cardinality(before(b)) <= MaxClientsPerIp
      BY DEF Limited
    <3>4. QED
      BY <3>2, <3>3, HoldersFinite, SlotsAssumption
  <2>6. QED
    BY <2>4, <2>5
<1>3. CASE Rejoin(a, token, vanilla)
  <2> DEFINE i == Min(SlotsOf(a))
  <2>1. i \in SlotsOf(a)
    <3>1. SlotsOf(a) \subseteq Slots /\ SlotsOf(a) # {}
      BY <1>3 DEF Rejoin, SlotsOf
    <3>2. QED
      BY <3>1, MinIsSlot
  <2>2. conn' = [conn EXCEPT ![i] = c]
    BY <1>3 DEF Rejoin
  <2>3. i \in Slots /\ Counts(conn[i]) /\ conn[i].addr = a
    BY <2>1 DEF SlotsOf, Online, Counts
  <2> HIDE DEF i, c
  <2>4. QED
    BY <1>1, <2>2, <2>3, FewerOne
<1>4. QED
  BY <1>2, <1>3 DEF TryAcceptClient

\* The moved connection counts once: in the slot that was lost, no more in orig.
LEMMA SetTimedOutLimited ==
    ASSUME SlotsInv, Limited(conn), NEW i \in Slots, NEW orig \in Slots, i # orig, Online(orig),
           SetTimedOut(i, orig)
    PROVE  Limited(conn')
<1> DEFINE c == [conn[i] EXCEPT !.st = "online", !.addr = conn[orig].addr, !.token = conn[orig].token]
<1>1. conn' = [j \in Slots |-> IF j = i THEN c ELSE IF j = orig THEN Offline ELSE conn[j]]
  BY DEF SetTimedOut, SlotsInv
<1>2. c.addr = conn[orig].addr /\ ~Counts(Offline) /\ Counts(conn[orig])
  BY DEF SlotsInv, Conn, Offline, Counts, Protected, Online
<1> HIDE DEF c
<1> SUFFICES ASSUME NEW a \in Addrs
             PROVE  Cardinality(Holders(conn', Ip[a])) <= MaxClientsPerIp
  BY DEF Limited
<1> DEFINE before == Holders(conn, Ip[a])
           after == Holders(conn', Ip[a])
<1>3. IsFiniteSet(before) /\ Cardinality(before) \in Nat /\ Cardinality(after) \in Nat
  BY HoldersFinite
<1>4. Cardinality(before) <= MaxClientsPerIp
  BY DEF Limited
<1>5. CASE Ip[conn[orig].addr] = Ip[a]
  <2>1. orig \in before
    BY <1>2, <1>5 DEF Holders
  <2>2. after \in SUBSET ((before \ {orig}) \cup {i})
    BY <1>1, <1>2 DEF Holders
  <2>3. IsFiniteSet(before \ {orig}) /\ Cardinality(before \ {orig}) = Cardinality(before) - 1
    BY <1>3, <2>1, FS_RemoveElement
  <2>4. /\ IsFiniteSet((before \ {orig}) \cup {i})
        /\ Cardinality((before \ {orig}) \cup {i}) <= Cardinality(before \ {orig}) + 1
    <3> DEFINE rest == before \ {orig}
    <3>1. IsFiniteSet(rest) /\ Cardinality(rest) \in Nat
      BY <2>3, FS_CardinalityType
    <3> HIDE DEF rest
    <3>2. IsFiniteSet(rest \cup {i}) /\ Cardinality(rest \cup {i}) <= Cardinality(rest) + 1
      BY <3>1, FS_AddElement
    <3>3. QED
      BY <3>2 DEF rest
  <2>5. Cardinality(after) <= Cardinality((before \ {orig}) \cup {i})
    BY <2>2, <2>4, FS_Subset
  <2>6. Cardinality((before \ {orig}) \cup {i}) \in Nat
    BY <2>4, FS_CardinalityType
  <2> HIDE DEF before, after
  <2>7. QED
    BY <1>3, <1>4, <2>3, <2>4, <2>5, <2>6, SlotsAssumption DEF before, after
<1>6. CASE Ip[conn[orig].addr] # Ip[a]
  <2>1. after \in SUBSET before
    BY <1>1, <1>2, <1>6 DEF Holders
  <2>2. Cardinality(after) <= Cardinality(before)
    BY <1>3, <2>1, FS_Subset
  <2>3. QED
    BY <1>3, <1>4, <2>2, SlotsAssumption
<1>7. QED
  BY <1>5, <1>6

LEMMA TimeoutLimited ==
    ASSUME SlotsInv, Limited(conn), NEW i \in Slots, NEW arg \in Codes \cup {None}, Timeout(i, arg)
    PROVE  Limited(conn')
<1> DEFINE code == IF arg = None THEN player[i].code ELSE arg
           lost == {k \in Slots \ {i}: /\ player[k] # None /\ player[k].code = code
                                       /\ HasErrored(k)}
<1>1. Online(i)
  BY DEF Timeout
<1>2. CASE lost # {}
  <2>1. Min(lost) \in lost
    BY <1>2, MinIsSlot
  <2>2. SetTimedOut(Min(lost), i)
    BY <1>2 DEF Timeout
  <2>3. QED
    BY <1>1, <2>1, <2>2, SetTimedOutLimited
<1>3. CASE lost = {}
  <2> DEFINE c == [conn[i] EXCEPT !.prot = TRUE]
  <2>1. conn' = [conn EXCEPT ![i] = c]
    BY <1>3 DEF Timeout
  <2>2. c.addr = conn[i].addr /\ Counts(conn[i])
    BY <1>1 DEF Counts, SlotsInv, Conn, Online
  <2> HIDE DEF c
  <2>3. QED
    BY <2>1, <2>2, FewerOne
<1>4. QED
  BY <1>2, <1>3

\* A connection that times out counted as online before; one that loses its
\* protection counts no more.
LEMMA UpdateLimited ==
    ASSUME SlotsInv, Limited(conn), Update({})
    PROVE  Limited(conn')
<1>1. PICK late \in SUBSET {i \in Slots: Online(i)},
           over \in SUBSET {i \in Slots: HasErrored(i) /\ conn[i].situ}:
           LET c == Aged(late, over)
           IN Drop(c, {i \in Slots: c[i].st = "error" /\ ~Protected(c[i])})
  BY DEF Update
<1> DEFINE c == Aged(late, over)
           gone == {i \in Slots: c[i].st = "error" /\ ~Protected(c[i])}
<1>2. Drop(c, gone)
  BY <1>1
<1>3. ASSUME NEW i \in Slots, Counts(c[i])
      PROVE  Counts(conn[i]) /\ c[i].addr = conn[i].addr
  <2> DEFINE st == IF i \in late THEN "error" ELSE conn[i].st
             situ == IF Online(i) THEN i \in late ELSE conn[i].situ /\ i \notin over
  <2>1. conn[i] \in Conn
    BY DEF SlotsInv
  <2>2. c[i] = [conn[i] EXCEPT !.st = st, !.situ = situ]
    BY Zenon DEF Aged
  <2> HIDE DEF c, st, situ
  <2>3. c[i].st = st /\ c[i].situ = situ /\ c[i].prot = conn[i].prot /\ c[i].addr = conn[i].addr
    BY <2>1, <2>2 DEF Conn
  <2>4. CASE Online(i)
    BY <2>3, <2>4 DEF Counts, Online
  <2>5. CASE ~Online(i)
    <3>1. st = conn[i].st /\ (situ => conn[i].situ)
      BY <2>5 DEF st, situ
    <3>2. QED
      BY <1>3, <2>3, <2>5, <3>1 DEF Counts, Protected, Online
  <2>6. QED
    BY <2>4, <2>5
<1> HIDE DEF c, gone
<1>4. Limited(c)
  BY <1>3, Fewer
<1>5. QED
  BY <1>2, <1>4, DropLimited

LEMMA LimitStep == IndInv /\ Limited(conn) /\ [Next]_vars => Limited(conn)'
<1> SUFFICES ASSUME SlotsInv, Limited(conn), [Next]_vars PROVE Limited(conn')
  BY DEF IndInv, Limited, Holders, Counts, Protected
<1>1. ASSUME UNCHANGED conn PROVE Limited(conn')
  BY <1>1
<1>2. ASSUME NEW a \in Addrs, AcceptToken(a) \/ ConnectDirect(a) \/ InputVanilla(a)
      PROVE  Limited(conn')
  BY <1>2, AcceptLimited DEF AcceptToken, ConnectDirect, InputVanilla
<1>3. ASSUME NEW a \in Addrs, ConnectVanilla(a)
      PROVE  Limited(conn')
  <2>1. PICK i \in Slots: Online(i) /\ conn' = [conn EXCEPT ![i] = [conn[i] EXCEPT !.token = "unknown"]]
    BY <1>3 DEF ConnectVanilla, SlotsOf
  <2> DEFINE c == [conn[i] EXCEPT !.token = "unknown"]
  <2>2. c.addr = conn[i].addr /\ Counts(conn[i])
    BY <2>1 DEF Counts, SlotsInv, Conn, Online
  <2> HIDE DEF c
  <2>3. QED
    BY <2>1, <2>2, FewerOne DEF c
<1>4. ASSUME NEW i \in Slots, Close(i)
      PROVE  Limited(conn')
  <2> DEFINE c == [conn[i] EXCEPT !.st = "error"]
  <2>1. Online(i) /\ conn' = [conn EXCEPT ![i] = c]
    BY <1>4 DEF Close
  <2>2. c.addr = conn[i].addr /\ Counts(conn[i])
    BY <2>1 DEF Counts, SlotsInv, Conn, Online
  <2> HIDE DEF c
  <2>3. QED
    BY <2>1, <2>2, FewerOne
<1>5. ASSUME NEW i \in Slots,
             ClientVer(i) \/ Info(i) \/ Ready(i) \/ StartInfo(i) \/ EnterGame(i)
      PROVE  Limited(conn')
  BY <1>5, <1>1, DropLimited DEF ClientVer, Info, Ready, StartInfo, EnterGame
<1>6. ASSUME NEW i \in Slots, NEW arg \in Codes \cup {None}, Timeout(i, arg)
      PROVE  Limited(conn')
  BY <1>6, TimeoutLimited
<1>7. ASSUME NEW i \in Slots, Kick(i)
      PROVE  Limited(conn')
  BY <1>7, DropLimited DEF Kick
<1>8. ASSUME NEW a \in Addrs, BanAddr(Ip[a])
      PROVE  Limited(conn')
  BY <1>8, DropLimited DEF BanAddr
<1>9. ASSUME Update({}) PROVE Limited(conn')
  BY <1>9, UpdateLimited
<1>10. ASSUME EndPump \/ MapReload \/ UNCHANGED vars PROVE Limited(conn')
  BY <1>10, <1>1 DEF EndPump, MapReload, vars
<1>11. QED
  BY <1>2, <1>3, <1>4, <1>5, <1>6, <1>7, <1>8, <1>9, <1>10 DEF Next

LEMMA LimitInit == Init => Limited(conn)
<1> SUFFICES ASSUME Init, NEW a \in Addrs PROVE Cardinality(Holders(conn, Ip[a])) <= MaxClientsPerIp
  BY DEF Limited
<1>1. Holders(conn, Ip[a]) = {}
  BY DEF Init, Holders, Counts, Protected, Offline
<1>2. QED
  BY <1>1, FS_EmptySet, SlotsAssumption

\* NumClientsWithAddr stays within sv_max_clients_per_ip, although timeout codes
\* move a connection between slots and slots in error count under conditions.
THEOREM Limit == Spec => []PerIpLimit
<1>1. Spec => []Limited(conn)
  BY Inductive, LimitInit, LimitStep, PTL DEF Spec
<1>2. QED
  BY <1>1, LimitIs, PTL

-----------------------------------------------------------------------------
(* What the game is told. *)

\* What the game knows of a slot whose client is k.
Told(k) == IF k.state = "ingame" \/ k.ibr THEN "playing"
           ELSE IF k.state = "ready" THEN "joined" ELSE "none"

LEMMA GameIsTold == Game = [i \in Slots |-> Told(client[i])]
BY DEF Game, Told, IsKnownToGame

\* Players leave or nothing is told.
LEMMA Leaves ==
    ASSUME \A i \in Slots: Told(client'[i]) \in {Told(client[i]), "none"}
    PROVE  Sessions!Next
<1> DEFINE gone == {i \in Slots: Told(client'[i]) = "none"}
<1>1. Game' = [i \in Slots |-> Told(client'[i])]
  BY DEF Game, Told, IsKnownToGame
<1>2. Sessions!Leave(gone)
  BY <1>1, GameIsTold DEF Sessions!Leave
<1>3. gone \in SUBSET Slots
  OBVIOUS
<1>4. QED
  BY <1>2, <1>3 DEF Sessions!Next

\* Slot i changes and its player stays or leaves.
LEMMA LeavesOne ==
    ASSUME SlotsInv, NEW i \in Slots, NEW k, client' = [client EXCEPT ![i] = k],
           Told(k) \in {Told(client[i]), "none"}
    PROVE  Sessions!Next
<1>1. \A j \in Slots: Told(client'[j]) \in {Told(client[j]), "none"}
  BY DEF SlotsInv
<1>2. QED
  BY <1>1, Leaves

LEMMA DropLeaves ==
    ASSUME NEW c, NEW gone, Drop(c, gone)
    PROVE  Sessions!Next
<1>1. Told(Deleted) = "none"
  BY DEF Told, Deleted
<1>2. \A i \in Slots: Told(client'[i]) \in {Told(client[i]), "none"}
  BY <1>1 DEF Drop
<1>3. QED
  BY <1>2, Leaves

\* A new connection brings no player; a reconnection keeps it.
LEMMA AcceptTold ==
    ASSUME SlotsInv, NEW a \in Addrs, NEW token \in {"token", "unsupported"}, NEW vanilla \in BOOLEAN,
           TryAcceptClient(a, token, vanilla)
    PROVE  Sessions!Next
<1>1. ASSUME NEW left \in Client PROVE Told(Fresh(left, vanilla)) = "none"
  BY DEF Told, Fresh, Client
<1>2. CASE NewClient(a, token, vanilla)
  <2> DEFINE free == {i \in Slots: conn[i].st = "offline"}
             i == Min(free)
  <2>1. i \in Slots
    BY <1>2, MinIsSlot DEF NewClient
  <2>2. client' = [client EXCEPT ![i] = Fresh(client[i], vanilla)]
    BY <1>2 DEF NewClient
  <2>3. Told(Fresh(client[i], vanilla)) = "none"
    BY <1>1, <2>1 DEF SlotsInv
  <2> HIDE DEF i
  <2>4. QED
    BY <2>1, <2>2, <2>3, LeavesOne
<1>3. CASE Rejoin(a, token, vanilla)
  <2> DEFINE i == Min(SlotsOf(a))
  <2>1. i \in Slots
    <3>1. SlotsOf(a) \subseteq Slots /\ SlotsOf(a) # {}
      BY <1>3 DEF Rejoin, SlotsOf
    <3>2. QED
      BY <3>1, MinIsSlot
  <2>2. CASE IsKnownToGame(i)
    <3> DEFINE k == [client[i] EXCEPT !.state = "connecting", !.ibr = TRUE]
    <3>1. client' = [client EXCEPT ![i] = k]
      BY <1>3, <2>2 DEF Rejoin
    <3> HIDE DEF i
    <3>2. Told(k) = "playing" /\ Told(client[i]) = "playing"
      BY <2>1, <2>2 DEF Told, IsKnownToGame, SlotsInv, Client
    <3> HIDE DEF k
    <3>3. QED
      BY <2>1, <3>1, <3>2, LeavesOne
  <2>3. CASE ~IsKnownToGame(i)
    <3>1. client' = [client EXCEPT ![i] = Fresh(Deleted, vanilla)]
      BY <1>3, <2>3 DEF Rejoin
    <3>2. Told(Fresh(Deleted, vanilla)) = "none"
      BY <1>1 DEF Deleted, Client, States
    <3> HIDE DEF i
    <3>3. QED
      BY <2>1, <3>1, <3>2, LeavesOne
  <2>4. QED
    BY <2>2, <2>3
<1>4. QED
  BY <1>2, <1>3 DEF TryAcceptClient

\* In the handshake the game is told nothing.
LEMMA HandshakeTold ==
    ASSUME SlotsInv, NEW i \in Slots, ClientVer(i) \/ Info(i)
    PROVE  Sessions!Next
<1>1. CASE Drop(conn, {i})
  BY <1>1, DropLeaves
<1>2. ASSUME NEW st \in {"auth", "connecting"},
             client' = [client EXCEPT ![i] = [client[i] EXCEPT !.state = st]]
      PROVE  Sessions!Next
  <2> DEFINE k == [client[i] EXCEPT !.state = st]
  <2>1. client[i].state \in {"preauth", "auth"}
    BY DEF ClientVer, Info
  <2>2. ~client[i].ibr
    BY <2>1 DEF SlotsInv, SlotOK
  <2>3. Told(k) = "none"
    BY <2>2 DEF Told, SlotsInv, Client
  <2> HIDE DEF k
  <2>4. QED
    BY <1>2, <2>3, LeavesOne DEF k
<1>3. QED
  BY <1>1, <1>2 DEF ClientVer, Info

\* The map is there: a client that has no player joins.
LEMMA ReadyTold ==
    ASSUME SlotsInv, NEW i \in Slots, Ready(i)
    PROVE  Sessions!Next
<1> DEFINE k == [client[i] EXCEPT !.state = "ready", !.persist = FALSE]
<1>1. client[i].state = "connecting" /\ client[i] \in Client /\ client' = [client EXCEPT ![i] = k]
  BY DEF Ready, SlotsInv
<1>2. CASE client[i].ibr
  <2>1. Told(k) = Told(client[i])
    BY <1>1, <1>2 DEF Told, Client
  <2> HIDE DEF k
  <2>2. QED
    BY <1>1, <2>1, LeavesOne
<1>3. CASE ~client[i].ibr
  <2>1. Told(client[i]) = "none" /\ Told(k) = "joined"
    BY <1>1, <1>3 DEF Told, Client
  <2> HIDE DEF k
  <2>2. Game[i] = "none" /\ Game' = [Game EXCEPT ![i] = "joined"]
    <3>1. Game' = [j \in Slots |-> Told(client'[j])]
      BY DEF Game, Told, IsKnownToGame
    <3>2. \A j \in Slots: Told(client'[j]) = IF j = i THEN "joined" ELSE Told(client[j])
      BY <1>1, <2>1 DEF SlotsInv
    <3>3. QED
      BY <2>1, <3>1, <3>2, GameIsTold
  <2>3. QED
    BY <2>2 DEF Sessions!Next, Sessions!Connected
<1>4. QED
  BY <1>2, <1>3

\* A player that joined enters; one that was playing goes on.
LEMMA EnterGameTold ==
    ASSUME SlotsInv, NEW i \in Slots, EnterGame(i)
    PROVE  Sessions!Next
<1> DEFINE k == [client[i] EXCEPT !.state = "ingame", !.ibr = FALSE]
<1>1. client[i].state = "ready" /\ client[i] \in Client /\ client' = [client EXCEPT ![i] = k]
  BY DEF EnterGame, SlotsInv
<1>2. Told(k) = "playing"
  BY <1>1 DEF Told, Client
<1>3. CASE client[i].ibr
  <2>1. Told(client[i]) = "playing"
    BY <1>3 DEF Told
  <2> HIDE DEF k
  <2>2. QED
    BY <1>1, <1>2, <2>1, LeavesOne
<1>4. CASE ~client[i].ibr
  <2>1. Told(client[i]) = "joined"
    BY <1>1, <1>4 DEF Told
  <2> HIDE DEF k
  <2>2. Game[i] = "joined" /\ Game' = [Game EXCEPT ![i] = "playing"]
    <3>1. Game' = [j \in Slots |-> Told(client'[j])]
      BY DEF Game, Told, IsKnownToGame
    <3>2. \A j \in Slots: Told(client'[j]) = IF j = i THEN "playing" ELSE Told(client[j])
      BY <1>1, <1>2 DEF SlotsInv
    <3>3. QED
      BY <2>1, <3>1, <3>2, GameIsTold
  <2>3. QED
    BY <2>2 DEF Sessions!Next, Sessions!Enter
<1>5. QED
  BY <1>3, <1>4

\* The timed out player goes on in its slot; the one of the new slot leaves.
LEMMA TimeoutTold ==
    ASSUME SlotsInv, NEW i \in Slots, NEW arg \in Codes \cup {None}, Timeout(i, arg)
    PROVE  Sessions!Next
<1>1. client' = [client EXCEPT ![i] = Deleted] \/ UNCHANGED client
  BY DEF Timeout, SetTimedOut
<1>2. Told(Deleted) = "none"
  BY DEF Told, Deleted
<1>3. CASE client' = [client EXCEPT ![i] = Deleted]
  BY <1>2, <1>3, LeavesOne
<1>4. CASE UNCHANGED client
  BY <1>4, Leaves
<1>5. QED
  BY <1>1, <1>3, <1>4

\* A map change ends all sessions.
LEMMA MapReloadTold ==
    ASSUME SlotsInv, MapReload
    PROVE  Sessions!Next
<1> SUFFICES ASSUME NEW i \in Slots PROVE Told(client'[i]) = "none"
  BY Leaves
<1> DEFINE persist == IF IsKnownToGame(i) THEN player[i] # None ELSE client[i].persist
<1>1. client'[i] = IF client[i].state \in {"empty", "preauth", "auth"}
                   THEN [client[i] EXCEPT !.persist = persist]
                   ELSE [state |-> "connecting", ibr |-> FALSE, persist |-> persist]
  BY DEF MapReload
<1> HIDE DEF persist
<1>2. client[i] \in Client /\ (client[i].ibr => client[i].state \in {"connecting", "ready"})
  BY DEF SlotsInv, SlotOK
<1>3. QED
  BY <1>1, <1>2 DEF Told, Client

LEMMA SessionStep == IndInv /\ [Next]_vars => [Sessions!Next]_Game
<1> SUFFICES ASSUME SlotsInv, [Next]_vars PROVE Sessions!Next
  BY DEF IndInv
<1>1. ASSUME UNCHANGED client PROVE Sessions!Next
  BY <1>1, Leaves
<1>2. ASSUME NEW a \in Addrs, AcceptToken(a) \/ ConnectDirect(a) \/ InputVanilla(a)
      PROVE  Sessions!Next
  BY <1>2, AcceptTold DEF AcceptToken, ConnectDirect, InputVanilla
<1>3. ASSUME NEW a \in Addrs, ConnectVanilla(a)
      PROVE  Sessions!Next
  BY <1>3, <1>1 DEF ConnectVanilla
<1>4. ASSUME NEW i \in Slots, Close(i)
      PROVE  Sessions!Next
  BY <1>4, <1>1 DEF Close
<1>5. ASSUME NEW i \in Slots, StartInfo(i)
      PROVE  Sessions!Next
  BY <1>5, <1>1, DropLeaves DEF StartInfo
<1>6. ASSUME NEW i \in Slots, ClientVer(i) \/ Info(i) \/ Ready(i) \/ EnterGame(i)
      PROVE  Sessions!Next
  BY <1>6, HandshakeTold, ReadyTold, EnterGameTold
<1>7. ASSUME NEW i \in Slots, NEW arg \in Codes \cup {None}, Timeout(i, arg)
      PROVE  Sessions!Next
  BY <1>7, TimeoutTold
<1>8. ASSUME NEW i \in Slots, Kick(i)
      PROVE  Sessions!Next
  BY <1>8, DropLeaves DEF Kick
<1>9. ASSUME NEW a \in Addrs, BanAddr(Ip[a])
      PROVE  Sessions!Next
  BY <1>9, DropLeaves DEF BanAddr
<1>10. ASSUME Update({}) PROVE Sessions!Next
  BY <1>10, DropLeaves DEF Update
<1>11. ASSUME EndPump \/ UNCHANGED vars PROVE Sessions!Next
  BY <1>11, <1>1 DEF EndPump, vars
<1>12. ASSUME MapReload PROVE Sessions!Next
  BY <1>12, MapReloadTold
<1>13. QED
  BY <1>2, <1>3, <1>4, <1>5, <1>6, <1>7, <1>8, <1>9, <1>10, <1>11, <1>12 DEF Next

LEMMA SessionInit == Init => Sessions!Init
BY GameIsTold DEF Init, Sessions!Init, Told

\* What the server tells the game follows GameSessions: no player enters that
\* did not join, joins twice or is told anew after it reconnected.
THEOREM SessionsKept == Spec => SessionSpec
<1>1. QED
  BY Inductive, SessionInit, SessionStep, PTL DEF Spec, SessionSpec, Sessions!Spec
=============================================================================
