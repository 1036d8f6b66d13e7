----------------------------- MODULE ClientSlots -----------------------------
(***************************************************************************)
(* The slots of the server: the connection CNetServer keeps in a slot, the *)
(* state CServer keeps of its client, and the player CGameContext keeps,   *)
(* from acceptance over map download and game to timeout, resumption,      *)
(* reconnection, map change and drop.  The packets of one address arrive   *)
(* as the actions of its slot; what is refused without a trace (limit on   *)
(* recent connections, wrong token, server full) is no action.             *)
(***************************************************************************)
EXTENDS Integers, FiniteSets, FiniteSetsExt

CONSTANTS
    NumSlots,           \* m_MaxClients
    Addrs,              \* addresses with their port
    Ip,                 \* the address without its port
    MaxClientsPerIp,    \* sv_max_clients_per_ip
    Codes,              \* timeout codes of clients
    None

ASSUME SlotsAssumption ==
    /\ NumSlots \in Nat \ {0}
    /\ MaxClientsPerIp \in Nat \ {0}
    /\ Addrs \subseteq DOMAIN Ip
    /\ None \notin Addrs \cup Codes
    /\ None \notin [ready: BOOLEAN, code: Codes \cup {None}]

VARIABLES
    conn,       \* CNetServer::m_aSlots: the connections
    client,     \* CServer::m_aClients
    player,     \* CGameContext::m_apPlayers
    pump        \* the server drains its socket in PumpNetwork

vars == <<conn, client, player, pump>>

Slots == 0 .. NumSlots - 1

\* Before the player is known to the game, and after.
Downloading == {"preauth", "auth", "connecting"}
States == {"empty"} \cup Downloading \cup {"ready", "ingame"}

Offline == [st |-> "offline", addr |-> None, token |-> None, prot |-> FALSE, situ |-> FALSE]

\* DirectInit: nothing of the slot's former connection is left.
Direct(a, token) == [Offline EXCEPT !.st = "online", !.addr = a, !.token = token]

Init ==
    /\ conn = [i \in Slots |-> Offline]
    /\ client = [i \in Slots |-> [state |-> "empty", ibr |-> FALSE, persist |-> FALSE]]
    /\ player = [i \in Slots |-> None]
    /\ pump = FALSE

Online(i) == conn[i].st = "online"
HasErrored(i) == conn[i].st = "error"
IsReady(i) == client[i].state \in {"ready", "ingame"}
IsKnownToGame(i) == client[i].state = "ingame" \/ client[i].ibr

\* A connection in error that keeps its slot until the protection is over.
Protected(c) == c.st = "error" /\ c.prot /\ c.situ

NumClientsWithAddr(a) ==
    Cardinality({i \in Slots: /\ Online(i) \/ Protected(conn[i])
                              /\ Ip[conn[i].addr] = Ip[a]})

\* GetClientSlot: the slot whose packets come from a.
SlotsOf(a) == {i \in Slots: Online(i) /\ conn[i].addr = a}

-----------------------------------------------------------------------------
\* DelClientCallback: the state of a client after it, and what the game
\* keeps of its player.
Deleted == [state |-> "empty", ibr |-> FALSE, persist |-> FALSE]
PlayerAfterDel(i) == IF IsReady(i) \/ client[i].ibr THEN None ELSE player[i]

\* Drop of several slots, whose connections were c.
Drop(c, gone) ==
    /\ conn' = [i \in Slots |-> IF i \in gone THEN Offline ELSE c[i]]
    /\ client' = [i \in Slots |-> IF i \in gone THEN Deleted ELSE client[i]]
    /\ player' = [i \in Slots |-> IF i \in gone THEN PlayerAfterDel(i) ELSE player[i]]

\* NewClientCallback and NewClientNoAuthCallback, after what was left of the
\* client: a client of the vanilla handshake gets the map at once.
Fresh(left, vanilla) ==
    [left EXCEPT !.state = IF vanilla THEN "connecting" ELSE "preauth", !.ibr = FALSE]

\* Fault: the new connection is left out when the limit is compared.
NewClient_OffByOne(a, token, vanilla) ==
    LET free == {i \in Slots: conn[i].st = "offline"} IN
    /\ SlotsOf(a) = {}
    /\ NumClientsWithAddr(a) <= MaxClientsPerIp
    /\ free # {}
    /\ LET i == Min(free) IN
       /\ conn' = [conn EXCEPT ![i] = Direct(a, token)]
       /\ client' = [client EXCEPT ![i] = Fresh(@, vanilla)]
    /\ UNCHANGED player

NewClient(a, token, vanilla) ==
    LET free == {i \in Slots: conn[i].st = "offline"} IN
    /\ SlotsOf(a) = {}
    /\ NumClientsWithAddr(a) + 1 <= MaxClientsPerIp
    /\ free # {}
    /\ LET i == Min(free) IN
       /\ conn' = [conn EXCEPT ![i] = Direct(a, token)]
       /\ client' = [client EXCEPT ![i] = Fresh(@, vanilla)]
    /\ UNCHANGED player

\* Fault: the game slot is not kept.
Rejoin_Forgets(a, token, vanilla) ==
    /\ SlotsOf(a) # {}
    /\ LET i == Min(SlotsOf(a)) IN
       /\ conn' = [conn EXCEPT ![i] = Direct(a, token)]
       /\ IF IsKnownToGame(i)
          THEN /\ client' = [client EXCEPT ![i].state = "connecting", ![i].ibr = FALSE]
               /\ UNCHANGED player
          ELSE /\ client' = [client EXCEPT ![i] = Fresh(Deleted, vanilla)]
               /\ player' = [player EXCEPT ![i] = PlayerAfterDel(i)]

\* ClientRejoinCallback: a client the game knows keeps its player and goes
\* back to the download, any other starts anew.
Rejoin(a, token, vanilla) ==
    /\ SlotsOf(a) # {}
    /\ LET i == Min(SlotsOf(a)) IN
       /\ conn' = [conn EXCEPT ![i] = Direct(a, token)]
       /\ IF IsKnownToGame(i)
          THEN /\ client' = [client EXCEPT ![i].state = "connecting", ![i].ibr = TRUE]
               /\ UNCHANGED player
          ELSE /\ client' = [client EXCEPT ![i] = Fresh(Deleted, vanilla)]
               /\ player' = [player EXCEPT ![i] = PlayerAfterDel(i)]

TryAcceptClient(a, token, vanilla) ==
    NewClient(a, token, vanilla) \/ Rejoin(a, token, vanilla)

-----------------------------------------------------------------------------
\* ACCEPT with the token of its address; CONNECT of a 0.7 client likewise.
AcceptToken(a) ==
    /\ pump
    /\ TryAcceptClient(a, "token", FALSE)
    /\ UNCHANGED pump

\* CONNECT without a token, when sv_vanilla_antispoof is off.
ConnectDirect(a) ==
    /\ pump
    /\ \A i \in SlotsOf(a): conn[i].token # "token"
    /\ TryAcceptClient(a, "unsupported", FALSE)
    /\ UNCHANGED pump

\* The same when it is on: the client must send its answer as an input first.
ConnectVanilla(a) ==
    /\ pump
    /\ \E i \in SlotsOf(a):
        /\ i = Min(SlotsOf(a))
        /\ conn[i].token # "token"
        /\ conn' = [conn EXCEPT ![i].token = "unknown"]
    /\ UNCHANGED <<client, player, pump>>

\* That input.
InputVanilla(a) ==
    /\ pump
    /\ \A i \in SlotsOf(a): conn[i].token = "unknown"
    /\ TryAcceptClient(a, "unsupported", TRUE)
    /\ UNCHANGED pump

Close(i) ==
    /\ pump /\ Online(i)
    /\ conn' = [conn EXCEPT ![i].st = "error"]
    /\ UNCHANGED <<client, player, pump>>

-----------------------------------------------------------------------------
\* Messages of the client of slot i.
ClientVer(i) ==
    /\ pump /\ Online(i) /\ client[i].state = "preauth"
    /\ client' = [client EXCEPT ![i].state = "auth"]
    /\ UNCHANGED <<conn, player, pump>>

\* Wrong version or password, or no slot that is not reserved: the client is
\* dropped.
Info(i) ==
    /\ pump /\ Online(i) /\ client[i].state \in {"preauth", "auth"}
    /\ \/ Drop(conn, {i})
       \/ /\ client' = [client EXCEPT ![i].state = "connecting"]
          /\ UNCHANGED <<conn, player>>
    /\ UNCHANGED pump

NewPlayer == [ready |-> FALSE, code |-> None]

\* Fault: the kept data are not used up.
Ready_Keeps(i) ==
    /\ pump /\ Online(i) /\ client[i].state = "connecting"
    /\ client' = [client EXCEPT ![i].state = "ready"]
    /\ player' = IF client[i].ibr THEN player ELSE [player EXCEPT ![i] = NewPlayer]
    /\ UNCHANGED <<conn, pump>>

\* Fault: the rejoin counts as done before the client has entered.
Ready_Forgets(i) ==
    /\ pump /\ Online(i) /\ client[i].state = "connecting"
    /\ client' = [client EXCEPT ![i].state = "ready", ![i].persist = FALSE, ![i].ibr = FALSE]
    /\ player' = IF client[i].ibr THEN player ELSE [player EXCEPT ![i] = NewPlayer]
    /\ UNCHANGED <<conn, pump>>

Ready(i) ==
    /\ pump /\ Online(i) /\ client[i].state = "connecting"
    /\ client' = [client EXCEPT ![i].state = "ready", ![i].persist = FALSE]
    /\ player' = IF client[i].ibr THEN player ELSE [player EXCEPT ![i] = NewPlayer]
    /\ UNCHANGED <<conn, pump>>

\* A banned name gets a client kicked that has not entered yet.
StartInfo(i) ==
    /\ pump /\ Online(i) /\ IsReady(i)
    /\ ~player[i].ready
    /\ \/ client[i].state = "ready" /\ Drop(conn, {i})
       \/ player' = [player EXCEPT ![i].ready = TRUE] /\ UNCHANGED <<conn, client>>
    /\ UNCHANGED pump

IsClientReady(i) == player[i] # None /\ player[i].ready

\* Fault: the game is not asked.
EnterGame_Unready(i) ==
    /\ pump /\ Online(i) /\ client[i].state = "ready"
    /\ client' = [client EXCEPT ![i].state = "ingame", ![i].ibr = FALSE]
    /\ UNCHANGED <<conn, player, pump>>

EnterGame(i) ==
    /\ pump /\ Online(i) /\ client[i].state = "ready"
    /\ IsClientReady(i)
    /\ client' = [client EXCEPT ![i].state = "ingame", ![i].ibr = FALSE]
    /\ UNCHANGED <<conn, player, pump>>

\* Fault: the connection of orig is reset before it is resumed.
SetTimedOut_Late(i, orig) ==
    /\ conn' = [conn EXCEPT ![i].st = "online", ![i].addr = Offline.addr,
                            ![i].token = Offline.token, ![orig] = Offline]
    /\ client' = [client EXCEPT ![orig] = Deleted]
    /\ player' = [player EXCEPT ![orig] = PlayerAfterDel(orig)]

\* Fault: the connection of orig is not reset.
SetTimedOut_Twice(i, orig) ==
    /\ conn' = [conn EXCEPT ![i].st = "online", ![i].addr = conn[orig].addr,
                            ![i].token = conn[orig].token]
    /\ client' = [client EXCEPT ![orig] = Deleted]
    /\ player' = [player EXCEPT ![orig] = PlayerAfterDel(orig)]

\* Fault: the client of orig is not deleted.
SetTimedOut_Leaves(i, orig) ==
    /\ conn' = [conn EXCEPT ![i].st = "online", ![i].addr = conn[orig].addr,
                            ![i].token = conn[orig].token, ![orig] = Offline]
    /\ UNCHANGED <<client, player>>

\* SetTimedOut and ResumeConnection: slot i goes on with the connection of
\* orig; the protection of the slot stays as it was.
SetTimedOut(i, orig) ==
    /\ conn' = [conn EXCEPT ![i].st = "online", ![i].addr = conn[orig].addr,
                            ![i].token = conn[orig].token, ![orig] = Offline]
    /\ client' = [client EXCEPT ![orig] = Deleted]
    /\ player' = [player EXCEPT ![orig] = PlayerAfterDel(orig)]

\* The chat command /timeout, with a code or without.
Timeout(i, arg) ==
    LET code == IF arg = None THEN player[i].code ELSE arg
        lost == {k \in Slots \ {i}: /\ player[k] # None /\ player[k].code = code
                                    /\ HasErrored(k)}
    IN
    /\ pump /\ Online(i) /\ IsReady(i) /\ IsKnownToGame(i)
    /\ player[i] # None
    /\ IF lost # {}
       THEN SetTimedOut(Min(lost), i)
       ELSE /\ conn' = [conn EXCEPT ![i].prot = TRUE]
            /\ player' = [player EXCEPT ![i].code = arg]
            /\ UNCHANGED client
    /\ UNCHANGED pump

-----------------------------------------------------------------------------
\* Kick on the console, in a vote, by a rule of the game.
Kick(i) ==
    /\ client[i].state # "empty"
    /\ Drop(conn, {i})
    /\ UNCHANGED pump

\* A ban of an address.
BanAddr(ip) ==
    LET banned == {i \in Slots: client[i].state # "empty" /\ Ip[conn[i].addr] = ip} IN
    /\ banned # {}
    /\ Drop(conn, banned)
    /\ UNCHANGED pump

\* Fault: the protection has no end.
Aged_Endless(late, over) ==
    [i \in Slots |->
        [conn[i] EXCEPT
            !.st = IF i \in late THEN "error" ELSE @,
            !.situ = IF Online(i) THEN i \in late ELSE @]]

\* CNetConnection::Update: the connections in late have been silent for too
\* long, the protection of those in over has ended.
Aged(late, over) ==
    [i \in Slots |->
        [conn[i] EXCEPT
            !.st = IF i \in late THEN "error" ELSE @,
            !.situ = IF Online(i) THEN i \in late ELSE @ /\ i \notin over]]

\* CNetServer::Update, with which PumpNetwork begins; the protection of the
\* slots in surely is over by now.
Update(surely) ==
    /\ ~pump /\ pump' = TRUE
    /\ \E late \in SUBSET {i \in Slots: Online(i)},
          over \in SUBSET {i \in Slots: HasErrored(i) /\ conn[i].situ}:
        LET c == Aged(late, over) IN
        /\ surely \subseteq over
        /\ Drop(c, {i \in Slots: c[i].st = "error" /\ ~Protected(c[i])})

\* No packet is left.
EndPump ==
    /\ pump /\ pump' = FALSE
    /\ UNCHANGED <<conn, client, player>>

\* The map change: the game keeps what it wants of the clients it knows,
\* deletes all players, and everybody who was past the login downloads.
MapReload ==
    LET persists(i) == IF IsKnownToGame(i) THEN player[i] # None ELSE client[i].persist
    IN
    /\ ~pump
    /\ client' = [i \in Slots |->
                    IF client[i].state \in {"empty", "preauth", "auth"}
                    THEN [client[i] EXCEPT !.persist = persists(i)]
                    ELSE [state |-> "connecting", ibr |-> FALSE, persist |-> persists(i)]]
    /\ player' = [i \in Slots |-> None]
    /\ UNCHANGED <<conn, pump>>

-----------------------------------------------------------------------------
Next ==
    \/ \E a \in Addrs:
        AcceptToken(a) \/ ConnectDirect(a) \/ ConnectVanilla(a) \/ InputVanilla(a)
    \/ \E i \in Slots:
        \/ Close(i) \/ ClientVer(i) \/ Info(i) \/ Ready(i) \/ StartInfo(i) \/ EnterGame(i)
        \/ \E arg \in Codes \cup {None}: Timeout(i, arg)
        \/ Kick(i)
    \/ \E a \in Addrs: BanAddr(Ip[a])
    \/ Update({})
    \/ EndPump
    \/ MapReload

Spec == Init /\ [][Next]_vars

\* The server drains its socket in bounded time (sv_max_packets_per_recv) and
\* comes back to Update; m_LastRecvTime of a connection in error stands still
\* while the clock goes on, so its protection is over at one of the updates.
FairSpec ==
    /\ Spec
    /\ WF_vars(EndPump)
    /\ WF_vars(Update({}))
    /\ \A i \in Slots: SF_vars(Update({i}))

-----------------------------------------------------------------------------
\* Every variable has its type; a connection has an address unless it is reset.
TypeOK ==
    /\ conn \in [Slots -> [st: {"offline", "online", "error"}, addr: Addrs \cup {None},
                           token: {"token", "unsupported", "unknown", None},
                           prot: BOOLEAN, situ: BOOLEAN]]
    /\ \A i \in Slots: conn[i].addr = None => conn[i] = Offline
    /\ client \in [Slots -> [state: States, ibr: BOOLEAN, persist: BOOLEAN]]
    /\ player \in [Slots -> [ready: BOOLEAN, code: Codes \cup {None}] \cup {None}]
    /\ pump \in BOOLEAN

\* The game has a player exactly where the server will tell it of the drop:
\* OnClientDrop (gamecontext.cpp:1869) never meets a slot without a player
\* and none is left behind; OnStartInfoNetMessage may use it unasked.  Whoever
\* is in the game, or was before it reconnected, has sent its start info.
PlayerKnown ==
    \A i \in Slots:
        /\ player[i] # None <=> IsReady(i) \/ client[i].ibr
        /\ IsKnownToGame(i) => IsClientReady(i)

\* What is in a slot belongs together.  The player is known where the server
\* counts on it.  Connection and client come and go at
\* once.  Packets of one address belong to one slot, also when its client has
\* reconnected or was moved to the slot of its former connection.  Data kept
\* over a map change wait for the download of their owner and go to no later
\* client of the slot.
SlotsAgree ==
    /\ TypeOK /\ PlayerKnown
    /\ \A i \in Slots: conn[i].st = "offline" <=> client[i].state = "empty"
    /\ \A i, k \in Slots: Online(i) /\ Online(k) /\ conn[i].addr = conn[k].addr => i = k
    /\ \A i \in Slots: client[i].persist => client[i].state = "connecting" /\ ~client[i].ibr

\* No machine gets more slots than allowed, those under timeout protection
\* included.
PerIpLimit == \A a \in Addrs: NumClientsWithAddr(a) <= MaxClientsPerIp

\* What the server tells the game follows GameSessions.
Game == [i \in Slots |-> IF IsKnownToGame(i) THEN "playing"
                         ELSE IF client[i].state = "ready" THEN "joined" ELSE "none"]
Sessions == INSTANCE GameSessions WITH game <- Game
SessionSpec == Sessions!Spec

\* A connection in error is resumed or dropped in the end: no slot is held
\* for ever.
ErrorEnds == \A i \in Slots: HasErrored(i) ~> ~HasErrored(i)
=============================================================================
