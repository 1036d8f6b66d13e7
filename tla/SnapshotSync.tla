---------------------------- MODULE SnapshotSync ----------------------------
(***************************************************************************)
(* How the server brings snapshots of the game to one client               *)
(* (CServer::DoSnapshot and the NETMSG_INPUT case of ProcessClientPacket   *)
(* in engine/server/server.cpp, the NETMSG_SNAP* cases and Update of       *)
(* engine/client/client.cpp, CSnapshotStorage of engine/shared/            *)
(* snapshot.cpp).                                                          *)
(*                                                                         *)
(* A snapshot is sent as the difference to a base: the snapshot the client *)
(* acknowledged last, or the empty one.  Server and client each keep the   *)
(* snapshots that may still serve as base and drop the others on their     *)
(* own, knowing of each other only what non-vital chunks, lost, repeated   *)
(* and overtaken by others, tell them.                                     *)
(*                                                                         *)
(* What a snapshot contains is one of a small set of values.  A difference *)
(* remembers the contents of its base and of its target: applied to any    *)
(* other base it yields garbage, unless it is empty.                       *)
(***************************************************************************)
EXTENDS Integers, FiniteSets, FiniteSetsExt

CONSTANTS
    Items,          \* contents of a snapshot
    Empty,          \* the contents of the empty snapshot
    MaxTick,        \* bound: the last tick
    Keep,           \* three seconds, in ticks
    InitPeriod,     \* ticks between snapshots before the first acknowledgement: 10
    RecoverPeriod,  \* ticks between snapshots while a base is missing: 50
    MaxParts,       \* parts of a snapshot: MAX_PARTS, 64 in the program
    MaxErrors,      \* checksum errors before the client asks for a new start: 10
    NetCap,         \* bound: messages in flight in one direction
    MayBreak,       \* may a snapshot be too large, or one the client cannot read?
    MayResume,      \* may the client take over the slot of a connection that timed out?
    IsDummy         \* is it the second connection of a client?

ASSUME SnapshotAssumption ==
    /\ Empty \in Items
    /\ MaxTick \in Nat /\ Keep \in Nat /\ MaxErrors \in Nat /\ NetCap \in Nat
    /\ {InitPeriod, RecoverPeriod, MaxParts} \subseteq Nat \ {0}
    /\ {MayBreak, MayResume, IsDummy} \subseteq BOOLEAN

Ticks == 0 .. MaxTick
None == -1
Garbage == "garbage"

VARIABLES
    \* The server and its slot of the client
    tick,       \* m_CurrentGameTick
    snaps,      \* m_Snapshots: tick -> contents
    lastAcked,  \* m_LastAckedSnapshot
    rate,       \* m_SnapRate
    \* The client
    store,      \* m_aSnapshotStorage: tick -> contents
    recvTick,   \* m_aCurrentRecvTick
    parts,      \* m_aSnapshotParts, with the tick whose data each part holds
    ackTick,    \* m_aAckGameTick
    received,   \* m_aReceivedSnapshots, up to 2
    prev, cur,  \* m_aapSnapshots[SNAP_PREV, SNAP_CURRENT], by tick
    errors,     \* m_SnapCrcErrors
    entered,    \* has OnEnterGame run?
    \* The network
    down,       \* snapshot messages in flight
    up,         \* acknowledgements of the inputs in flight
    built       \* history: the snapshots the server built for this client

server == <<tick, snaps, lastAcked, rate, built>>
client == <<store, recvTick, parts, ackTick, received, prev, cur, errors, entered>>
vars == <<server, client, down, up>>

-----------------------------------------------------------------------------
\* CSnapshotStorage: PurgeUntil and Add.
Purged(s, t) == [u \in {x \in DOMAIN s : x >= t} |-> s[u]]
Added(s, t, v) == [u \in DOMAIN s \cup {t} |-> IF u = t THEN v ELSE s[u]]

\* A message: part i of n of the difference `from' -> `to', which is empty
\* (NETMSG_SNAPEMPTY, without a checksum) or is not.
Message ==
    [tick : Ticks, base : Ticks \cup {None}, from : Items, to : Items,
     n : 1 .. MaxParts, part : 1 .. MaxParts]

IsEmpty(m) == m.from = m.to

Init ==
    /\ tick = 0 /\ snaps = [t \in {} |-> Empty] /\ lastAcked = None /\ rate = "init"
    /\ store = [t \in {} |-> Empty] /\ recvTick = 0 /\ parts = {} /\ ackTick = None
    /\ received = 0 /\ prev = None /\ cur = None /\ errors = 0
    /\ entered = ~IsDummy
    /\ down = {} /\ up = {}
    /\ built = [t \in {} |-> Empty]

-----------------------------------------------------------------------------
(* The server *)

\* A tick without a snapshot for this client: several ticks are made up for
\* at once, or it is not a tick on which all clients get one.
Tick ==
    /\ tick < MaxTick
    /\ tick' = tick + 1
    /\ UNCHANGED <<snaps, lastAcked, rate, built, client, down, up>>

\* What the slot keeps when a snapshot is added: three seconds, but nothing
\* older than the last acknowledged one.
KeptFrom_TimeOnly(t) == t - Keep \* fault: the acknowledgement does not count
KeptFrom(t) == Max({t - Keep, lastAcked})

\* DoSnapshot for the client: the base is the acknowledged snapshot if it is
\* still there, else the empty one, and then they come less often.
DoSnapshot(v, n, toolarge) ==
    LET t == tick + 1
        kept == Added(Purged(snaps, KeptFrom(t)), t, v)
        found == lastAcked >= 0 /\ lastAcked \in DOMAIN kept
        base == IF found THEN lastAcked ELSE None
        from == IF found THEN kept[lastAcked] ELSE Empty
        out == {[tick |-> t, base |-> base, from |-> from, to |-> v, n |-> n, part |-> i] : i \in 1 .. n}
    IN /\ t <= MaxTick
       /\ rate = "recover" => t % RecoverPeriod = 0
       /\ rate = "init" => t % InitPeriod = 0
       /\ tick' = t
       /\ snaps' = kept
       /\ built' = Added(built, t, v)
       /\ rate' = IF ~found /\ rate = "full" THEN "recover" ELSE rate
       /\ from = v => n = 1 /\ ~toolarge
       /\ down' = IF toolarge THEN down ELSE down \cup out
       /\ Cardinality(down') <= NetCap
       /\ UNCHANGED <<lastAcked, client, up>>

\* An input arrives with the acknowledgement a, perhaps not for the last time.
RecvInput(a, keep) ==
    /\ a \in up
    /\ up' = IF keep THEN up ELSE up \ {a}
    /\ IF a > tick
       THEN UNCHANGED <<lastAcked, rate>>
       ELSE /\ lastAcked' = a
            /\ rate' = IF a >= 0 THEN "full" ELSE rate
    /\ UNCHANGED <<tick, snaps, built, client, down>>

\* Fault: the slot keeps the snapshots it has.
Resume_KeepsBase ==
    /\ MayResume
    /\ snaps' \in UNION {[s -> Items] : s \in SUBSET {t \in Ticks : t <= tick /\ t >= tick - 1}}
    /\ lastAcked' = None
    /\ rate' \in {"init", "full", "recover"}
    /\ UNCHANGED <<tick, built, client, down, up>>

\* SetTimedOut: the connection of the client is attached to the slot of a
\* player who timed out, whose snapshots it never got.
Resume ==
    /\ MayResume
    /\ snaps' = [t \in {} |-> Empty]
    /\ lastAcked' = None
    /\ rate' \in {"init", "full", "recover"}
    /\ UNCHANGED <<tick, built, client, down, up>>

-----------------------------------------------------------------------------
(* The client *)

\* OnEnterGame: the storage is emptied.  The main connection enters before the
\* server sends the first snapshot; a dummy sends NETMSG_ENTERGAME at once and
\* enters when SV_READYTOENTER arrives, which snapshots may overtake.
EnterGame ==
    /\ ~entered
    /\ entered' = TRUE
    /\ store' = [t \in {} |-> Empty]
    /\ recvTick' = 0 /\ parts' = {} /\ ackTick' = None
    /\ received' = 0 /\ prev' = None /\ cur' = None /\ errors' = 0
    /\ UNCHANGED <<server, down, up>>

\* SendInput sends nothing before the client predicts, and it predicts once
\* it shows snapshots of the main connection; the game may have no input to
\* send.
Predicts == prev # None \/ IsDummy

SendInput ==
    /\ Predicts
    /\ up' = up \cup {ackTick}
    /\ Cardinality(up') <= NetCap
    /\ UNCHANGED <<server, client, down>>

\* The acknowledgement is withdrawn, and the server told if it can be.
StartOver ==
    /\ ackTick' = None
    /\ up' \in {up, IF Predicts /\ Cardinality(up) < NetCap THEN up \cup {None} ELSE up}

\* The parts there are when m has been filed.
Filed(m) ==
    {p \in parts : p.part # m.part /\ recvTick = m.tick} \cup {[part |-> m.part, tick |-> m.tick]}

IsComplete(m) == {p.part : p \in Filed(m)} = 1 .. m.n

\* UnpackDelta: the difference, applied to the base the client has.
Unpacked(m) ==
    LET base == IF m.base >= 0 THEN store[m.base] ELSE Empty
    IN IF IsEmpty(m) THEN base
       ELSE IF base = m.from /\ \A p \in Filed(m) : p.tick = m.tick THEN m.to ELSE Garbage

\* The client keeps what it shows and what newer differences may refer to.
PurgeTick_Base(m) == m.base \* fault: what it shows is forgotten
PurgeTick(m) == Min({m.base} \cup {t \in {prev, cur} : t # None})

\* The errors left after a good snapshot.
FewerErrors_Blind == errors - 1 \* fault: there may be none
FewerErrors == IF errors > 0 THEN errors - 1 ELSE 0

\* A snapshot arrives that is not older than the ones before.
IsNew_Late(m) == m.tick > ackTick \* fault: the ones that were not stored do not count
IsNew(m) == m.tick >= recvTick /\ m.tick > ackTick

Ignore(m) ==
    /\ ~IsNew(m)
    /\ UNCHANGED <<client, up>>

Collect(m) ==
    /\ IsNew(m) /\ ~IsComplete(m)
    /\ recvTick' = m.tick
    /\ parts' = Filed(m)
    /\ UNCHANGED <<store, ackTick, received, prev, cur, errors, entered, up>>

\* The snapshot is complete, but its base is not there.
MissBase(m) ==
    /\ IsNew(m) /\ IsComplete(m)
    /\ m.base >= 0 /\ m.base \notin DOMAIN store
    /\ recvTick' = m.tick
    /\ parts' = {}
    /\ StartOver
    /\ UNCHANGED <<store, received, prev, cur, errors, entered>>

HasBase(m) == IsNew(m) /\ IsComplete(m) /\ (m.base >= 0 => m.base \in DOMAIN store)

\* The difference cannot be unpacked.
FailUnpack(m) ==
    /\ MayBreak
    /\ HasBase(m)
    /\ recvTick' = m.tick
    /\ parts' = {}
    /\ UNCHANGED <<store, ackTick, received, prev, cur, errors, entered, up>>

\* The checksum is wrong: the contents are, or the client reads an item the
\* server knows otherwise than the server meant it.
FailChecksum(m) ==
    /\ HasBase(m)
    /\ ~IsEmpty(m)
    /\ MayBreak \/ Unpacked(m) # m.to
    /\ recvTick' = m.tick
    /\ parts' = {}
    /\ IF errors + 1 > MaxErrors
       THEN StartOver /\ errors' = 0
       ELSE UNCHANGED <<ackTick, up>> /\ errors' = errors + 1
    /\ UNCHANGED <<store, received, prev, cur, entered>>

\* Fault: a snapshot that is not valid is acknowledged.
FailValidate_Acks(m) ==
    /\ MayBreak
    /\ HasBase(m)
    /\ IsEmpty(m) \/ Unpacked(m) = m.to
    /\ recvTick' = m.tick
    /\ parts' = {}
    /\ errors' = FewerErrors
    /\ store' = Purged(store, PurgeTick(m))
    /\ ackTick' = m.tick
    /\ UNCHANGED <<received, prev, cur, entered, up>>

\* The snapshot is not valid after all; what it makes superfluous is gone.
FailValidate(m) ==
    /\ MayBreak
    /\ HasBase(m)
    /\ IsEmpty(m) \/ Unpacked(m) = m.to
    /\ recvTick' = m.tick
    /\ parts' = {}
    /\ errors' = FewerErrors
    /\ store' = Purged(store, PurgeTick(m))
    /\ UNCHANGED <<ackTick, received, prev, cur, entered, up>>

\* The snapshot is stored; the second one starts the game.
Accept(m) ==
    /\ HasBase(m)
    /\ IsEmpty(m) \/ Unpacked(m) = m.to
    /\ recvTick' = m.tick
    /\ parts' = {}
    /\ errors' = FewerErrors
    /\ store' = Added(Purged(store, PurgeTick(m)), m.tick, Unpacked(m))
    /\ received' = Min({received + 1, 2})
    /\ IF received = 1
       THEN prev' = Min(DOMAIN store') /\ cur' = Max(DOMAIN store')
       ELSE UNCHANGED <<prev, cur>>
    /\ ackTick' = m.tick
    /\ UNCHANGED <<entered, up>>

RecvSnapshot(m, keep) ==
    /\ m \in down
    /\ down' = IF keep THEN down ELSE down \ {m}
    /\ \/ Ignore(m) \/ Collect(m) \/ MissBase(m)
       \/ FailUnpack(m) \/ FailChecksum(m) \/ FailValidate(m) \/ Accept(m)
    /\ UNCHANGED server

\* Update: the time of the next snapshot has come.
SwitchSnapshot ==
    LET later == {t \in DOMAIN store : t > cur}
    IN /\ cur # None /\ later # {}
       /\ prev' = cur
       /\ cur' = Min(later)
       /\ UNCHANGED <<server, store, recvTick, parts, ackTick, received, errors, entered, down, up>>

-----------------------------------------------------------------------------
\* The network loses a message.
LoseSnapshot(m) == m \in down /\ down' = down \ {m} /\ UNCHANGED <<server, client, up>>
LoseInput(a) == a \in up /\ up' = up \ {a} /\ UNCHANGED <<server, client, down>>

Next ==
    \/ Tick
    \/ \E v \in Items, n \in 1 .. MaxParts, toolarge \in {FALSE, MayBreak} : DoSnapshot(v, n, toolarge)
    \/ \E a \in up : LoseInput(a) \/ \E keep \in BOOLEAN : RecvInput(a, keep)
    \/ Resume
    \/ EnterGame \/ SendInput
    \/ \E m \in down : LoseSnapshot(m) \/ \E keep \in BOOLEAN : RecvSnapshot(m, keep)
    \/ SwitchSnapshot

Spec == Init /\ [][Next]_vars

-----------------------------------------------------------------------------
\* Every variable has its type.
TypeOK ==
    /\ tick \in Ticks
    /\ DOMAIN snaps \subseteq 0 .. tick /\ \A t \in DOMAIN snaps : snaps[t] \in Items
    /\ lastAcked \in Ticks \cup {None}
    /\ rate \in {"init", "full", "recover"}
    /\ DOMAIN store \subseteq 0 .. tick /\ \A t \in DOMAIN store : store[t] \in Items
    /\ recvTick \in 0 .. tick
    /\ parts \subseteq [part : 1 .. MaxParts, tick : Ticks]
    /\ {ackTick, prev, cur} \subseteq Ticks \cup {None}
    /\ received \in 0 .. 2
    /\ errors \in 0 .. MaxErrors
    /\ entered \in BOOLEAN
    /\ down \subseteq Message
    /\ up \subseteq Ticks \cup {None}
    /\ DOMAIN built \subseteq 0 .. tick /\ \A t \in DOMAIN built : built[t] \in Items

\* Every snapshot the client stored is, item for item, the one the server
\* built for it on that tick, whatever was lost, repeated, overtaken, dropped
\* on either side or inherited from another slot: a difference is never
\* applied to a base other than the one it was made against.  The empty
\* difference carries no checksum that would tell.
StoredAsBuilt == \A t \in DOMAIN store : t \in DOMAIN built /\ store[t] = built[t]

\* Whatever snapshot the client would store next is newer than all it has
\* stored (the assertion in CSnapshotStorage::Add): neither a late message
\* nor a repeated one is taken, also not after the acknowledgement was
\* withdrawn.
NewestLast == \A m \in down : HasBase(m) => \A t \in DOMAIN store : t < m.tick

\* Types hold, what comes next will be last, and purging leaves what is in
\* use: the two snapshots the game looks at, whose ticks differ, since they
\* divide the time between them, and the one that was acknowledged last, since
\* the server may use it as base from now on.
StorageServes ==
    /\ TypeOK /\ NewestLast
    /\ prev # None \/ cur # None => {prev, cur} \subseteq DOMAIN store /\ prev < cur
    /\ ackTick # None => ackTick \in DOMAIN store

\* A client that entered the game in time never misses a base.  The server
\* drops what is older than the last acknowledgement, and the client what is
\* older than the base it was last sent: whichever acknowledgement arrives
\* late, the server no longer has a snapshot that the client dropped.
BaseAtHand == \A m \in down : IsNew(m) /\ m.base >= 0 => m.base \in DOMAIN store

-----------------------------------------------------------------------------
\* The protocol implements the feed: the game of the client is shown what the
\* server built, in order.
Feed == INSTANCE SnapshotFeed WITH
    shown <- IF cur = None THEN [tick |-> None] ELSE [tick |-> cur, items |-> store[cur]]

FeedSpec == Feed!Spec
=============================================================================
