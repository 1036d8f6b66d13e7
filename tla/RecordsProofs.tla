---------------------------- MODULE RecordsProofs ----------------------------
(***************************************************************************)
(* Proofs about the records that a server keeps, as MCRecords puts them    *)
(* together: a race that is saved is in one place only, is not lost, and   *)
(* its characters come back to their own players; and a ring buffer is a   *)
(* queue whose items have memory of their own, which never stays cut: an   *)
(* empty buffer takes an item of any size.                                 *)
(***************************************************************************)
EXTENDS MCRecords, FiniteSetTheorems, WellFoundedInduction, TLAPS

-----------------------------------------------------------------------------
\* The values the variables of TeamSave take.
Tees == [id : Nat, name : Names]
SaveCodes == {UserCode} \cup Nat
SaveRows == [code : SaveCodes, id : Nat, names : SUBSET Names]
CrewOf(v) == [slot : Slots[v], name : Names]
SaveSteps == {"idle", "first", "write", "settle", "select", "select file", "delete", "delete file",
              "done"}
Statuses == {"none", "SAVE_FAILED", "SAVE_FALLBACKFILE", "SAVE_SUCCESS", "LOAD_FAILED",
             "LOAD_SUCCESS"}
Results(v) == [kind : {"none", "save", "load"}, code : SaveCodes, id : Nat, crew : SUBSET CrewOf(v),
               status : Statuses]

Tables == remote \subseteq SaveRows /\ kept \in [Servers -> SUBSET SaveRows]
          /\ tmp \in [Servers -> SUBSET SaveRows]
Shapes ==
    /\ saves \in Nat /\ doubt \in BOOLEAN /\ givenUp \in BOOLEAN /\ left \subseteq Servers
    /\ members \in [Servers -> SUBSET UNION {Slots[v] : v \in Servers}]
    /\ team \in [Servers -> {"empty", "open", "started"}]
    /\ saving \in [Servers -> BOOLEAN]
    /\ worker \in [Servers -> SaveSteps]
    /\ DOMAIN who = Servers /\ DOMAIN tee = Servers /\ DOMAIN save = Servers
    /\ Tables
ServerType(v) ==
    /\ who[v] \in [Slots[v] -> Names \cup {Nobody}]
    /\ members[v] \subseteq Slots[v]
    /\ tee[v] \in [Slots[v] -> Tees \cup {Nobody}]
    /\ save[v] \in Results(v)

\* Which request a server's pool is at, and what it has been told.
Stage(v) ==
    /\ worker[v] = "idle" => save[v] = Save!NoResult
    /\ worker[v] # "idle" => save[v].kind \in {"save", "load"}
    /\ saving[v] => worker[v] # "idle"
    /\ save[v].kind = "save" =>
           /\ worker[v] \in {"first", "write", "settle", "done"}
           /\ save[v].status \in {"SAVE_FAILED", "SAVE_FALLBACKFILE", "SAVE_SUCCESS"}
           /\ save[v].id <= saves
           /\ worker[v] = "first" => save[v].status = "SAVE_FAILED" /\ v \in Backed
           /\ worker[v] = "write" => save[v].status # "SAVE_SUCCESS"
           /\ save[v].status = "SAVE_FALLBACKFILE" => v \in Backed
    /\ save[v].kind = "load" =>
           /\ worker[v] \in {"select", "select file", "delete", "delete file", "done"}
           /\ save[v].status \in {"LOAD_FAILED", "LOAD_SUCCESS"}
           /\ save[v].status = "LOAD_SUCCESS" => worker[v] = "done"

\* Who is in the team: while it waits for the database it can only be left,
\* and a save remembers those who have not left under their names.
Seats(v) ==
    /\ \A s \in members[v] : who[v][s] # Nobody
    /\ team[v] # "empty" => members[v] # {}
    /\ saving[v] => /\ \A m \in save[v].crew : m.slot \in members[v] => m.name = who[v][m.slot]
                    /\ \A s \in members[v] : \E m \in save[v].crew : m.slot = s
    /\ worker[v] # "idle" /\ ~(saving[v] /\ members[v] # {}) => v \in left

\* The characters of a team have come from one save, to their players, and
\* are there only while no request is worked on.
Own(v) ==
    \A s \in Slots[v] : tee[v][s] # Nobody =>
        /\ s \in members[v] /\ tee[v][s].name = who[v][s]
        /\ team[v] = "started" /\ worker[v] = "idle"
        /\ \A t \in Slots[v] : tee[v][t] # Nobody => tee[v][t].id = tee[v][s].id

\* What is in the backup table of the file.
Backups(v) ==
    /\ \A row \in tmp[v] : row.code = row.id /\ row.id <= saves
    /\ \A row, other \in tmp[v] : row.code = other.code => row = other
    /\ save[v].kind = "save" /\ save[v].status = "SAVE_FAILED" /\ worker[v] # "done" =>
           \A row \in tmp[v] : row.code # save[v].id
    /\ save[v].status = "SAVE_FALLBACKFILE" /\ worker[v] # "done" =>
           \E row \in tmp[v] : row.code = save[v].id

\* The server's request has the race: it is not stored yet, or it has been
\* taken out of a table.
Carrying(v) ==
    \/ /\ save[v].kind = "save"
       /\ \/ worker[v] \in {"first", "write"}
          \/ worker[v] = "settle" /\ save[v].status # "SAVE_SUCCESS"
          \/ worker[v] = "done" /\ save[v].status = "SAVE_FAILED"
    \/ save[v].status = "LOAD_SUCCESS"
Holds(v) == Save!Running(v) \/ Carrying(v)

\* The race is in one row, or one server holds it.
Alone ==
    /\ \A row, other \in remote : row = other
    /\ \A v, w \in Servers : \A row \in kept[v], other \in kept[w] : v = w /\ row = other
    /\ \A v, w \in Servers : Holds(v) /\ Holds(w) => v = w
    /\ remote # {} => \A v \in Servers : kept[v] = {} /\ ~Holds(v)
    /\ \A v, w \in Servers : kept[v] # {} => ~Holds(w)

\* Where the last save is on server v.
With(v) ==
    \/ \E s \in members[v] : tee[v][s] # Nobody /\ tee[v][s].id = saves
    \/ Carrying(v) /\ save[v].id = saves
    \/ \E row \in kept[v] : row.id = saves
    \/ \E row \in tmp[v] : row.id = saves /\ (worker[v] = "settle" => row.id # save[v].id)
Somewhere == (\E row \in remote : row.id = saves) \/ \E v \in Servers : With(v)

SaveServer(v) == ServerType(v) /\ Stage(v) /\ Seats(v) /\ Own(v) /\ Backups(v)
SaveInv ==
    /\ Shapes
    /\ \A v \in Servers : SaveServer(v)
    /\ ~doubt => Alone
    /\ ~doubt /\ ~givenUp => Somewhere

-----------------------------------------------------------------------------
(* Steps.  Each is of one server; the others keep what they have.          *)

Same(w) ==
    /\ who'[w] = who[w] /\ members'[w] = members[w] /\ team'[w] = team[w] /\ tee'[w] = tee[w]
    /\ saving'[w] = saving[w] /\ save'[w] = save[w] /\ worker'[w] = worker[w]
    /\ kept'[w] = kept[w] /\ tmp'[w] = tmp[w]
Frame(v) ==
    /\ \A w \in Servers : w # v => Same(w) /\ (w \in left => w \in left')
    /\ saves <= saves' /\ (doubt => doubt') /\ (givenUp => givenUp')

LEMMA OtherServer ==
    ASSUME NEW w \in Servers, SaveServer(w), Same(w), saves \in Nat, saves' \in Nat,
           saves <= saves', w \in left => w \in left', tmp[w] \subseteq SaveRows
    PROVE  SaveServer(w)'
<1>1. ServerType(w)'
  BY DEF SaveServer, ServerType, Same, Results
<1>2. Stage(w)'
  <2>1. Stage(w) /\ save[w].id \in Nat
    BY DEF SaveServer, ServerType, Results
  <2>2. save[w].id <= saves => save[w].id <= saves'
    BY <2>1
  <2> QED
    BY <2>1, <2>2 DEF Stage, Same, Save!NoResult
<1>3. Seats(w)'
  BY DEF SaveServer, Seats, Same
<1>4. Own(w)'
  BY DEF SaveServer, Own, Same
<1>5. Backups(w)'
  <2>1. ASSUME NEW row \in tmp[w] PROVE row.id <= saves'
    <3>1. row.id \in Nat /\ row.id <= saves
      BY <2>1 DEF SaveServer, Backups, SaveRows
    <3> QED
      BY <3>1
  <2> QED
    BY <2>1 DEF SaveServer, Backups, Same
<1> QED
  BY <1>1, <1>2, <1>3, <1>4, <1>5 DEF SaveServer

LEMMA OtherHolds == ASSUME NEW w, Same(w) PROVE Holds(w)' <=> Holds(w)
  BY DEF Same, Holds, Carrying, Save!Running

LEMMA OtherWith == ASSUME NEW w, Same(w), saves' = saves PROVE With(w)' <=> With(w)
  BY DEF Same, With, Carrying

LEMMA StepOf ==
    ASSUME SaveInv, NEW v \in Servers, Frame(v), Shapes', SaveServer(v)',
           ~doubt' => Alone', ~doubt' /\ ~givenUp' => Somewhere'
    PROVE  SaveInv'
<1>1. ASSUME NEW w \in Servers PROVE SaveServer(w)'
  <2>1. tmp[w] \subseteq SaveRows
    BY DEF SaveInv, Shapes, Tables
  <2> QED
    BY <1>1, <2>1, OtherServer DEF SaveInv, Frame, Shapes
<1> QED
  BY <1>1 DEF SaveInv

\* A step that leaves the tables of saves alone and gives nobody the race.
LEMMA StillAlone ==
    ASSUME SaveInv, NEW v \in Servers, Frame(v), remote' = remote, kept'[v] = kept[v],
           Holds(v)' => Holds(v), ~doubt'
    PROVE  Alone'
<1>1. ASSUME NEW w \in Servers PROVE kept'[w] = kept[w] /\ (Holds(w)' => Holds(w))
  BY <1>1, OtherHolds DEF Frame, Same
<1>2. Alone
  BY DEF SaveInv, Frame
<1>3. ASSUME NEW w \in Servers PROVE kept[w]' = kept[w]
  BY <1>1
<1> HIDE DEF Holds
<1> QED
  BY <1>1, <1>2, <1>3 DEF Alone

\* A step after which the last save is still with the server it was with.
LEMMA StillSomewhere ==
    ASSUME SaveInv, NEW v \in Servers, Frame(v), saves' = saves,
           \A row \in remote : row.id = saves => row \in remote' \/ With(v)',
           With(v) => With(v)', ~doubt', ~givenUp'
    PROVE  Somewhere'
<1>1. Somewhere
  BY DEF SaveInv, Frame
<1>2. CASE \E row \in remote : row.id = saves
  BY <1>2 DEF Somewhere
<1>3. ASSUME NEW w \in Servers, With(w) PROVE With(w)'
  BY <1>3, OtherWith DEF Frame
<1> QED
  BY <1>1, <1>2, <1>3 DEF Somewhere

-----------------------------------------------------------------------------
(* The players.                                                            *)

\* A step of the game, with the database as it is.
ByPlayers(v) ==
    /\ worker' = worker /\ save' = save /\ remote' = remote /\ kept' = kept /\ tmp' = tmp
    /\ saves' = saves /\ doubt' = doubt
    /\ saving'[v] => saving[v]
    /\ Save!Running(v)' => Save!Running(v)
    /\ ~givenUp' => \A s \in members[v] : tee[v][s] # Nobody =>
           \E t \in members'[v] : tee'[v][t] # Nobody /\ tee'[v][t].id = tee[v][s].id

LEMMA PlayersStep ==
    ASSUME SaveInv, NEW v \in Servers, Frame(v), ByPlayers(v), Shapes', ServerType(v)', Seats(v)',
           Own(v)'
    PROVE  SaveInv'
<1>1. SaveServer(v)
  BY DEF SaveInv
<1>2. Stage(v)' /\ Backups(v)'
  BY <1>1 DEF SaveServer, Stage, Backups, ByPlayers, Save!NoResult
<1>3. SaveServer(v)'
  BY <1>2 DEF SaveServer
<1>4. Carrying(v)' <=> Carrying(v)
  BY DEF Carrying, ByPlayers
<1>5. ASSUME ~doubt' PROVE Alone'
  BY <1>4, <1>5, StillAlone DEF ByPlayers, Holds
<1>6. ASSUME ~doubt', ~givenUp' PROVE Somewhere'
  <2>1. With(v) => With(v)'
    BY <1>4, <1>6 DEF With, ByPlayers
  <2> QED
    BY <2>1, <1>6, StillSomewhere DEF ByPlayers
<1> QED
  BY <1>3, <1>5, <1>6, StepOf

LEMMA ConnectKeeps ==
    ASSUME SaveInv, NEW v \in Servers, NEW s \in Slots[v], NEW n \in Names, Save!Connect(v, s, n)
    PROVE  SaveInv'
<1> USE DEF Save!Connect, Save!tables
<1>1. SaveServer(v) /\ Shapes
  BY DEF SaveInv
<1>2. Shapes'
  BY <1>1 DEF Shapes, Tables
<1>3. Frame(v)
  BY <1>1 DEF Frame, Same, Shapes
<1>4. who'[v] = [who[v] EXCEPT ![s] = n] /\ s \notin members[v]
  BY <1>1 DEF Shapes, SaveServer, Seats
<1>5. ServerType(v)'
  BY <1>1, <1>4 DEF SaveServer, ServerType, Results
<1>6. ASSUME NEW t \in members[v] PROVE who'[v][t] = who[v][t]
  BY <1>1, <1>4, <1>6 DEF SaveServer, ServerType
<1>7. Seats(v)' /\ Own(v)'
  BY <1>1, <1>6 DEF SaveServer, Seats, Own
<1>8. ByPlayers(v)
  BY DEF ByPlayers, Save!Running
<1> QED
  BY <1>2, <1>3, <1>5, <1>7, <1>8, PlayersStep

LEMMA JoinTeamKeeps ==
    ASSUME SaveInv, NEW v \in Servers, NEW s \in Slots[v], Save!JoinTeam(v, s)
    PROVE  SaveInv'
<1> USE DEF Save!JoinTeam, Save!tables, Save!counts
<1>1. SaveServer(v) /\ Shapes
  BY DEF SaveInv
<1>2. members'[v] = members[v] \cup {s} /\ team'[v] = "open"
  BY <1>1 DEF Shapes
<1>3. Shapes'
  BY <1>1 DEF Shapes, Tables
<1>4. Frame(v)
  BY <1>1 DEF Frame, Same, Shapes
<1>5. ServerType(v)'
  BY <1>1, <1>2 DEF SaveServer, ServerType, Results
<1>6. ASSUME NEW t \in Slots[v] PROVE tee[v][t] = Nobody
  BY <1>1, <1>6 DEF SaveServer, Own
<1>7. Seats(v)' /\ Own(v)'
  BY <1>1, <1>2, <1>6 DEF SaveServer, Seats, Own
<1>8. ByPlayers(v)
  BY <1>1, <1>2, <1>6 DEF ByPlayers, Save!Running, SaveServer, ServerType
<1> QED
  BY <1>3, <1>4, <1>5, <1>7, <1>8, PlayersStep

\* What leaving the team, being killed and giving up are to the server.
LEMMA Dismissed ==
    ASSUME NEW v \in Servers, NEW M, Save!Dismiss(v, M), Shapes
    PROVE  /\ members'[v] = members[v] \ M
           /\ team'[v] = IF members[v] \subseteq M THEN "empty" ELSE team[v]
           /\ \A w \in Servers : w # v => members'[w] = members[w] /\ team'[w] = team[w]
           /\ members' \in [Servers -> SUBSET UNION {Slots[w] : w \in Servers}]
           /\ team' \in [Servers -> {"empty", "open", "started"}]
  BY DEF Save!Dismiss, Shapes

LEMMA Killed ==
    ASSUME NEW v \in Servers, NEW M, Save!Kill(v, M), Shapes, ServerType(v)
    PROVE  /\ DOMAIN tee' = Servers
           /\ tee'[v] \in [Slots[v] -> Tees \cup {Nobody}]
           /\ \A s \in Slots[v] : tee'[v][s] = IF s \in M THEN Nobody ELSE tee[v][s]
           /\ \A w \in Servers : w # v => tee'[w] = tee[w]
  BY DEF Save!Kill, Shapes, ServerType

\* Unless the race is given up, somebody who has it is left.
LEMMA Survivor ==
    ASSUME NEW v \in Servers, NEW M, Save!GiveUp(v, M), Save!Kill(v, M), Shapes, SaveServer(v),
           ~givenUp', NEW s \in Slots[v], tee[v][s] # Nobody
    PROVE  \E t \in members[v] \ M : tee'[v][t] # Nobody /\ tee'[v][t].id = tee[v][s].id
<1>1. PICK t \in Slots[v] \ M : tee[v][t] # Nobody
  BY DEF Save!GiveUp
<1>2. t \in members[v] /\ tee[v][t].id = tee[v][s].id
  BY <1>1 DEF SaveServer, Own
<1>3. tee'[v][t] = tee[v][t]
  BY <1>1, Killed DEF SaveServer
<1> QED
  BY <1>1, <1>2, <1>3

LEMMA DisconnectKeeps ==
    ASSUME SaveInv, NEW v \in Servers, NEW s \in Slots[v], Save!Disconnect(v, s)
    PROVE  SaveInv'
<1> USE DEF Save!tables
<1>1. SaveServer(v) /\ Shapes
  BY DEF SaveInv
<1>2. /\ members'[v] = members[v] \ {s}
      /\ team'[v] = IF members[v] \subseteq {s} THEN "empty" ELSE team[v]
      /\ \A w \in Servers : w # v => members'[w] = members[w] /\ team'[w] = team[w]
      /\ members' \in [Servers -> SUBSET UNION {Slots[w] : w \in Servers}]
      /\ team' \in [Servers -> {"empty", "open", "started"}]
  <2>1. Save!Dismiss(v, {s} \cap members[v])
    BY DEF Save!Disconnect
  <2>2. (members[v] \subseteq {s} \cap members[v]) <=> members[v] \subseteq {s}
    OBVIOUS
  <2>3. members[v] \ ({s} \cap members[v]) = members[v] \ {s}
    OBVIOUS
  <2> QED
    BY <1>1, <2>1, <2>2, <2>3, Dismissed
<1>3. Save!Kill(v, {s}) /\ Save!GiveUp(v, {s})
  BY DEF Save!Disconnect
<1>4. /\ DOMAIN tee' = Servers
      /\ tee'[v] \in [Slots[v] -> Tees \cup {Nobody}]
      /\ \A t \in Slots[v] : tee'[v][t] = IF t = s THEN Nobody ELSE tee[v][t]
      /\ \A w \in Servers : w # v => tee'[w] = tee[w]
  BY <1>1, <1>3, Killed DEF SaveServer
<1>5. /\ who' = [who EXCEPT ![v][s] = Nobody]
      /\ left' = IF saving[v] /\ members[v] \subseteq {s} THEN left \cup {v} ELSE left
      /\ UNCHANGED <<saving, save, worker, remote, kept, tmp, saves, joins, doubt>>
  BY DEF Save!Disconnect
<1>6. givenUp' \in BOOLEAN /\ (givenUp => givenUp')
  BY <1>1, <1>3 DEF Save!GiveUp, Shapes
<1>7. Shapes'
  BY <1>1, <1>2, <1>4, <1>5, <1>6 DEF Shapes, Tables
<1>8. Frame(v)
  BY <1>1, <1>2, <1>4, <1>5, <1>6 DEF Frame, Same, Shapes
<1>9. who'[v] = [who[v] EXCEPT ![s] = Nobody]
  BY <1>1, <1>5 DEF Shapes
<1>10. ServerType(v)'
  BY <1>1, <1>2, <1>4, <1>5, <1>9 DEF SaveServer, ServerType, Results
<1>11. ASSUME NEW t \in members'[v] PROVE t \in members[v] /\ t # s /\ who'[v][t] = who[v][t]
  BY <1>1, <1>2, <1>9, <1>11 DEF SaveServer, ServerType
<1>12. Seats(v)'
  <2>1. team'[v] # "empty" => members'[v] # {}
    BY <1>2
  <2>2. worker[v] # "idle" /\ ~(saving[v] /\ members'[v] # {}) => v \in left'
    BY <1>1, <1>2, <1>5 DEF SaveServer, Seats
  <2> QED
    BY <1>1, <1>5, <1>11, <2>1, <2>2 DEF SaveServer, Seats
<1>13. Own(v)'
  <2>1. ASSUME NEW t \in Slots[v], tee'[v][t] # Nobody
        PROVE  /\ tee'[v][t] = tee[v][t] /\ tee[v][t] # Nobody
               /\ t \in members'[v] /\ team'[v] = team[v]
    BY <1>1, <1>2, <1>4, <2>1 DEF SaveServer, Own
  <2> QED
    BY <1>1, <1>5, <1>11, <2>1 DEF SaveServer, Own
<1>14. ByPlayers(v)
  <2>1. ASSUME NEW t \in members[v], tee[v][t] # Nobody, ~givenUp'
        PROVE  \E u \in members'[v] : tee'[v][u] # Nobody /\ tee'[v][u].id = tee[v][t].id
    BY <1>1, <1>2, <1>3, <2>1, Survivor DEF SaveServer, ServerType
  <2>2. Save!Running(v)' => Save!Running(v)
    BY <1>1, <1>2, <1>4 DEF Save!Running, SaveServer, ServerType
  <2> QED
    BY <1>5, <2>1, <2>2 DEF ByPlayers
<1> QED
  BY <1>7, <1>8, <1>10, <1>12, <1>13, <1>14, PlayersStep

LEMMA DieKeeps ==
    ASSUME SaveInv, NEW v \in Servers, NEW s \in Slots[v], NEW locked \in BOOLEAN,
           Save!Die(v, s, locked)
    PROVE  SaveInv'
<1> USE DEF Save!tables
<1> DEFINE M == IF locked THEN members[v] ELSE {s}
<1>1. SaveServer(v) /\ Shapes
  BY DEF SaveInv
<1>2. /\ s \in members[v] /\ ~saving[v]
      /\ UNCHANGED <<who, saving, save, worker, remote, kept, tmp, saves, joins, left, doubt>>
      /\ Save!Kill(v, M) /\ Save!GiveUp(v, M)
  BY DEF Save!Die
<1>3. /\ members'[v] = IF locked THEN members[v] ELSE members[v] \ {s}
      /\ team'[v] = IF locked THEN "open" ELSE IF members[v] \subseteq {s} THEN "empty" ELSE team[v]
      /\ \A w \in Servers : w # v => members'[w] = members[w] /\ team'[w] = team[w]
      /\ members' \in [Servers -> SUBSET UNION {Slots[w] : w \in Servers}]
      /\ team' \in [Servers -> {"empty", "open", "started"}]
  <2>1. CASE locked
    BY <1>1, <2>1 DEF Save!Die, Shapes
  <2>2. CASE ~locked
    <3>1. Save!Dismiss(v, {s})
      BY <2>2 DEF Save!Die
    <3> QED
      BY <1>1, <2>2, <3>1, Dismissed
  <2> QED
    BY <2>1, <2>2
<1>4. /\ DOMAIN tee' = Servers
      /\ tee'[v] \in [Slots[v] -> Tees \cup {Nobody}]
      /\ \A t \in Slots[v] : tee'[v][t] = IF t \in M THEN Nobody ELSE tee[v][t]
      /\ \A w \in Servers : w # v => tee'[w] = tee[w]
  <2> HIDE DEF M
  <2> QED
    BY <1>1, <1>2, Killed DEF SaveServer
<1>5. givenUp' \in BOOLEAN /\ (givenUp => givenUp')
  BY <1>1, <1>2 DEF Save!GiveUp, Shapes
<1>6. Shapes'
  BY <1>1, <1>2, <1>3, <1>4, <1>5 DEF Shapes, Tables
<1>7. Frame(v)
  BY <1>1, <1>2, <1>3, <1>4, <1>5 DEF Frame, Same, Shapes
<1>8. ServerType(v)'
  BY <1>1, <1>2, <1>3, <1>4 DEF SaveServer, ServerType, Results
<1>9. ASSUME NEW t \in members'[v] PROVE t \in members[v]
  BY <1>3, <1>9
<1>10. Seats(v)'
  <2>1. team'[v] # "empty" => members'[v] # {}
    BY <1>2, <1>3
  <2>2. worker[v] # "idle" => v \in left
    BY <1>1, <1>2 DEF SaveServer, Seats
  <2> QED
    BY <1>1, <1>2, <1>9, <2>1, <2>2 DEF SaveServer, Seats
<1>11. ASSUME NEW t \in Slots[v], tee'[v][t] # Nobody
       PROVE  /\ tee'[v][t] = tee[v][t] /\ tee[v][t] # Nobody
              /\ t \in members[v] /\ t \notin M
              /\ t \in members'[v] /\ team'[v] = team[v]
  BY <1>1, <1>3, <1>4, <1>11 DEF SaveServer, Own
<1>12. Own(v)'
  BY <1>1, <1>2, <1>11 DEF SaveServer, Own
<1>13. ByPlayers(v)
  <2>1. ASSUME NEW t \in members[v], tee[v][t] # Nobody, ~givenUp'
        PROVE  \E u \in members'[v] : tee'[v][u] # Nobody /\ tee'[v][u].id = tee[v][t].id
    <3> HIDE DEF M
    <3>1. \E u \in members[v] \ M : tee'[v][u] # Nobody /\ tee'[v][u].id = tee[v][t].id
      BY <1>1, <1>2, <2>1, Survivor DEF SaveServer, ServerType
    <3>2. members[v] \ M \subseteq members'[v]
      BY <1>3 DEF M
    <3> QED
      BY <3>1, <3>2
  <2>2. Save!Running(v)' => Save!Running(v)
    BY <1>1, <1>9, <1>11 DEF Save!Running, SaveServer, ServerType
  <2> QED
    BY <1>2, <2>1, <2>2 DEF ByPlayers
<1> QED
  BY <1>6, <1>7, <1>8, <1>10, <1>12, <1>13, PlayersStep

LEMMA ResetKeeps ==
    ASSUME SaveInv, NEW v \in Servers, Save!Reset(v)
    PROVE  SaveInv'
<1> USE DEF Save!tables
<1>1. SaveServer(v) /\ Shapes
  BY DEF SaveInv
<1>2. /\ saving' = [saving EXCEPT ![v] = FALSE]
      /\ left' = IF saving[v] THEN left \cup {v} ELSE left
      /\ UNCHANGED <<who, save, worker, remote, kept, tmp, saves, joins, doubt>>
      /\ Save!Dismiss(v, members[v]) /\ Save!Kill(v, Slots[v]) /\ Save!GiveUp(v, Slots[v])
  BY DEF Save!Reset
<1>3. /\ members'[v] = {} /\ team'[v] = "empty"
      /\ \A w \in Servers : w # v => members'[w] = members[w] /\ team'[w] = team[w]
      /\ members' \in [Servers -> SUBSET UNION {Slots[w] : w \in Servers}]
      /\ team' \in [Servers -> {"empty", "open", "started"}]
  BY <1>1, <1>2, Dismissed
<1>4. /\ DOMAIN tee' = Servers
      /\ tee'[v] \in [Slots[v] -> Tees \cup {Nobody}]
      /\ \A t \in Slots[v] : tee'[v][t] = Nobody
      /\ \A w \in Servers : w # v => tee'[w] = tee[w]
  BY <1>1, <1>2, Killed DEF SaveServer
<1>5. givenUp' \in BOOLEAN /\ (givenUp => givenUp')
  BY <1>1, <1>2 DEF Save!GiveUp, Shapes
<1>6. saving' \in [Servers -> BOOLEAN] /\ ~saving'[v]
      /\ \A w \in Servers : w # v => saving'[w] = saving[w]
  BY <1>1, <1>2 DEF Shapes
<1>7. Shapes'
  BY <1>1, <1>2, <1>3, <1>4, <1>5, <1>6 DEF Shapes, Tables
<1>8. Frame(v)
  BY <1>1, <1>2, <1>3, <1>4, <1>5, <1>6 DEF Frame, Same, Shapes
<1>9. ServerType(v)'
  BY <1>1, <1>2, <1>3, <1>4 DEF SaveServer, ServerType, Results
<1>10. Seats(v)'
  BY <1>1, <1>2, <1>3, <1>6 DEF SaveServer, Seats
<1>11. Own(v)'
  BY <1>4 DEF Own
<1>12. ByPlayers(v)
  <2>1. ASSUME NEW t \in members[v], tee[v][t] # Nobody, ~givenUp' PROVE FALSE
    <3>1. \E u \in members[v] \ Slots[v] : tee'[v][u] # Nobody /\ tee'[v][u].id = tee[v][t].id
      BY <1>1, <1>2, <2>1, Survivor DEF SaveServer, ServerType
    <3> QED
      BY <1>1, <3>1 DEF SaveServer, ServerType
  <2> QED
    BY <1>2, <1>3, <1>6, <2>1 DEF ByPlayers, Save!Running
<1> QED
  BY <1>7, <1>8, <1>9, <1>10, <1>11, <1>12, PlayersStep

-----------------------------------------------------------------------------
(* The requests.                                                           *)

\* Whom a request remembers.
LEMMA CrewKnown ==
    ASSUME NEW v \in Servers, ServerType(v), Seats(v)
    PROVE  /\ Save!Crew(v, members[v]) \in SUBSET CrewOf(v)
           /\ \A m \in Save!Crew(v, members[v]) : m.name = who[v][m.slot]
           /\ \A s \in members[v] : \E m \in Save!Crew(v, members[v]) : m.slot = s
<1>1. ASSUME NEW s \in members[v] PROVE [slot |-> s, name |-> who[v][s]] \in CrewOf(v)
  <2>1. s \in Slots[v] /\ who[v][s] \in Names
    BY <1>1 DEF ServerType, Seats
  <2> QED
    BY <2>1 DEF CrewOf
<1>2. ASSUME NEW m \in Save!Crew(v, members[v]) PROVE m \in CrewOf(v) /\ m.name = who[v][m.slot]
  <2>1. PICK s \in members[v] : m = [slot |-> s, name |-> who[v][s]]
    BY <1>2 DEF Save!Crew
  <2> QED
    BY <1>1, <2>1
<1>3. ASSUME NEW s \in members[v] PROVE \E m \in Save!Crew(v, members[v]) : m.slot = s
  <2>1. [slot |-> s, name |-> who[v][s]] \in Save!Crew(v, members[v])
    BY <1>3 DEF Save!Crew
  <2> QED
    BY <2>1
<1> QED
  BY <1>2, <1>3

LEMMA SaveTeamKeeps ==
    ASSUME SaveInv, NEW v \in Servers, NEW code \in Save!Codes, Save!SaveTeam(v, code)
    PROVE  SaveInv'
<1> USE DEF Save!tables
<1> DEFINE crew == Save!Crew(v, members[v])
<1>1. SaveServer(v) /\ Shapes
  BY DEF SaveInv
<1>2. /\ worker[v] = "idle" /\ ~saving[v] /\ team[v] = "started"
      /\ \A s \in members[v] : tee[v][s] # Nobody
      /\ saves' = saves + 1
      /\ saving' = [saving EXCEPT ![v] = TRUE]
      /\ worker' = [worker EXCEPT ![v] = IF v \in Backed THEN "first" ELSE "write"]
      /\ UNCHANGED <<who, members, team, remote, kept, tmp, joins, left, givenUp, doubt>>
      /\ Save!Kill(v, members[v])
  BY DEF Save!SaveTeam
<1>3. save' = [save EXCEPT ![v] = [kind |-> "save", code |-> code, id |-> saves', crew |-> crew,
                                   status |-> "SAVE_FAILED"]]
  BY DEF Save!SaveTeam
<1>4. code \in SaveCodes
  BY SaveAssumption DEF Save!Codes, SaveCodes, Save!SaveConstants
<1>5. crew \in SUBSET CrewOf(v) /\ (\A m \in crew : m.name = who[v][m.slot])
      /\ \A s \in members[v] : \E m \in crew : m.slot = s
  BY <1>1, CrewKnown DEF SaveServer
<1> HIDE DEF crew
<1>6. /\ DOMAIN tee' = Servers
      /\ tee'[v] \in [Slots[v] -> Tees \cup {Nobody}]
      /\ \A s \in Slots[v] : tee'[v][s] = IF s \in members[v] THEN Nobody ELSE tee[v][s]
      /\ \A w \in Servers : w # v => tee'[w] = tee[w]
  BY <1>1, <1>2, Killed DEF SaveServer
<1>7. \A s \in Slots[v] : tee'[v][s] = Nobody
  BY <1>1, <1>6 DEF SaveServer, Own
<1>8. /\ save'[v] = [kind |-> "save", code |-> code, id |-> saves', crew |-> crew,
                     status |-> "SAVE_FAILED"]
      /\ saving'[v] /\ worker'[v] = IF v \in Backed THEN "first" ELSE "write"
      /\ saves \in Nat /\ saves' \in Nat
  BY <1>1, <1>2, <1>3 DEF Shapes
<1>9. Shapes'
  <2>1. worker' \in [Servers -> SaveSteps]
    BY <1>1, <1>2 DEF Shapes, SaveSteps
  <2>2. saving' \in [Servers -> BOOLEAN] /\ DOMAIN save' = Servers
    BY <1>1, <1>2, <1>3 DEF Shapes
  <2> QED
    BY <1>1, <1>2, <1>6, <1>8, <2>1, <2>2 DEF Shapes, Tables
<1>10. Frame(v)
  <2>1. ASSUME NEW w \in Servers, w # v PROVE Same(w)
    BY <1>1, <1>2, <1>3, <1>6, <2>1 DEF Same, Shapes
  <2> QED
    BY <1>2, <1>8, <2>1 DEF Frame
<1>11. ServerType(v)'
  <2>1. save'[v] \in Results(v)
    BY <1>4, <1>5, <1>8 DEF Results, Statuses
  <2> QED
    BY <1>1, <1>2, <1>6, <2>1 DEF SaveServer, ServerType, Results, CrewOf
<1>12. Stage(v)'
  BY <1>8 DEF Stage
<1>13. Seats(v)'
  <2>1. members[v] # {}
    BY <1>1, <1>2 DEF SaveServer, Seats
  <2> QED
    BY <1>1, <1>2, <1>5, <1>8, <2>1 DEF SaveServer, Seats
<1>14. Own(v)'
  BY <1>7 DEF Own
<1>15. Backups(v)'
  <2>1. ASSUME NEW row \in tmp[v] PROVE row.code = row.id /\ row.id <= saves' /\ row.code # saves'
    <3>1. row.code = row.id /\ row.id <= saves /\ row.id \in Nat
      BY <1>1, <2>1 DEF SaveServer, Backups, Shapes, Tables, SaveRows
    <3> QED
      BY <1>2, <1>8, <3>1
  <2> QED
    BY <1>1, <1>2, <1>8, <2>1 DEF SaveServer, Backups
<1>16. ASSUME ~doubt' PROVE Alone'
  <2>1. Holds(v)
    BY <1>1, <1>2 DEF Holds, Save!Running, SaveServer, Seats
  <2> QED
    BY <1>2, <1>10, <1>16, <2>1, StillAlone
<1>17. Somewhere'
  BY <1>8 DEF Somewhere, With, Carrying
<1> QED
  BY <1>9, <1>10, <1>11, <1>12, <1>13, <1>14, <1>15, <1>16, <1>17, StepOf DEF SaveServer

LEMMA LoadTeamKeeps ==
    ASSUME SaveInv, NEW v \in Servers, NEW code \in Save!Codes, Save!LoadTeam(v, code)
    PROVE  SaveInv'
<1> USE DEF Save!tables, Save!game, Save!counts
<1> DEFINE crew == Save!Crew(v, members[v])
<1>1. SaveServer(v) /\ Shapes
  BY DEF SaveInv
<1>2. /\ worker[v] = "idle" /\ ~saving[v] /\ team[v] = "open"
      /\ saving' = [saving EXCEPT ![v] = TRUE]
      /\ worker' = [worker EXCEPT ![v] = "select"]
      /\ UNCHANGED <<who, members, team, tee, remote, kept, tmp, saves, joins, left, givenUp, doubt>>
  BY DEF Save!LoadTeam
<1>3. save' = [save EXCEPT ![v] = [kind |-> "load", code |-> code, id |-> 0, crew |-> crew,
                                   status |-> "LOAD_FAILED"]]
  BY DEF Save!LoadTeam
<1>4. code \in SaveCodes
  BY SaveAssumption DEF Save!Codes, SaveCodes, Save!SaveConstants
<1>5. crew \in SUBSET CrewOf(v) /\ (\A m \in crew : m.name = who[v][m.slot])
      /\ \A s \in members[v] : \E m \in crew : m.slot = s
  BY <1>1, CrewKnown DEF SaveServer
<1> HIDE DEF crew
<1>6. /\ save'[v] = [kind |-> "load", code |-> code, id |-> 0, crew |-> crew,
                     status |-> "LOAD_FAILED"]
      /\ saving'[v] /\ worker'[v] = "select"
  BY <1>1, <1>2, <1>3 DEF Shapes
<1>7. Shapes'
  <2>1. worker' \in [Servers -> SaveSteps]
    BY <1>1, <1>2 DEF Shapes, SaveSteps
  <2>2. saving' \in [Servers -> BOOLEAN] /\ DOMAIN save' = Servers
    BY <1>1, <1>2, <1>3 DEF Shapes
  <2> QED
    BY <1>1, <1>2, <2>1, <2>2 DEF Shapes, Tables
<1>8. Frame(v)
  <2>1. ASSUME NEW w \in Servers, w # v PROVE Same(w)
    BY <1>1, <1>2, <1>3, <2>1 DEF Same, Shapes
  <2> QED
    BY <1>1, <1>2, <2>1 DEF Frame, Shapes
<1>9. ServerType(v)'
  <2>1. save'[v] \in Results(v)
    BY <1>4, <1>5, <1>6 DEF Results, Statuses
  <2> QED
    BY <1>1, <1>2, <2>1 DEF SaveServer, ServerType, Results, CrewOf
<1>10. Stage(v)'
  BY <1>6 DEF Stage
<1>11. Seats(v)'
  <2>1. members[v] # {}
    BY <1>1, <1>2 DEF SaveServer, Seats
  <2> QED
    BY <1>1, <1>2, <1>5, <1>6, <2>1 DEF SaveServer, Seats
<1>12. Own(v)'
  BY <1>1, <1>2 DEF Own, SaveServer
<1>13. Backups(v)'
  BY <1>1, <1>2, <1>6 DEF SaveServer, Backups
<1>14. ~Carrying(v)' /\ ~Carrying(v)
  <2>1. save[v].kind = "none" /\ save[v].status = "none"
    BY <1>1, <1>2 DEF SaveServer, Stage, Save!NoResult
  <2> QED
    BY <1>6, <2>1 DEF Carrying
<1>15. ASSUME ~doubt' PROVE Alone'
  <2>1. Holds(v)' => Holds(v)
    BY <1>2, <1>14 DEF Holds, Save!Running
  <2> QED
    BY <1>2, <1>8, <1>15, <2>1, StillAlone
<1>16. ASSUME ~doubt', ~givenUp' PROVE Somewhere'
  <2>1. With(v) => With(v)'
    BY <1>2, <1>6, <1>14 DEF With
  <2> QED
    BY <1>2, <1>8, <1>16, <2>1, StillSomewhere
<1> QED
  BY <1>7, <1>8, <1>9, <1>10, <1>11, <1>12, <1>13, <1>15, <1>16, StepOf DEF SaveServer

-----------------------------------------------------------------------------
(* The pool.                                                               *)

\* A step of the pool, with the game as it is.
ByPool(v) ==
    /\ UNCHANGED <<who, members, team, tee, saving, saves, joins, left, givenUp>>
    /\ worker[v] # "idle" /\ worker'[v] # "idle"
    /\ save'[v] \in Results(v) /\ save'[v].crew = save[v].crew

LEMMA PoolServer ==
    ASSUME SaveInv, NEW v \in Servers, ByPool(v)
    PROVE  /\ ServerType(v)' /\ Seats(v)' /\ Own(v)'
           /\ (Holds(v) <=> Carrying(v)) /\ (Holds(v)' <=> Carrying(v)')
<1>1. SaveServer(v)
  BY DEF SaveInv
<1>2. ServerType(v)'
  BY <1>1 DEF ByPool, SaveServer, ServerType, Results, CrewOf
<1>3. Seats(v)' /\ Own(v)'
  BY <1>1 DEF ByPool, SaveServer, Seats, Own
<1>4. ~Save!Running(v) /\ ~Save!Running(v)'
  BY <1>1 DEF ByPool, SaveServer, Own, ServerType, Save!Running
<1> QED
  BY <1>2, <1>3, <1>4 DEF Holds

LEMMA RowTyped ==
    ASSUME SaveInv, NEW v \in Servers, NEW code \in SaveCodes
    PROVE  /\ Save!Row(v, code) \in SaveRows
           /\ Save!Row(v, code).code = code /\ Save!Row(v, code).id = save[v].id
<1>1. save[v].id \in Nat /\ save[v].crew \subseteq CrewOf(v)
  BY DEF SaveInv, SaveServer, ServerType, Results
<1>2. Save!NamesOf(save[v].crew) \subseteq Names
  BY <1>1 DEF Save!NamesOf, CrewOf
<1> QED
  BY <1>1, <1>2 DEF Save!Row, SaveRows

LEMMA WriteFirstKeeps ==
    ASSUME SaveInv, NEW v \in Servers, NEW ok \in BOOLEAN, Save!WriteFirst(v, ok)
    PROVE  SaveInv'
<1> USE DEF Save!game, Save!counts
<1> DEFINE row == Save!Row(v, save[v].id)
<1>1. SaveServer(v) /\ Shapes
  BY DEF SaveInv
<1>2. /\ worker[v] = "first"
      /\ tmp' = IF ok THEN [tmp EXCEPT ![v] = @ \cup {row}] ELSE tmp
      /\ save' = IF ok THEN [save EXCEPT ![v].status = "SAVE_FALLBACKFILE"] ELSE save
      /\ worker' = [worker EXCEPT ![v] = "write"]
      /\ UNCHANGED <<who, members, team, tee, saving, remote, kept, saves, joins, left, givenUp, doubt>>
  BY DEF Save!WriteFirst
<1>3. save[v] \in Results(v) /\ save[v].id \in Nat
  BY <1>1 DEF SaveServer, ServerType, Results
<1>4. row \in SaveRows /\ row.code = save[v].id /\ row.id = save[v].id
  BY <1>3, RowTyped DEF SaveCodes
<1> HIDE DEF row
<1>5. /\ worker'[v] = "write"
      /\ tmp'[v] = IF ok THEN tmp[v] \cup {row} ELSE tmp[v]
      /\ save'[v] = IF ok THEN [save[v] EXCEPT !.status = "SAVE_FALLBACKFILE"] ELSE save[v]
  BY <1>1, <1>2 DEF Shapes, Tables
<1>6. save[v].kind = "save" /\ save[v].status = "SAVE_FAILED" /\ save[v].id <= saves /\ v \in Backed
  BY <1>1, <1>2 DEF SaveServer, Stage
<1>7. /\ save'[v] \in Results(v) /\ save'[v].kind = "save" /\ save'[v].id = save[v].id
      /\ save'[v].crew = save[v].crew
      /\ save'[v].status = IF ok THEN "SAVE_FALLBACKFILE" ELSE "SAVE_FAILED"
  BY <1>3, <1>5, <1>6 DEF Results, Statuses
<1>8. Shapes'
  <2>1. worker' \in [Servers -> SaveSteps] /\ DOMAIN save' = Servers
    BY <1>1, <1>2 DEF Shapes, SaveSteps
  <2>2. tmp' \in [Servers -> SUBSET SaveRows]
    BY <1>1, <1>2, <1>4 DEF Shapes, Tables
  <2> QED
    BY <1>1, <1>2, <2>1, <2>2 DEF Shapes, Tables
<1>9. Frame(v)
  <2>1. ASSUME NEW w \in Servers, w # v PROVE Same(w)
    BY <1>1, <1>2, <2>1 DEF Same, Shapes, Tables
  <2> QED
    BY <1>1, <1>2, <2>1 DEF Frame, Shapes
<1>10. ByPool(v)
  BY <1>2, <1>5, <1>7 DEF ByPool
<1>11. Stage(v)'
  <2>1. save'[v].id <= saves' /\ save'[v].status \in {"SAVE_FAILED", "SAVE_FALLBACKFILE", "SAVE_SUCCESS"}
    BY <1>2, <1>6, <1>7
  <2>2. /\ worker'[v] \in {"write", "settle", "done"}
        /\ worker'[v] = "write" => save'[v].status # "SAVE_SUCCESS"
        /\ save'[v].status = "SAVE_FALLBACKFILE" => v \in Backed
    BY <1>5, <1>6, <1>7
  <2> QED
    BY <1>7, <2>1, <2>2 DEF Stage
<1>12. Backups(v)'
  <2>1. \A r \in tmp[v] : r.code # save[v].id
    BY <1>1, <1>2, <1>6 DEF SaveServer, Backups
  <2>2. \A r \in tmp'[v] : r.code = r.id /\ r.id <= saves
    BY <1>1, <1>4, <1>5, <1>6 DEF SaveServer, Backups
  <2>3. \A r, q \in tmp'[v] : r.code = q.code => r = q
    BY <1>1, <1>4, <1>5, <2>1 DEF SaveServer, Backups
  <2>4. ok => row \in tmp'[v]
    BY <1>5
  <2> QED
    BY <1>2, <1>4, <1>5, <1>7, <2>1, <2>2, <2>3, <2>4 DEF Backups
<1>13. Carrying(v) /\ Carrying(v)'
  BY <1>2, <1>5, <1>6, <1>7 DEF Carrying
<1>14. kept'[v] = kept[v]
  BY <1>2
<1>15. ASSUME ~doubt' PROVE Alone'
  BY <1>2, <1>9, <1>10, <1>13, <1>14, <1>15, StillAlone, PoolServer
<1>16. ASSUME ~doubt', ~givenUp' PROVE Somewhere'
  <2>1. With(v) => With(v)'
    <3>1. tmp[v] \subseteq tmp'[v]
      BY <1>5
    <3> QED
      BY <1>2, <1>5, <1>7, <1>13, <3>1 DEF With
  <2> QED
    BY <1>2, <1>9, <1>16, <2>1, StillSomewhere
<1> QED
  BY <1>8, <1>9, <1>10, <1>11, <1>12, <1>15, <1>16, StepOf, PoolServer DEF SaveServer

LEMMA WriteSaveKeeps ==
    ASSUME SaveInv, NEW v \in Servers, NEW stored \in BOOLEAN, NEW ok \in BOOLEAN,
           Save!WriteSave(v, stored, ok)
    PROVE  SaveInv'
<1> USE DEF Save!game, Save!counts
<1> DEFINE code == IF \E row \in remote : row.code = save[v].code THEN save[v].id ELSE save[v].code
           row == Save!Row(v, code)
<1>1. SaveServer(v) /\ Shapes
  BY DEF SaveInv
<1>2. /\ worker[v] = "write" /\ (ok => stored)
      /\ remote' = IF stored THEN remote \cup {row} ELSE remote
      /\ save' = IF ok THEN [save EXCEPT ![v].status = "SAVE_SUCCESS"] ELSE save
      /\ doubt' = (doubt \/ stored # ok)
      /\ worker' = [worker EXCEPT ![v] = IF v \in Backed THEN "settle" ELSE "done"]
      /\ UNCHANGED <<who, members, team, tee, saving, kept, tmp, saves, joins, left, givenUp>>
  BY DEF Save!WriteSave
<1>3. save[v] \in Results(v) /\ save[v].id \in Nat /\ save[v].code \in SaveCodes
  BY <1>1 DEF SaveServer, ServerType, Results
<1>4. row \in SaveRows /\ row.id = save[v].id
  <2>1. code \in SaveCodes
    BY <1>3 DEF SaveCodes
  <2> HIDE DEF code
  <2> QED
    BY <2>1, RowTyped
<1> HIDE DEF row
<1>5. /\ worker'[v] = IF v \in Backed THEN "settle" ELSE "done"
      /\ save'[v] = IF ok THEN [save[v] EXCEPT !.status = "SAVE_SUCCESS"] ELSE save[v]
  BY <1>1, <1>2 DEF Shapes
<1>6. /\ save[v].kind = "save" /\ save[v].status \in {"SAVE_FAILED", "SAVE_FALLBACKFILE"}
      /\ save[v].id <= saves /\ (save[v].status = "SAVE_FALLBACKFILE" => v \in Backed)
  BY <1>1, <1>2 DEF SaveServer, Stage
<1>7. /\ save'[v] \in Results(v) /\ save'[v].kind = "save" /\ save'[v].id = save[v].id
      /\ save'[v].crew = save[v].crew
      /\ save'[v].status = IF ok THEN "SAVE_SUCCESS" ELSE save[v].status
  BY <1>3, <1>5, <1>6 DEF Results, Statuses
<1>8. Shapes'
  <2>1. worker' \in [Servers -> SaveSteps] /\ DOMAIN save' = Servers
    BY <1>1, <1>2 DEF Shapes, SaveSteps
  <2>2. remote' \subseteq SaveRows /\ doubt' \in BOOLEAN
    BY <1>1, <1>2, <1>4 DEF Shapes, Tables
  <2> QED
    BY <1>1, <1>2, <2>1, <2>2 DEF Shapes, Tables
<1>9. Frame(v)
  <2>1. ASSUME NEW w \in Servers, w # v PROVE Same(w)
    BY <1>1, <1>2, <2>1 DEF Same, Shapes
  <2> QED
    BY <1>1, <1>2, <2>1 DEF Frame, Shapes
<1>10. ByPool(v)
  BY <1>2, <1>5, <1>7 DEF ByPool
<1>11. Stage(v)'
  <2>1. save'[v].id <= saves' /\ save'[v].status \in {"SAVE_FAILED", "SAVE_FALLBACKFILE", "SAVE_SUCCESS"}
    BY <1>2, <1>6, <1>7
  <2>2. /\ worker'[v] \in {"write", "settle", "done"}
        /\ worker'[v] = "write" => save'[v].status # "SAVE_SUCCESS"
        /\ save'[v].status = "SAVE_FALLBACKFILE" => v \in Backed
    BY <1>5, <1>6, <1>7
  <2> QED
    BY <1>7, <2>1, <2>2 DEF Stage
<1>12. Backups(v)'
  BY <1>1, <1>2, <1>5, <1>6, <1>7 DEF SaveServer, Backups
<1>13. Carrying(v) /\ (Carrying(v)' <=> ~ok)
  BY <1>2, <1>5, <1>6, <1>7 DEF Carrying
<1>14. ASSUME ~doubt' PROVE Alone'
  <2>1. CASE ~stored
    <3>1. kept'[v] = kept[v]
      BY <1>2
    <3> QED
      BY <1>2, <1>9, <1>10, <1>13, <1>14, <2>1, <3>1, StillAlone, PoolServer
  <2>2. CASE stored
    <3>1. ok /\ ~Holds(v)' /\ Holds(v) /\ remote' = remote \cup {row}
      BY <1>2, <1>10, <1>13, <1>14, <2>2, PoolServer
    <3>2. Alone
      BY <1>2, <1>14 DEF SaveInv
    <3>3. remote' = {row} /\ \A w \in Servers : kept[w] = {}
      BY <3>1, <3>2 DEF Alone
    <3>4. \A w \in Servers : ~Holds(w)'
      BY <1>9, <3>1, <3>2, OtherHolds DEF Frame, Alone
    <3> HIDE DEF Holds
    <3> QED
      BY <1>2, <3>3, <3>4 DEF Alone
  <2> QED
    BY <2>1, <2>2
<1>15. ASSUME ~doubt', ~givenUp' PROVE Somewhere'
  <2>1. CASE ok /\ save[v].id = saves
    BY <1>2, <1>4, <2>1 DEF Somewhere
  <2>2. CASE ~(ok /\ save[v].id = saves)
    <3>1. With(v) => With(v)'
      <4>1. ASSUME NEW r \in tmp[v], r.id = saves PROVE save[v].id = saves \/ r.id # save'[v].id
        BY <1>7, <4>1
      <4>2. save[v].id = saves => Carrying(v)'
        BY <1>13, <2>2
      <4> QED
        BY <1>2, <1>5, <1>7, <1>13, <4>1, <4>2 DEF With
    <3>2. remote \subseteq remote'
      BY <1>2
    <3> QED
      BY <1>2, <1>9, <1>15, <3>1, <3>2, StillSomewhere
  <2> QED
    BY <2>1, <2>2
<1> QED
  BY <1>8, <1>9, <1>10, <1>11, <1>12, <1>14, <1>15, StepOf, PoolServer DEF SaveServer

LEMMA SettleKeeps ==
    ASSUME SaveInv, NEW v \in Servers, NEW moved \in BOOLEAN, NEW deleted \in BOOLEAN,
           Save!Settle(v, moved, deleted)
    PROVE  SaveInv'
<1> USE DEF Save!game, Save!counts
<1> DEFINE Mine == {row \in tmp[v] : row.code = save[v].id}
<1>1. SaveServer(v) /\ Shapes
  BY DEF SaveInv
<1>2. /\ worker[v] = "settle"
      /\ IF save[v].status = "SAVE_SUCCESS" THEN ~moved ELSE deleted => moved
      /\ kept' = IF moved THEN [kept EXCEPT ![v] = @ \cup Mine] ELSE kept
      /\ tmp' = IF deleted THEN [tmp EXCEPT ![v] = @ \ Mine] ELSE tmp
      /\ worker' = [worker EXCEPT ![v] = "done"]
      /\ UNCHANGED <<who, members, team, tee, saving, save, remote, saves, joins, left, givenUp, doubt>>
  BY DEF Save!Settle
<1>3. Mine \subseteq tmp[v] /\ \A row \in tmp[v] : row \in Mine <=> row.code = save[v].id
  OBVIOUS
<1> HIDE DEF Mine
<1>4. /\ worker'[v] = "done"
      /\ kept'[v] = IF moved THEN kept[v] \cup Mine ELSE kept[v]
      /\ tmp'[v] = IF deleted THEN tmp[v] \ Mine ELSE tmp[v]
      /\ tmp[v] \subseteq SaveRows /\ save[v] \in Results(v)
  BY <1>1, <1>2 DEF Shapes, Tables, SaveServer, ServerType
<1>5. /\ save[v].kind = "save" /\ save[v].id <= saves
      /\ save[v].status \in {"SAVE_FAILED", "SAVE_FALLBACKFILE", "SAVE_SUCCESS"}
  BY <1>1, <1>2 DEF SaveServer, Stage
<1>6. /\ save[v].status = "SAVE_FAILED" => Mine = {}
      /\ save[v].status = "SAVE_FALLBACKFILE" => \E row \in Mine : row.id = save[v].id
      /\ \A row, other \in Mine : row = other
      /\ \A row \in tmp[v] : row.id # save[v].id => row \notin Mine
  BY <1>1, <1>2, <1>3, <1>5 DEF SaveServer, Backups
<1>7. Shapes'
  <2>1. worker' \in [Servers -> SaveSteps]
    BY <1>1, <1>2 DEF Shapes, SaveSteps
  <2>2. tmp' \in [Servers -> SUBSET SaveRows]
    BY <1>1, <1>2 DEF Shapes, Tables
  <2>3. kept' \in [Servers -> SUBSET SaveRows]
    BY <1>1, <1>2, <1>3, <1>4 DEF Shapes, Tables
  <2> QED
    BY <1>1, <1>2, <2>1, <2>2, <2>3 DEF Shapes, Tables
<1>8. Frame(v)
  <2>1. ASSUME NEW w \in Servers, w # v PROVE Same(w)
    BY <1>1, <1>2, <2>1 DEF Same, Shapes, Tables
  <2> QED
    BY <1>1, <1>2, <2>1 DEF Frame, Shapes
<1>9. ByPool(v)
  BY <1>2, <1>4 DEF ByPool
<1>10. Stage(v)'
  BY <1>1, <1>2, <1>4, <1>5 DEF SaveServer, Stage
<1>11. Backups(v)'
  <2>1. tmp'[v] \subseteq tmp[v]
    BY <1>4
  <2> QED
    BY <1>1, <1>2, <1>4, <2>1 DEF SaveServer, Backups
<1>12. /\ Carrying(v) <=> save[v].status # "SAVE_SUCCESS"
       /\ Carrying(v)' <=> save[v].status = "SAVE_FAILED"
  BY <1>2, <1>4, <1>5 DEF Carrying
<1>13. ASSUME ~doubt' PROVE Alone'
  <2>1. CASE ~moved \/ save[v].status = "SAVE_FAILED"
    <3>1. kept'[v] = kept[v]
      BY <1>4, <1>6, <2>1
    <3> QED
      BY <1>2, <1>8, <1>9, <1>12, <1>13, <3>1, StillAlone, PoolServer
  <2>2. CASE moved /\ save[v].status # "SAVE_FAILED"
    <3>1. ~Holds(v)' /\ Holds(v)
      BY <1>2, <1>5, <1>9, <1>12, <2>2, PoolServer
    <3>2. Alone
      BY <1>2, <1>13 DEF SaveInv
    <3>3. remote' = {} /\ \A w \in Servers : kept[w] = {} /\ (w # v => ~Holds(w))
      BY <1>2, <3>1, <3>2 DEF Alone
    <3>4. \A w \in Servers : ~Holds(w)'
      BY <1>8, <3>1, <3>3, OtherHolds DEF Frame
    <3>5. kept'[v] = Mine /\ \A w \in Servers : w # v => kept'[w] = {}
      BY <1>4, <1>8, <2>2, <3>3 DEF Frame, Same
    <3> HIDE DEF Holds
    <3> QED
      BY <1>6, <3>3, <3>4, <3>5 DEF Alone
  <2> QED
    BY <2>1, <2>2
<1>14. ASSUME ~doubt', ~givenUp' PROVE Somewhere'
  <2>1. With(v) => With(v)'
    <3>1. CASE Carrying(v) /\ save[v].id = saves
      <4>1. CASE save[v].status = "SAVE_FAILED"
        BY <1>2, <1>12, <3>1, <4>1 DEF With
      <4>2. CASE save[v].status = "SAVE_FALLBACKFILE"
        <5>1. PICK row \in Mine : row.id = saves
          BY <1>6, <3>1, <4>2
        <5>2. moved => row \in kept'[v]
          BY <1>4
        <5>3. ~moved => row \in tmp'[v]
          BY <1>2, <1>3, <1>4, <4>2
        <5> QED
          BY <1>2, <1>4, <5>1, <5>2, <5>3 DEF With
      <4> QED
        BY <1>5, <1>12, <3>1, <4>1, <4>2
    <3>2. CASE \E row \in kept[v] : row.id = saves
      BY <1>2, <1>4, <3>2 DEF With
    <3>3. CASE \E row \in tmp[v] : row.id = saves /\ row.id # save[v].id
      <4>1. PICK row \in tmp[v] : row.id = saves /\ row.id # save[v].id
        BY <3>3
      <4>2. row \in tmp'[v]
        BY <1>4, <1>6, <4>1
      <4> QED
        BY <1>2, <1>4, <4>1, <4>2 DEF With
    <3>4. CASE \E s \in members[v] : tee[v][s] # Nobody /\ tee[v][s].id = saves
      BY <1>2, <3>4 DEF With
    <3> QED
      BY <1>2, <3>1, <3>2, <3>3, <3>4 DEF With
  <2> QED
    BY <1>2, <1>8, <1>14, <2>1, StillSomewhere
<1> QED
  BY <1>7, <1>8, <1>9, <1>10, <1>11, <1>13, <1>14, StepOf, PoolServer DEF SaveServer

LEMMA SelectKeeps ==
    ASSUME SaveInv, NEW v \in Servers, Save!Select(v)
    PROVE  SaveInv'
<1> USE DEF Save!game, Save!counts, Save!tables
<1>1. SaveServer(v) /\ Shapes
  BY DEF SaveInv
<1>2. /\ worker[v] \in {"select", "select file"}
      /\ UNCHANGED <<who, members, team, tee, saving, remote, kept, tmp, saves, joins, left, givenUp, doubt>>
  BY DEF Save!Select
<1>3. /\ save[v].kind = "load" /\ save[v].status = "LOAD_FAILED" /\ save[v] \in Results(v)
  BY <1>1, <1>2 DEF SaveServer, Stage, ServerType
<1>4. \E to \in {"select file", "delete", "delete file", "done"} : worker' = [worker EXCEPT ![v] = to]
  BY DEF Save!Select, Save!Failed, Save!Deleting
<1>5. \/ save' = save
      \/ \E row \in Save!Table(v) : save' = [save EXCEPT ![v].id = row.id]
  BY DEF Save!Select
<1>6. Save!Table(v) \subseteq SaveRows
  BY <1>1 DEF Save!Table, Shapes, Tables
<1>7. PICK id \in Nat : save'[v] = [save[v] EXCEPT !.id = id]
  <2>1. CASE save' = save
    <3>1. save'[v] = [save[v] EXCEPT !.id = save[v].id] /\ save[v].id \in Nat
      BY <1>3, <2>1 DEF Results
    <3> QED
      BY <3>1
  <2>2. CASE \E row \in Save!Table(v) : save' = [save EXCEPT ![v].id = row.id]
    <3>1. PICK row \in Save!Table(v) : save' = [save EXCEPT ![v].id = row.id]
      BY <2>2
    <3>2. row.id \in Nat
      BY <1>6, <3>1 DEF SaveRows
    <3>3. save'[v] = [save[v] EXCEPT !.id = row.id]
      BY <1>1, <3>1 DEF Shapes
    <3> QED
      BY <3>2, <3>3
  <2> QED
    BY <1>5, <2>1, <2>2
<1>8. /\ worker'[v] \in {"select file", "delete", "delete file", "done"}
      /\ worker' \in [Servers -> SaveSteps]
      /\ \A w \in Servers : w # v => worker'[w] = worker[w]
  BY <1>1, <1>4 DEF Shapes, SaveSteps
<1>9. DOMAIN save' = Servers /\ \A w \in Servers : w # v => save'[w] = save[w]
  BY <1>1, <1>5 DEF Shapes
<1>10. /\ save'[v] \in Results(v) /\ save'[v].kind = "load" /\ save'[v].status = "LOAD_FAILED"
       /\ save'[v].crew = save[v].crew
  BY <1>3, <1>7 DEF Results
<1>11. Shapes'
  BY <1>1, <1>2, <1>8, <1>9 DEF Shapes, Tables
<1>12. Frame(v)
  <2>1. ASSUME NEW w \in Servers, w # v PROVE Same(w)
    BY <1>2, <1>8, <1>9, <2>1 DEF Same
  <2>2. saves \in Nat /\ saves' = saves /\ left' = left
    BY <1>1, <1>2 DEF Shapes
  <2>3. (doubt => doubt') /\ (givenUp => givenUp')
    BY <1>2
  <2> QED
    BY <2>1, <2>2, <2>3 DEF Frame
<1>13. ByPool(v)
  BY <1>2, <1>8, <1>10 DEF ByPool
<1>14. Stage(v)'
  BY <1>8, <1>10 DEF Stage
<1>15. Backups(v)'
  BY <1>1, <1>2, <1>8, <1>10 DEF SaveServer, Backups
<1>16. ~Carrying(v) /\ ~Carrying(v)'
  BY <1>2, <1>3, <1>10 DEF Carrying
<1>17. ASSUME ~doubt' PROVE Alone'
  <2>1. kept'[v] = kept[v]
    BY <1>2
  <2> QED
    BY <1>2, <1>12, <1>13, <1>16, <1>17, <2>1, StillAlone, PoolServer
<1>18. ASSUME ~doubt', ~givenUp' PROVE Somewhere'
  <2>1. With(v) => With(v)'
    BY <1>2, <1>8, <1>16 DEF With
  <2> QED
    BY <1>2, <1>12, <1>18, <2>1, StillSomewhere
<1> QED
  BY <1>11, <1>12, <1>13, <1>14, <1>15, <1>17, <1>18, StepOf, PoolServer DEF SaveServer

\* TeamSave counts as this module does.
LEMMA SameCount == ASSUME NEW S PROVE Save!Cardinality(S) = Cardinality(S)
  BY DEF Save!Cardinality, Cardinality, Save!IsFiniteSet, IsFiniteSet

LEMMA StatusOfNone == Save!LoadStatus({}) = "LOAD_FAILED"
<1>1. Save!Cardinality({}) = 0
  BY FS_EmptySet, SameCount
<1> QED
  BY <1>1 DEF Save!LoadStatus

LEMMA StatusOfOne == \A row : Save!LoadStatus({row}) = "LOAD_SUCCESS"
<1> SUFFICES ASSUME NEW row PROVE Save!LoadStatus({row}) = "LOAD_SUCCESS"
  OBVIOUS
<1>1. Save!Cardinality({row}) = 1
  BY FS_Singleton, SameCount
<1> QED
  BY <1>1 DEF Save!LoadStatus

LEMMA DeleteKeeps ==
    ASSUME SaveInv, NEW v \in Servers, NEW deleted \in BOOLEAN, NEW ok \in BOOLEAN,
           Save!Delete(v, deleted, ok)
    PROVE  SaveInv'
<1> USE DEF Save!game, Save!counts
<1> DEFINE gone == {row \in Save!Table(v) : Save!Chosen(v, row)}
<1>1. SaveServer(v) /\ Shapes
  BY DEF SaveInv
<1>2. /\ worker[v] \in {"delete", "delete file"} /\ (ok => deleted)
      /\ remote' = IF deleted /\ worker[v] = "delete" THEN remote \ gone ELSE remote
      /\ kept' = IF deleted /\ worker[v] # "delete" THEN [kept EXCEPT ![v] = @ \ gone] ELSE kept
      /\ save' = IF ok THEN [save EXCEPT ![v].status = Save!LoadStatus(gone)] ELSE save
      /\ doubt' = (doubt \/ (deleted # ok /\ gone # {}))
      /\ worker' = IF ok THEN [worker EXCEPT ![v] = "done"] ELSE Save!Failed(v)
      /\ UNCHANGED <<who, members, team, tee, saving, tmp, saves, joins, left, givenUp>>
  BY DEF Save!Delete
<1>3. /\ \A row \in gone : row.id = save[v].id
      /\ worker[v] = "delete" => gone \subseteq remote
      /\ worker[v] # "delete" => gone \subseteq kept[v]
  BY <1>2 DEF Save!Table, Save!Chosen
<1>4. Save!LoadStatus(gone) \in {"LOAD_SUCCESS", "LOAD_FAILED"}
  BY DEF Save!LoadStatus
<1>5. gone = {} => Save!LoadStatus(gone) = "LOAD_FAILED"
  BY StatusOfNone
<1>6. \A row : gone = {row} => Save!LoadStatus(gone) = "LOAD_SUCCESS"
  BY StatusOfOne
<1> HIDE DEF gone
<1>7. /\ save[v].kind = "load" /\ save[v].status = "LOAD_FAILED" /\ save[v] \in Results(v)
  BY <1>1, <1>2 DEF SaveServer, Stage, ServerType
<1>8. /\ worker'[v] \in {"select file", "done"} /\ worker' \in [Servers -> SaveSteps]
      /\ ok => worker'[v] = "done"
      /\ \A w \in Servers : w # v => worker'[w] = worker[w]
  <2>1. \E to \in {"select file", "done"} : worker' = [worker EXCEPT ![v] = to] /\ (ok => to = "done")
    BY <1>2 DEF Save!Failed
  <2> QED
    BY <1>1, <2>1 DEF Shapes, SaveSteps
<1>9. /\ DOMAIN save' = Servers /\ \A w \in Servers : w # v => save'[w] = save[w]
      /\ save'[v] = IF ok THEN [save[v] EXCEPT !.status = Save!LoadStatus(gone)] ELSE save[v]
  BY <1>1, <1>2 DEF Shapes
<1>10. /\ save'[v] \in Results(v) /\ save'[v].kind = "load" /\ save'[v].id = save[v].id
       /\ save'[v].crew = save[v].crew
       /\ save'[v].status = IF ok THEN Save!LoadStatus(gone) ELSE "LOAD_FAILED"
  BY <1>4, <1>7, <1>9 DEF Results, Statuses
<1>11. /\ kept'[v] = IF deleted /\ worker[v] # "delete" THEN kept[v] \ gone ELSE kept[v]
       /\ kept' \in [Servers -> SUBSET SaveRows]
       /\ \A w \in Servers : w # v => kept'[w] = kept[w]
  BY <1>1, <1>2 DEF Shapes, Tables
<1>12. Shapes'
  <2>1. remote' \subseteq SaveRows /\ doubt' \in BOOLEAN
    BY <1>1, <1>2 DEF Shapes, Tables
  <2> QED
    BY <1>1, <1>2, <1>8, <1>9, <1>11, <2>1 DEF Shapes, Tables
<1>13. Frame(v)
  <2>1. ASSUME NEW w \in Servers, w # v PROVE Same(w)
    BY <1>2, <1>8, <1>9, <1>11, <2>1 DEF Same
  <2>2. saves \in Nat /\ saves' = saves /\ left' = left
    BY <1>1, <1>2 DEF Shapes
  <2>3. (doubt => doubt') /\ (givenUp => givenUp')
    BY <1>2
  <2> QED
    BY <2>1, <2>2, <2>3 DEF Frame
<1>14. ByPool(v)
  BY <1>2, <1>8, <1>10 DEF ByPool
<1>15. Stage(v)'
  <2>1. save'[v].status = "LOAD_SUCCESS" => worker'[v] = "done"
    BY <1>8, <1>10
  <2> QED
    BY <1>4, <1>8, <1>10, <2>1 DEF Stage
<1>16. Backups(v)'
  BY <1>1, <1>2, <1>4, <1>10 DEF SaveServer, Backups
<1>17. ~Carrying(v) /\ (Carrying(v)' <=> ok /\ Save!LoadStatus(gone) = "LOAD_SUCCESS")
  BY <1>2, <1>7, <1>10 DEF Carrying
\* Unless a database has lied, a save that was deleted is on its way.
<1>18. ASSUME ~doubt', deleted, gone # {}
       PROVE  /\ ok /\ Carrying(v)' /\ Alone
              /\ IF worker[v] = "delete" THEN remote = gone ELSE kept[v] = gone
  <2>1. ok /\ Alone
    BY <1>2, <1>18 DEF SaveInv
  <2>2. PICK row \in gone : TRUE
    BY <1>18
  <2>3. CASE worker[v] = "delete"
    <3>1. remote = {row} /\ gone = {row}
      BY <1>3, <2>1, <2>2, <2>3 DEF Alone
    <3> QED
      BY <1>6, <1>17, <2>1, <2>3, <3>1
  <2>4. CASE worker[v] # "delete"
    <3>1. kept[v] = {row} /\ gone = {row}
      BY <1>3, <2>1, <2>2, <2>4 DEF Alone
    <3> QED
      BY <1>6, <1>17, <2>1, <2>4, <3>1
  <2> QED
    BY <2>3, <2>4
<1>19. ASSUME ~doubt' PROVE Alone'
  <2>1. CASE ~deleted \/ gone = {}
    <3>1. remote' = remote /\ kept'[v] = kept[v]
      BY <1>2, <1>11, <2>1
    <3>2. ~Carrying(v)'
      BY <1>2, <1>5, <1>17, <2>1
    <3> QED
      BY <1>13, <1>14, <1>19, <3>1, <3>2, StillAlone, PoolServer
  <2>2. CASE deleted /\ gone # {}
    <3>1. \A w \in Servers : ~Holds(w)
      BY <1>18, <1>19, <2>2 DEF Alone
    <3>2. \A w \in Servers : w # v => ~Holds(w)'
      BY <1>13, <3>1, OtherHolds DEF Frame
    <3>3. remote' = {} /\ \A w \in Servers : kept'[w] = {}
      <4>1. CASE worker[v] = "delete"
        <5>1. remote = gone /\ \A w \in Servers : kept[w] = {}
          BY <1>18, <1>19, <2>2, <4>1 DEF Alone
        <5> QED
          BY <1>2, <2>2, <4>1, <5>1
      <4>2. CASE worker[v] # "delete"
        <5>1. kept[v] = gone /\ remote = {} /\ \A w \in Servers : w # v => kept[w] = {}
          BY <1>18, <1>19, <2>2, <4>2 DEF Alone
        <5> QED
          BY <1>2, <1>11, <2>2, <4>2, <5>1
      <4> QED
        BY <4>1, <4>2
    <3> HIDE DEF Holds
    <3> QED
      BY <3>2, <3>3 DEF Alone
  <2> QED
    BY <2>1, <2>2
<1>20. ASSUME ~doubt', ~givenUp' PROVE Somewhere'
  <2>1. ASSUME deleted, NEW row \in gone, row.id = saves PROVE With(v)'
    <3>1. Carrying(v)' /\ save'[v].id = saves'
      BY <1>2, <1>3, <1>10, <1>18, <1>20, <2>1
    <3> QED
      BY <3>1 DEF With
  <2>2. ASSUME NEW row \in remote, row.id = saves PROVE row \in remote' \/ With(v)'
    BY <1>2, <2>1, <2>2
  <2>3. ASSUME NEW row \in kept[v], row.id = saves PROVE With(v)'
    <3>1. CASE row \in kept'[v]
      BY <1>2, <2>3, <3>1 DEF With
    <3>2. CASE row \notin kept'[v]
      BY <1>11, <2>1, <2>3, <3>2
    <3> QED
      BY <3>1, <3>2
  <2>4. With(v) => With(v)'
    BY <1>2, <1>8, <1>17, <2>3 DEF With
  <2> QED
    BY <1>2, <1>13, <1>20, <2>2, <2>4, StillSomewhere
<1> QED
  BY <1>12, <1>13, <1>14, <1>15, <1>16, <1>19, <1>20, StepOf, PoolServer DEF SaveServer

-----------------------------------------------------------------------------
(* The answer. *)

\* The players whom ProcessSaveTeam lets run on.
LEMMA Restored ==
    ASSUME SaveInv, NEW v \in Servers, Save!Restore(v), saving[v], worker[v] = "done"
    PROVE  /\ DOMAIN tee' = Servers
           /\ tee'[v] \in [Slots[v] -> Tees \cup {Nobody}]
           /\ \A w \in Servers : w # v => tee'[w] = tee[w]
           /\ \A s \in Slots[v] : tee'[v][s] # Nobody =>
                  s \in members[v] /\ tee'[v][s].id = save[v].id /\ tee'[v][s].name = who[v][s]
           /\ \A s \in members[v] : tee'[v][s] # Nobody
<1>1. SaveServer(v) /\ Shapes
  BY DEF SaveInv
<1>2. tee' = [tee EXCEPT ![v] = [s \in Slots[v] |->
                  IF \E m \in Save!Back(v) : m.slot = s
                  THEN [id |-> save[v].id, name |-> (CHOOSE m \in Save!Back(v) : m.slot = s).name]
                  ELSE tee[v][s]]]
  BY <1>1 DEF Save!Restore, Shapes
<1>3. ASSUME NEW s \in Slots[v]
      PROVE  tee'[v][s] = IF s \in members[v] THEN [id |-> save[v].id, name |-> who[v][s]] ELSE Nobody
  <2>1. tee[v][s] = Nobody
    BY <1>1, <1>3 DEF SaveServer, Own
  <2>2. tee'[v][s] = IF \E m \in Save!Back(v) : m.slot = s
                     THEN [id |-> save[v].id, name |-> (CHOOSE m \in Save!Back(v) : m.slot = s).name]
                     ELSE Nobody
    BY <1>1, <1>2, <1>3, <2>1 DEF Shapes
  <2>3. CASE s \in members[v]
    <3>1. \E m \in Save!Back(v) : m.slot = s
      BY <1>1, <2>3 DEF SaveServer, Seats, Save!Back
    <3>2. \A m \in Save!Back(v) : m.slot = s => m.name = who[v][s]
      BY <1>1 DEF SaveServer, Seats, Save!Back
    <3> QED
      BY <2>2, <2>3, <3>1, <3>2
  <2>4. CASE s \notin members[v]
    BY <2>2, <2>4 DEF Save!Back
  <2> QED
    BY <2>3, <2>4
<1>4. ASSUME NEW s \in members[v]
      PROVE  /\ s \in Slots[v] /\ [id |-> save[v].id, name |-> who[v][s]] \in Tees
             /\ tee'[v][s] # Nobody
  <2>1. s \in Slots[v] /\ who[v][s] \in Names /\ save[v].id \in Nat
    BY <1>1, <1>4 DEF SaveServer, ServerType, Seats, Results
  <2>2. [id |-> save[v].id, name |-> who[v][s]] \in Tees
    BY <2>1 DEF Tees
  <2> QED
    BY <1>3, <1>4, <2>1, <2>2, SaveAssumption DEF Save!SaveConstants, Tees
<1>5. tee'[v] = [s \in Slots[v] |->
                  IF \E m \in Save!Back(v) : m.slot = s
                  THEN [id |-> save[v].id, name |-> (CHOOSE m \in Save!Back(v) : m.slot = s).name]
                  ELSE tee[v][s]]
  BY <1>1, <1>2 DEF Shapes
<1>6. tee'[v] \in [Slots[v] -> Tees \cup {Nobody}]
  <2>1. \A s \in Slots[v] : tee'[v][s] \in Tees \cup {Nobody}
    BY <1>3, <1>4
  <2>2. tee'[v] = [s \in Slots[v] |-> tee'[v][s]]
    BY <1>5
  <2> QED
    BY <2>1, <2>2
<1>7. DOMAIN tee' = Servers /\ \A w \in Servers : w # v => tee'[w] = tee[w]
  BY <1>1, <1>2 DEF Shapes
<1>8. ASSUME NEW s \in Slots[v], tee'[v][s] # Nobody
      PROVE  s \in members[v] /\ tee'[v][s].id = save[v].id /\ tee'[v][s].name = who[v][s]
  <2>1. s \in members[v]
    BY <1>3, <1>8
  <2>2. tee'[v][s] = [id |-> save[v].id, name |-> who[v][s]]
    BY <1>3, <2>1
  <2> QED
    BY <2>1, <2>2
<1> QED
  BY <1>4, <1>6, <1>7, <1>8

LEMMA ProcessSaveTeamKeeps ==
    ASSUME SaveInv, NEW v \in Servers, Save!ProcessSaveTeam(v)
    PROVE  SaveInv'
<1> USE DEF Save!tables
<1> DEFINE status == save[v].status
           won  == saving[v] /\ status \in {"SAVE_SUCCESS", "SAVE_FALLBACKFILE"}
           back == saving[v] /\ status \in {"SAVE_FAILED", "LOAD_SUCCESS"} /\ members[v] # {}
<1>1. SaveServer(v) /\ Shapes
  BY DEF SaveInv
<1>2. /\ worker[v] = "done"
      /\ worker' = [worker EXCEPT ![v] = "idle"]
      /\ saving' = [saving EXCEPT ![v] = FALSE]
      /\ save' = [save EXCEPT ![v] = Save!NoResult]
      /\ givenUp' = (givenUp \/ (status \in {"SAVE_FAILED", "LOAD_SUCCESS"} /\ v \in left))
      /\ left' = left \ {v}
      /\ UNCHANGED <<who, remote, kept, tmp, saves, joins, doubt>>
  BY DEF Save!ProcessSaveTeam
<1>3. /\ won => Save!Dismiss(v, members[v]) /\ Save!Kill(v, members[v])
      /\ back => Save!Restore(v)
      /\ ~won /\ ~back => UNCHANGED <<members, team, tee>>
  BY DEF Save!ProcessSaveTeam
<1>4. /\ worker'[v] = "idle" /\ ~saving'[v] /\ save'[v] = Save!NoResult
      /\ worker' \in [Servers -> SaveSteps] /\ saving' \in [Servers -> BOOLEAN]
      /\ DOMAIN save' = Servers
      /\ \A w \in Servers : w # v =>
             worker'[w] = worker[w] /\ saving'[w] = saving[w] /\ save'[w] = save[w]
  BY <1>1, <1>2 DEF Shapes, SaveSteps
<1>5. ASSUME NEW s \in Slots[v] PROVE tee[v][s] = Nobody
  BY <1>1, <1>2, <1>5 DEF SaveServer, Own
<1>6. /\ members'[v] = IF won THEN {} ELSE members[v]
      /\ team'[v] = IF won THEN "empty" ELSE IF back THEN "started" ELSE team[v]
      /\ \A w \in Servers : w # v => members'[w] = members[w] /\ team'[w] = team[w]
      /\ members' \in [Servers -> SUBSET UNION {Slots[w] : w \in Servers}]
      /\ team' \in [Servers -> {"empty", "open", "started"}]
  <2>1. CASE won
    BY <1>1, <1>3, <2>1, Dismissed
  <2>2. CASE back
    BY <1>1, <1>3, <2>2 DEF Save!Restore, Shapes
  <2>3. CASE ~won /\ ~back
    BY <1>1, <1>3, <2>3 DEF Shapes
  <2> QED
    BY <2>1, <2>2, <2>3
<1>7. /\ DOMAIN tee' = Servers
      /\ tee'[v] \in [Slots[v] -> Tees \cup {Nobody}]
      /\ \A w \in Servers : w # v => tee'[w] = tee[w]
      /\ \A s \in Slots[v] : tee'[v][s] # Nobody =>
             /\ back /\ s \in members[v]
             /\ tee'[v][s].id = save[v].id /\ tee'[v][s].name = who[v][s]
      /\ back => \A s \in members[v] : tee'[v][s] # Nobody
  <2>1. CASE won
    BY <1>1, <1>3, <1>5, <2>1, Killed DEF SaveServer
  <2>2. CASE back
    BY <1>2, <1>3, <2>2, Restored
  <2>3. CASE ~won /\ ~back
    BY <1>1, <1>3, <1>5, <2>3 DEF Shapes, SaveServer, ServerType
  <2> QED
    BY <2>1, <2>2, <2>3
<1>8. Save!NoResult \in Results(v) /\ Save!NoResult.kind = "none" /\ Save!NoResult.status = "none"
  BY DEF Save!NoResult, Results, SaveCodes, Statuses
<1>9. Shapes'
  <2>1. givenUp' \in BOOLEAN /\ left' \subseteq Servers
    BY <1>1, <1>2 DEF Shapes
  <2> QED
    BY <1>1, <1>2, <1>4, <1>6, <1>7, <2>1 DEF Shapes, Tables
<1>10. Frame(v)
  <2>1. ASSUME NEW w \in Servers, w # v PROVE Same(w) /\ (w \in left => w \in left')
    BY <1>2, <1>4, <1>6, <1>7, <2>1 DEF Same
  <2>2. saves \in Nat /\ saves' = saves
    BY <1>1, <1>2 DEF Shapes
  <2>3. (doubt => doubt') /\ (givenUp => givenUp')
    BY <1>2
  <2> QED
    BY <2>1, <2>2, <2>3 DEF Frame
<1>11. ServerType(v)'
  BY <1>1, <1>2, <1>4, <1>6, <1>7, <1>8 DEF SaveServer, ServerType, Results, CrewOf
<1>12. Stage(v)'
  BY <1>4, <1>8 DEF Stage, Save!NoResult
<1>13. Seats(v)'
  <2>1. \A s \in members'[v] : who'[v][s] # Nobody
    BY <1>1, <1>2, <1>6 DEF SaveServer, Seats
  <2>2. team'[v] # "empty" => members'[v] # {}
    BY <1>1, <1>6 DEF SaveServer, Seats
  <2> QED
    BY <1>4, <2>1, <2>2 DEF Seats
<1>14. Own(v)'
  <2>1. \A s \in Slots[v] : tee'[v][s] # Nobody => s \in members'[v] /\ team'[v] = "started"
    BY <1>6, <1>7
  <2> QED
    BY <1>2, <1>4, <1>7, <2>1 DEF Own
<1>15. Backups(v)'
  BY <1>1, <1>2, <1>4, <1>8 DEF SaveServer, Backups
<1>16. ~Carrying(v)' /\ (back => Carrying(v))
  BY <1>2, <1>1, <1>4, <1>8 DEF Carrying, SaveServer, Stage
<1>17. Carrying(v) /\ ~back => givenUp'
  <2>1. Carrying(v) => status \in {"SAVE_FAILED", "LOAD_SUCCESS"}
    BY <1>2 DEF Carrying
  <2>2. ~(saving[v] /\ members[v] # {}) => v \in left
    BY <1>1, <1>2 DEF SaveServer, Seats
  <2> QED
    BY <1>2, <2>1, <2>2
<1>18. ASSUME ~doubt' PROVE Alone'
  <2>1. Holds(v)' => Holds(v)
    BY <1>1, <1>6, <1>7, <1>16 DEF Holds, Save!Running, SaveServer, ServerType
  <2>2. kept'[v] = kept[v] /\ remote' = remote
    BY <1>2
  <2> QED
    BY <1>10, <1>18, <2>1, <2>2, StillAlone
<1>19. ASSUME ~doubt', ~givenUp' PROVE Somewhere'
  <2>1. CASE Carrying(v) /\ save[v].id = saves
    <3>1. back
      BY <1>17, <1>19, <2>1
    <3>2. PICK s \in members[v] : TRUE
      BY <3>1
    <3>3. s \in members'[v] /\ tee'[v][s] # Nobody /\ tee'[v][s].id = saves'
      <4>1. s \in Slots[v] /\ ~won
        BY <1>1, <3>1 DEF SaveServer, ServerType
      <4> QED
        BY <1>2, <1>6, <1>7, <2>1, <3>1, <4>1
    <3>4. With(v)'
      BY <3>3 DEF With
    <3> QED
      BY <3>4 DEF Somewhere
  <2>2. CASE ~(Carrying(v) /\ save[v].id = saves)
    <3>1. ASSUME NEW s \in members[v], tee[v][s] # Nobody PROVE FALSE
      BY <1>1, <1>5, <3>1 DEF SaveServer, ServerType
    <3>2. With(v) => With(v)'
      BY <1>2, <1>4, <2>2, <3>1 DEF With
    <3> QED
      BY <1>2, <1>10, <1>19, <3>2, StillSomewhere
  <2> QED
    BY <2>1, <2>2
<1> QED
  BY <1>9, <1>10, <1>11, <1>12, <1>13, <1>14, <1>15, <1>18, <1>19, StepOf DEF SaveServer

-----------------------------------------------------------------------------
(* The theorems. *)

LEMMA SaveInitially == ASSUME Save!Init PROVE SaveInv
<1> USE DEF Save!Init
<1>1. \A v \in Servers : who[v] \in [Slots[v] -> Names \cup {Nobody}]
  <2> SUFFICES ASSUME NEW v \in Servers PROVE who[v] \in [Slots[v] -> Names \cup {Nobody}]
    OBVIOUS
  <2>1. PICK w \in Servers : who[v] \in [Slots[w] -> Names \cup {Nobody}]
    OBVIOUS
  <2>2. DOMAIN who[v] = Slots[v]
    OBVIOUS
  <2> QED
    BY <2>1, <2>2
<1>2. First \in Servers /\ Nobody \notin Tees
  BY SaveAssumption DEF Save!SaveConstants, Tees
<1>3. saves \in Nat /\ remote = {} /\ ~doubt
  BY SaveAssumption DEF Save!SaveConstants
<1>4. ASSUME NEW v \in Servers
      PROVE  /\ members[v] = IF v = First THEN {s \in Slots[v] : who[v][s] # Nobody} ELSE {}
             /\ team[v] = IF v = First THEN "started" ELSE "empty"
             /\ tee[v] = [s \in Slots[v] |-> IF s \in members[v] THEN [id |-> saves, name |-> who[v][s]]
                                             ELSE Nobody]
             /\ saving[v] = FALSE /\ save[v] = Save!NoResult /\ worker[v] = "idle"
             /\ kept[v] = {} /\ tmp[v] = {}
  BY <1>4
<1>5. Save!NoResult.kind = "none" /\ Save!NoResult.status = "none" /\ Save!NoResult.crew = {}
  BY DEF Save!NoResult
<1>6. Shapes
  <2>1. members \in [Servers -> SUBSET UNION {Slots[v] : v \in Servers}]
    <3>1. \A v \in Servers : members[v] \in SUBSET UNION {Slots[w] : w \in Servers}
      BY <1>4
    <3>2. members = [v \in Servers |-> members[v]]
      OBVIOUS
    <3> QED
      BY <3>1, <3>2
  <2>2. team \in [Servers -> {"empty", "open", "started"}] /\ worker \in [Servers -> SaveSteps]
    BY DEF SaveSteps
  <2>3. DOMAIN who = Servers /\ DOMAIN tee = Servers /\ DOMAIN save = Servers
        /\ saving \in [Servers -> BOOLEAN] /\ doubt \in BOOLEAN /\ givenUp \in BOOLEAN /\ left = {}
    OBVIOUS
  <2> QED
    BY <1>3, <2>1, <2>2, <2>3 DEF Shapes, Tables
<1>7. ASSUME NEW v \in Servers PROVE SaveServer(v)
  <2> HIDE DEF Save!Init
  <2>1. ASSUME NEW s \in members[v]
        PROVE  v = First /\ s \in Slots[v] /\ who[v][s] # Nobody /\ who[v][s] \in Names
    <3>1. v = First /\ members[v] = {u \in Slots[v] : who[v][u] # Nobody}
      BY <1>4, <1>7, <2>1
    <3>2. s \in Slots[v] /\ who[v][s] # Nobody
      BY <2>1, <3>1
    <3> QED
      BY <1>1, <1>7, <3>1, <3>2
  <2>2. ASSUME NEW s \in Slots[v], s \in members[v]
        PROVE  tee[v][s] \in Tees /\ tee[v][s].id = saves /\ tee[v][s].name = who[v][s]
    <3>1. tee[v][s] = [id |-> saves, name |-> who[v][s]]
      BY <1>4, <1>7, <2>2
    <3>2. who[v][s] \in Names
      BY <2>1, <2>2
    <3> QED
      BY <1>3, <3>1, <3>2 DEF Tees
  <2>3. ASSUME NEW s \in Slots[v], s \notin members[v] PROVE tee[v][s] = Nobody
    BY <1>4, <1>7, <2>3
  <2>4. tee[v] \in [Slots[v] -> Tees \cup {Nobody}]
    BY <1>4, <1>7, <2>2, <2>3
  <2>5. save[v] \in Results(v)
    <3>1. Save!NoResult \in Results(v)
      BY DEF Save!NoResult, Results, SaveCodes, Statuses
    <3> QED
      BY <1>4, <1>7, <3>1
  <2>6. ServerType(v)
    BY <1>1, <1>7, <2>1, <2>4, <2>5 DEF ServerType
  <2>7. Stage(v)
    BY <1>4, <1>5, <1>7 DEF Stage
  <2>8. Seats(v)
    <3>1. team[v] # "empty" => members[v] # {}
      <4>1. members[First] # {}
        BY DEF Save!Init
      <4> QED
        BY <1>4, <1>7, <4>1
    <3> QED
      BY <1>4, <1>7, <2>1, <3>1 DEF Seats
  <2>9. Own(v)
    BY <1>4, <1>7, <2>1, <2>2, <2>3 DEF Own
  <2>10. Backups(v)
    BY <1>4, <1>5, <1>7 DEF Backups
  <2> QED
    BY <2>6, <2>7, <2>8, <2>9, <2>10 DEF SaveServer
<1>8. Alone
  <2>1. ASSUME NEW v \in Servers, Holds(v) PROVE v = First
    <3>1. ~Carrying(v)
      BY <1>4, <1>5, <2>1 DEF Carrying
    <3>2. members[v] # {}
      BY <2>1, <3>1 DEF Holds, Save!Running
    <3> QED
      BY <1>4, <2>1, <3>2
  <2> HIDE DEF Save!Init, Holds
  <2> QED
    BY <1>3, <1>4, <2>1 DEF Alone
<1>9. Somewhere
  <2>1. PICK s \in members[First] : TRUE
    OBVIOUS
  <2>2. s \in Slots[First] /\ tee[First][s] = [id |-> saves, name |-> who[First][s]]
    BY <1>2, <1>4, <2>1
  <2>3. who[First][s] \in Names
    BY <1>1, <1>2, <1>4, <2>1, <2>2
  <2>4. tee[First][s] # Nobody /\ tee[First][s].id = saves
    BY <1>2, <1>3, <2>2, <2>3 DEF Tees
  <2>5. With(First)
    BY <2>1, <2>4 DEF With
  <2> QED
    BY <1>2, <2>5 DEF Somewhere
<1> HIDE DEF Save!Init
<1> QED
  BY <1>6, <1>7, <1>8, <1>9 DEF SaveInv

LEMMA SaveStutters == ASSUME SaveInv, UNCHANGED Save!vars PROVE SaveInv'
<1> USE DEF Save!vars, Save!game, Save!tables, Save!counts
<1>1. /\ UNCHANGED <<who, members, team, tee, saving, save, worker, remote, kept, tmp, saves>>
      /\ UNCHANGED <<left, givenUp, doubt>>
  OBVIOUS
<1>2. ASSUME NEW v \in Servers PROVE SaveServer(v)'
  <2>1. SaveServer(v)
    BY <1>2 DEF SaveInv
  <2>2. ServerType(v)' /\ Stage(v)'
    BY <1>1, <2>1 DEF SaveServer, ServerType, Stage, Results, CrewOf, Save!NoResult
  <2>3. Seats(v)' /\ Own(v)'
    BY <1>1, <2>1 DEF SaveServer, Seats, Own
  <2>4. Backups(v)'
    BY <1>1, <2>1 DEF SaveServer, Backups
  <2> QED
    BY <2>2, <2>3, <2>4 DEF SaveServer
<1>3. Shapes'
  BY <1>1 DEF SaveInv, Shapes, Tables
<1>4. \A v : (Holds(v)' <=> Holds(v)) /\ (With(v)' <=> With(v))
  BY <1>1 DEF Holds, Carrying, Save!Running, With
<1>5. ASSUME ~doubt' PROVE Alone'
  <2>1. Alone
    BY <1>1, <1>5 DEF SaveInv
  <2> HIDE DEF Holds
  <2> QED
    BY <1>1, <1>4, <2>1 DEF Alone
<1>6. ASSUME ~doubt', ~givenUp' PROVE Somewhere'
  <2>1. Somewhere
    BY <1>1, <1>6 DEF SaveInv
  <2> QED
    BY <1>1, <1>4, <2>1 DEF Somewhere
<1> QED
  BY <1>2, <1>3, <1>5, <1>6 DEF SaveInv

\* The invariant that the three properties of saved races rest on.
THEOREM SaveInductive == Save!Spec => []SaveInv
<1>1. Save!Init => SaveInv
  BY SaveInitially
<1>2. ASSUME SaveInv, [Save!Next]_Save!vars PROVE SaveInv'
  <2>1. CASE UNCHANGED Save!vars
    BY <1>2, <2>1, SaveStutters
  <2>2. CASE Save!Next
    <3>1. PICK v \in Servers : \/ Save!Players(v) \/ Save!Reset(v) \/ Save!Requests(v)
                               \/ Save!Pool(v) \/ Save!ProcessSaveTeam(v)
      BY <2>2 DEF Save!Next
    <3>2. CASE Save!Players(v)
      BY <1>2, <3>2, ConnectKeeps, JoinTeamKeeps, DisconnectKeeps, DieKeeps DEF Save!Players
    <3>3. CASE Save!Reset(v)
      BY <1>2, <3>3, ResetKeeps
    <3>4. CASE Save!Requests(v)
      BY <1>2, <3>4, SaveTeamKeeps, LoadTeamKeeps DEF Save!Requests
    <3>5. CASE Save!Pool(v)
      BY <1>2, <3>5, WriteFirstKeeps, WriteSaveKeeps, SettleKeeps, SelectKeeps, DeleteKeeps
         DEF Save!Pool
    <3>6. CASE Save!ProcessSaveTeam(v)
      BY <1>2, <3>6, ProcessSaveTeamKeeps
    <3> QED
      BY <3>1, <3>2, <3>3, <3>4, <3>5, <3>6
  <2> QED
    BY <1>2, <2>1, <2>2
<1> QED
  BY <1>1, <1>2, PTL DEF Save!Spec

\* Nobody gets the character of somebody else when a race is loaded, whoever
\* has come into the slot since it was asked for (CSaveTeam::Load).
THEOREM TeesReturn == Save!Spec => []OwnTee
<1>1. ASSUME SaveInv PROVE OwnTee
  BY <1>1 DEF SaveInv, SaveServer, Own, OwnTee, Save!OwnTee
<1> QED
  BY <1>1, SaveInductive, PTL

\* A race that was saved is with a team, with the database or on its way
\* between them, whatever happens to the team in the meantime, until a
\* database lies or the players give it up.
THEOREM RaceIsKept == Save!Spec => []NotLost
<1>1. ASSUME SaveInv PROVE NotLost
  <2>1. CASE doubt \/ givenUp
    BY <2>1 DEF NotLost, Save!NotLost
  <2>2. CASE ~doubt /\ ~givenUp
    <3>1. Somewhere /\ First \in Servers
      BY <1>1, <2>2, SaveAssumption DEF SaveInv, Save!SaveConstants
    <3>2. CASE \E row \in remote : row.id = saves
      BY <3>1, <3>2 DEF NotLost, Save!NotLost
    <3>3. CASE \E v \in Servers : With(v)
      BY <3>3 DEF NotLost, Save!NotLost, With, Carrying
    <3> QED
      BY <3>1, <3>2, <3>3 DEF Somewhere
  <2> QED
    BY <2>1, <2>2
<1> QED
  BY <1>1, SaveInductive, PTL

LEMMA CountAtMostOne ==
    ASSUME NEW S, \A x, y \in S : x = y
    PROVE  Save!Cardinality(S) = (IF S = {} THEN 0 ELSE 1)
<1>1. CASE S = {}
  BY <1>1, FS_EmptySet, SameCount
<1>2. CASE S # {}
  <2>1. PICK x \in S : S = {x}
    BY <1>2
  <2>2. Cardinality({x}) = 1
    BY FS_Singleton
  <2> QED
    BY <1>2, <2>1, <2>2, SameCount
<1> QED
  BY <1>1, <1>2

\* A race is never doubled: it is with one team, or in one row that can be
\* loaded, however many servers load it at the same time.
THEOREM RaceIsAlone == Save!Spec => []OneCopy
<1>1. ASSUME SaveInv PROVE OneCopy
  <2> DEFINE rows == UNION {{v} \X kept[v] : v \in Servers}
             holders == {v \in Servers : Save!Running(v) \/ Save!Arriving(v)}
  <2> SUFFICES ASSUME ~doubt
               PROVE  Save!Cardinality(remote) + Save!Cardinality(rows) + Save!Cardinality(holders) <= 1
    BY DEF OneCopy, Save!OneCopy
  <2>1. Alone
    BY <1>1 DEF SaveInv
  <2>2. \A v \in holders : v \in Servers /\ Holds(v)
    BY DEF Holds, Carrying, Save!Arriving
  <2>3. \A x \in rows : \E v \in Servers : \E row \in kept[v] : x = <<v, row>>
    OBVIOUS
  <2> HIDE DEF rows, holders, Holds
  <2>4. (\A x, y \in holders : x = y) /\ (\A x, y \in remote : x = y)
    BY <2>1, <2>2 DEF Alone
  <2>5. ASSUME NEW x \in rows, NEW y \in rows PROVE x = y
    <3>1. PICK v \in Servers : \E row \in kept[v] : x = <<v, row>>
      BY <2>3
    <3>2. PICK w \in Servers : \E other \in kept[w] : y = <<w, other>>
      BY <2>3
    <3> QED
      BY <2>1, <3>1, <3>2 DEF Alone
  <2>6. /\ remote # {} => rows = {} /\ holders = {}
        /\ rows # {} => holders = {}
    BY <2>1, <2>2, <2>3 DEF Alone
  <2>7. /\ Save!Cardinality(remote) = IF remote = {} THEN 0 ELSE 1
        /\ Save!Cardinality(rows) = (IF rows = {} THEN 0 ELSE 1)
        /\ Save!Cardinality(holders) = (IF holders = {} THEN 0 ELSE 1)
    BY <2>4, <2>5, CountAtMostOne
  <2> QED
    BY <2>6, <2>7
<1> QED
  BY <1>1, SaveInductive, PTL

-----------------------------------------------------------------------------
(* The ring buffer: its memory is cut into blocks in order. *)

\* The headers of blocks, and where the memory behind them ends.
Header == [prev : Ring!Offsets \cup {Ring!None}, next : Ring!Offsets \cup {Ring!None}, free : BOOLEAN, size : Nat]
Rings == [recycles : BOOLEAN, block : [Ring!Offsets -> Header], last : Ring!Offsets, produce : Ring!Offsets, consume : Ring!Offsets]
Heads(r) == {o \in Ring!Offsets : r.block[o].size > 0}
End(r, o) == o + r.block[o].size
Free(r, o) == r.block[o].free

\* Block o ends where the next one starts, and they know each other.
InChain(r, o) ==
    /\ End(r, o) <= Size
    /\ End(r, o) = Size => r.block[o].next = Ring!None
    /\ End(r, o) < Size => /\ r.block[o].next = End(r, o)
                           /\ End(r, o) \in Heads(r) /\ r.block[End(r, o)].prev = o
    /\ o = 0 => r.block[o].prev = Ring!None
    /\ o # 0 => r.block[o].prev \in Heads(r) /\ End(r, r.block[o].prev) = o
    /\ \A q \in Heads(r) : o < q => End(r, o) <= q

\* The blocks fill the memory.
Chain(r) ==
    /\ r \in Rings
    /\ 0 \in Heads(r) /\ r.produce \in Heads(r) /\ r.consume \in Heads(r)
    /\ \A o \in Heads(r) : InChain(r, o)

\* No two free blocks follow each other.
NotBoth(r, o) == End(r, o) < Size => ~(Free(r, o) /\ Free(r, End(r, o)))

\* The items lie between m_pConsume and m_pProduce.  When they go round the
\* end of the memory, a free block may be left there.
Straight(r) == \A o \in Heads(r) : Free(r, o) <=> ~(r.consume <= o /\ o < r.produce)
Wrapped(r) ==
    \A o \in Heads(r) :
        /\ r.produce <= o /\ o < r.consume => Free(r, o)
        /\ o < r.produce => ~Free(r, o)
        /\ o >= r.consume /\ Free(r, o) => End(r, o) = Size /\ r.produce > 0
Order(r) ==
    /\ Free(r, r.consume) => End(r, 0) = Size
    /\ ~Free(r, r.consume) /\ r.consume < r.produce => Straight(r)
    /\ ~Free(r, r.consume) /\ r.produce <= r.consume => Wrapped(r)

RingInv(r) == Chain(r) /\ (\A o \in Heads(r) : NotBoth(r, o)) /\ Order(r)

LEMMA HeadIs ==
    ASSUME NEW r \in Rings, NEW o \in Heads(r)
    PROVE  /\ o \in Ring!Offsets /\ o \in Int /\ o >= 0 /\ o < Size /\ Size \in Int
           /\ r.block[o] \in Header /\ r.block[o].size \in Int /\ r.block[o].size > 0
           /\ End(r, o) \in Int /\ End(r, o) > o /\ End(r, o) > 0
BY RingAssumption DEF Heads, Rings, Header, Ring!Offsets, End

LEMMA NotNone == \A k \in Int : k >= 0 => k # Ring!None
BY DEF Ring!None

\* A block that is not the first follows another one.
LEMMA Before ==
    ASSUME NEW r, Chain(r), NEW o \in Heads(r), o # 0
    PROVE  LET p == r.block[o].prev
           IN p \in Heads(r) /\ p # Ring!None /\ End(r, p) = o /\ p < o /\ r.block[p].next = o
<1>1. r \in Rings /\ InChain(r, o)
  BY DEF Chain
<1>2. r.block[o].prev \in Heads(r) /\ End(r, r.block[o].prev) = o
  BY <1>1 DEF InChain
<1>3. InChain(r, r.block[o].prev)
  BY <1>2 DEF Chain
<1>4. o < Size /\ r.block[o].prev < o /\ r.block[o].prev >= 0
  BY <1>1, <1>2, HeadIs
<1>5. QED
  BY <1>2, <1>3, <1>4 DEF InChain, Ring!None

\* What is no header has no links.
Tidy(r) == \A o \in Ring!Offsets : r.block[o].size = 0 => r.block[o].next = Ring!None

\* Ring!MergeBack of a block that is free like the one before it.
Merged(r, m, i, p) ==
    /\ Chain(m) /\ Heads(m) = Heads(r) \ {i} /\ i # p
    /\ End(m, p) = End(r, i) /\ Free(m, p) = Free(r, p)
    /\ \A o \in Heads(r) \ {i, p} : End(m, o) = End(r, o) /\ Free(m, o) = Free(r, o)
    /\ m.produce = (IF r.produce = i THEN p ELSE r.produce)
    /\ m.consume = (IF r.consume = i THEN p ELSE r.consume)
    /\ m.recycles = r.recycles
    /\ Tidy(r) => Tidy(m)

LEMMA MergeBackIs ==
    ASSUME NEW r, Chain(r), NEW i \in Heads(r), Ring!CanMerge(r, i)
    PROVE  Merged(r, Ring!MergeBack(r, i), i, r.block[i].prev)
<1> DEFINE p == r.block[i].prev
           n == r.block[i].next
           m == Ring!MergeBack(r, i)
<1>1. r \in Rings /\ i # 0
  BY DEF Chain, InChain, Ring!CanMerge
<1>2. p \in Heads(r) /\ End(r, p) = i /\ p < i /\ r.block[p].next = i
  BY <1>1, Before
<1>3. /\ i \in Ring!Offsets /\ p \in Ring!Offsets /\ i # p /\ r.block[i] \in Header /\ r.block[p] \in Header
      /\ Size \in Int
  BY <1>1, <1>2, HeadIs
<1>4. /\ n \in Ring!Offsets \cup {Ring!None}
      /\ n \in Ring!Offsets => n \in Heads(r) /\ n = End(r, i) /\ n > i /\ n < Size /\ r.block[n].prev = i
      /\ n = Ring!None => End(r, i) = Size
  <2>1. InChain(r, i) /\ i >= 0 /\ End(r, i) > i /\ End(r, i) >= 0 /\ End(r, i) \in Int /\ Size \in Int
    BY <1>1, HeadIs DEF Chain
  <2>2. n \in Ring!Offsets \cup {Ring!None} /\ Ring!None \notin Ring!Offsets
    BY <1>3 DEF Header, Ring!None, Ring!Offsets
  <2>3. CASE End(r, i) = Size
    <3>1. n = Ring!None
      BY <2>1, <2>3 DEF InChain
    <3>2. QED
      BY <2>2, <2>3, <3>1
  <2>4. CASE End(r, i) < Size
    <3>1. n = End(r, i) /\ n \in Heads(r) /\ r.block[n].prev = i
      BY <2>1, <2>4 DEF InChain
    <3>2. n # Ring!None
      <4>1. End(r, i) # Ring!None
        BY <2>1, NotNone
      <4>2. QED
        BY <3>1, <4>1
    <3>3. QED
      <4>1. n > i /\ n < Size
        BY <2>1, <2>4, <3>1
      <4>2. QED
        BY <2>2, <3>1, <3>2, <4>1
  <2>5. End(r, i) = Size \/ End(r, i) < Size
    BY <2>1 DEF InChain
  <2>6. QED
    BY <2>3, <2>4, <2>5
<1> DEFINE blk == [o \in Ring!Offsets |->
                 CASE o = i -> Ring!NoBlock
                   [] o = p -> [r.block[p] EXCEPT !.size = @ + r.block[i].size, !.next = n]
                   [] o = n -> [r.block[n] EXCEPT !.prev = p]
                   [] OTHER -> r.block[o]]
<1>5. m = [recycles |-> r.recycles, block |-> blk, last |-> IF n = Ring!None THEN p ELSE r.last,
           produce |-> IF r.produce = i THEN p ELSE r.produce,
           consume |-> IF r.consume = i THEN p ELSE r.consume]
  BY <1>1 DEF Ring!MergeBack, Rings
<1>50. ASSUME NEW o \in Ring!Offsets
       PROVE  blk[o] = CASE o = i -> Ring!NoBlock
                         [] o = p -> [r.block[p] EXCEPT !.size = @ + r.block[i].size, !.next = n]
                         [] o = n -> [r.block[n] EXCEPT !.prev = p]
                         [] OTHER -> r.block[o]
  OBVIOUS
<1>51. ASSUME NEW o \in Ring!Offsets
       PROVE  blk[o] = IF o = i THEN Ring!NoBlock
                       ELSE IF o = p THEN [r.block[p] EXCEPT !.size = @ + r.block[i].size, !.next = n]
                       ELSE IF o = n THEN [r.block[n] EXCEPT !.prev = p] ELSE r.block[o]
  <2>1. o = n => n # i /\ n # p
    BY <1>2, <1>3, <1>4 DEF Ring!Offsets
  <2> HIDE DEF n, p, m, blk
  <2>2. QED
    BY <1>3, <1>50, <2>1
<1>52. m.block = blk /\ blk = [o \in Ring!Offsets |-> blk[o]]
  BY <1>5
<1> HIDE DEF m, n, p, blk
<1>6. m.block[i] = Ring!NoBlock
  BY <1>3, <1>51, <1>52
<1>7. /\ m.block[p] \in Header
      /\ m.block[p].size = r.block[p].size + r.block[i].size /\ m.block[p].next = n
      /\ m.block[p].prev = r.block[p].prev /\ m.block[p].free = r.block[p].free
  <2>1. m.block[p] = [r.block[p] EXCEPT !.size = @ + r.block[i].size, !.next = n]
    BY <1>3, <1>51, <1>52
  <2>2. /\ r.block[p].size \in Nat /\ r.block[i].size \in Nat /\ r.block[p].free \in BOOLEAN
        /\ r.block[p].prev \in Ring!Offsets \cup {Ring!None} /\ n \in Ring!Offsets \cup {Ring!None}
    BY <1>3, <1>4 DEF Header
  <2>3. r.block[p] = [prev |-> r.block[p].prev, next |-> r.block[p].next,
                      free |-> r.block[p].free, size |-> r.block[p].size]
    BY <1>3 DEF Header
  <2>4. m.block[p] = [prev |-> r.block[p].prev, next |-> n,
                      free |-> r.block[p].free, size |-> r.block[p].size + r.block[i].size]
    BY <2>1, <2>3
  <2>5. r.block[p].size + r.block[i].size \in Nat
    BY <2>2
  <2>6. m.block[p] \in Header
    BY <2>2, <2>4, <2>5 DEF Header
  <2>7. QED
    BY <2>4, <2>6
<1>8. ASSUME n \in Ring!Offsets
      PROVE  /\ m.block[n] \in Header
             /\ m.block[n].size = r.block[n].size /\ m.block[n].next = r.block[n].next
             /\ m.block[n].prev = p /\ m.block[n].free = r.block[n].free
  <2>1. r.block[n] \in Header
    BY <1>1, <1>8 DEF Rings
  <2>2. n # i /\ n # p
    BY <1>2, <1>3, <1>4, <1>8 DEF Ring!Offsets
  <2>3. m.block[n] = [r.block[n] EXCEPT !.prev = p]
    BY <1>51, <1>52, <1>8, <2>2
  <2>4. QED
    BY <1>3, <2>1, <2>3 DEF Header
<1>9. ASSUME NEW o \in Ring!Offsets \ {i, p, n}
      PROVE  m.block[o] = r.block[o]
  BY <1>51, <1>52
<1>10. m.block \in [Ring!Offsets -> Header]
  <2>1. Ring!NoBlock \in Header
    BY DEF Ring!NoBlock, Header
  <2>2. \A o \in Ring!Offsets : m.block[o] \in Header
    <3> TAKE o \in Ring!Offsets
    <3>1. r.block[o] \in Header
      BY <1>1 DEF Rings
    <3>2. QED
      BY <1>6, <1>7, <1>8, <1>9, <2>1, <3>1
  <2>3. m.block = [o \in Ring!Offsets |-> m.block[o]]
    BY <1>52
  <2>4. QED
    BY <2>2, <2>3
<1>11. m \in Rings /\ m.produce = (IF r.produce = i THEN p ELSE r.produce)
       /\ m.consume = (IF r.consume = i THEN p ELSE r.consume) /\ m.recycles = r.recycles
  <2>1. r.last \in Ring!Offsets /\ r.produce \in Ring!Offsets /\ r.consume \in Ring!Offsets /\ r.recycles \in BOOLEAN
    BY <1>1 DEF Rings
  <2>2. QED
    BY <1>3, <1>5, <1>52, <1>10, <2>1 DEF Rings
<1>12. \A o \in Ring!Offsets \ {i} : o # p => m.block[o].size = r.block[o].size /\ m.block[o].free = r.block[o].free
  BY <1>8, <1>9
<1>13. /\ r.block[p].size \in Int /\ r.block[p].size > 0 /\ r.block[i].size \in Int /\ r.block[i].size > 0
  BY <1>1, <1>2, HeadIs
<1>14. Heads(m) = Heads(r) \ {i}
  <2>1. i \notin Heads(m)
    BY <1>6 DEF Heads, Ring!NoBlock
  <2>2. p \in Heads(m)
    BY <1>3, <1>7, <1>13 DEF Heads
  <2>3. \A o \in Ring!Offsets \ {i} : o # p => (o \in Heads(m) <=> o \in Heads(r))
    BY <1>12 DEF Heads
  <2>4. Heads(m) \subseteq Ring!Offsets /\ Heads(r) \subseteq Ring!Offsets
    BY DEF Heads
  <2>5. QED
    BY <1>2, <2>1, <2>2, <2>3, <2>4
<1>15. End(m, p) = End(r, i)
  BY <1>2, <1>3, <1>7, <1>13 DEF End, Ring!Offsets
<1>16. \A o \in Heads(r) \ {i, p} : End(m, o) = End(r, o) /\ Free(m, o) = Free(r, o)
  BY <1>12 DEF End, Free, Heads
<1>17. ASSUME NEW o \in Heads(m)
       PROVE  InChain(m, o)
  <2>1. o \in Heads(r) /\ o # i /\ InChain(r, o) /\ o \in Int /\ o >= 0 /\ o < Size /\ End(r, o) \in Int /\ End(r, o) > o
    BY <1>1, <1>14, <1>17, HeadIs DEF Chain
  <2>2. /\ InChain(r, p) /\ InChain(r, i) /\ p \in Int /\ p >= 0 /\ i \in Int /\ i < Size
        /\ End(r, i) \in Int /\ End(r, i) > i
    BY <1>1, <1>2, HeadIs DEF Chain
  <2>3. CASE o = p
    <3>1. End(m, p) <= Size
      BY <1>15, <2>2 DEF InChain
    <3>2. End(m, p) = Size => m.block[p].next = Ring!None
      BY <1>7, <1>15, <2>2 DEF InChain, n
    <3>3. End(m, p) < Size => /\ m.block[p].next = End(m, p)
                              /\ End(m, p) \in Heads(m) /\ m.block[End(m, p)].prev = p
      <4> SUFFICES ASSUME End(r, i) < Size
                   PROVE m.block[p].next = End(m, p) /\ End(m, p) \in Heads(m) /\ m.block[End(m, p)].prev = p
        BY <1>15
      <4>1. n = End(r, i) /\ n \in Heads(r)
        BY <2>2 DEF InChain, n
      <4>2. n \in Ring!Offsets /\ n # i
        BY <2>2, <4>1 DEF Heads
      <4>3. QED
        BY <1>7, <1>8, <1>14, <1>15, <4>1, <4>2
    <3>4. p = 0 => m.block[p].prev = Ring!None
      BY <1>7, <2>2 DEF InChain
    <3>5. ASSUME p # 0
          PROVE  m.block[p].prev \in Heads(m) /\ End(m, m.block[p].prev) = p
      <4>1. LET q == r.block[p].prev IN q \in Heads(r) /\ End(r, q) = p /\ q < p
        BY <1>2, <3>5, Before
      <4>2. r.block[p].prev \in Heads(r) \ {i, p}
        <5>1. \A q \in Heads(r) : q \in Int
          BY <1>1, HeadIs
        <5>2. QED
          BY <1>2, <2>2, <4>1, <5>1
      <4>3. QED
        BY <1>7, <1>14, <1>16, <4>1, <4>2
    <3>6. \A q \in Heads(m) : p < q => End(m, p) <= q
      <4>1. \A q \in Heads(r) \ {i} : p < q => End(r, i) <= q
        <5> TAKE q \in Heads(r) \ {i}
        <5>1. q \in Int
          BY <1>1, HeadIs
        <5>2. p < q => i <= q
          BY <1>2, <2>2 DEF InChain
        <5>3. i < q => End(r, i) <= q
          BY <2>2 DEF InChain
        <5>4. QED
          BY <2>2, <5>1, <5>2, <5>3
      <4>2. QED
        BY <1>14, <1>15, <4>1
    <3>7. QED
      BY <2>3, <3>1, <3>2, <3>3, <3>4, <3>5, <3>6 DEF InChain
  <2>4. CASE o # p
    <3>1. End(m, o) = End(r, o)
      BY <1>16, <2>1, <2>4
    <3>2. m.block[o].next = r.block[o].next
      BY <1>8, <1>9, <2>1, <2>4 DEF Heads
    <3>3. End(r, o) # i
      <4>1. ASSUME End(r, o) = i
            PROVE  FALSE
        <5>1. r.block[i].prev = o
          BY <2>1, <2>2, <4>1 DEF InChain
        <5>2. QED
          BY <2>4, <5>1 DEF p
      <4>2. QED
        BY <4>1
    <3>4. End(m, o) < Size => /\ m.block[o].next = End(m, o)
                              /\ End(m, o) \in Heads(m) /\ m.block[End(m, o)].prev = o
      <4> SUFFICES ASSUME End(r, o) < Size
                   PROVE m.block[o].next = End(r, o) /\ End(r, o) \in Heads(m) /\ m.block[End(r, o)].prev = o
        BY <3>1
      <4>1. r.block[o].next = End(r, o) /\ End(r, o) \in Heads(r) /\ r.block[End(r, o)].prev = o
        BY <2>1 DEF InChain
      <4>2. End(r, o) \in Ring!Offsets
        BY <4>1 DEF Heads
      <4>3. End(r, o) # n
        <5>1. ASSUME End(r, o) = n
              PROVE  FALSE
          <6>1. r.block[n].prev = i
            BY <1>4, <4>2, <5>1
          <6>2. QED
            BY <2>1, <4>1, <5>1, <6>1
        <5>2. QED
          BY <5>1
      <4>4. m.block[End(r, o)].prev = o
        BY <1>7, <1>9, <3>3, <4>1, <4>2, <4>3
      <4>5. QED
        BY <1>14, <3>2, <3>3, <4>1, <4>4
    <3>5. o = 0 => m.block[o].prev = Ring!None
      <4>1. ASSUME o = 0
            PROVE  m.block[o].prev = Ring!None
        <5>1. r.block[o].prev = Ring!None
          BY <2>1, <4>1 DEF InChain
        <5>2. o # n
          <6>1. n \in Ring!Offsets => n > i
            BY <1>4
          <6>2. QED
            BY <2>1, <2>2, <4>1, <6>1, <1>4, <1>2 DEF Ring!None
        <5>3. QED
          BY <1>9, <2>1, <2>4, <5>1, <5>2 DEF Heads
      <4>2. QED
        BY <4>1
    <3>6. ASSUME o # 0
          PROVE  m.block[o].prev \in Heads(m) /\ End(m, m.block[o].prev) = o
      <4>1. CASE o = n
        <5>1. o \in Ring!Offsets
          BY <2>1 DEF Heads
        <5>2. m.block[o].prev = p /\ End(m, p) = o
          BY <1>4, <1>8, <1>15, <4>1, <5>1
        <5>3. QED
          BY <1>2, <1>3, <1>14, <5>2
      <4>2. CASE o # n
        <5>1. m.block[o].prev = r.block[o].prev
          BY <1>9, <2>1, <2>4, <4>2 DEF Heads
        <5>2. r.block[o].prev \in Heads(r) /\ End(r, r.block[o].prev) = o /\ r.block[r.block[o].prev].next = o
          BY <2>1, <3>6, Before
        <5>3. r.block[o].prev # i
          BY <4>2, <5>2 DEF n
        <5>4. r.block[o].prev # p
          BY <1>2, <2>1, <5>2
        <5>5. QED
          BY <1>14, <1>16, <5>1, <5>2, <5>3, <5>4
      <4>3. QED
        BY <4>1, <4>2
    <3>7. \A q \in Heads(m) : o < q => End(m, o) <= q
      BY <1>14, <2>1, <3>1 DEF InChain
    <3>8. QED
      BY <2>1, <3>1, <3>2, <3>4, <3>5, <3>6, <3>7 DEF InChain
  <2>5. QED
    BY <2>3, <2>4
<1>18. Chain(m)
  <2>1. 0 \in Heads(r) /\ r.produce \in Heads(r) /\ r.consume \in Heads(r)
    BY DEF Chain
  <2>2. 0 \in Heads(m) /\ m.produce \in Heads(m) /\ m.consume \in Heads(m)
    BY <1>1, <1>2, <1>3, <1>11, <1>14, <2>1
  <2>3. QED
    BY <1>11, <1>17, <2>2 DEF Chain
<1>19. Free(m, p) = Free(r, p)
  BY <1>7 DEF Free
<1>20. ASSUME Tidy(r), NEW o \in Ring!Offsets, m.block[o].size = 0
       PROVE  m.block[o].next = Ring!None
  <2>1. CASE o = i
    BY <1>6, <2>1 DEF Ring!NoBlock
  <2>2. CASE o = p
    <3>1. r.block[p].size \in Nat /\ r.block[p].size > 0 /\ r.block[i].size \in Nat
      BY <1>1, <1>2, <1>3 DEF Header, Heads
    <3>2. QED
      BY <1>7, <1>20, <2>2, <3>1
  <2>3. CASE o = n
    BY <1>8, <1>20, <2>3 DEF Tidy
  <2>4. CASE o \notin {i, p, n}
    BY <1>9, <1>20, <2>4 DEF Tidy
  <2>5. QED
    BY <2>1, <2>2, <2>3, <2>4
<1>21. Tidy(r) => Tidy(m)
  BY <1>20 DEF Tidy
<1>22. QED
  BY <1>3, <1>11, <1>14, <1>15, <1>16, <1>18, <1>19, <1>21 DEF Merged, m, p

\* Every nonempty set of natural numbers has a least element.
LEMMA LeastExists ==
    ASSUME NEW S, S \subseteq Nat, S # {}
    PROVE  \E k \in S : \A j \in S : k =< j
<1> DEFINE R == {p \in Nat \X Nat : p[1] < p[2]}
<1>1. R = OpToRel(<, Nat)
  BY Zenon DEF OpToRel
<1>2. IsWellFoundedOn(R, Nat)
  BY ONLY <1>1, NatLessThanWellFounded, Zenon
<1>3. PICK x \in S : \A y \in S : ~(<<y, x>> \in R)
  <2> HIDE DEF R
  <2> QED
    BY <1>2, WFMin
<1>4. \A y \in S : ~(y < x)
  <2> SUFFICES ASSUME NEW y \in S PROVE ~(y < x)
    OBVIOUS
  <2>1. <<y, x>> \in Nat \X Nat
    OBVIOUS
  <2>2. QED
    BY <1>3, <2>1
<1>5. QED
  BY <1>4

\* A set that holds zero, and with each number below N the next one, holds all
\* numbers up to N.
LEMMA UpTo ==
    ASSUME NEW N \in Nat, NEW P, 0 \in P, \A k \in 1 .. N : k - 1 \in P => k \in P
    PROVE  \A k \in 0 .. N : k \in P
<1> DEFINE S == {k \in 0 .. N : k \notin P}
<1> SUFFICES ASSUME S # {} PROVE FALSE
  OBVIOUS
<1>1. PICK k \in S : \A j \in S : k <= j
  <2>1. S \subseteq Nat
    OBVIOUS
  <2> HIDE DEF S
  <2>2. QED
    BY <2>1, LeastExists
<1>2. k \in 1 .. N /\ k - 1 \in 0 .. N /\ k - 1 \notin S
  BY <1>1
<1>3. QED
  BY <1>1, <1>2

\* The states of N steps from x on.
IsRun(g, S, s, x, N) == g \in [0 .. N -> S] /\ g[0] = x /\ \A k \in 1 .. N : g[k] = s[g[k - 1]]

\* A step may be taken any number of times.
LEMMA Iterates ==
    ASSUME NEW S, NEW s \in [S -> S], NEW x \in S, NEW N \in Nat
    PROVE  \E g : IsRun(g, S, s, x, N)
<1> DEFINE Good(g, n) == g[0] = x /\ \A k \in 1 .. n : g[k] = s[g[k - 1]]
           P == {n \in 0 .. N : \E g \in [0 .. n -> S] : Good(g, n)}
<1>1. 0 \in P
  <2> DEFINE h == [k \in 0 .. 0 |-> x]
  <2>1. h \in [0 .. 0 -> S] /\ Good(h, 0)
    OBVIOUS
  <2> HIDE DEF h, Good
  <2>2. QED
    BY <2>1
<1>2. ASSUME NEW n \in 1 .. N, n - 1 \in P
      PROVE  n \in P
  <2>1. PICK g \in [0 .. n - 1 -> S] : Good(g, n - 1)
    BY <1>2
  <2> DEFINE h == [k \in 0 .. n |-> IF k = n THEN s[g[n - 1]] ELSE g[k]]
  <2>2. h \in [0 .. n -> S]
    BY <2>1
  <2>3. Good(h, n)
    BY <2>1
  <2> HIDE DEF h, Good
  <2>4. QED
    BY <2>2, <2>3
<1> HIDE DEF P
<1>3. N \in P
  BY <1>1, <1>2, UpTo
<1>4. QED
  BY <1>3 DEF P, IsRun


LEMMA NextIs ==
    ASSUME NEW r, Chain(r), NEW o \in Heads(r)
    PROVE  /\ Ring!NextBlock(r, o) = (IF End(r, o) = Size THEN 0 ELSE End(r, o))
           /\ Ring!NextBlock(r, o) \in Heads(r)
           /\ End(r, o) = Size \/ (End(r, o) < Size /\ End(r, o) \in Heads(r))
<1>1. r \in Rings /\ InChain(r, o) /\ 0 \in Heads(r)
  BY DEF Chain
<1>2. End(r, o) \in Int /\ End(r, o) >= 0 /\ Size \in Int
  BY <1>1, HeadIs
<1>3. CASE End(r, o) = Size
  <2>1. r.block[o].next = Ring!None
    BY <1>1, <1>3 DEF InChain
  <2>2. QED
    BY <1>1, <1>3, <2>1 DEF Ring!NextBlock
<1>4. CASE End(r, o) < Size
  <2>1. r.block[o].next = End(r, o) /\ End(r, o) \in Heads(r) /\ End(r, o) # Size
    BY <1>1, <1>2, <1>4 DEF InChain
  <2>2. r.block[o].next # Ring!None
    BY <1>2, <2>1, NotNone
  <2>3. QED
    BY <1>4, <2>1, <2>2 DEF Ring!NextBlock
<1>5. End(r, o) = Size \/ End(r, o) < Size
  BY <1>1, <1>2 DEF InChain
<1>6. QED
  BY <1>3, <1>4, <1>5

\* What the blocks are does not change with Free, m_pProduce and m_pConsume.
SameBlocks(r, q) ==
    \A o \in Ring!Offsets : /\ q.block[o].size = r.block[o].size /\ q.block[o].prev = r.block[o].prev
                       /\ q.block[o].next = r.block[o].next

LEMMA SameChain ==
    ASSUME NEW r, Chain(r), NEW q \in Rings, SameBlocks(r, q),
           q.produce \in Heads(r), q.consume \in Heads(r)
    PROVE  Chain(q) /\ Heads(q) = Heads(r) /\ \A o \in Ring!Offsets : End(q, o) = End(r, o)
<1>1. Heads(q) = Heads(r) /\ \A o \in Ring!Offsets : End(q, o) = End(r, o)
  BY DEF SameBlocks, Heads, End
<1>2. ASSUME NEW o \in Heads(q)
      PROVE  InChain(q, o)
  <2>1. InChain(r, o) /\ o \in Ring!Offsets /\ r \in Rings /\ o \in Heads(r)
    BY <1>1 DEF Chain, Heads
  <2>2. /\ q.block[o].size = r.block[o].size /\ q.block[o].prev = r.block[o].prev
        /\ q.block[o].next = r.block[o].next
    BY <2>1 DEF SameBlocks
  <2>3. End(q, o) = End(r, o)
    BY <1>1, <2>1
  <2>4. End(r, o) \in Heads(r) => q.block[End(r, o)].prev = r.block[End(r, o)].prev
    BY DEF SameBlocks, Heads
  <2>5. r.block[o].prev \in Heads(r) => End(q, r.block[o].prev) = End(r, r.block[o].prev)
    BY <1>1 DEF Heads
  <2>6. QED
    BY <1>1, <2>1, <2>2, <2>3, <2>4, <2>5 DEF InChain
<1>3. QED
  BY <1>1, <1>2 DEF Chain

\* m_pConsume moves to another block.
Moved(m, y) == [m EXCEPT !.consume = y]

LEMMA MovedIs ==
    ASSUME NEW m, Chain(m), NEW y \in Heads(m)
    PROVE  LET a == Moved(m, y)
           IN /\ Chain(a) /\ Heads(a) = Heads(m) /\ \A o \in Ring!Offsets : End(a, o) = End(m, o) /\ Free(a, o) = Free(m, o)
              /\ a.block = m.block /\ a.produce = m.produce /\ a.consume = y /\ a.recycles = m.recycles
<1> DEFINE a == Moved(m, y)
<1>1. m \in Rings /\ y \in Ring!Offsets
  BY DEF Chain, Heads
<1>2. a \in Rings /\ a.block = m.block /\ a.produce = m.produce /\ a.consume = y /\ a.recycles = m.recycles
  BY <1>1 DEF Moved, Rings
<1>3. SameBlocks(m, a) /\ \A o \in Ring!Offsets : Free(a, o) = Free(m, o)
  BY <1>2 DEF SameBlocks, Free
<1>4. m.produce \in Heads(m)
  BY DEF Chain
<1> HIDE DEF a
<1>5. Chain(a) /\ Heads(a) = Heads(m) /\ \A o \in Ring!Offsets : End(a, o) = End(m, o)
  BY <1>2, <1>3, <1>4, SameChain
<1>6. QED
  BY <1>2, <1>3, <1>5 DEF a

\* The first item is set free.
SetFree(r) == [r EXCEPT !.block[r.consume].free = TRUE]

LEMMA SetFreeIs ==
    ASSUME NEW r, Chain(r)
    PROVE  LET f == SetFree(r)
           IN /\ Chain(f) /\ Heads(f) = Heads(r) /\ \A o \in Ring!Offsets : End(f, o) = End(r, o)
              /\ \A o \in Heads(r) : Free(f, o) <=> (o = r.consume \/ Free(r, o))
              /\ f.produce = r.produce /\ f.consume = r.consume /\ f.recycles = r.recycles
              /\ \A o \in Ring!Offsets : f.block[o].prev = r.block[o].prev
<1> DEFINE f == SetFree(r)
           c == r.consume
<1>1. r \in Rings /\ c \in Ring!Offsets /\ c \in Heads(r) /\ r.produce \in Heads(r)
  BY DEF Chain, Heads
<1>2. r.block \in [Ring!Offsets -> Header] /\ r.block[c] \in Header
  BY <1>1 DEF Rings
<1> DEFINE blk == [r.block EXCEPT ![c].free = TRUE]
<1>3. f = [recycles |-> r.recycles, block |-> blk, last |-> r.last, produce |-> r.produce, consume |-> c]
  <2>1. r = [recycles |-> r.recycles, block |-> r.block, last |-> r.last, produce |-> r.produce, consume |-> c]
    BY <1>1 DEF Rings
  <2>2. f = [r EXCEPT !.block = blk]
    BY DEF SetFree
  <2> HIDE DEF f, c, blk
  <2>3. QED
    BY <2>1, <2>2
<1>30. f.block = blk
  BY <1>3
<1> HIDE DEF f
<1>4. \A o \in Ring!Offsets \ {c} : f.block[o] = r.block[o]
  BY <1>2, <1>30
<1>5. f.block[c] = [r.block[c] EXCEPT !.free = TRUE]
  BY <1>1, <1>2, <1>30
<1>6. /\ f.block[c] \in Header /\ f.block[c].free
      /\ f.block[c].size = r.block[c].size /\ f.block[c].prev = r.block[c].prev
      /\ f.block[c].next = r.block[c].next
  <2>1. r.block[c] = [prev |-> r.block[c].prev, next |-> r.block[c].next,
                      free |-> r.block[c].free, size |-> r.block[c].size]
    BY <1>2 DEF Header
  <2>2. f.block[c] = [prev |-> r.block[c].prev, next |-> r.block[c].next,
                      free |-> TRUE, size |-> r.block[c].size]
    BY <1>5, <2>1
  <2>3. /\ r.block[c].prev \in Ring!Offsets \cup {Ring!None} /\ r.block[c].next \in Ring!Offsets \cup {Ring!None}
        /\ r.block[c].size \in Nat
    BY <1>2 DEF Header
  <2>4. QED
    BY <2>2, <2>3 DEF Header
<1>7. f.block \in [Ring!Offsets -> Header]
  <2>1. \A o \in Ring!Offsets : f.block[o] \in Header
    BY <1>2, <1>4, <1>6
  <2>2. f.block = [o \in Ring!Offsets |-> f.block[o]]
    BY <1>2, <1>30
  <2>3. QED
    BY <2>1, <2>2
<1>8. f \in Rings /\ f.produce = r.produce /\ f.consume = c /\ f.recycles = r.recycles
  <2>1. r.recycles \in BOOLEAN /\ r.last \in Ring!Offsets /\ r.produce \in Ring!Offsets
    BY <1>1 DEF Rings
  <2>2. f.produce = r.produce /\ f.consume = c /\ f.recycles = r.recycles
    BY <1>3
  <2> HIDE DEF c, blk
  <2>3. blk \in [Ring!Offsets -> Header]
    BY <1>7, <1>30
  <2>4. QED
    BY <1>1, <1>3, <2>1, <2>2, <2>3 DEF Rings
<1>9. SameBlocks(r, f)
  BY <1>4, <1>6 DEF SameBlocks
<1>10. \A o \in Heads(r) : Free(f, o) <=> (o = c \/ Free(r, o))
  BY <1>4, <1>6 DEF Free, Heads
<1>11. Chain(f) /\ Heads(f) = Heads(r) /\ \A o \in Ring!Offsets : End(f, o) = End(r, o)
  BY <1>1, <1>8, <1>9, SameChain
<1>12. QED
  BY <1>8, <1>9, <1>10, <1>11 DEF f, SameBlocks

\* The first item has been set free and merged with the block before it.
Begun(r, m) ==
    /\ Chain(m) /\ m.produce = r.produce /\ m.recycles = r.recycles
    /\ Free(m, m.consume) /\ End(m, m.consume) = End(r, r.consume) /\ m.consume <= r.consume
    /\ Heads(m) \subseteq Heads(r) /\ \A o \in Heads(r) : o \in Heads(m) \/ o = r.consume
    /\ \A o \in Heads(m) : o # m.consume => End(m, o) = End(r, o) /\ Free(m, o) = Free(r, o)
    /\ m.consume # r.consume => Free(r, m.consume) /\ End(r, m.consume) = r.consume /\ r.consume \notin Heads(m)
    /\ \A o \in Heads(m) : o # m.consume => NotBoth(m, o)

LEMMA BegunIs ==
    ASSUME NEW r, RingInv(r), ~Free(r, r.consume)
    PROVE  Begun(r, Ring!MergeBack(SetFree(r), r.consume))
<1> DEFINE f == SetFree(r)
           c == r.consume
           m == Ring!MergeBack(f, c)
<1>1. /\ r \in Rings /\ Chain(r) /\ c \in Heads(r) /\ r.produce \in Heads(r)
      /\ \A o \in Heads(r) : NotBoth(r, o)
  BY DEF RingInv, Chain
<1>2. /\ Chain(f) /\ Heads(f) = Heads(r) /\ \A o \in Ring!Offsets : End(f, o) = End(r, o)
      /\ \A o \in Heads(r) : Free(f, o) <=> (o = c \/ Free(r, o))
      /\ f.produce = r.produce /\ f.consume = c /\ f.recycles = r.recycles
      /\ \A o \in Ring!Offsets : f.block[o].prev = r.block[o].prev
  BY <1>1, SetFreeIs
<1>3. \A o \in Heads(r) : o \in Ring!Offsets /\ o \in Int /\ o >= 0 /\ End(r, o) \in Int /\ End(r, o) > o
  BY <1>1, HeadIs
<1>4. \A o \in Heads(r) : End(r, o) < Size => End(r, o) \in Heads(r) /\ r.block[End(r, o)].prev = o
  BY <1>1 DEF Chain, InChain
<1>40. f \in Rings /\ \A o \in Heads(r) : Free(f, o) \in BOOLEAN /\ Free(r, o) \in BOOLEAN
  <2>1. f \in Rings
    BY <1>2 DEF Chain
  <2>2. QED
    BY <1>1, <1>3, <2>1 DEF Rings, Header, Free
<1> HIDE DEF f
<1>5. CASE Ring!CanMerge(f, c)
  <2> DEFINE p == f.block[c].prev
  <2>1. Merged(f, m, c, p)
    BY <1>1, <1>2, <1>5, MergeBackIs
  <2>2. p # Ring!None /\ Free(f, p) /\ c # 0
    BY <1>2, <1>1, <1>5 DEF Ring!CanMerge, Free, Chain, InChain
  <2>3. p \in Heads(r) /\ End(r, p) = c /\ p < c
    <3>1. LET x == f.block[c].prev IN x \in Heads(f) /\ End(f, x) = c /\ x < c
      BY <1>1, <1>2, <2>2, Before
    <3>2. QED
      BY <1>2, <1>3, <3>1
  <2> HIDE DEF p, m
  <2>4. Free(r, p) /\ p # c
    BY <1>2, <1>3, <2>2, <2>3
  <2>5. /\ Chain(m) /\ Heads(m) = Heads(r) \ {c} /\ End(m, p) = End(r, c) /\ Free(m, p)
        /\ \A o \in Heads(r) \ {c, p} : End(m, o) = End(f, o) /\ Free(m, o) = Free(f, o)
        /\ m.produce = (IF f.produce = c THEN p ELSE f.produce) /\ m.consume = p
        /\ m.recycles = r.recycles
    BY <1>1, <1>2, <1>3, <2>1, <2>2 DEF Merged
  <2>6. \A o \in Heads(r) \ {c, p} : End(m, o) = End(r, o) /\ Free(m, o) = Free(r, o)
    BY <1>2, <1>3, <1>40, <2>5
  <2>7. r.produce # c
    <3> SUFFICES ASSUME r.produce = c PROVE FALSE
      OBVIOUS
    <3>1. c <= c
      BY <1>1, <1>3
    <3>2. Wrapped(r)
      BY <3>1 DEF RingInv, Order
    <3>3. ~Free(r, p)
      BY <2>3, <3>2 DEF Wrapped
    <3>4. QED
      BY <2>4, <3>3
  <2>8. ASSUME NEW o \in Heads(m), o # p
        PROVE  NotBoth(m, o)
    <3>1. o \in Heads(r) /\ o # c /\ End(m, o) = End(r, o) /\ Free(m, o) = Free(r, o) /\ NotBoth(r, o)
      BY <1>1, <2>5, <2>6, <2>8
    <3>2. SUFFICES ASSUME End(r, o) < Size PROVE ~(Free(r, o) /\ Free(m, End(r, o)))
      BY <3>1 DEF NotBoth
    <3>3. End(r, o) \in Heads(r) /\ ~(Free(r, o) /\ Free(r, End(r, o)))
      BY <1>4, <3>1, <3>2 DEF NotBoth
    <3>4. End(r, o) # c
      <4>1. c < Size
        BY <1>1, HeadIs
      <4>2. r.block[c].prev = p
        BY <1>4, <2>3, <4>1
      <4>3. QED
        BY <1>4, <2>8, <3>1, <3>2, <4>2
    <3>5. Free(m, End(r, o)) = Free(r, End(r, o))
      BY <1>40, <2>4, <2>5, <2>6, <3>3, <3>4
    <3>6. QED
      BY <3>3, <3>5
  <2>9. p <= c
    BY <1>1, <1>3, <2>3
  <2>10. QED
    BY <1>2, <2>3, <2>4, <2>5, <2>6, <2>7, <2>8, <2>9 DEF Begun, m, f
<1>6. CASE ~Ring!CanMerge(f, c)
  <2>1. m = f
    BY <1>6 DEF Ring!MergeBack
  <2> HIDE DEF m
  <2>2. \A o \in Heads(r) : o # c => End(f, o) = End(r, o) /\ Free(f, o) = Free(r, o)
    BY <1>2, <1>3, <1>40
  <2>3. ASSUME NEW o \in Heads(r), o # c
        PROVE  NotBoth(f, o)
    <3>1. End(f, o) = End(r, o) /\ Free(f, o) = Free(r, o) /\ NotBoth(r, o) /\ o # Ring!None
      <4>1. o # Ring!None
        BY <1>3, NotNone
      <4>2. QED
        BY <1>1, <2>2, <2>3, <4>1
    <3>2. SUFFICES ASSUME End(r, o) < Size PROVE ~(Free(r, o) /\ Free(f, End(r, o)))
      BY <3>1 DEF NotBoth
    <3>3. End(r, o) \in Heads(r) /\ r.block[End(r, o)].prev = o /\ ~(Free(r, o) /\ Free(r, End(r, o)))
      BY <1>4, <3>1, <3>2 DEF NotBoth
    <3>4. CASE End(r, o) = c
      <4>1. f.block[c].prev = o /\ Free(f, c)
        BY <1>1, <1>2, <1>3, <3>3, <3>4
      <4>2. ~Free(f, o)
        BY <1>6, <3>1, <4>1 DEF Ring!CanMerge, Free
      <4>3. QED
        BY <3>1, <4>2
    <3>5. CASE End(r, o) # c
      BY <2>2, <3>3, <3>5
    <3>6. QED
      BY <3>4, <3>5
  <2>4. c <= c /\ End(f, c) = End(r, c) /\ Free(f, c)
    BY <1>1, <1>2, <1>3
  <2>5. QED
    BY <1>2, <2>1, <2>2, <2>3, <2>4 DEF Begun, m, f
<1>7. QED
  BY <1>5, <1>6

\* All of the memory is one free block.
LEMMA WholeIs ==
    ASSUME NEW s, Chain(s), End(s, 0) = Size, Free(s, 0)
    PROVE  RingInv(s)
<1>1. s \in Rings /\ 0 \in Heads(s) /\ s.consume \in Heads(s) /\ s.produce \in Heads(s) /\ InChain(s, 0)
  BY DEF Chain
<1>2. \A o \in Heads(s) : o = 0
  <2> TAKE o \in Heads(s)
  <2>1. o \in Int /\ o >= 0 /\ o < Size /\ Size \in Int
    BY <1>1, HeadIs
  <2>2. 0 < o => Size <= o
    BY <1>1 DEF InChain
  <2>3. QED
    BY <2>1, <2>2
<1>3. s.consume = 0 /\ s.produce = 0
  BY <1>1, <1>2
<1>4. \A o \in Heads(s) : NotBoth(s, o)
  <2>1. Size \in Int
    BY RingAssumption
  <2>2. ~(Size < Size)
    BY <2>1
  <2>3. NotBoth(s, 0)
    BY <2>2 DEF NotBoth
  <2>4. QED
    BY <1>2, <2>3
<1>5. QED
  BY <1>3, <1>4 DEF RingInv, Order

\* One round of the loop of Ring!PopFirst, and the loop, which goes round once at most.
Skips(q) == q.block[q.consume].free /\ q.consume # q.produce
Round(q) == IF Skips(q) THEN Ring!MergeAndAdvance(q) ELSE q

LEMMA AdvancedIs ==
    ASSUME NEW q, ~Skips(Round(q))
    PROVE  Ring!Advanced(q) = Round(q)
<1> DEFINE b == Round(q)
           E(h) == [k \in 0 .. Size |->
                       IF k = 0 THEN q
                       ELSE LET p == h[k - 1]
                            IN IF p.block[p.consume].free /\ p.consume # p.produce
                               THEN Ring!MergeAndAdvance(p) ELSE p]
           after == CHOOSE h : h = E(h)
           g == [k \in 0 .. Size |-> IF k = 0 THEN q ELSE b]
<1>0. Size \in Nat /\ Size > 0
  BY RingAssumption
<1>1. Round(b) = b
  BY DEF Round
<1>2. \A h : E(h) = [k \in 0 .. Size |-> IF k = 0 THEN q ELSE Round(h[k - 1])]
  BY DEF Round, Skips
<1> HIDE DEF b
<1>3. g = E(g)
  <2>1. \A k \in 0 .. Size : g[k] = (IF k = 0 THEN q ELSE Round(g[k - 1]))
    <3> TAKE k \in 0 .. Size
    <3>1. CASE k = 0
      BY <3>1
    <3>2. CASE k # 0
      <4>1. k - 1 \in 0 .. Size /\ g[k] = b
        BY <1>0, <3>2
      <4>2. g[k - 1] = q \/ g[k - 1] = b
        BY <4>1
      <4>3. QED
        BY <1>1, <3>2, <4>1, <4>2 DEF b
    <3>3. QED
      BY <3>1, <3>2
  <2>2. E(g) = [k \in 0 .. Size |-> IF k = 0 THEN q ELSE Round(g[k - 1])]
    BY <1>2
  <2> HIDE DEF E
  <2>3. QED
    BY <2>1, <2>2
<1>4. after = E(after)
  <2> HIDE DEF E, g
  <2>1. QED
    BY <1>3
<1>5. after = [k \in 0 .. Size |-> IF k = 0 THEN q ELSE Round(after[k - 1])]
  <2> HIDE DEF E, after
  <2>1. QED
    BY <1>2, <1>4
<1>6. Ring!Advanced(q) = after[Size]
  BY DEF Ring!Advanced
<1> HIDE DEF after
<1> DEFINE P == {k \in 0 .. Size : k = 0 \/ after[k] = b}
<1>7. 0 \in P
  BY <1>0
<1>8. ASSUME NEW k \in 1 .. Size, k - 1 \in P
      PROVE  k \in P
  <2>1. k \in 0 .. Size /\ k # 0 /\ k - 1 \in 0 .. Size
    BY <1>0
  <2>2. after[k] = Round(after[k - 1])
    BY <1>5, <2>1
  <2>3. after[k - 1] = q \/ after[k - 1] = b
    BY <1>5, <1>8, <2>1
  <2>4. after[k] = b
    BY <1>1, <2>2, <2>3 DEF b
  <2>5. QED
    BY <2>1, <2>4
<1>9. Size \in P
  <2> HIDE DEF P
  <2>1. QED
    BY <1>0, <1>7, <1>8, UpTo
<1>10. QED
  BY <1>0, <1>6, <1>9 DEF b

LEMMA PopIs ==
    ASSUME NEW r, RingInv(r), ~Ring!IsEmpty(r)
    PROVE  RingInv(Ring!Popped(r))
<1> DEFINE c == r.consume
           P == r.produce
           d == End(r, c)
           m == Ring!MergeBack(SetFree(r), c)
           x == m.consume
           y == Ring!NextBlock(m, x)
           a == Moved(m, y)
<1>1. /\ r \in Rings /\ Chain(r) /\ c \in Heads(r) /\ P \in Heads(r) /\ ~Free(r, c)
      /\ 0 \in Heads(r)
      /\ c < P => Straight(r)
      /\ P <= c => Wrapped(r)
  BY DEF RingInv, Chain, Order, Ring!IsEmpty, Free
<1>2. Begun(r, m)
  BY <1>1, BegunIs
<1>3. Ring!Popped(r) = Ring!MergeBack(Ring!Advanced(a), Ring!Advanced(a).consume)
  <2>1. SetFree(r).consume = c
    BY <1>1, SetFreeIs
  <2>2. Ring!MergeAndAdvance(SetFree(r)) = a
    BY <2>1 DEF Ring!MergeAndAdvance, Moved
  <2>3. QED
    BY <2>2 DEF Ring!Popped, SetFree
<1> HIDE DEF m
<1>4. /\ Chain(m) /\ m \in Rings /\ x \in Heads(m) /\ m.produce = P /\ Free(m, x) /\ End(m, x) = d /\ x <= c
      /\ Heads(m) \subseteq Heads(r) /\ P \in Heads(m) /\ 0 \in Heads(m)
      /\ \A o \in Heads(r) : o \in Heads(m) \/ o = c
      /\ \A o \in Heads(m) : o # x => End(m, o) = End(r, o) /\ Free(m, o) = Free(r, o) /\ NotBoth(m, o)
      /\ \A o \in Heads(m) : o # x => o # c
      /\ x # c => Free(r, x)
  BY <1>2 DEF Begun, Chain
<1>5. y \in Heads(m) /\ y = (IF d = Size THEN 0 ELSE d) /\ (d = Size \/ (d < Size /\ d \in Heads(m)))
  BY <1>4, NextIs
<1>6. /\ Chain(a) /\ Heads(a) = Heads(m) /\ \A o \in Ring!Offsets : End(a, o) = End(m, o) /\ Free(a, o) = Free(m, o)
      /\ a.block = m.block /\ a.produce = P /\ a.consume = y
  BY <1>4, <1>5, MovedIs
<1>7. /\ \A o \in Heads(r) : o \in Ring!Offsets /\ o \in Int /\ o >= 0 /\ o < Size /\ End(r, o) \in Int /\ End(r, o) > o
      /\ \A o \in Heads(m) : End(m, o) \in Int /\ End(m, o) > o /\ o \in Heads(r)
      /\ Size \in Int
  BY <1>1, <1>4, HeadIs, RingAssumption
<1> HIDE DEF y, a
<1>8. /\ \A o \in Heads(m) : End(a, o) = End(m, o) /\ (Free(a, o) <=> Free(m, o))
      /\ End(a, x) = d /\ Free(a, x)
      /\ \A o \in Heads(m) : o # x => End(a, o) = End(r, o) /\ (Free(a, o) <=> Free(r, o))
  BY <1>4, <1>6, <1>7
<1> HIDE DEF x
<1>9. \A o \in Heads(m) : o < d => o < c \/ o = x
  <2> TAKE o \in Heads(m)
  <2>1. c < o => d <= o
    BY <1>1, <1>7 DEF Chain, InChain
  <2>2. o # x => o # c
    BY <1>4
  <2> HIDE DEF c, d
  <2>3. d \in Int /\ c \in Int /\ o \in Int
    BY <1>1, <1>7 DEF d, c
  <2>4. QED
    BY <2>1, <2>2, <2>3
<1>10. P <= c => x >= P
  <2> SUFFICES ASSUME P <= c, x < P PROVE FALSE
    BY <1>1, <1>4, <1>7
  <2>1. Wrapped(r) /\ x # c
    BY <1>1, <1>7
  <2>2. ~Free(r, x)
    BY <1>4, <1>7, <2>1 DEF Wrapped
  <2>3. QED
    BY <1>4, <2>1, <2>2
<1>11. ASSUME \A o \in Heads(r) : o < c => Free(r, o)
       PROVE  x = 0
  <2> SUFFICES ASSUME x # 0 PROVE FALSE
    OBVIOUS
  <2> DEFINE q == m.block[x].prev
  <2>1. q \in Heads(m) /\ End(m, q) = x /\ q < x
    BY <1>4, Before
  <2> HIDE DEF q
  <2>2. q # x /\ q < c /\ x < Size
    BY <1>1, <1>4, <1>7, <2>1
  <2>3. Free(m, q)
    BY <1>4, <1>7, <1>11, <2>1, <2>2
  <2>4. NotBoth(m, q)
    BY <1>4, <2>1, <2>2
  <2>5. QED
    BY <1>4, <2>1, <2>2, <2>3, <2>4 DEF NotBoth
<1>12. \A o \in Heads(m) : o # x => NotBoth(a, o)
  <2> TAKE o \in Heads(m)
  <2> HAVE o # x
  <2>1. NotBoth(m, o) /\ End(a, o) = End(m, o) /\ (Free(a, o) <=> Free(m, o))
    BY <1>4, <1>8
  <2>2. End(m, o) < Size => End(m, o) \in Heads(m)
    BY <1>4, <1>7, NextIs
  <2>3. QED
    BY <1>8, <2>1, <2>2 DEF NotBoth
<1>13. c < P => d <= P
  BY <1>1 DEF Chain, InChain
<1>14. d \in Int /\ c \in Int /\ P \in Int /\ x \in Int /\ x >= 0 /\ c < d /\ c >= 0 /\ P >= 0 /\ P < Size
  BY <1>1, <1>4, <1>7
<1>15. ~Free(a, a.consume) => Ring!MergeBack(a, a.consume) = a
  BY DEF Ring!MergeBack, Ring!CanMerge, Free
<1>16. ~Skips(a) => Ring!Advanced(a) = a
  BY AdvancedIs DEF Round
<1>17. d < Size => a.block[d].prev = x
  BY <1>4, <1>6, <1>7 DEF Chain, InChain
<1>18. CASE y = P /\ d = Size
  <2>1. P = 0
    BY <1>5, <1>18
  <2>2. x = 0
    <3>1. Wrapped(r)
      BY <1>1, <1>14, <2>1
    <3>2. \A o \in Heads(r) : o < c => Free(r, o)
      BY <1>7, <2>1, <3>1 DEF Wrapped
    <3>3. QED
      BY <1>11, <3>2
  <2>3. RingInv(a)
    BY <1>6, <1>8, <1>18, <2>2, WholeIs
  <2>4. ~Skips(a)
    BY <1>6, <1>18 DEF Skips
  <2>5. a.block[0].prev = Ring!None
    BY <1>4, <1>6 DEF Chain, InChain
  <2>6. Ring!MergeBack(a, a.consume) = a
    BY <1>6, <1>18, <2>1, <2>5 DEF Ring!MergeBack, Ring!CanMerge
  <2>7. QED
    BY <1>3, <1>16, <2>3, <2>4, <2>6
<1>19. CASE y = P /\ d # Size
  <2>1. P = d /\ d < Size
    BY <1>5, <1>19
  <2>2. Straight(r)
    BY <1>1, <1>14, <2>1
  <2>3. x = 0
    <3>1. \A o \in Heads(r) : o < c => Free(r, o)
      BY <1>7, <1>14, <2>2 DEF Straight
    <3>2. QED
      BY <1>11, <3>1
  <2>4. P # x /\ Free(a, P)
    <3>1. P # x
      BY <1>4, <1>14, <2>1
    <3>2. Free(r, P)
      BY <1>1, <1>14, <2>2 DEF Straight
    <3>3. QED
      BY <1>4, <1>8, <3>1, <3>2
  <2>5. ~Skips(a)
    BY <1>6, <1>19 DEF Skips
  <2>6. Ring!CanMerge(a, P) /\ a.block[P].prev = 0
    <3>1. a.block[P].prev = 0
      BY <1>17, <2>1, <2>3
    <3>2. QED
      BY <1>8, <2>3, <2>4, <3>1, NotNone DEF Ring!CanMerge, Free
  <2>7. Merged(a, Ring!MergeBack(a, P), P, 0)
    BY <1>4, <1>6, <2>6, MergeBackIs
  <2>8. End(a, P) = Size
    <3> SUFFICES ASSUME End(a, P) # Size PROVE FALSE
      OBVIOUS
    <3>1. End(a, P) < Size /\ End(a, P) \in Heads(m) /\ End(a, P) > P
      <4>1. End(a, P) = End(m, P) /\ End(m, P) > P
        BY <1>4, <1>7, <1>8
      <4>2. End(a, P) < Size /\ End(a, P) \in Heads(m)
        BY <1>4, <1>6, NextIs
      <4>3. QED
        BY <4>1, <4>2
    <3> DEFINE e == End(a, P)
    <3> HIDE DEF e
    <3>2. e \in Heads(m) /\ e > P /\ e # x
      BY <1>4, <1>7, <1>14, <2>1, <3>1 DEF e
    <3>3. Free(r, e)
      BY <1>4, <1>7, <1>14, <2>2, <3>2 DEF Straight
    <3>4. Free(a, e) /\ NotBoth(a, P)
      BY <1>4, <1>8, <1>12, <2>4, <3>2, <3>3
    <3>5. QED
      BY <2>4, <3>1, <3>4 DEF NotBoth, e
  <2>9. RingInv(Ring!MergeBack(a, P))
    BY <1>8, <2>3, <2>7, <2>8, WholeIs DEF Merged
  <2>10. QED
    BY <1>3, <1>6, <1>16, <1>19, <2>5, <2>9
<1>20. CASE y # P /\ ~Free(a, y)
  <2>1. Ring!MergeBack(a, a.consume) = a /\ ~Skips(a)
    BY <1>6, <1>15, <1>20 DEF Skips, Free
  <2>2. \A o \in Heads(a) : NotBoth(a, o)
    <3>1. NotBoth(a, x)
      <4>1. d < Size => ~Free(a, d)
        BY <1>5, <1>14, <1>20
      <4>2. QED
        BY <1>8, <4>1 DEF NotBoth
    <3>2. QED
      BY <1>6, <1>12, <3>1
  <2>3. Order(a)
    <3>1. CASE d = Size
      <4>1. y = 0 /\ P > 0 /\ P <= c
        BY <1>5, <1>13, <1>14, <1>20, <3>1
      <4>2. Straight(a)
        <5>1. ASSUME NEW o \in Heads(m)
              PROVE  Free(a, o) <=> ~(0 <= o /\ o < P)
          <6>1. o \in Int /\ o >= 0 /\ o < Size /\ o \in Heads(r)
            BY <1>7
          <6>2. CASE o = x
            BY <1>8, <1>10, <1>14, <4>1, <6>2
          <6>3. CASE o # x
            <7>1. o < c
              BY <1>9, <3>1, <6>1, <6>3
            <7>2. Free(r, o) <=> P <= o
              BY <1>1, <1>14, <4>1, <6>1, <7>1 DEF Wrapped
            <7>3. Free(a, o) <=> Free(r, o)
              BY <1>8, <6>3
            <7>4. P <= o <=> ~(0 <= o /\ o < P)
              BY <1>14, <6>1
            <7>5. QED
              BY <7>2, <7>3, <7>4
          <6>4. QED
            BY <6>2, <6>3
        <5>2. QED
          BY <1>6, <4>1, <5>1 DEF Straight
      <4>3. QED
        BY <1>6, <1>14, <1>20, <4>1, <4>2 DEF Order
    <3>2. CASE d < Size /\ c < P
      <4>1. y = d /\ d < P
        BY <1>5, <1>13, <1>14, <1>20, <3>2
      <4>2. Straight(a)
        <5>1. ASSUME NEW o \in Heads(m)
              PROVE  Free(a, o) <=> ~(d <= o /\ o < P)
          <6>1. o \in Int /\ o >= 0 /\ o < Size /\ o \in Heads(r)
            BY <1>7
          <6>2. CASE o = x
            BY <1>4, <1>8, <1>14, <4>1, <6>2
          <6>3. CASE o # x
            <7>1. Free(r, o) <=> ~(c <= o /\ o < P)
              BY <1>1, <3>2, <6>1 DEF Straight
            <7>2. Free(a, o) <=> Free(r, o)
              BY <1>8, <6>3
            <7>3. c <= o <=> d <= o
              BY <1>9, <1>14, <6>1, <6>3
            <7>4. QED
              BY <7>1, <7>2, <7>3
          <6>4. QED
            BY <6>2, <6>3
        <5>2. QED
          BY <1>6, <4>1, <5>1 DEF Straight
      <4>3. QED
        BY <1>6, <1>14, <1>20, <4>1, <4>2 DEF Order
    <3>3. CASE d < Size /\ P <= c
      <4>1. y = d /\ P <= d
        BY <1>5, <1>14, <3>3
      <4>2. Wrapped(a)
        <5>1. ASSUME NEW o \in Heads(m)
              PROVE  /\ P <= o /\ o < d => Free(a, o)
                     /\ o < P => ~Free(a, o)
                     /\ o >= d /\ Free(a, o) => End(a, o) = Size /\ P > 0
          <6>1. o \in Int /\ o >= 0 /\ o < Size /\ o \in Heads(r)
            BY <1>7
          <6>2. CASE o = x
            <7>1. ~(o < P) /\ ~(o >= d)
              BY <1>4, <1>10, <1>14, <3>3, <6>2
            <7>2. QED
              BY <1>8, <6>2, <7>1
          <6>3. CASE o # x
            <7>1. /\ P <= o /\ o < c => Free(r, o)
                  /\ o < P => ~Free(r, o)
                  /\ o >= c /\ Free(r, o) => End(r, o) = Size /\ P > 0
              BY <1>1, <3>3, <6>1 DEF Wrapped
            <7>2. (Free(a, o) <=> Free(r, o)) /\ End(a, o) = End(r, o)
              BY <1>8, <6>3
            <7>3. (o < d => o < c) /\ (o >= d => o >= c)
              BY <1>9, <1>14, <6>1, <6>3
            <7>4. QED
              BY <7>1, <7>2, <7>3
          <6>4. QED
            BY <6>2, <6>3
        <5>2. QED
          BY <1>6, <4>1, <5>1 DEF Wrapped
      <4>3. QED
        BY <1>6, <1>14, <1>20, <4>1, <4>2 DEF Order
    <3>4. QED
      BY <1>5, <1>14, <3>1, <3>2, <3>3
  <2>4. RingInv(a)
    BY <1>6, <2>2, <2>3 DEF RingInv
  <2>5. QED
    BY <1>3, <1>16, <2>1, <2>4
<1>21. CASE y # P /\ Free(a, y)
  <2>1. d < Size /\ y = d /\ d # x /\ Free(r, d)
    <3>1. d < Size
      <4> SUFFICES ASSUME d = Size PROVE FALSE
        BY <1>5
      <4>1. y = 0 /\ P > 0 /\ P <= c
        BY <1>5, <1>13, <1>14, <1>21
      <4>2. x # 0 /\ ~Free(r, 0)
        <5>1. x # 0
          BY <1>10, <1>14, <4>1
        <5>2. ~Free(r, 0)
          BY <1>1, <4>1 DEF Wrapped
        <5>3. QED
          BY <5>1, <5>2
      <4>3. QED
        BY <1>4, <1>8, <1>21, <4>1, <4>2
    <3>2. y = d
      BY <1>5, <1>14, <3>1
    <3>3. d # x
      BY <1>4, <1>14
    <3>4. QED
      BY <1>5, <1>8, <1>21, <3>1, <3>2, <3>3
  <2>2. P <= c
    <3> SUFFICES ASSUME c < P PROVE FALSE
      BY <1>14
    <3>1. d < P
      BY <1>13, <1>14, <1>21, <2>1
    <3>2. ~Free(r, d)
      BY <1>1, <1>5, <1>4, <1>14, <2>1, <3>1 DEF Straight
    <3>3. QED
      BY <2>1, <3>2
  <2>3. End(r, d) = Size /\ P > 0
    BY <1>1, <1>4, <1>5, <1>14, <2>1, <2>2 DEF Wrapped
  <2>4. x >= P /\ x # 0
    BY <1>10, <1>14, <2>2, <2>3
  <2> DEFINE m2 == Ring!MergeBack(a, d)
             b == Moved(m2, 0)
  <2>5. Ring!CanMerge(a, d) /\ a.block[d].prev = x
    <3>1. a.block[d].prev = x /\ Free(a, x) /\ Free(a, d) /\ x # Ring!None
      BY <1>8, <1>14, <1>17, <1>21, <2>1, NotNone
    <3>2. QED
      BY <3>1 DEF Ring!CanMerge, Free
  <2>6. Merged(a, m2, d, x)
    BY <1>5, <1>6, <2>1, <2>5, MergeBackIs
  <2> HIDE DEF m2
  <2>7. /\ Chain(m2) /\ Heads(m2) = Heads(m) \ {d} /\ End(m2, x) = Size /\ Free(m2, x)
        /\ \A o \in Heads(m) \ {d, x} : End(m2, o) = End(r, o) /\ (Free(m2, o) <=> Free(r, o)) /\ End(m2, o) = End(a, o)
        /\ m2.produce = P /\ m2.consume = x /\ 0 \in Heads(m2) /\ x \in Heads(m2)
    <3>1. /\ Chain(m2) /\ Heads(m2) = Heads(m) \ {d} /\ End(m2, x) = End(a, d) /\ Free(m2, x)
          /\ \A o \in Heads(m) \ {d, x} : End(m2, o) = End(a, o) /\ Free(m2, o) = Free(a, o)
          /\ m2.produce = P /\ m2.consume = x
      BY <1>6, <1>8, <1>21, <2>1, <2>6 DEF Merged
    <3>2. End(a, d) = Size
      BY <1>5, <1>8, <2>1, <2>3
    <3>3. 0 \in Heads(m2) /\ x \in Heads(m2)
      BY <1>4, <1>14, <2>1, <3>1
    <3>4. QED
      BY <1>8, <3>1, <3>2, <3>3
  <2>8. Ring!NextBlock(m2, x) = 0
    BY <2>7, NextIs
  <2>9. Ring!MergeAndAdvance(a) = b
    BY <1>6, <2>1, <2>7, <2>8 DEF Ring!MergeAndAdvance, Moved, m2
  <2>10. /\ Chain(b) /\ Heads(b) = Heads(m2) /\ b.produce = P /\ b.consume = 0
         /\ \A o \in Ring!Offsets : End(b, o) = End(m2, o) /\ Free(b, o) = Free(m2, o)
    BY <2>7, MovedIs
  <2> HIDE DEF b
  <2>11. /\ \A o \in Heads(m) \ {d, x} : End(b, o) = End(r, o) /\ (Free(b, o) <=> Free(r, o)) /\ End(b, o) = End(a, o)
         /\ End(b, x) = Size /\ Free(b, x) /\ Heads(b) = Heads(m) \ {d}
    BY <1>4, <1>7, <2>7, <2>10
  <2>12. ~Free(b, 0)
    <3>1. ~Free(r, 0)
      BY <1>1, <2>2, <2>3 DEF Wrapped
    <3>2. 0 \in Heads(m) \ {d, x}
      BY <1>4, <1>14, <2>4
    <3>3. QED
      BY <2>11, <3>1, <3>2
  <2>13. Skips(a) /\ ~Skips(b) /\ Ring!MergeBack(b, b.consume) = b
    <3>1. Skips(a)
      BY <1>6, <1>21 DEF Skips, Free
    <3>2. QED
      BY <2>10, <2>12, <3>1 DEF Skips, Free, Ring!MergeBack, Ring!CanMerge
  <2>14. Ring!Advanced(a) = b
    BY <2>9, <2>13, AdvancedIs DEF Round
  <2>15. ASSUME NEW o \in Heads(b)
         PROVE  NotBoth(b, o)
    <3>1. CASE o = x
      BY <1>7, <2>11, <3>1 DEF NotBoth
    <3>2. CASE o # x
      <4>1. o \in Heads(m) \ {d, x} /\ NotBoth(a, o) /\ End(b, o) = End(a, o) /\ (Free(b, o) <=> Free(a, o))
        BY <1>8, <1>12, <2>11, <2>15, <3>2
      <4> SUFFICES ASSUME End(a, o) < Size PROVE ~(Free(a, o) /\ Free(b, End(a, o)))
        BY <4>1 DEF NotBoth
      <4> DEFINE e == End(a, o)
      <4>2. e \in Heads(m) /\ a.block[e].prev = o /\ ~(Free(a, o) /\ Free(a, e))
        BY <1>6, <4>1 DEF Chain, InChain, NotBoth
      <4> HIDE DEF e
      <4>3. e # d
        BY <2>5, <3>2, <4>2
      <4>4. Free(b, e) <=> Free(a, e)
        BY <1>8, <2>11, <4>2, <4>3
      <4>5. QED
        BY <4>2, <4>4 DEF e
    <3>3. QED
      BY <3>1, <3>2
  <2>16. Straight(b)
    <3>1. ASSUME NEW o \in Heads(b)
          PROVE  Free(b, o) <=> ~(0 <= o /\ o < P)
      <4>1. o \in Int /\ o >= 0 /\ o < Size /\ o \in Heads(r) /\ o \in Heads(m) /\ o # d
        BY <1>7, <2>11
      <4>2. CASE o = x
        BY <1>14, <2>4, <2>11, <4>2
      <4>3. CASE o # x
        <5>1. o < c
          <6>1. d < o => Size <= o
            BY <1>1, <1>4, <1>5, <2>1, <2>3, <4>1 DEF Chain, InChain
          <6>2. o < d
            <7>1. Size \in Int
              BY RingAssumption
            <7> HIDE DEF d
            <7>2. QED
              BY <1>14, <4>1, <6>1, <7>1
          <6>3. QED
            BY <1>9, <4>1, <4>3, <6>2
        <5>2. Free(r, o) <=> P <= o
          BY <1>1, <1>14, <2>2, <4>1, <5>1 DEF Wrapped
        <5>3. Free(b, o) <=> Free(r, o)
          BY <2>11, <4>1, <4>3
        <5>4. P <= o <=> ~(0 <= o /\ o < P)
          BY <1>14, <4>1
        <5>5. QED
          BY <5>2, <5>3, <5>4
      <4>4. QED
        BY <4>2, <4>3
    <3>2. QED
      BY <2>10, <3>1 DEF Straight
  <2>17. RingInv(b)
    BY <1>14, <2>3, <2>10, <2>12, <2>15, <2>16 DEF RingInv, Order
  <2>18. QED
    BY <1>3, <2>13, <2>14, <2>17
<1>22. QED
  BY <1>18, <1>19, <1>20, <1>21

\* Free block b has been given to an item, perhaps not all of it.
Handed(r, u, b) ==
    /\ Chain(u) /\ ~Free(u, b) /\ u.consume = r.consume
    /\ u.produce = (IF End(u, b) = Size THEN 0 ELSE End(u, b))
    /\ \A o \in Heads(r) : o # b => End(u, o) = End(r, o) /\ (Free(u, o) <=> Free(r, o))
    /\ \/ Heads(u) = Heads(r) /\ End(u, b) = End(r, b)
       \/ /\ Heads(u) = Heads(r) \cup {End(u, b)} /\ End(u, b) \notin Heads(r)
          /\ End(u, b) < End(r, b) /\ Free(u, End(u, b)) /\ End(u, End(u, b)) = End(r, b)

\* What Ring!Used makes of the headers.
Behind(r, b, n) == b + n
Cuts(r, b, n) == r.block[b].size > n + 1
BlockOf(r, b, n, o) ==
    IF o = b THEN [prev |-> r.block[b].prev, next |-> IF Cuts(r, b, n) THEN Behind(r, b, n) ELSE r.block[b].next,
                   free |-> FALSE, size |-> IF Cuts(r, b, n) THEN n ELSE r.block[b].size]
    ELSE IF Cuts(r, b, n) /\ o = Behind(r, b, n)
         THEN [prev |-> b, next |-> r.block[b].next, free |-> TRUE, size |-> r.block[b].size - n]
    ELSE IF Cuts(r, b, n) /\ o = r.block[b].next THEN [r.block[o] EXCEPT !.prev = Behind(r, b, n)]
    ELSE r.block[o]

\* Where things are when b is cut.
LEMMA CutIs ==
    ASSUME NEW r, Chain(r), NEW b \in Heads(r), NEW n \in 1 .. Size, r.block[b].size >= n
    PROVE  LET e == End(r, b) nx == r.block[b].next rest == Behind(r, b, n)
           IN /\ rest \in Int /\ rest > b /\ nx \in Ring!Offsets \cup {Ring!None}
              /\ nx # b /\ e \in Int /\ e <= Size
              /\ e = Size => nx = Ring!None
              /\ e < Size => nx = e /\ e \in Heads(r) /\ r.block[e].prev = b
              /\ nx \in Ring!Offsets => nx = e /\ e < Size
              /\ Cuts(r, b, n) => /\ rest < e /\ rest \in Ring!Offsets /\ rest \notin Heads(r) /\ nx # rest
                                  /\ r.block[b].size - n \in Nat /\ r.block[b].size - n > 0
<1> DEFINE e == End(r, b)
           nx == r.block[b].next
           rest == Behind(r, b, n)
<1>1. r \in Rings /\ InChain(r, b)
  BY DEF Chain
<1>2. /\ b \in Int /\ b >= 0 /\ b < Size /\ Size \in Int /\ r.block[b].size \in Int /\ r.block[b].size > 0
      /\ e \in Int /\ e > b /\ n \in Int /\ n >= 1 /\ e = b + r.block[b].size /\ r.block[b] \in Header
  BY <1>1, HeadIs DEF End
<1>3. e <= Size
  BY <1>1 DEF InChain
<1>4. nx \in Ring!Offsets \cup {Ring!None}
  BY <1>2 DEF Header
<1>5. e = Size => nx = Ring!None
  BY <1>1 DEF InChain
<1>6. e < Size => nx = e /\ e \in Heads(r) /\ r.block[e].prev = b
  BY <1>1 DEF InChain
<1>7. rest \in Int /\ rest > b /\ rest = b + n
  BY <1>2 DEF Behind
<1> HIDE DEF e, nx, rest
<1>8. nx # b /\ (nx \in Ring!Offsets => nx = e /\ e < Size)
  <2>1. b # Ring!None
    BY <1>2, NotNone
  <2>2. e = Size \/ e < Size
    BY <1>2, <1>3
  <2>3. Ring!None \notin Ring!Offsets
    BY DEF Ring!None, Ring!Offsets
  <2>4. e # b
    BY <1>2
  <2>5. QED
    BY <1>5, <1>6, <2>1, <2>2, <2>3, <2>4
<1>9. ASSUME Cuts(r, b, n)
      PROVE  /\ rest < e /\ rest \in Ring!Offsets /\ rest \notin Heads(r) /\ nx # rest
             /\ r.block[b].size - n \in Nat /\ r.block[b].size - n > 0
  <2>1. r.block[b].size > n + 1
    BY <1>9 DEF Cuts
  <2>2. rest < e
    BY <1>2, <1>7, <2>1
  <2>3. rest \in Ring!Offsets
    BY <1>2, <1>3, <1>7, <2>2 DEF Ring!Offsets
  <2>4. rest \notin Heads(r)
    <3>1. \A q \in Heads(r) : b < q => e <= q
      BY <1>1 DEF InChain, e
    <3>2. ~(e <= rest)
      BY <1>2, <1>7, <2>2
    <3>3. QED
      BY <1>7, <3>1, <3>2
  <2>5. nx # rest
    <3>1. rest # e
      BY <1>7, <1>2, <2>2
    <3>2. QED
      BY <1>8, <2>3, <3>1
  <2>6. r.block[b].size - n \in Nat /\ r.block[b].size - n > 0
    BY <1>2, <2>1
  <2>7. QED
    BY <2>2, <2>3, <2>4, <2>5, <2>6
<1>10. QED
  BY <1>2, <1>3, <1>4, <1>5, <1>6, <1>7, <1>8, <1>9 DEF e, nx, rest

LEMMA BlockIs ==
    ASSUME NEW r, Chain(r), NEW b \in Heads(r), NEW n \in 1 .. Size, r.block[b].size >= n
    PROVE  LET u == Ring!Used(r, b, n)
           IN /\ u \in Rings /\ \A o \in Ring!Offsets : u.block[o] = BlockOf(r, b, n, o)
              /\ u.consume = r.consume /\ u.produce = Ring!NextBlock(u, b) /\ u.recycles = r.recycles
<1> DEFINE old == r.block[b]
           cuts == old.size > n + 1
           rest == b + n
           nx == old.next
           blk == [o \in Ring!Offsets |->
               CASE o = b -> [prev |-> old.prev, next |-> IF cuts THEN rest ELSE old.next,
                              free |-> FALSE, size |-> IF cuts THEN n ELSE old.size]
                 [] cuts /\ o = rest -> [prev |-> b, next |-> old.next, free |-> TRUE, size |-> old.size - n]
                 [] cuts /\ o = old.next -> [r.block[o] EXCEPT !.prev = rest]
                 [] OTHER -> r.block[o]]
           lst == IF cuts /\ nx = Ring!None THEN rest ELSE r.last
           u0 == [r EXCEPT !.block = blk, !.last = IF cuts /\ old.next = Ring!None THEN rest ELSE @]
           u == Ring!Used(r, b, n)
<1>1. r \in Rings /\ b \in Ring!Offsets /\ r.block[b] \in Header
  BY HeadIs DEF Chain
<1>2. /\ rest \in Int /\ rest > b /\ b \in Int /\ nx \in Ring!Offsets \cup {Ring!None} /\ nx # b
      /\ nx \in Ring!Offsets => nx = End(r, b) /\ End(r, b) < Size /\ End(r, b) \in Heads(r)
      /\ cuts => rest \in Ring!Offsets /\ nx # rest /\ old.size - n \in Nat
  <2>1. b \in Int
    BY <1>1, HeadIs
  <2>2. QED
    BY <2>1, CutIs DEF Behind, Cuts
<1>3. u = [u0 EXCEPT !.produce = Ring!NextBlock(u0, b)]
  BY DEF Ring!Used
<1>4. r = [recycles |-> r.recycles, block |-> r.block, last |-> r.last, produce |-> r.produce, consume |-> r.consume]
      /\ r.recycles \in BOOLEAN /\ r.last \in Ring!Offsets /\ r.produce \in Ring!Offsets /\ r.consume \in Ring!Offsets
  BY <1>1 DEF Rings
<1>5. u0 = [r EXCEPT !.block = blk, !.last = lst]
  OBVIOUS
<1>6. ASSUME NEW o \in Ring!Offsets
      PROVE  blk[o] = BlockOf(r, b, n, o)
  <2>1. blk[o] = CASE o = b -> [prev |-> old.prev, next |-> IF cuts THEN rest ELSE old.next,
                              free |-> FALSE, size |-> IF cuts THEN n ELSE old.size]
                   [] cuts /\ o = rest -> [prev |-> b, next |-> old.next, free |-> TRUE, size |-> old.size - n]
                   [] cuts /\ o = nx -> [r.block[o] EXCEPT !.prev = rest]
                   [] OTHER -> r.block[o]
    OBVIOUS
  <2>2. rest # b /\ (cuts => nx # rest) /\ nx # b
    BY <1>2
  <2>3. /\ rest = Behind(r, b, n) /\ cuts = Cuts(r, b, n)
    BY DEF Behind, Cuts
  <2> HIDE DEF blk, old, cuts, rest, nx
  <2>4. CASE o = b
    <3>1. ~(cuts /\ o = rest) /\ ~(cuts /\ o = nx)
      BY <2>2, <2>4
    <3>2. blk[o] = [prev |-> old.prev, next |-> IF cuts THEN rest ELSE old.next,
                              free |-> FALSE, size |-> IF cuts THEN n ELSE old.size]
      BY <2>1, <2>4, <3>1
    <3>3. QED
      BY <2>3, <2>4, <3>2 DEF BlockOf, old
  <2>5. CASE o # b /\ cuts /\ o = rest
    <3>1. ~(cuts /\ o = nx)
      BY <2>2, <2>5
    <3>2. blk[o] = [prev |-> b, next |-> old.next, free |-> TRUE, size |-> old.size - n]
      BY <2>1, <2>5, <3>1
    <3>3. QED
      BY <2>3, <2>5, <3>2 DEF BlockOf, old
  <2>6. CASE o # b /\ ~(cuts /\ o = rest) /\ cuts /\ o = nx
    <3>1. blk[o] = [r.block[o] EXCEPT !.prev = rest]
      BY <2>1, <2>6
    <3>2. QED
      BY <2>3, <2>6, <3>1 DEF BlockOf, nx, old
  <2>7. CASE o # b /\ ~(cuts /\ o = rest) /\ ~(cuts /\ o = nx)
    <3>1. blk[o] = r.block[o]
      BY <2>1, <2>7
    <3>2. QED
      BY <2>3, <2>7, <3>1 DEF BlockOf, nx, old
  <2>8. QED
    BY <2>4, <2>5, <2>6, <2>7
<1>7. blk \in [Ring!Offsets -> Header]
  <2>1. ASSUME NEW o \in Ring!Offsets
        PROVE  blk[o] \in Header
    <3>1. r.block[o] \in Header /\ n \in Nat
      BY <1>1 DEF Rings
    <3>2. CASE o = b
      <4>1. blk[o] = [prev |-> old.prev, next |-> IF cuts THEN rest ELSE nx,
                      free |-> FALSE, size |-> IF cuts THEN n ELSE old.size]
        BY <1>6, <3>2 DEF BlockOf, Behind, Cuts
      <4>2. old.prev \in Ring!Offsets \cup {Ring!None} /\ old.size \in Nat
        BY <1>1 DEF Header
      <4>3. (IF cuts THEN rest ELSE nx) \in Ring!Offsets \cup {Ring!None}
        BY <1>2
      <4>4. (IF cuts THEN n ELSE old.size) \in Nat
        BY <3>1, <4>2
      <4> HIDE DEF blk, old, cuts, rest, nx
      <4>5. QED
        BY <4>1, <4>2, <4>3, <4>4 DEF Header
    <3>3. CASE o # b /\ cuts /\ o = rest
      <4>1. blk[o] = [prev |-> b, next |-> nx, free |-> TRUE, size |-> old.size - n]
        BY <1>6, <3>3 DEF BlockOf, Behind, Cuts
      <4>2. QED
        BY <1>1, <1>2, <3>3, <4>1 DEF Header
    <3>4. CASE o # b /\ ~(cuts /\ o = rest) /\ cuts /\ o = nx
      <4>1. blk[o] = [r.block[o] EXCEPT !.prev = rest]
        BY <1>6, <3>4 DEF BlockOf, Behind, Cuts
      <4>2. QED
        BY <1>2, <3>1, <3>4, <4>1 DEF Header
    <3>5. CASE o # b /\ ~(cuts /\ o = rest) /\ ~(cuts /\ o = nx)
      <4>1. blk[o] = r.block[o]
        BY <1>6, <3>5 DEF BlockOf, Behind, Cuts
      <4>2. QED
        BY <3>1, <4>1
    <3>6. QED
      BY <3>2, <3>3, <3>4, <3>5
  <2>2. blk = [o \in Ring!Offsets |-> blk[o]]
    OBVIOUS
  <2> HIDE DEF blk
  <2>3. QED
    BY <2>1, <2>2
<1>8. lst \in Ring!Offsets
  BY <1>2, <1>4
<1> HIDE DEF blk, old, cuts, rest, nx, lst, u0, u
<1>9. u0 = [recycles |-> r.recycles, block |-> blk, last |-> lst, produce |-> r.produce, consume |-> r.consume]
  BY <1>4, <1>5
<1>10. u0 \in Rings
  BY <1>4, <1>7, <1>8, <1>9 DEF Rings
<1> DEFINE pr == Ring!NextBlock(u0, b)
<1>11. pr \in Ring!Offsets
  <2>1. u0.block[b] \in Header /\ 0 \in Ring!Offsets
    BY <1>1, <1>10, RingAssumption DEF Rings, Ring!Offsets
  <2>2. u0.block[b].next \in Ring!Offsets \cup {Ring!None}
    BY <2>1 DEF Header
  <2>3. QED
    BY <2>1, <2>2 DEF Ring!NextBlock
<1> HIDE DEF pr
<1>12. u = [recycles |-> r.recycles, block |-> blk, last |-> lst, produce |-> pr, consume |-> r.consume]
  BY <1>3, <1>9 DEF pr
<1>13. u \in Rings /\ u.block = blk /\ u.consume = r.consume /\ u.produce = pr /\ u.recycles = r.recycles
  BY <1>4, <1>7, <1>8, <1>11, <1>12 DEF Rings
<1>14. Ring!NextBlock(u, b) = pr
  BY <1>9, <1>13 DEF Ring!NextBlock, pr
<1>15. QED
  BY <1>6, <1>13, <1>14 DEF u

LEMMA HandedIs ==
    ASSUME NEW r, Chain(r), NEW b \in Heads(r), NEW n \in 1 .. Size, r.block[b].size >= n
    PROVE  Handed(r, Ring!Used(r, b, n), b)
<1> DEFINE u == Ring!Used(r, b, n)
           e == End(r, b)
           nx == r.block[b].next
           rest == Behind(r, b, n)
           cuts == Cuts(r, b, n)
<1>1. /\ u \in Rings /\ \A o \in Ring!Offsets : u.block[o] = BlockOf(r, b, n, o)
      /\ u.consume = r.consume /\ u.produce = Ring!NextBlock(u, b)
  BY BlockIs
<1> HIDE DEF u
<1>2. /\ rest \in Int /\ rest > b /\ nx \in Ring!Offsets \cup {Ring!None}
      /\ nx # b /\ e \in Int /\ e <= Size
      /\ e = Size => nx = Ring!None
      /\ e < Size => nx = e /\ e \in Heads(r) /\ r.block[e].prev = b
      /\ nx \in Ring!Offsets => nx = e /\ e < Size
      /\ cuts => /\ rest < e /\ rest \in Ring!Offsets /\ rest \notin Heads(r) /\ nx # rest
                 /\ r.block[b].size - n \in Nat /\ r.block[b].size - n > 0
  BY CutIs
<1>3. /\ r \in Rings /\ 0 \in Heads(r) /\ r.consume \in Heads(r) /\ InChain(r, b)
      /\ \A o \in Heads(r) : InChain(r, o)
  BY DEF Chain
<1>4. /\ \A o \in Heads(r) : o \in Ring!Offsets /\ o \in Int /\ o >= 0 /\ o < Size /\ End(r, o) \in Int /\ End(r, o) > o
      /\ Size \in Int /\ b \in Ring!Offsets /\ b \in Int /\ n \in Int /\ n > 0
  <2>1. n \in Int /\ n > 0
    BY RingAssumption
  <2>2. QED
    BY <1>3, <2>1, HeadIs
<1>5. /\ u.block[b].prev = r.block[b].prev /\ ~u.block[b].free
      /\ u.block[b].next = (IF cuts THEN rest ELSE nx)
      /\ u.block[b].size = (IF cuts THEN n ELSE r.block[b].size)
  <2>1. u.block[b] = [prev |-> r.block[b].prev, next |-> IF cuts THEN rest ELSE nx,
                      free |-> FALSE, size |-> IF cuts THEN n ELSE r.block[b].size]
    BY <1>1, <1>4 DEF BlockOf
  <2>2. QED
    BY <2>1
<1>6. ASSUME cuts
      PROVE  /\ u.block[rest].prev = b /\ u.block[rest].free /\ u.block[rest].next = nx
             /\ u.block[rest].size = r.block[b].size - n
  <2>1. rest # b /\ rest \in Ring!Offsets
    BY <1>2, <1>4, <1>6
  <2>2. u.block[rest] = [prev |-> b, next |-> nx, free |-> TRUE, size |-> r.block[b].size - n]
    BY <1>1, <1>6, <2>1 DEF BlockOf
  <2>3. QED
    BY <2>2
<1>7. ASSUME NEW o \in Ring!Offsets, o # b, ~(cuts /\ o = rest)
      PROVE  /\ u.block[o].free = r.block[o].free /\ u.block[o].next = r.block[o].next
             /\ u.block[o].size = r.block[o].size
             /\ u.block[o].prev = (IF cuts /\ o = nx THEN rest ELSE r.block[o].prev)
  <2>1. r.block[o] \in Header
    BY <1>3 DEF Rings
  <2>2. CASE cuts /\ o = nx
    <3>1. u.block[o] = [r.block[o] EXCEPT !.prev = rest]
      BY <1>1, <1>7, <2>2 DEF BlockOf
    <3>2. QED
      BY <2>1, <2>2, <3>1 DEF Header
  <2>3. CASE ~(cuts /\ o = nx)
    <3>1. u.block[o] = r.block[o]
      BY <1>1, <1>7, <2>3 DEF BlockOf
    <3>2. QED
      BY <2>3, <3>1
  <2>4. QED
    BY <2>2, <2>3
<1> HIDE DEF e, nx, rest, cuts
<1>8. ASSUME NEW o \in Heads(r), o # b
      PROVE  End(u, o) = End(r, o) /\ Free(u, o) = Free(r, o) /\ o \in Heads(u) /\ ~(cuts /\ o = rest)
  <2>1. o \in Ring!Offsets /\ ~(cuts /\ o = rest)
    BY <1>2, <1>4, <1>8
  <2>2. QED
    BY <1>7, <1>8, <2>1 DEF End, Free, Heads
<1>9. CASE ~cuts
  <2>1. SameBlocks(r, u)
    BY <1>5, <1>7, <1>9 DEF SameBlocks, nx
  <2>2. Heads(u) = Heads(r) /\ End(u, b) = e
    BY <1>4, <2>1 DEF SameBlocks, Heads, End, e
  <2>3. Ring!NextBlock(u, b) = Ring!NextBlock(r, b) /\ Ring!NextBlock(r, b) = (IF e = Size THEN 0 ELSE e) /\ Ring!NextBlock(r, b) \in Heads(r)
    <3>1. Ring!NextBlock(u, b) = Ring!NextBlock(r, b)
      BY <1>4, <2>1 DEF Ring!NextBlock, SameBlocks
    <3>2. QED
      BY <3>1, NextIs DEF e
  <2>4. Chain(u)
    BY <1>1, <1>3, <2>1, <2>3, SameChain
  <2>5. QED
    BY <1>1, <1>5, <1>8, <2>2, <2>3, <2>4 DEF Handed, Free, u, e
<1>10. CASE cuts
  <2>1. End(u, b) = rest
    BY <1>5, <1>10 DEF End, rest, Behind
  <2>2. End(u, rest) = e
    <3>1. e = b + r.block[b].size /\ rest = b + n /\ r.block[b].size \in Int
      BY <1>3, HeadIs DEF e, End, rest, Behind
    <3>2. End(u, rest) = rest + (r.block[b].size - n)
      BY <1>6, <1>10 DEF End
    <3>3. QED
      BY <1>4, <3>1, <3>2
  <2>3. Heads(u) = Heads(r) \cup {rest}
    <3>1. b \in Heads(u) /\ rest \in Heads(u)
      BY <1>2, <1>4, <1>5, <1>6, <1>10 DEF Heads
    <3>2. \A o \in Ring!Offsets : o # b /\ o # rest => (o \in Heads(u) <=> o \in Heads(r))
      BY <1>7 DEF Heads
    <3>3. Heads(u) \subseteq Ring!Offsets /\ Heads(r) \subseteq Ring!Offsets
      BY DEF Heads
    <3>4. QED
      BY <3>1, <3>2, <3>3
  <2>4. Ring!NextBlock(u, b) = rest /\ rest # Size
    <3>1. rest # Ring!None /\ rest # Size
      BY <1>2, <1>4, <1>10, NotNone
    <3>2. QED
      BY <1>5, <1>10, <3>1 DEF Ring!NextBlock
  <2>5. ASSUME NEW o \in Heads(u)
        PROVE  InChain(u, o)
    <3>1. CASE o = b
      <4>1. /\ End(u, b) < Size /\ u.block[b].next = End(u, b) /\ End(u, b) \in Heads(u)
            /\ u.block[End(u, b)].prev = b
        BY <1>2, <1>4, <1>5, <1>6, <1>10, <2>1, <2>3
      <4>2. b = 0 => u.block[b].prev = Ring!None
        BY <1>3, <1>5 DEF InChain
      <4>3. ASSUME b # 0
            PROVE  u.block[b].prev \in Heads(u) /\ End(u, u.block[b].prev) = b
        <5>1. LET q == r.block[b].prev IN q \in Heads(r) /\ End(r, q) = b /\ q < b
          BY <4>3, Before
        <5>2. r.block[b].prev # b
          BY <1>4, <5>1
        <5>3. QED
          BY <1>5, <1>8, <2>3, <5>1, <5>2
      <4>4. \A q \in Heads(u) : b < q => End(u, b) <= q
        <5> TAKE q \in Heads(u)
        <5> HAVE b < q
        <5>1. CASE q = rest
          BY <1>2, <2>1, <5>1
        <5>2. CASE q \in Heads(r)
          <6>1. e <= q
            BY <1>3, <5>2 DEF InChain, e
          <6>2. QED
            BY <1>2, <1>4, <1>10, <2>1, <5>2, <6>1
        <5>3. QED
          BY <2>3, <5>1, <5>2
      <4>5. End(u, b) # Size /\ End(u, b) <= Size
        BY <1>4, <2>1, <1>2, <1>10
      <4>6. QED
        BY <3>1, <4>1, <4>2, <4>3, <4>4, <4>5 DEF InChain
    <3>2. CASE o = rest
      <4>1. e = Size => u.block[rest].next = Ring!None
        BY <1>2, <1>6, <1>10
      <4>2. e < Size => u.block[rest].next = e /\ e \in Heads(u) /\ u.block[e].prev = rest
        <5> SUFFICES ASSUME e < Size
                     PROVE u.block[rest].next = e /\ e \in Heads(u) /\ u.block[e].prev = rest
          OBVIOUS
        <5>1. nx = e /\ e \in Heads(r) /\ e # b
          BY <1>2
        <5>2. e \in Ring!Offsets /\ e # rest
          BY <1>2, <1>4, <1>10, <5>1
        <5>3. u.block[e].prev = rest
          BY <1>7, <1>10, <5>1, <5>2
        <5>4. QED
          BY <1>6, <1>10, <2>3, <5>1, <5>3
      <4>3. rest # 0 /\ u.block[rest].prev = b /\ b \in Heads(u)
        BY <1>2, <1>4, <1>6, <1>10, <2>3
      <4>4. \A q \in Heads(u) : rest < q => e <= q
        <5> TAKE q \in Heads(u)
        <5> HAVE rest < q
        <5>1. q \in Heads(r)
          BY <1>2, <2>3
        <5>2. b < q
          BY <1>2, <1>4, <5>1
        <5>3. QED
          BY <1>3, <5>1, <5>2 DEF InChain, e
      <4>5. QED
        BY <1>2, <2>1, <2>2, <3>2, <4>1, <4>2, <4>3, <4>4 DEF InChain
    <3>3. CASE o # b /\ o # rest
      <4>1. o \in Heads(r) /\ InChain(r, o) /\ End(u, o) = End(r, o) /\ o \in Ring!Offsets
        BY <1>3, <1>4, <1>8, <2>3, <2>5, <3>3
      <4>2. /\ u.block[o].next = r.block[o].next
            /\ u.block[o].prev = (IF o = nx THEN rest ELSE r.block[o].prev)
        BY <1>7, <1>10, <3>3, <4>1
      <4>3. End(r, o) < Size => /\ u.block[o].next = End(r, o)
                                /\ End(r, o) \in Heads(u) /\ u.block[End(r, o)].prev = o
        <5> SUFFICES ASSUME End(r, o) < Size
                     PROVE u.block[o].next = End(r, o) /\ End(r, o) \in Heads(u) /\ u.block[End(r, o)].prev = o
          OBVIOUS
        <5> DEFINE h == End(r, o)
        <5>1. r.block[o].next = h /\ h \in Heads(r) /\ r.block[h].prev = o
          BY <4>1 DEF InChain
        <5> HIDE DEF h
        <5>2. h # nx
          <6> SUFFICES ASSUME h = nx PROVE FALSE
            OBVIOUS
          <6>1. h \in Ring!Offsets
            BY <1>4, <5>1
          <6>2. r.block[h].prev = b
            BY <1>2, <6>1
          <6>3. QED
            BY <3>3, <5>1, <6>2
        <5>3. u.block[h].prev = o
          <6>1. CASE h = b
            BY <1>5, <5>1, <6>1
          <6>2. CASE h # b
            BY <1>4, <1>7, <1>8, <5>1, <5>2, <6>2
          <6>3. QED
            BY <6>1, <6>2
        <5>4. QED
          BY <2>3, <4>2, <5>1, <5>3 DEF h
      <4>4. o = 0 => u.block[o].prev = Ring!None
        <5> SUFFICES ASSUME o = 0 PROVE u.block[o].prev = Ring!None
          OBVIOUS
        <5>1. o # nx
          <6> SUFFICES ASSUME nx = 0 PROVE FALSE
            OBVIOUS
          <6>1. nx \in Ring!Offsets
            BY <4>1
          <6>2. e = 0
            BY <1>2, <6>1
          <6>3. QED
            BY <1>2, <1>4, <1>10, <6>2
        <5>2. QED
          BY <4>1, <4>2, <5>1 DEF InChain
      <4>5. ASSUME o # 0
            PROVE  u.block[o].prev \in Heads(u) /\ End(u, u.block[o].prev) = o
        <5>1. CASE o = nx
          <6>1. o = e
            BY <1>2, <4>1, <5>1
          <6>2. QED
            BY <2>2, <2>3, <4>2, <5>1, <6>1
        <5>2. CASE o # nx
          <6> DEFINE q == r.block[o].prev
          <6>1. q \in Heads(r) /\ End(r, q) = o /\ r.block[q].next = o
            BY <4>1, <4>5, Before
          <6>2. q # b
            BY <5>2, <6>1 DEF nx
          <6> HIDE DEF q
          <6>3. End(u, q) = o /\ q \in Heads(u)
            BY <1>8, <6>1, <6>2
          <6>4. QED
            BY <4>2, <5>2, <6>3 DEF q
        <5>3. QED
          BY <5>1, <5>2
      <4>6. \A q \in Heads(u) : o < q => End(r, o) <= q
        <5> TAKE q \in Heads(u)
        <5> HAVE o < q
        <5>1. CASE q \in Heads(r)
          BY <4>1, <5>1 DEF InChain
        <5>2. CASE q = rest
          <6>1. b < o => e <= o
            BY <1>3, <4>1 DEF InChain, e
          <6>2. o < b
            BY <1>2, <1>4, <1>10, <3>3, <4>1, <5>2, <6>1
          <6>3. End(r, o) <= b
            BY <4>1, <6>2 DEF InChain
          <6>4. QED
            BY <1>2, <1>4, <4>1, <5>2, <6>3
        <5>3. QED
          BY <2>3, <5>1, <5>2
      <4>7. End(r, o) <= Size /\ (End(r, o) = Size => r.block[o].next = Ring!None)
        BY <4>1 DEF InChain
      <4>8. QED
        BY <4>1, <4>2, <4>3, <4>4, <4>5, <4>6, <4>7 DEF InChain
    <3>4. QED
      BY <3>1, <3>2, <3>3
  <2>6. Chain(u)
    BY <1>1, <1>3, <2>3, <2>4, <2>5 DEF Chain
  <2>7. Free(u, rest) /\ ~Free(u, b)
    BY <1>5, <1>6, <1>10 DEF Free
  <2>8. QED
    BY <1>1, <1>2, <1>8, <1>10, <2>1, <2>2, <2>3, <2>4, <2>6, <2>7 DEF Handed, u, e
<1>11. QED
  BY <1>9, <1>10

LEMMA ChosenIs ==
    ASSUME NEW r, Chain(r), NEW n \in 1 .. Size, Ring!Chosen(r, n) # Ring!None
    PROVE  LET b == Ring!Chosen(r, n)
           IN /\ b \in Heads(r) /\ Free(r, b) /\ r.block[b].size >= n
              /\ b = r.produce \/ (b = 0 /\ b # r.produce /\ Free(r, r.produce))
<1> DEFINE Fits(o) == r.block[o].free /\ r.block[o].size >= n
           b == Ring!Chosen(r, n)
<1>1. r.produce \in Heads(r) /\ 0 \in Heads(r)
  BY DEF Chain
<1>2. b = CASE Fits(r.produce) -> r.produce
            [] ~Fits(r.produce) /\ r.block[r.produce].free /\ Fits(0) -> 0
            [] OTHER -> Ring!None
  BY DEF Ring!Chosen
<1> HIDE DEF b
<1>3. CASE Fits(r.produce)
  <2>1. b = r.produce
    BY <1>2, <1>3
  <2>2. QED
    BY <1>1, <1>3, <2>1 DEF Free, b
<1>4. CASE ~Fits(r.produce) /\ r.block[r.produce].free /\ Fits(0)
  <2>1. b = 0
    BY <1>2, <1>4
  <2>2. QED
    BY <1>1, <1>4, <2>1 DEF Free, b
<1>5. CASE ~Fits(r.produce) /\ ~(r.block[r.produce].free /\ Fits(0))
  <2>1. b = Ring!None
    BY <1>2, <1>5
  <2>2. QED
    BY <2>1 DEF b
<1>6. QED
  BY <1>3, <1>4, <1>5

LEMMA UseIs ==
    ASSUME NEW r, RingInv(r), NEW n \in 1 .. Size, Ring!Chosen(r, n) # Ring!None
    PROVE  RingInv(Ring!Used(r, Ring!Chosen(r, n), n))
<1> DEFINE b == Ring!Chosen(r, n)
           u == Ring!Used(r, b, n)
           c == r.consume
           P == r.produce
           e == End(r, b)
           h == End(u, b)
           Q == u.produce
<1>1. /\ r \in Rings /\ Chain(r) /\ c \in Heads(r) /\ P \in Heads(r) /\ 0 \in Heads(r)
      /\ Free(r, c) => End(r, 0) = Size
      /\ ~Free(r, c) /\ c < P => Straight(r)
      /\ ~Free(r, c) /\ P <= c => Wrapped(r)
      /\ \A o \in Heads(r) : NotBoth(r, o) /\ InChain(r, o)
  BY DEF RingInv, Chain, Order
<1>2. /\ b \in Heads(r) /\ Free(r, b) /\ r.block[b].size >= n
      /\ b = P \/ (b = 0 /\ b # P /\ Free(r, P))
  BY <1>1, ChosenIs
<1> HIDE DEF b
<1>3. Handed(r, u, b)
  BY <1>1, <1>2, HandedIs
<1> HIDE DEF u
<1>4. /\ Chain(u) /\ u \in Rings /\ u.consume = c /\ ~Free(u, b) /\ Q = (IF h = Size THEN 0 ELSE h)
      /\ \A o \in Heads(r) : o # b => End(u, o) = End(r, o) /\ (Free(u, o) <=> Free(r, o))
      /\ \A o \in Heads(u) : o \in Heads(r) \/ (o = h /\ o \notin Heads(r))
      /\ h \in Heads(u) /\ h \notin Heads(r) => h < e /\ Free(u, h) /\ End(u, h) = e
      /\ Heads(r) \subseteq Heads(u)
      /\ h = e \/ (h \in Heads(u) /\ h \notin Heads(r))
  <2>1. h \in Heads(u) /\ h \notin Heads(r) => h < e /\ Free(u, h) /\ End(u, h) = e
    BY <1>3 DEF Handed
  <2>2. QED
    BY <1>3, <2>1 DEF Handed, Chain
<1> HIDE DEF h, Q, c, P, e
<1>5. /\ \A o \in Heads(u) : o \in Int /\ o >= 0 /\ o < Size
      /\ \A o \in Heads(r) : o \in Int /\ o >= 0 /\ o < Size /\ End(r, o) \in Int /\ End(r, o) > o
      /\ Size \in Int /\ h \in Int /\ h > b /\ e \in Int /\ e > b /\ b \in Int /\ c \in Int /\ P \in Int /\ e <= Size
      /\ h <= e /\ b >= 0 /\ c >= 0 /\ P >= 0 /\ c < Size /\ P < Size
  <2>1. \A o \in Heads(u) : o \in Int /\ o >= 0 /\ o < Size /\ End(u, o) \in Int /\ End(u, o) > o
    BY <1>4, HeadIs
  <2>2. \A o \in Heads(r) : o \in Int /\ o >= 0 /\ o < Size /\ End(r, o) \in Int /\ End(r, o) > o
    BY <1>1, HeadIs
  <2>3. Size \in Int
    BY RingAssumption
  <2>4. h \in Int /\ h > b /\ e \in Int /\ e > b
    BY <1>2, <1>4, <2>1, <2>2 DEF h, e
  <2>5. e <= Size
    BY <1>1, <1>2 DEF InChain, e
  <2>6. h <= e
    BY <1>4, <2>4
  <2>7. QED
    BY <1>1, <1>2, <2>1, <2>2, <2>3, <2>4, <2>5, <2>6
<1>6. \A o \in Heads(r) : /\ End(r, o) < Size => End(r, o) \in Heads(r)
                          /\ End(r, o) = Size \/ End(r, o) < Size
  <2> TAKE o \in Heads(r)
  <2>1. End(r, o) = Size \/ (End(r, o) < Size /\ End(r, o) \in Heads(r))
    BY <1>1, NextIs
  <2>2. QED
    BY <1>5, <2>1
<1>7. /\ \A q \in Heads(r) : b < q => e <= q
      /\ e < Size => e \in Heads(r) /\ ~Free(r, e)
  <2>1. \A q \in Heads(r) : b < q => e <= q
    BY <1>1, <1>2 DEF InChain, e
  <2>2. NotBoth(r, b)
    BY <1>1, <1>2
  <2>3. e < Size => e \in Heads(r) /\ ~Free(r, e)
    BY <1>2, <1>6, <2>2 DEF NotBoth, e
  <2>4. QED
    BY <2>1, <2>3
<1>8. ASSUME NEW o \in Heads(u)
      PROVE  NotBoth(u, o)
  <2>1. CASE o = b
    BY <1>4, <2>1 DEF NotBoth
  <2>2. CASE o \in Heads(r) /\ o # b
    <3>1. NotBoth(r, o) /\ End(u, o) = End(r, o) /\ (Free(u, o) <=> Free(r, o))
      BY <1>1, <1>4, <2>2
    <3>2. End(r, o) < Size => (Free(u, End(r, o)) => Free(r, End(r, o)))
      BY <1>4, <1>6, <2>2
    <3>3. QED
      BY <3>1, <3>2 DEF NotBoth
  <2>3. CASE o = h /\ o \notin Heads(r)
    <3>1. End(u, o) = e
      BY <1>4, <2>3
    <3>2. e < Size => ~Free(u, e)
      <4>1. e # b
        BY <1>5
      <4>2. QED
        BY <1>4, <1>7, <4>1
    <3>3. QED
      BY <3>1, <3>2 DEF NotBoth
  <2>4. QED
    BY <1>4, <2>1, <2>2, <2>3
<1>9. ~Free(u, c)
  <2>1. c = b => ~Free(u, c)
    BY <1>4
  <2>2. c # b /\ ~Free(r, c) => ~Free(u, c)
    BY <1>1, <1>4
  <2>3. c # b => ~Free(r, c)
    <3> SUFFICES ASSUME Free(r, c) PROVE c = b
      OBVIOUS
    <3>1. \A q \in Heads(r) : q = 0
      <4>1. \A q \in Heads(r) : 0 < q => Size <= q
        BY <1>1 DEF InChain
      <4>2. QED
        BY <1>5, <4>1
    <3>2. QED
      BY <1>1, <1>2, <3>1
  <2>4. QED
    BY <2>1, <2>2, <2>3
<1>10. CASE Free(r, c)
  <2>1. \A q \in Heads(r) : q = 0
    <3>1. \A q \in Heads(r) : 0 < q => Size <= q
      BY <1>1, <1>10 DEF InChain
    <3>2. QED
      BY <1>5, <3>1
  <2>2. b = 0 /\ c = 0 /\ P = 0 /\ e = Size
    BY <1>1, <1>2, <1>10, <2>1 DEF e
  <2>3. CASE h = Size
    <3>1. Q = 0 /\ h \notin Heads(u)
      BY <1>4, <1>5, <2>3
    <3>2. \A o \in Heads(u) : o = 0
      BY <1>4, <2>1, <3>1
    <3>3. ASSUME NEW o \in Heads(u)
          PROVE  /\ 0 <= o /\ o < 0 => Free(u, o)
                 /\ o < 0 => ~Free(u, o)
                 /\ o >= 0 /\ Free(u, o) => End(u, o) = Size /\ 0 > 0
      <4>1. o = 0 /\ ~Free(u, o)
        BY <1>4, <2>2, <3>2
      <4>2. ~(o < 0)
        BY <4>1
      <4>3. QED
        BY <4>1, <4>2
    <3>4. Wrapped(u)
      BY <1>4, <2>2, <3>1, <3>3 DEF Wrapped, Q
    <3>5. ~(c < Q)
      BY <2>2, <3>1
    <3>6. QED
      BY <1>4, <1>8, <1>9, <3>4, <3>5 DEF RingInv, Order, Q, u, b
  <2>4. CASE h # Size
    <3>1. Q = h /\ h > 0
      BY <1>4, <1>5, <2>2, <2>4
    <3>2. h \in Heads(u) /\ h \notin Heads(r) /\ Free(u, h)
      BY <1>4, <2>2, <2>4
    <3>3. ASSUME NEW o \in Heads(u)
          PROVE  Free(u, o) <=> ~(c <= o /\ o < Q)
      <4>1. CASE o = 0
        BY <1>4, <2>2, <3>1, <4>1
      <4>2. CASE o = h
        BY <1>5, <3>1, <3>2, <4>2
      <4>3. QED
        BY <1>4, <2>1, <4>1, <4>2
    <3>4. Straight(u)
      BY <1>4, <3>3 DEF Straight, Q
    <3>5. ~(Q <= c)
      BY <2>2, <3>1, <1>5
    <3>6. QED
      BY <1>4, <1>8, <1>9, <3>4, <3>5 DEF RingInv, Order, Q, u, b
  <2>5. QED
    BY <2>3, <2>4
<1>11. CASE ~Free(r, c) /\ c < P /\ b = P
  <2>1. Straight(r)
    BY <1>1, <1>11
  <2>2. e = Size
    <3> SUFFICES ASSUME e < Size PROVE FALSE
      BY <1>5
    <3>1. e \in Heads(r) /\ ~Free(r, e)
      BY <1>7
    <3>2. ~(e < P)
      BY <1>5, <1>11
    <3>3. QED
      BY <2>1, <3>1, <3>2 DEF Straight, P
  <2>3. \A o \in Heads(r) : o <= b
    BY <1>5, <1>7, <2>2
  <2>4. CASE h = Size
    <3>1. Q = 0 /\ h \notin Heads(u)
      BY <1>4, <1>5, <2>4
    <3>2. ASSUME NEW o \in Heads(u)
          PROVE  /\ Q <= o /\ o < c => Free(u, o)
                 /\ o < Q => ~Free(u, o)
                 /\ o >= c /\ Free(u, o) => End(u, o) = Size /\ Q > 0
      <4>1. o \in Heads(r) /\ o <= b /\ o \in Int /\ o >= 0
        BY <1>4, <1>5, <2>3, <3>1
      <4>2. CASE o = b
        <5>1. ~(o < c) /\ ~(o < Q)
          BY <1>5, <1>11, <3>1, <4>2
        <5>2. QED
          BY <1>4, <4>2, <5>1
      <4>3. CASE o # b
        <5>1. o < P
          BY <1>5, <1>11, <4>1, <4>3
        <5>2. Free(r, o) <=> ~(c <= o)
          BY <2>1, <4>1, <5>1 DEF Straight, P, c
        <5>3. Free(u, o) <=> Free(r, o)
          BY <1>4, <4>1, <4>3
        <5>4. (o < c => ~(c <= o)) /\ (o >= c => c <= o) /\ ~(o < Q)
          BY <1>5, <3>1, <4>1
        <5>5. QED
          BY <5>2, <5>3, <5>4
      <4>4. QED
        BY <4>2, <4>3
    <3>3. Wrapped(u)
      BY <1>4, <3>2 DEF Wrapped, Q
    <3>4. ~(c < Q)
      BY <1>5, <3>1
    <3>5. QED
      BY <1>4, <1>8, <1>9, <3>3, <3>4 DEF RingInv, Order, Q, u, b
  <2>5. CASE h # Size
    <3>1. Q = h /\ h > P /\ h \in Heads(u) /\ h \notin Heads(r) /\ Free(u, h)
      BY <1>4, <1>5, <1>11, <2>2, <2>5
    <3>2. ASSUME NEW o \in Heads(u)
          PROVE  Free(u, o) <=> ~(c <= o /\ o < Q)
      <4>1. CASE o = h
        BY <1>5, <3>1, <4>1
      <4>2. CASE o = b
        BY <1>4, <1>5, <1>11, <3>1, <4>2
      <4>3. CASE o \in Heads(r) /\ o # b
        <5>1. o <= b /\ o \in Int
          BY <1>5, <2>3, <4>3
        <5>2. o < P /\ o < Q
          BY <1>5, <1>11, <3>1, <4>3, <5>1
        <5>3. Free(r, o) <=> ~(c <= o)
          BY <2>1, <4>3, <5>2 DEF Straight, P, c
        <5>4. QED
          BY <1>4, <4>3, <5>2, <5>3
      <4>4. QED
        BY <1>4, <4>1, <4>2, <4>3
    <3>3. Straight(u)
      BY <1>4, <3>2 DEF Straight, Q
    <3>4. ~(Q <= c)
      BY <1>5, <1>11, <3>1
    <3>5. QED
      BY <1>4, <1>8, <1>9, <3>3, <3>4 DEF RingInv, Order, Q, u, b
  <2>6. QED
    BY <2>4, <2>5
<1>12. ASSUME ~Free(r, c), e <= c, \A o \in Heads(r) : o < b => ~Free(r, o),
              \A o \in Heads(r) : b < o /\ o < c => Free(r, o),
              \A o \in Heads(r) : o >= c /\ Free(r, o) => End(r, o) = Size
       PROVE  RingInv(u)
  <2>1. Q = h /\ h <= c /\ h > 0
    BY <1>4, <1>5, <1>12
  <2>2. ASSUME NEW o \in Heads(u)
        PROVE  /\ Q <= o /\ o < c => Free(u, o)
               /\ o < Q => ~Free(u, o)
               /\ o >= c /\ Free(u, o) => End(u, o) = Size /\ Q > 0
    <3>1. CASE o = b
      <4>1. ~(Q <= o)
        BY <1>5, <2>1, <3>1
      <4>2. QED
        BY <1>4, <3>1, <4>1
    <3>2. CASE o \in Heads(r) /\ o # b
      <4>1. (Free(u, o) <=> Free(r, o)) /\ End(u, o) = End(r, o)
        BY <1>4, <3>2
      <4>2. o < b \/ o >= e
        BY <1>2, <1>5, <1>7, <3>2
      <4>3. (Q <= o => b < o) /\ (o < Q => o < b)
        BY <1>5, <2>1, <3>2, <4>2
      <4>4. QED
        BY <1>12, <2>1, <3>2, <4>1, <4>3
    <3>3. CASE o = h /\ o \notin Heads(r)
      <4>1. Free(u, o) /\ o < e
        BY <1>4, <3>3
      <4>2. ~(o < Q) /\ ~(o >= c)
        BY <1>5, <1>12, <2>1, <3>3, <4>1
      <4>3. QED
        BY <4>1, <4>2
    <3>4. QED
      BY <1>4, <3>1, <3>2, <3>3
  <2>3. Wrapped(u)
    BY <1>4, <2>2 DEF Wrapped, Q
  <2>4. ~(c < Q)
    BY <1>5, <2>1
  <2>5. QED
    BY <1>4, <1>8, <1>9, <2>3, <2>4 DEF RingInv, Order, Q
<1>13. CASE ~Free(r, c) /\ c < P /\ b # P
  <2>1. Straight(r) /\ b = 0 /\ Free(r, P)
    BY <1>1, <1>2, <1>13
  <2>2. c > 0
    <3> SUFFICES ASSUME c = 0 PROVE FALSE
      BY <1>5
    <3>1. QED
      BY <1>2, <2>1, <1>13
  <2>3. e <= c
    BY <1>1, <1>7, <2>1, <2>2
  <2>4. \A o \in Heads(r) : (o < c => Free(r, o)) /\ (o >= c /\ Free(r, o) => o >= P)
    <3> TAKE o \in Heads(r)
    <3>1. (Free(r, o) <=> ~(c <= o /\ o < P)) /\ o \in Int
      BY <1>5, <2>1 DEF Straight, c, P
    <3>2. (o < c => ~(c <= o)) /\ (~(o < P) => o >= P)
      BY <1>5, <3>1
    <3>3. QED
      BY <1>5, <3>1, <3>2
  <2>5. ASSUME NEW o \in Heads(r), o >= c, Free(r, o)
        PROVE  End(r, o) = Size
    <3> SUFFICES ASSUME End(r, o) < Size PROVE FALSE
      BY <1>6
    <3> DEFINE g == End(r, o)
    <3>1. g \in Heads(r) /\ ~Free(r, g) /\ g > o
      BY <1>1, <1>5, <1>6, <2>5 DEF NotBoth
    <3> HIDE DEF g
    <3>2. o >= P
      BY <2>4, <2>5
    <3>3. ~(g < P)
      BY <1>5, <3>1, <3>2
    <3>4. QED
      BY <2>1, <3>1, <3>3 DEF Straight, P
  <2>6. \A o \in Heads(r) : ~(o < b)
    BY <1>5, <2>1
  <2>7. RingInv(u)
    BY <1>12, <1>13, <2>3, <2>4, <2>5, <2>6
  <2>8. QED
    BY <2>7 DEF u, b
<1>14. CASE ~Free(r, c) /\ P <= c
  <2>1. Wrapped(r)
    BY <1>1, <1>14
  <2>2. \A o \in Heads(r) : /\ P <= o /\ o < c => Free(r, o)
                            /\ o < P => ~Free(r, o)
                            /\ o >= c /\ Free(r, o) => End(r, o) = Size
    BY <2>1 DEF Wrapped, c, P
  <2>3. b = P
    <3> SUFFICES ASSUME b = 0, b # P PROVE FALSE
      BY <1>2
    <3>1. 0 < P
      BY <1>5
    <3>2. QED
      BY <1>1, <1>2, <2>2, <3>1
  <2>4. e <= c
    <3>1. b # c
      BY <1>2, <1>14
    <3>2. b < c
      BY <1>5, <1>14, <2>3, <3>1
    <3>3. QED
      BY <1>1, <1>7, <3>2
  <2>5. \A o \in Heads(r) : b < o /\ o < c => Free(r, o)
    BY <1>5, <2>2, <2>3
  <2>6. RingInv(u)
    BY <1>12, <1>14, <2>2, <2>3, <2>4, <2>5
  <2>7. QED
    BY <2>6 DEF u, b
<1>15. QED
  BY <1>5, <1>10, <1>11, <1>13, <1>14

LEMMA ClearIs ==
    ASSUME NEW recycles \in BOOLEAN
    PROVE  RingInv(Ring!Cleared(recycles))
<1> DEFINE r == Ring!Cleared(recycles)
           first == [prev |-> Ring!None, next |-> Ring!None, free |-> TRUE, size |-> Size]
           blk == [o \in Ring!Offsets |-> IF o = 0 THEN first ELSE Ring!NoBlock]
<1>1. r = [recycles |-> recycles, block |-> blk, last |-> 0, produce |-> 0, consume |-> 0]
  BY DEF Ring!Cleared
<1>2. 0 \in Ring!Offsets /\ Size \in Nat /\ Size > 0
  BY RingAssumption DEF Ring!Offsets
<1>3. first \in Header /\ Ring!NoBlock \in Header
  BY <1>2 DEF Header, Ring!NoBlock
<1>4. blk \in [Ring!Offsets -> Header] /\ blk[0] = first /\ \A o \in Ring!Offsets : o # 0 => blk[o] = Ring!NoBlock
  <2> HIDE DEF first
  <2>1. QED
    BY <1>2, <1>3
<1> HIDE DEF blk, r
<1>5. r \in Rings /\ r.block = blk /\ r.produce = 0 /\ r.consume = 0
  BY <1>1, <1>2, <1>4 DEF Rings
<1>6. r.block[0].size = Size /\ r.block[0].prev = Ring!None /\ r.block[0].next = Ring!None /\ r.block[0].free
  BY <1>4, <1>5
<1>7. Heads(r) = {0}
  <2>1. \A o \in Ring!Offsets : o # 0 => r.block[o].size = 0
    BY <1>4, <1>5 DEF Ring!NoBlock
  <2>2. QED
    BY <1>2, <1>6, <2>1 DEF Heads
<1>8. End(r, 0) = Size
  BY <1>2, <1>6 DEF End
<1>9. InChain(r, 0)
  BY <1>2, <1>6, <1>7, <1>8 DEF InChain
<1>10. Chain(r)
  BY <1>5, <1>7, <1>9 DEF Chain
<1>11. QED
  BY <1>6, <1>8, <1>10, WholeIs DEF Free, r

LEMMA EmptyIs ==
    ASSUME NEW r, RingInv(r), Ring!IsEmpty(r), NEW n \in 1 .. Size
    PROVE  Ring!Chosen(r, n) # Ring!None
<1>1. Free(r, r.consume) /\ End(r, 0) = Size /\ r.produce \in Heads(r) /\ r.consume \in Heads(r) /\ InChain(r, 0) /\ r \in Rings
  BY DEF RingInv, Order, Ring!IsEmpty, Free, Chain
<1>2. \A q \in Heads(r) : q = 0
  <2> TAKE q \in Heads(r)
  <2>1. q \in Int /\ q >= 0 /\ q < Size /\ Size \in Int
    BY <1>1, HeadIs
  <2>2. 0 < q => Size <= q
    BY <1>1 DEF InChain
  <2>3. QED
    BY <2>1, <2>2
<1>3. r.produce = 0 /\ r.consume = 0
  BY <1>1, <1>2
<1>4. r.block[0].free /\ r.block[0].size >= n
  <2>1. r.block[0].size = Size
    <3>1. r.block[0].size \in Int
      BY <1>1, <1>3, HeadIs
    <3>2. QED
      BY <1>1, <3>1 DEF End
  <2>2. n \in Int /\ Size \in Int /\ n <= Size
    BY RingAssumption
  <2>3. QED
    BY <1>1, <1>3, <2>1, <2>2 DEF Free
<1>5. Ring!Chosen(r, n) = 0
  BY <1>3, <1>4 DEF Ring!Chosen
<1>6. QED
  BY <1>5, NotNone
-----------------------------------------------------------------------------
(* The ring buffer: its items are a queue. *)

\* L has each element of X once, those with more of w before those with less.
Lists(L, X, w) ==
    /\ L \in Seq(X)
    /\ \A x \in X : \E k \in 1 .. Len(L) : L[k] = x
    /\ \A j, k \in 1 .. Len(L) : j < k => w[L[j]] > w[L[k]]

LEMMA ListIs ==
    ASSUME NEW X, NEW Y, X \subseteq Y, NEW w \in [Y -> Int], NEW L, Lists(L, X, w)
    PROVE  /\ Len(L) \in Nat /\ \A k \in 1 .. Len(L) : L[k] \in X /\ w[L[k]] \in Int
           /\ \A j, k \in 1 .. Len(L) : L[j] = L[k] => j = k
<1>1. L \in Seq(X)
  BY DEF Lists
<1>2. Len(L) \in Nat /\ \A k \in 1 .. Len(L) : L[k] \in X
  BY <1>1
<1>3. \A k \in 1 .. Len(L) : w[L[k]] \in Int
  BY <1>2
<1>4. ASSUME NEW j \in 1 .. Len(L), NEW k \in 1 .. Len(L), L[j] = L[k], j # k
      PROVE  FALSE
  <2>1. w[L[j]] \in Int /\ w[L[j]] = w[L[k]]
    BY <1>3, <1>4
  <2>2. j < k \/ k < j
    BY <1>2, <1>4
  <2>3. w[L[j]] > w[L[k]] \/ w[L[k]] > w[L[j]]
    BY <2>2 DEF Lists
  <2>4. QED
    BY <2>1, <2>3
<1>5. QED
  BY <1>2, <1>3, <1>4

\* There is one such sequence.
LEMMA SameList ==
    ASSUME NEW X, NEW Y, X \subseteq Y, NEW w \in [Y -> Int], NEW L, Lists(L, X, w), NEW M, Lists(M, X, w)
    PROVE  Len(L) <= Len(M) /\ \A j \in 1 .. Len(L) : L[j] = M[j]
<1> DEFINE P == {k \in 0 .. Len(L) : k <= Len(M) /\ \A j \in 1 .. k : L[j] = M[j]}
<1>1. /\ Len(L) \in Nat /\ \A k \in 1 .. Len(L) : L[k] \in X /\ w[L[k]] \in Int
      /\ Len(M) \in Nat /\ \A k \in 1 .. Len(M) : M[k] \in X /\ w[M[k]] \in Int
      /\ \A j, k \in 1 .. Len(L) : L[j] = L[k] => j = k
      /\ \A j, k \in 1 .. Len(M) : M[j] = M[k] => j = k
  BY ListIs
<1>2. /\ \A x \in X : \E k \in 1 .. Len(L) : L[k] = x
      /\ \A x \in X : \E k \in 1 .. Len(M) : M[k] = x
      /\ \A j, k \in 1 .. Len(L) : j < k => w[L[j]] > w[L[k]]
      /\ \A j, k \in 1 .. Len(M) : j < k => w[M[j]] > w[M[k]]
  BY DEF Lists
<1>3. 0 \in P
  BY <1>1
<1>4. ASSUME NEW k \in 1 .. Len(L), k - 1 \in P
      PROVE  k \in P
  <2>1. k - 1 <= Len(M) /\ \A j \in 1 .. k - 1 : L[j] = M[j]
    BY <1>4
  <2>2. PICK m \in 1 .. Len(M) : M[m] = L[k]
    BY <1>1, <1>2
  <2>3. ~(m < k)
    <3> SUFFICES ASSUME m < k PROVE FALSE
      OBVIOUS
    <3>1. m \in 1 .. k - 1 /\ m \in 1 .. Len(L)
      BY <1>1
    <3>2. L[m] = L[k]
      BY <2>1, <2>2, <3>1
    <3>3. QED
      BY <1>1, <3>1, <3>2
  <2>4. k <= Len(M) /\ k \in 1 .. Len(M)
    BY <1>1, <2>3
  <2>5. M[k] = L[k]
    <3> SUFFICES ASSUME M[k] # L[k] PROVE FALSE
      OBVIOUS
    <3>1. k < m
      BY <2>2, <2>3
    <3>2. w[M[k]] > w[L[k]]
      BY <1>2, <2>2, <2>4, <3>1
    <3>3. PICK i \in 1 .. Len(L) : L[i] = M[k]
      BY <1>1, <1>2, <2>4
    <3>4. ~(i < k)
      <4> SUFFICES ASSUME i < k PROVE FALSE
        OBVIOUS
      <4>1. i \in 1 .. k - 1 /\ i \in 1 .. Len(M)
        BY <1>1, <2>4
      <4>2. M[i] = M[k]
        BY <2>1, <3>3, <4>1
      <4>3. QED
        BY <1>1, <2>4, <4>1, <4>2
    <3>5. k < i
      BY <3>3, <3>4
    <3>6. w[L[k]] > w[M[k]]
      BY <1>2, <3>3, <3>5
    <3>7. w[L[k]] \in Int /\ w[M[k]] \in Int
      BY <1>1, <2>4
    <3>8. QED
      BY <3>2, <3>6, <3>7
  <2>6. \A j \in 1 .. k : j = k \/ j \in 1 .. k - 1
    OBVIOUS
  <2>7. QED
    BY <1>1, <2>1, <2>4, <2>5, <2>6
<1>5. QED
  <2>1. Len(L) \in Nat /\ Len(L) \in 0 .. Len(L)
    BY <1>1
  <2> HIDE DEF P
  <2>2. \A k \in 0 .. Len(L) : k \in P
    BY <1>3, <1>4, <2>1, UpTo
  <2>3. Len(L) \in P
    BY <2>1, <2>2
  <2>4. QED
    BY <2>3 DEF P

LEMMA OneList ==
    ASSUME NEW X, NEW Y, X \subseteq Y, NEW w \in [Y -> Int], NEW L, Lists(L, X, w), NEW M, Lists(M, X, w)
    PROVE  L = M
<1>1. Len(L) \in Nat /\ Len(M) \in Nat /\ L \in Seq(X) /\ M \in Seq(X)
  BY DEF Lists
<1>2. Len(L) <= Len(M) /\ \A j \in 1 .. Len(L) : L[j] = M[j]
  BY SameList
<1>3. Len(M) <= Len(L)
  BY SameList
<1>4. Len(L) = Len(M)
  BY <1>1, <1>2, <1>3
<1>5. QED
  BY <1>1, <1>2, <1>4

\* What comes before everything else is the first.
LEMMA FirstListed ==
    ASSUME NEW X, NEW Y, X \subseteq Y, NEW w \in [Y -> Int], NEW L, Lists(L, X, w),
           NEW x \in X, \A y \in X : y # x => w[x] > w[y]
    PROVE  L # << >> /\ L[1] = x /\ Len(L) > 0 /\ Lists(Tail(L), X \ {x}, w)
<1>1. /\ Len(L) \in Nat /\ \A k \in 1 .. Len(L) : L[k] \in X /\ w[L[k]] \in Int
      /\ \A j, k \in 1 .. Len(L) : L[j] = L[k] => j = k
  BY ListIs
<1>2. /\ \A y \in X : \E k \in 1 .. Len(L) : L[k] = y
      /\ \A j, k \in 1 .. Len(L) : j < k => w[L[j]] > w[L[k]]
      /\ L \in Seq(X)
  BY DEF Lists
<1>3. PICK m \in 1 .. Len(L) : L[m] = x
  BY <1>2
<1>4. 1 \in 1 .. Len(L) /\ Len(L) > 0 /\ L # << >>
  <2>1. Len(L) > 0
    BY <1>1, <1>3
  <2>2. QED
    BY <1>1, <2>1
<1>5. m = 1
  <2> SUFFICES ASSUME 1 < m PROVE FALSE
    BY <1>1
  <2>0. w[L[1]] > w[L[m]] /\ 1 # m
    <3>1. 1 < m /\ 1 # m
      OBVIOUS
    <3>2. QED
      BY <1>2, <1>3, <1>4, <3>1
  <2>1. w[L[1]] > w[x] /\ L[1] # x
    BY <1>1, <1>3, <1>4, <2>0
  <2>2. w[x] > w[L[1]]
    BY <1>1, <1>4, <2>1
  <2>3. w[x] \in Int /\ w[L[1]] \in Int
    BY <1>1, <1>3, <1>4
  <2>4. QED
    BY <2>1, <2>2, <2>3
<1>6. L[1] = x
  BY <1>3, <1>5
<1> DEFINE T == Tail(L)
<1>7. T \in Seq(X) /\ Len(T) = Len(L) - 1 /\ \A k \in 1 .. Len(L) - 1 : T[k] = L[k + 1]
  BY <1>2, <1>4
<1> HIDE DEF T
<1>8. \A k \in 1 .. Len(T) : T[k] \in X \ {x}
  <2> TAKE k \in 1 .. Len(T)
  <2>1. k + 1 \in 1 .. Len(L) /\ T[k] = L[k + 1] /\ k + 1 # 1
    BY <1>1, <1>7
  <2>2. QED
    BY <1>1, <1>4, <1>6, <2>1
<1>9. T \in Seq(X \ {x})
  BY <1>7, <1>8
<1>10. ASSUME NEW y \in X \ {x}
       PROVE  \E k \in 1 .. Len(T) : T[k] = y
  <2>1. PICK k \in 1 .. Len(L) : L[k] = y
    BY <1>2
  <2>2. k # 1
    BY <1>6, <2>1
  <2>3. k - 1 \in 1 .. Len(T) /\ (k - 1) + 1 = k
    BY <1>1, <1>7, <2>2
  <2>4. QED
    BY <1>7, <2>1, <2>3
<1>11. ASSUME NEW j \in 1 .. Len(T), NEW k \in 1 .. Len(T), j < k
       PROVE  w[T[j]] > w[T[k]]
  <2>1. j + 1 \in 1 .. Len(L) /\ k + 1 \in 1 .. Len(L) /\ j + 1 < k + 1
    BY <1>1, <1>7, <1>11
  <2>2. QED
    BY <1>2, <1>7, <2>1
<1>12. Lists(T, X \ {x}, w)
  BY <1>9, <1>10, <1>11 DEF Lists
<1>13. QED
  BY <1>4, <1>6, <1>12 DEF T

\* Something may be put before the first,
LEMMA PutFirst ==
    ASSUME NEW X, NEW Y, X \subseteq Y, NEW w \in [Y -> Int], NEW L, Lists(L, X, w),
           NEW x \in Y, \A y \in X : w[x] > w[y]
    PROVE  Lists(<<x>> \o L, X \cup {x}, w)
<1> DEFINE T == <<x>> \o L
           Z == X \cup {x}
<1>1. /\ Len(L) \in Nat /\ \A k \in 1 .. Len(L) : L[k] \in X /\ w[L[k]] \in Int
      /\ \A y \in X : \E k \in 1 .. Len(L) : L[k] = y
      /\ \A j, k \in 1 .. Len(L) : j < k => w[L[j]] > w[L[k]]
      /\ L \in Seq(X)
  <2>1. Len(L) \in Nat /\ \A k \in 1 .. Len(L) : L[k] \in X /\ w[L[k]] \in Int
    BY ListIs
  <2>2. QED
    BY <2>1 DEF Lists
<1>2. T \in Seq(Z) /\ Len(T) = Len(L) + 1 /\ T[1] = x /\ \A k \in 2 .. Len(L) + 1 : T[k] = L[k - 1]
  <2>1. L \in Seq(Z) /\ <<x>> \in Seq(Z)
    BY <1>1
  <2>2. QED
    BY <1>1, <2>1
<1> HIDE DEF T
<1>3. ASSUME NEW y \in Z
      PROVE  \E k \in 1 .. Len(T) : T[k] = y
  <2>1. CASE y = x
    BY <1>1, <1>2, <2>1
  <2>2. CASE y \in X
    <3>1. PICK k \in 1 .. Len(L) : L[k] = y
      BY <1>1, <2>2
    <3>2. k + 1 \in 2 .. Len(L) + 1 /\ (k + 1) - 1 = k /\ k + 1 \in 1 .. Len(T)
      BY <1>1, <1>2
    <3>3. QED
      BY <1>2, <3>1, <3>2
  <2>3. QED
    BY <2>1, <2>2
<1>4. ASSUME NEW j \in 1 .. Len(T), NEW k \in 1 .. Len(T), j < k
      PROVE  w[T[j]] > w[T[k]]
  <2>0. j \in 1 .. Len(L) + 1 /\ k \in 1 .. Len(L) + 1
    BY <1>2
  <2>1. k \in 2 .. Len(L) + 1 /\ k - 1 \in 1 .. Len(L) /\ T[k] = L[k - 1]
    <3>1. Len(L) \in Int
      BY <1>1
    <3>2. k \in 2 .. Len(L) + 1 /\ k - 1 \in 1 .. Len(L)
      BY <1>4, <2>0, <3>1
    <3>3. QED
      BY <1>2, <3>2
  <2>2. CASE j = 1
    BY <1>1, <1>2, <2>1, <2>2
  <2>3. CASE j # 1
    <3>0. Len(L) \in Int
      BY <1>1
    <3>1. j \in 2 .. Len(L) + 1 /\ j - 1 \in 1 .. Len(L) /\ j - 1 < k - 1
      BY <1>4, <2>0, <2>3, <3>0
    <3>10. T[j] = L[j - 1]
      BY <1>2, <3>1
    <3>2. QED
      BY <1>1, <2>1, <3>1, <3>10
  <2>4. QED
    BY <2>2, <2>3
<1>5. QED
  BY <1>2, <1>3, <1>4 DEF Lists, T

\* or after the last.
LEMMA PutLast ==
    ASSUME NEW X, NEW Y, X \subseteq Y, NEW w \in [Y -> Int], NEW L, Lists(L, X, w),
           NEW x \in Y, \A y \in X : w[y] > w[x]
    PROVE  Lists(Append(L, x), X \cup {x}, w)
<1> DEFINE T == Append(L, x)
           Z == X \cup {x}
<1>1. /\ Len(L) \in Nat /\ \A k \in 1 .. Len(L) : L[k] \in X /\ w[L[k]] \in Int
      /\ \A y \in X : \E k \in 1 .. Len(L) : L[k] = y
      /\ \A j, k \in 1 .. Len(L) : j < k => w[L[j]] > w[L[k]]
      /\ L \in Seq(X)
  <2>1. Len(L) \in Nat /\ \A k \in 1 .. Len(L) : L[k] \in X /\ w[L[k]] \in Int
    BY ListIs
  <2>2. QED
    BY <2>1 DEF Lists
<1>2. T \in Seq(Z) /\ Len(T) = Len(L) + 1 /\ T[Len(L) + 1] = x /\ \A k \in 1 .. Len(L) : T[k] = L[k]
  <2>1. L \in Seq(Z)
    BY <1>1
  <2>2. QED
    BY <1>1, <2>1
<1> HIDE DEF T
<1>3. ASSUME NEW y \in Z
      PROVE  \E k \in 1 .. Len(T) : T[k] = y
  <2>1. CASE y = x
    <3>1. Len(L) + 1 \in 1 .. Len(T)
      BY <1>1, <1>2
    <3>2. QED
      BY <1>2, <2>1, <3>1
  <2>2. CASE y \in X
    <3>1. PICK k \in 1 .. Len(L) : L[k] = y
      BY <1>1, <2>2
    <3>2. k \in 1 .. Len(T)
      BY <1>1, <1>2
    <3>3. QED
      BY <1>2, <3>1, <3>2
  <2>3. QED
    BY <2>1, <2>2
<1>4. ASSUME NEW j \in 1 .. Len(T), NEW k \in 1 .. Len(T), j < k
      PROVE  w[T[j]] > w[T[k]]
  <2>0. j \in 1 .. Len(L) + 1 /\ k \in 1 .. Len(L) + 1
    BY <1>2
  <2>01. Len(L) \in Int
    BY <1>1
  <2>02. j \in 1 .. Len(L)
    BY <1>4, <2>0, <2>01
  <2>1. j \in 1 .. Len(L) /\ T[j] = L[j]
    BY <1>2, <2>02
  <2>2. CASE k = Len(L) + 1
    BY <1>1, <1>2, <2>1, <2>2
  <2>3. CASE k # Len(L) + 1
    <3>0. k \in 1 .. Len(L)
      BY <2>0, <2>01, <2>3
    <3>1. k \in 1 .. Len(L) /\ T[k] = L[k]
      BY <1>2, <3>0
    <3>2. QED
      BY <1>1, <1>4, <2>1, <3>1
  <2>4. QED
    BY <2>2, <2>3
<1>5. QED
  BY <1>2, <1>3, <1>4 DEF Lists, T

\* Another measure of the same order lists the same.
LEMMA SameOrder ==
    ASSUME NEW X, NEW w, NEW v, NEW L, Lists(L, X, w),
           \A x, y \in X : w[x] > w[y] => v[x] > v[y]
    PROVE  Lists(L, X, v)
<1>1. L \in Seq(X) /\ \A j, k \in 1 .. Len(L) : j < k => w[L[j]] > w[L[k]]
  BY DEF Lists
<1>2. \A k \in 1 .. Len(L) : L[k] \in X
  BY <1>1
<1>3. \A j, k \in 1 .. Len(L) : j < k => v[L[j]] > v[L[k]]
  BY <1>1, <1>2
<1>4. QED
  BY <1>3 DEF Lists

\* Nothing is listed by nothing,
LEMMA NoList ==
    ASSUME NEW w, NEW L
    PROVE  Lists(L, {}, w) <=> L = << >>
<1>1. ASSUME Lists(L, {}, w) PROVE L = << >>
  <2>1. L \in Seq({})
    BY <1>1 DEF Lists
  <2>2. \A k \in 1 .. Len(L) : L[k] \in {}
    BY <2>1
  <2>3. Len(L) \in Nat /\ ~(1 \in 1 .. Len(L))
    BY <2>1, <2>2
  <2>4. Len(L) = 0
    BY <2>3
  <2>5. QED
    BY <2>1, <2>4
<1>2. ASSUME L = << >> PROVE Lists(L, {}, w)
  <2>1. << >> \in Seq({}) /\ Len(<< >>) = 0
    OBVIOUS
  <2>2. QED
    BY <1>2, <2>1 DEF Lists
<1>3. QED
  BY <1>1, <1>2

\* and what is measured by 1 to N has N elements at most.
LEMMA ShortList ==
    ASSUME NEW X, NEW Y, X \subseteq Y, NEW w \in [Y -> Int], NEW L, Lists(L, X, w),
           NEW N \in Nat, \A x \in X : 1 <= w[x] /\ w[x] <= N
    PROVE  Len(L) <= N
<1>1. /\ Len(L) \in Nat /\ \A k \in 1 .. Len(L) : L[k] \in X /\ w[L[k]] \in Int
      /\ \A j, k \in 1 .. Len(L) : j < k => w[L[j]] > w[L[k]]
  <2>1. Len(L) \in Nat /\ \A k \in 1 .. Len(L) : L[k] \in X /\ w[L[k]] \in Int
    BY ListIs
  <2>2. QED
    BY <2>1 DEF Lists
<1> DEFINE P == {k \in 0 .. Len(L) : k > 0 => w[L[k]] <= N + 1 - k}
<1>2. 0 \in P
  BY <1>1
<1>3. ASSUME NEW k \in 1 .. Len(L), k - 1 \in P
      PROVE  k \in P
  <2>1. w[L[k]] \in Int /\ w[L[k]] <= N
    BY <1>1
  <2>2. CASE k = 1
    BY <1>1, <2>1, <2>2
  <2>3. CASE k # 1
    <3>1. k - 1 \in 1 .. Len(L) /\ k - 1 < k /\ k - 1 > 0
      BY <1>1, <2>3
    <3>2. w[L[k - 1]] > w[L[k]] /\ w[L[k - 1]] <= N + 1 - (k - 1) /\ w[L[k - 1]] \in Int
      BY <1>1, <1>3, <3>1
    <3>3. QED
      BY <1>1, <2>1, <3>2
  <2>4. QED
    BY <2>2, <2>3
<1>4. Len(L) \in P
  <2>1. Len(L) \in 0 .. Len(L)
    BY <1>1
  <2> HIDE DEF P
  <2>2. QED
    BY <1>1, <1>2, <1>3, <2>1, UpTo
<1>5. CASE Len(L) > 0
  <2>1. Len(L) \in 1 .. Len(L)
    BY <1>1, <1>5
  <2>2. 1 <= w[L[Len(L)]] /\ w[L[Len(L)]] \in Int /\ w[L[Len(L)]] <= N + 1 - Len(L)
    BY <1>1, <1>4, <1>5, <2>1
  <2>3. QED
    BY <1>1, <2>2
<1>6. QED
  BY <1>1, <1>5


\* The items of a ring buffer, and how far each is from m_pProduce.
Occupied(r) == {o \in Heads(r) : ~Free(r, o)}
Thing == [at : Ring!Offsets, size : Nat]
Item(r, o) == [at |-> o, size |-> r.block[o].size]
Shown(r) == {Item(r, o) : o \in Occupied(r)}
Dist(P, o) == IF o < P THEN P - o ELSE P + Size - o
Way(P) == [x \in Thing |-> Dist(P, x.at)]

\* Ring!Items, as a function of the buffer.
Follows(r, g) ==
    [i \in Ring!Offsets |->
        LET next == Ring!NextBlock(r, i)
            rest == IF next = r.produce THEN << >> ELSE g[next]
        IN IF r.block[i].free THEN rest
           ELSE <<[at |-> i, size |-> r.block[i].size]>> \o rest]
Following(r) == CHOOSE g : g = Follows(r, g)
ListOf(r) == IF Ring!IsEmpty(r) THEN << >> ELSE Following(r)[r.consume]

LEMMA DistIs ==
    ASSUME NEW P \in Ring!Offsets
    PROVE  /\ Way(P) \in [Thing -> Int]
           /\ \A x \in Thing : Way(P)[x] = Dist(P, x.at)
           /\ \A o \in Ring!Offsets : Dist(P, o) \in Int /\ 1 <= Dist(P, o) /\ Dist(P, o) <= Size
           /\ \A o, q \in Ring!Offsets : Dist(P, o) = Dist(P, q) => o = q
<1>1. P \in Int /\ 0 <= P /\ P < Size /\ Size \in Int
  BY RingAssumption DEF Ring!Offsets
<1>2. \A o \in Ring!Offsets : o \in Int /\ 0 <= o /\ o < Size
  BY RingAssumption DEF Ring!Offsets
<1>3. \A o \in Ring!Offsets : Dist(P, o) \in Int /\ 1 <= Dist(P, o) /\ Dist(P, o) <= Size
  BY <1>1, <1>2 DEF Dist
<1>4. \A o, q \in Ring!Offsets : Dist(P, o) = Dist(P, q) => o = q
  BY <1>1, <1>2 DEF Dist
<1>5. \A x \in Thing : x.at \in Ring!Offsets
  BY DEF Thing
<1>6. \A x \in Thing : Dist(P, x.at) \in Int
  BY <1>3, <1>5
<1>7. QED
  BY <1>3, <1>4, <1>6 DEF Way

LEMMA ItemIs ==
    ASSUME NEW r \in Rings
    PROVE  /\ Shown(r) \subseteq Thing
           /\ \A o \in Heads(r) : Item(r, o) \in Thing /\ Item(r, o).at = o /\ Item(r, o).size = r.block[o].size
<1>1. \A o \in Heads(r) : o \in Ring!Offsets /\ r.block[o].size \in Nat
  BY HeadIs DEF Header
<1>2. \A o \in Heads(r) : Item(r, o) \in Thing /\ Item(r, o).at = o /\ Item(r, o).size = r.block[o].size
  BY <1>1 DEF Item, Thing
<1>3. QED
  BY <1>2 DEF Shown, Occupied

\* From block to block m_pProduce comes nearer, and no block is passed over.
LEMMA Nearer ==
    ASSUME NEW r, Chain(r), NEW i \in Heads(r)
    PROVE  LET next == Ring!NextBlock(r, i)
               P == r.produce
           IN /\ next # P => Dist(P, next) < Dist(P, i)
              /\ \A o \in Heads(r) : Dist(P, o) < Dist(P, i) => next # P /\ Dist(P, o) <= Dist(P, next)
<1> DEFINE next == Ring!NextBlock(r, i)
           P == r.produce
           e == End(r, i)
<1>1. r \in Rings /\ P \in Heads(r) /\ InChain(r, i) /\ 0 \in Heads(r)
  BY DEF Chain
<1>2. \A o \in Heads(r) : o \in Int /\ o >= 0 /\ o < Size
  BY <1>1, HeadIs
<1>3. e \in Int /\ e > i /\ Size \in Int
  BY <1>1, HeadIs
<1>4. next = (IF e = Size THEN 0 ELSE e) /\ next \in Heads(r) /\ (e = Size \/ (e < Size /\ e \in Heads(r)))
  BY NextIs
<1>5. \A o \in Heads(r) : i < o => e <= o
  BY <1>1 DEF InChain
<1> HIDE DEF next, e, P
<1>6. P \in Int /\ P >= 0 /\ P < Size /\ i \in Int /\ i >= 0 /\ i < Size
  BY <1>1, <1>2
<1>7. i < P => e <= P
  BY <1>1, <1>5
<1>8. next # P => Dist(P, next) < Dist(P, i)
  <2> HAVE next # P
  <2>1. CASE e = Size
    BY <1>3, <1>4, <1>6, <1>7, <2>1 DEF Dist
  <2>2. CASE e < Size
    BY <1>3, <1>4, <1>6, <1>7, <2>2 DEF Dist
  <2>3. QED
    BY <1>4, <2>1, <2>2
<1>9. ASSUME NEW o \in Heads(r), Dist(P, o) < Dist(P, i)
      PROVE  next # P /\ Dist(P, o) <= Dist(P, next)
  <2>1. o \in Int /\ o >= 0 /\ o < Size /\ (i < o => e <= o)
    BY <1>2, <1>5
  <2>2. CASE e = Size
    BY <1>3, <1>4, <1>6, <1>7, <1>9, <2>1, <2>2 DEF Dist
  <2>3. CASE e < Size
    BY <1>3, <1>4, <1>6, <1>7, <1>9, <2>1, <2>3 DEF Dist
  <2>4. QED
    BY <1>4, <2>2, <2>3
<1>10. QED
  BY <1>8, <1>9 DEF next, P

\* The walk along the blocks ends, from wherever it starts.
Steps(r) == [i \in Ring!Offsets |-> IF i \in Heads(r) THEN Dist(r.produce, i) ELSE Size + 1]

LEMMA StepsFall ==
    ASSUME NEW r, Chain(r), Tidy(r), NEW i \in Ring!Offsets
    PROVE  LET next == Ring!NextBlock(r, i)
           IN /\ Steps(r)[i] \in Int /\ 1 <= Steps(r)[i] /\ Steps(r)[i] <= Size + 1
              /\ next \in Ring!Offsets
              /\ next # r.produce => Steps(r)[next] < Steps(r)[i]
<1> DEFINE next == Ring!NextBlock(r, i)
<1>1. r \in Rings /\ r.produce \in Heads(r) /\ 0 \in Heads(r) /\ Size \in Int
  BY RingAssumption DEF Chain
<1>2. \A o \in Heads(r) : o \in Ring!Offsets
  BY DEF Heads
<1>3. \A o \in Heads(r) : Steps(r)[o] = Dist(r.produce, o)
  BY <1>2 DEF Steps
<1>4. \A o \in Heads(r) : Dist(r.produce, o) \in Int /\ 1 <= Dist(r.produce, o) /\ Dist(r.produce, o) <= Size
  BY <1>1, <1>2, DistIs
<1>5. CASE i \in Heads(r)
  <2>1. next \in Heads(r)
    BY <1>5, NextIs
  <2>2. next # r.produce => Dist(r.produce, next) < Dist(r.produce, i)
    BY <1>5, Nearer
  <2> HIDE DEF next
  <2>3. Steps(r)[i] \in Int /\ 1 <= Steps(r)[i] /\ Steps(r)[i] <= Size + 1
    BY <1>1, <1>3, <1>4, <1>5
  <2>4. next # r.produce => Steps(r)[next] < Steps(r)[i]
    BY <1>3, <1>5, <2>1, <2>2
  <2>5. QED
    BY <1>2, <2>1, <2>3, <2>4 DEF next
<1>6. CASE i \notin Heads(r)
  <2>1. r.block[i].size = 0
    <3>1. r.block[i].size \in Nat
      BY <1>1 DEF Rings, Header
    <3>2. QED
      BY <1>6, <3>1 DEF Heads
  <2>2. next = 0
    BY <2>1 DEF Tidy, Ring!NextBlock
  <2>3. Steps(r)[i] = Size + 1
    BY <1>6 DEF Steps
  <2> HIDE DEF next
  <2>4. Steps(r)[0] \in Int /\ Steps(r)[0] <= Size
    BY <1>1, <1>3, <1>4
  <2>5. Steps(r)[i] \in Int /\ 1 <= Steps(r)[i] /\ Steps(r)[i] <= Size + 1
    <3>1. Size > 0
      BY RingAssumption
    <3>2. QED
      BY <1>1, <2>3, <3>1
  <2>6. Steps(r)[next] < Steps(r)[i]
    BY <1>1, <2>2, <2>3, <2>4
  <2>7. QED
    BY <1>1, <1>2, <2>2, <2>5, <2>6 DEF next
<1>7. QED
  BY <1>5, <1>6

\* The function of Ring!Items exists.
LEMMA FollowingIs ==
    ASSUME NEW r, Chain(r), Tidy(r), NEW i \in Ring!Offsets
    PROVE  LET next == Ring!NextBlock(r, i)
               rest == IF next = r.produce THEN << >> ELSE Following(r)[next]
           IN Following(r)[i] = IF r.block[i].free THEN rest ELSE <<Item(r, i)>> \o rest
<1> DEFINE O == Ring!Offsets
           nx(j) == Ring!NextBlock(r, j)
           Later(g, j) == IF nx(j) = r.produce THEN << >> ELSE g[nx(j)]
           At(g, j) == IF r.block[j].free THEN Later(g, j) ELSE <<Item(r, j)>> \o Later(g, j)
           E(g) == Follows(r, g)
           rank == Steps(r)
           N == Size + 1
<1>1. N \in Nat /\ r \in Rings
  BY RingAssumption DEF Chain
<1>2. \A j \in O : rank[j] \in Int /\ 1 <= rank[j] /\ rank[j] <= N /\ nx(j) \in O
  BY StepsFall
<1>3. \A j \in O : nx(j) # r.produce => rank[nx(j)] < rank[j]
  BY StepsFall
<1>4. \A j \in O : Item(r, j) \in Thing
  BY <1>1 DEF Item, Thing, Rings, Header
<1>5. \A g : \A j \in O : E(g)[j] = At(g, j)
  BY DEF Follows, Item
<1>6. \A g : E(g) = [j \in O |-> E(g)[j]]
  BY DEF Follows
<1> HIDE DEF rank, N, nx, E
<1>7. \A g \in [O -> Seq(Thing)] : E(g) \in [O -> Seq(Thing)]
  <2> TAKE g \in [O -> Seq(Thing)]
  <2>1. \A j \in O : E(g)[j] \in Seq(Thing)
    <3> TAKE j \in O
    <3>1. Later(g, j) \in Seq(Thing)
      <4>1. nx(j) \in O
        BY <1>2
      <4>2. << >> \in Seq(Thing) /\ g[nx(j)] \in Seq(Thing)
        BY <4>1
      <4>3. QED
        BY <4>2
    <3>2. <<Item(r, j)>> \o Later(g, j) \in Seq(Thing)
      <4>1. <<Item(r, j)>> \in Seq(Thing)
        BY <1>4
      <4> HIDE DEF Later
      <4>2. QED
        BY <3>1, <4>1
    <3>3. QED
      BY <1>5, <3>1, <3>2
  <2>2. QED
    BY <1>6, <2>1
<1> DEFINE Fits(g, n) == \A j \in O : rank[j] < n => g[j] = E(g)[j]
           P == {n \in 0 .. N + 1 : \E g \in [O -> Seq(Thing)] : Fits(g, n)}
<1>8. 0 \in P
  <2> DEFINE g == [j \in O |-> << >>]
  <2>1. g \in [O -> Seq(Thing)]
    OBVIOUS
  <2>2. Fits(g, 0)
    <3> SUFFICES ASSUME NEW j \in O, rank[j] < 0 PROVE FALSE
      OBVIOUS
    <3>1. QED
      BY <1>2
  <2>3. 0 \in 0 .. N + 1
    BY <1>1
  <2> HIDE DEF g, Fits
  <2>4. QED
    BY <2>1, <2>2, <2>3
<1>9. ASSUME NEW n \in 1 .. N + 1, n - 1 \in P
      PROVE  n \in P
  <2>1. PICK g \in [O -> Seq(Thing)] : Fits(g, n - 1)
    BY <1>9
  <2>2. E(g) \in [O -> Seq(Thing)]
    BY <1>7
  <2>3. ASSUME NEW j \in O, rank[j] < n
        PROVE  E(g)[j] = E(E(g))[j]
    <3>1. E(g)[j] = At(g, j) /\ E(E(g))[j] = At(E(g), j)
      BY <1>5
    <3>2. CASE nx(j) = r.produce
      BY <3>1, <3>2
    <3>3. CASE nx(j) # r.produce
      <4>1. nx(j) \in O /\ rank[nx(j)] < n - 1
        <5>1. nx(j) \in O /\ rank[nx(j)] < rank[j] /\ rank[j] \in Int /\ rank[nx(j)] \in Int
          BY <1>2, <1>3, <3>3
        <5>2. QED
          BY <2>3, <5>1
      <4>2. g[nx(j)] = E(g)[nx(j)]
        BY <2>1, <4>1
      <4>3. Later(g, j) = Later(E(g), j)
        BY <3>3, <4>2
      <4> HIDE DEF Later
      <4>4. QED
        BY <3>1, <4>3
    <3>4. QED
      BY <3>2, <3>3
  <2>4. Fits(E(g), n)
    BY <2>3
  <2> DEFINE h == E(g)
  <2>5. h \in [O -> Seq(Thing)] /\ Fits(h, n)
    BY <2>2, <2>4
  <2>6. n \in 0 .. N + 1
    BY <1>1
  <2> HIDE DEF h, Fits
  <2>7. QED
    BY <2>5, <2>6
<1>10. N + 1 \in P
  <2> HIDE DEF P
  <2> DEFINE M == N + 1
  <2>1. M \in Nat /\ M \in 0 .. M
    BY <1>1
  <2>2. \A n \in 1 .. M : n - 1 \in P => n \in P
    BY <1>9
  <2> HIDE DEF M
  <2>3. \A n \in 0 .. M : n \in P
    BY <1>8, <2>1, <2>2, UpTo
  <2>4. M \in P
    BY <2>1, <2>3
  <2>5. QED
    BY <2>4 DEF M
<1>11. PICK g \in [O -> Seq(Thing)] : Fits(g, N + 1)
  BY <1>10
<1>12. g = E(g)
  <2>1. \A j \in O : rank[j] < N + 1
    BY <1>1, <1>2
  <2>2. \A j \in O : g[j] = E(g)[j]
    BY <1>11, <2>1
  <2>3. E(g) = [j \in O |-> E(g)[j]] /\ g = [j \in O |-> g[j]]
    BY <1>6
  <2>4. QED
    BY <2>2, <2>3
<1>13. Following(r) = E(Following(r))
  BY <1>12 DEF Following, E
<1>14. Following(r)[i] = At(Following(r), i)
  BY <1>5, <1>13
<1>15. QED
  BY <1>14 DEF nx


\* What lies from block i to m_pProduce.
From(r, i) == {Item(r, o) : o \in {q \in Occupied(r) : Dist(r.produce, q) <= Dist(r.produce, i)}}

LEMMA FromIs ==
    ASSUME NEW r, Chain(r), Tidy(r), NEW i \in Heads(r),
           Ring!NextBlock(r, i) # r.produce =>
               Lists(Following(r)[Ring!NextBlock(r, i)], From(r, Ring!NextBlock(r, i)), Way(r.produce))
    PROVE  Lists(Following(r)[i], From(r, i), Way(r.produce))
<1> DEFINE next == Ring!NextBlock(r, i)
           P == r.produce
           rest == IF next = P THEN << >> ELSE Following(r)[next]
           behind == {Item(r, o) : o \in {q \in Occupied(r) : Dist(P, q) < Dist(P, i)}}
           w == Way(P)
<1>1. /\ r \in Rings /\ P \in Ring!Offsets /\ i \in Ring!Offsets /\ next \in Heads(r)
      /\ \A o \in Heads(r) : o \in Ring!Offsets
  <2>1. next \in Heads(r)
    BY NextIs
  <2>2. QED
    BY <2>1 DEF Chain, Heads
<1>2. /\ next # P => Dist(P, next) < Dist(P, i)
      /\ \A o \in Heads(r) : Dist(P, o) < Dist(P, i) => next # P /\ Dist(P, o) <= Dist(P, next)
  BY Nearer
<1>3. Following(r)[i] = IF r.block[i].free THEN rest ELSE <<Item(r, i)>> \o rest
  BY <1>1, FollowingIs
<1>4. /\ w \in [Thing -> Int] /\ \A x \in Thing : w[x] = Dist(P, x.at)
      /\ \A o \in Ring!Offsets : Dist(P, o) \in Int
      /\ \A o, q \in Ring!Offsets : Dist(P, o) = Dist(P, q) => o = q
  BY <1>1, DistIs
<1> HIDE DEF next, P, w
<1>5. \A q \in Occupied(r) : q \in Heads(r) /\ ~Free(r, q) /\ q \in Ring!Offsets
  BY <1>1 DEF Occupied
<1>6. Lists(rest, behind, w)
  <2>1. CASE next = P
    <3>1. behind = {}
      BY <1>2, <1>5, <2>1
    <3>2. QED
      BY <2>1, <3>1, NoList
  <2>2. CASE next # P
    <3>1. ASSUME NEW q \in Occupied(r)
          PROVE  Dist(P, q) < Dist(P, i) <=> Dist(P, q) <= Dist(P, next)
      <4>1. Dist(P, q) \in Int /\ Dist(P, i) \in Int /\ Dist(P, next) \in Int
        BY <1>1, <1>4, <1>5
      <4>2. Dist(P, q) < Dist(P, i) => Dist(P, q) <= Dist(P, next)
        BY <1>2, <1>5
      <4>3. QED
        BY <1>2, <2>2, <4>1, <4>2
    <3>2. behind = From(r, next)
      BY <3>1 DEF From, P
    <3>3. QED
      BY <2>2, <3>2 DEF next, P, w
  <2>3. QED
    BY <2>1, <2>2
<1>7. behind \subseteq Thing
  BY <1>1, <1>5, ItemIs
<1>8. \A q \in Occupied(r) : Dist(P, q) <= Dist(P, i) <=> (Dist(P, q) < Dist(P, i) \/ q = i)
  <2> TAKE q \in Occupied(r)
  <2>1. Dist(P, q) \in Int /\ Dist(P, i) \in Int /\ (Dist(P, q) = Dist(P, i) => q = i)
    BY <1>1, <1>4, <1>5
  <2>2. QED
    BY <2>1
<1> HIDE DEF rest
<1>9. CASE Free(r, i)
  <2>1. From(r, i) = behind
    BY <1>5, <1>8, <1>9 DEF From, P
  <2>2. Following(r)[i] = rest
    BY <1>3, <1>9 DEF Free
  <2>3. QED
    BY <1>6, <2>1, <2>2 DEF w, P
<1>10. CASE ~Free(r, i)
  <2>1. i \in Occupied(r)
    BY <1>10 DEF Occupied
  <2>2. From(r, i) = behind \cup {Item(r, i)}
    BY <1>8, <2>1 DEF From, P
  <2>3. Following(r)[i] = <<Item(r, i)>> \o rest
    BY <1>3, <1>10 DEF Free
  <2>4. Item(r, i) \in Thing /\ w[Item(r, i)] = Dist(P, i)
    BY <1>1, <1>4, ItemIs
  <2>5. \A y \in behind : w[Item(r, i)] > w[y]
    <3> TAKE y \in behind
    <3>1. PICK q \in Occupied(r) : y = Item(r, q) /\ Dist(P, q) < Dist(P, i)
      OBVIOUS
    <3>2. w[y] = Dist(P, q) /\ Dist(P, q) \in Int /\ Dist(P, i) \in Int
      <4>1. Item(r, q) \in Thing /\ Item(r, q).at = q
        BY <1>1, <1>5, ItemIs
      <4>2. QED
        BY <1>1, <1>4, <1>5, <3>1, <4>1
    <3>3. QED
      BY <2>4, <3>1, <3>2
  <2> HIDE DEF behind
  <2> DEFINE x == Item(r, i)
  <2>6. x \in Thing /\ (\A y \in behind : w[x] > w[y])
    BY <2>4, <2>5
  <2> HIDE DEF x
  <2>7. Lists(<<x>> \o rest, behind \cup {x}, w)
    BY <1>4, <1>6, <1>7, <2>6, PutFirst
  <2>8. QED
    BY <2>2, <2>3, <2>7 DEF x, w, P
<1>11. QED
  BY <1>9, <1>10

LEMMA WalkIs ==
    ASSUME NEW r, Chain(r), Tidy(r), NEW i \in Heads(r)
    PROVE  Lists(Following(r)[i], From(r, i), Way(r.produce))
<1> DEFINE P == r.produce
           Q == {n \in 0 .. Size : \A o \in Heads(r) : Dist(P, o) <= n => Lists(Following(r)[o], From(r, o), Way(P))}
<1>1. /\ Size \in Nat /\ P \in Ring!Offsets /\ \A o \in Heads(r) : o \in Ring!Offsets
      /\ \A o \in Heads(r) : Ring!NextBlock(r, o) \in Heads(r)
  <2>1. \A o \in Heads(r) : Ring!NextBlock(r, o) \in Heads(r)
    BY NextIs
  <2>2. QED
    BY <2>1, RingAssumption DEF Chain, Heads
<1>2. \A o \in Heads(r) : Dist(P, o) \in Int /\ 1 <= Dist(P, o) /\ Dist(P, o) <= Size
  BY <1>1, DistIs
<1>3. 0 \in Q
  <2>1. \A o \in Heads(r) : ~(Dist(P, o) <= 0)
    BY <1>2
  <2>2. QED
    BY <1>1, <2>1
<1>4. ASSUME NEW n \in 1 .. Size, n - 1 \in Q
      PROVE  n \in Q
  <2>1. ASSUME NEW o \in Heads(r), Dist(P, o) <= n
        PROVE  Lists(Following(r)[o], From(r, o), Way(P))
    <3> DEFINE next == Ring!NextBlock(r, o)
    <3>1. next \in Heads(r) /\ (next # P => Dist(P, next) < Dist(P, o))
      BY <1>1, Nearer
    <3>2. next # P => Lists(Following(r)[next], From(r, next), Way(P))
      <4> HAVE next # P
      <4> HIDE DEF next
      <4>1. Dist(P, next) \in Int /\ Dist(P, o) \in Int /\ Dist(P, next) < Dist(P, o)
        BY <1>2, <3>1
      <4>2. Dist(P, next) <= n - 1
        BY <2>1, <4>1
      <4>3. QED
        BY <1>4, <3>1, <4>2
    <3>3. QED
      BY <3>2, FromIs
  <2>2. n \in 0 .. Size
    BY <1>1
  <2>3. QED
    BY <2>1, <2>2
<1> HIDE DEF Q
<1>5. \A n \in 0 .. Size : n \in Q
  BY <1>1, <1>3, <1>4, UpTo
<1>6. Size \in Q
  BY <1>1, <1>5
<1>7. QED
  BY <1>2, <1>6 DEF Q

\* The items lie between m_pConsume and m_pProduce.
LEMMA FirstIs ==
    ASSUME NEW r, RingInv(r), ~Ring!IsEmpty(r)
    PROVE  /\ r.consume \in Occupied(r)
           /\ \A o \in Occupied(r) : o # r.consume => Dist(r.produce, o) < Dist(r.produce, r.consume)
           /\ \A o \in Occupied(r) : IF r.consume < r.produce THEN r.consume <= o /\ o < r.produce
                                     ELSE r.consume <= o \/ o < r.produce
<1> DEFINE c == r.consume
           P == r.produce
<1>1. /\ r \in Rings /\ c \in Heads(r) /\ P \in Heads(r) /\ ~Free(r, c)
      /\ c < P => Straight(r)
      /\ P <= c => Wrapped(r)
  BY DEF RingInv, Chain, Order, Ring!IsEmpty, Free
<1>2. \A o \in Heads(r) : o \in Int /\ o >= 0 /\ o < Size /\ Size \in Int
  BY <1>1, HeadIs
<1>3. c \in Int /\ P \in Int /\ c < Size /\ P < Size /\ c >= 0 /\ P >= 0 /\ Size \in Int
  BY <1>1, <1>2
<1>4. c \in Occupied(r)
  BY <1>1 DEF Occupied
<1>5. ASSUME NEW o \in Occupied(r)
      PROVE  IF c < P THEN c <= o /\ o < P ELSE c <= o \/ o < P
  <2>1. o \in Heads(r) /\ ~Free(r, o) /\ o \in Int
    BY <1>2 DEF Occupied
  <2>2. CASE c < P
    BY <1>1, <2>1, <2>2 DEF Straight
  <2>3. CASE ~(c < P)
    <3>1. Wrapped(r)
      BY <1>1, <1>3, <2>3
    <3>2. P <= o /\ o < c => Free(r, o)
      BY <2>1, <3>1 DEF Wrapped
    <3> HIDE DEF c, P
    <3>3. QED
      BY <1>3, <2>1, <2>3, <3>2
  <2>4. QED
    BY <2>2, <2>3
<1> HIDE DEF c, P
<1>6. ASSUME NEW o \in Occupied(r), o # c
      PROVE  Dist(P, o) < Dist(P, c)
  <2>1. o \in Int /\ o >= 0 /\ o < Size
    BY <1>2 DEF Occupied
  <2>2. QED
    BY <1>3, <1>5, <1>6, <2>1 DEF Dist
<1>7. QED
  BY <1>4, <1>5, <1>6 DEF c, P

\* An empty buffer has no items.
LEMMA EmptyShown ==
    ASSUME NEW r, RingInv(r), Ring!IsEmpty(r)
    PROVE  Shown(r) = {}
<1>1. Free(r, r.consume) /\ End(r, 0) = Size /\ r.consume \in Heads(r) /\ InChain(r, 0) /\ r \in Rings
  BY DEF RingInv, Order, Ring!IsEmpty, Free, Chain
<1>2. \A q \in Heads(r) : q = 0
  <2> TAKE q \in Heads(r)
  <2>1. q \in Int /\ q >= 0 /\ q < Size /\ Size \in Int
    BY <1>1, HeadIs
  <2>2. 0 < q => Size <= q
    BY <1>1 DEF InChain
  <2>3. QED
    BY <2>1, <2>2
<1>3. Occupied(r) = {}
  BY <1>1, <1>2 DEF Occupied
<1>4. QED
  BY <1>3 DEF Shown

\* Items shows what is in the buffer, from the oldest.
LEMMA ItemsAre ==
    ASSUME NEW r, RingInv(r), Tidy(r)
    PROVE  /\ Lists(ListOf(r), Shown(r), Way(r.produce))
           /\ Shown(r) \subseteq Thing /\ Way(r.produce) \in [Thing -> Int]
<1>1. Chain(r) /\ r \in Rings /\ r.produce \in Ring!Offsets
  BY DEF RingInv, Chain, Heads
<1>2. Shown(r) \subseteq Thing /\ Way(r.produce) \in [Thing -> Int]
  BY <1>1, ItemIs, DistIs
<1>3. CASE Ring!IsEmpty(r)
  <2>1. Shown(r) = {} /\ ListOf(r) = << >>
    BY <1>3, EmptyShown DEF ListOf
  <2>2. QED
    BY <1>2, <2>1, NoList
<1>4. CASE ~Ring!IsEmpty(r)
  <2> DEFINE c == r.consume
             P == r.produce
  <2>1. c \in Occupied(r) /\ (\A o \in Occupied(r) : o # c => Dist(P, o) < Dist(P, c))
    BY <1>4, FirstIs
  <2>2. c \in Heads(r) /\ \A o \in Occupied(r) : o \in Ring!Offsets
    BY <1>1, <2>1 DEF Occupied, Heads
  <2>3. Lists(Following(r)[c], From(r, c), Way(P))
    BY <1>1, <2>2, WalkIs
  <2>4. \A o \in Occupied(r) : Dist(P, o) <= Dist(P, c)
    <3> TAKE o \in Occupied(r)
    <3>1. Dist(P, o) \in Int /\ Dist(P, c) \in Int
      BY <1>1, <2>1, <2>2, DistIs
    <3>2. QED
      BY <2>1, <3>1
  <2>5. From(r, c) = Shown(r)
    BY <2>4 DEF From, Shown
  <2>6. ListOf(r) = Following(r)[c]
    BY <1>4 DEF ListOf
  <2>7. QED
    BY <1>2, <2>3, <2>5, <2>6
<1>5. QED
  BY <1>3, <1>4


\* The same items in the same places.
Keeps(r, s) ==
    /\ Chain(s) /\ Tidy(s) /\ s.recycles = r.recycles
    /\ Occupied(s) = Occupied(r) /\ \A o \in Occupied(r) : s.block[o].size = r.block[o].size

LEMMA ShownKept == ASSUME NEW r, NEW s, Keeps(r, s) PROVE Shown(s) = Shown(r)
BY DEF Keeps, Shown, Item

LEMMA SumSame == \A x, y, z \in Int : x + y = x + z => y = z
OBVIOUS

LEMMA MergeKeeps ==
    ASSUME NEW q, Chain(q), Tidy(q), NEW i \in Heads(q)
    PROVE  LET m == Ring!MergeBack(q, i)
           IN /\ Keeps(q, m)
              /\ q.produce # i => m.produce = q.produce
              /\ Ring!CanMerge(q, i) /\ q.consume = i => Free(m, m.consume)
<1> DEFINE m == Ring!MergeBack(q, i)
           p == q.block[i].prev
<1>1. CASE ~Ring!CanMerge(q, i)
  <2>1. m = q
    BY <1>1 DEF Ring!MergeBack
  <2>2. QED
    BY <1>1, <2>1 DEF Keeps
<1>2. CASE Ring!CanMerge(q, i)
  <2>1. Merged(q, m, i, p)
    BY <1>2, MergeBackIs
  <2>2. p \in Heads(q) /\ Free(q, i) /\ Free(q, p)
    <3>1. i # 0 /\ InChain(q, i)
      <4>1. InChain(q, 0) /\ InChain(q, i)
        BY DEF Chain
      <4>2. QED
        BY <1>2, <4>1 DEF InChain, Ring!CanMerge
    <3>2. QED
      BY <1>2, <3>1 DEF InChain, Ring!CanMerge, Free
  <2> HIDE DEF m, p
  <2>3. /\ Chain(m) /\ Heads(m) = Heads(q) \ {i} /\ i # p
        /\ Free(m, p) = Free(q, p)
        /\ \A o \in Heads(q) \ {i, p} : End(m, o) = End(q, o) /\ Free(m, o) = Free(q, o)
        /\ m.produce = (IF q.produce = i THEN p ELSE q.produce)
        /\ m.consume = (IF q.consume = i THEN p ELSE q.consume)
        /\ m.recycles = q.recycles /\ Tidy(m)
    BY <2>1 DEF Merged
  <2>4. Occupied(m) = Occupied(q)
    BY <2>2, <2>3 DEF Occupied
  <2>5. ASSUME NEW o \in Occupied(q)
        PROVE  m.block[o].size = q.block[o].size
    <3>1. o \in Heads(q) \ {i, p} /\ o \in Heads(m)
      BY <2>2, <2>3 DEF Occupied
    <3>2. o \in Int /\ q.block[o].size \in Int /\ m.block[o].size \in Int /\ q \in Rings /\ m \in Rings
      <4>1. q \in Rings /\ m \in Rings
        BY <2>3 DEF Chain
      <4>2. QED
        BY <3>1, <4>1, HeadIs
    <3>3. o + m.block[o].size = o + q.block[o].size
      BY <2>3, <3>1 DEF End
    <3>4. QED
      BY <3>2, <3>3, SumSame
  <2>6. QED
    BY <2>1, <2>2, <2>3, <2>4, <2>5 DEF Keeps, m
<1>3. QED
  BY <1>1, <1>2

LEMMA KeepsOn == ASSUME NEW a, NEW b, NEW d, Keeps(a, b), Keeps(b, d) PROVE Keeps(a, d)
BY DEF Keeps

LEMMA MovedKeeps ==
    ASSUME NEW m, Chain(m), Tidy(m), NEW y \in Heads(m)
    PROVE  Keeps(m, Moved(m, y)) /\ Moved(m, y).produce = m.produce /\ Moved(m, y).consume = y
<1> DEFINE a == Moved(m, y)
<1>1. /\ Chain(a) /\ Heads(a) = Heads(m) /\ \A o \in Ring!Offsets : End(a, o) = End(m, o) /\ Free(a, o) = Free(m, o)
      /\ a.block = m.block /\ a.produce = m.produce /\ a.consume = y /\ a.recycles = m.recycles
  BY MovedIs
<1> HIDE DEF a
<1>2. Tidy(a) /\ Occupied(a) = Occupied(m)
  BY <1>1 DEF Tidy, Occupied, Heads
<1>3. QED
  BY <1>1, <1>2 DEF Keeps, a

\* A round of the loop.
LEMMA AdvanceKeeps ==
    ASSUME NEW q, Chain(q), Tidy(q)
    PROVE  LET a == Ring!MergeAndAdvance(q)
           IN Keeps(q, a) /\ (q.produce # q.consume => a.produce = q.produce)
<1> DEFINE m == Ring!MergeBack(q, q.consume)
           y == Ring!NextBlock(m, m.consume)
<1>1. Keeps(q, m) /\ (q.produce # q.consume => m.produce = q.produce)
  <2>1. q.consume \in Heads(q)
    BY DEF Chain
  <2>2. QED
    BY <2>1, MergeKeeps
<1>2. Ring!MergeAndAdvance(q) = Moved(m, y)
  BY DEF Ring!MergeAndAdvance, Moved
<1> HIDE DEF m
<1>3. Chain(m) /\ Tidy(m) /\ m.consume \in Heads(m)
  BY <1>1 DEF Keeps, Chain
<1>4. y \in Heads(m)
  BY <1>3, NextIs
<1> HIDE DEF y
<1>5. Keeps(m, Moved(m, y)) /\ Moved(m, y).produce = m.produce
  BY <1>3, <1>4, MovedKeeps
<1>6. QED
  BY <1>1, <1>2, <1>5, KeepsOn

\* The loop of Ring!PopFirst stays within any set its rounds stay within.
LEMMA AdvancedStays ==
    ASSUME NEW S, NEW q \in S, \A p \in S : Skips(p) => Ring!MergeAndAdvance(p) \in S
    PROVE  Ring!Advanced(q) \in S
<1> DEFINE s == [p \in S |-> Round(p)]
           E(h) == [k \in 0 .. Size |->
                       IF k = 0 THEN q
                       ELSE LET p == h[k - 1]
                            IN IF p.block[p.consume].free /\ p.consume # p.produce
                               THEN Ring!MergeAndAdvance(p) ELSE p]
           after == CHOOSE h : h = E(h)
<1>0. Size \in Nat
  BY RingAssumption
<1>1. \A p \in S : Round(p) \in S
  BY DEF Round
<1>2. \A h : E(h) = [k \in 0 .. Size |-> IF k = 0 THEN q ELSE Round(h[k - 1])]
  BY DEF Round, Skips
<1>3. s \in [S -> S] /\ \A p \in S : s[p] = Round(p)
  BY <1>1
<1> HIDE DEF s
<1>4. PICK g : IsRun(g, S, s, q, Size)
  BY <1>0, <1>3, Iterates
<1>5. g = [k \in 0 .. Size |-> IF k = 0 THEN q ELSE Round(g[k - 1])]
  <2>1. g \in [0 .. Size -> S] /\ g[0] = q /\ \A k \in 1 .. Size : g[k] = s[g[k - 1]]
    BY <1>4 DEF IsRun
  <2>2. \A k \in 0 .. Size : g[k] = (IF k = 0 THEN q ELSE Round(g[k - 1]))
    <3> TAKE k \in 0 .. Size
    <3>1. CASE k = 0
      BY <2>1, <3>1
    <3>2. CASE k # 0
      <4>1. k \in 1 .. Size /\ k - 1 \in 0 .. Size
        BY <1>0, <3>2
      <4>2. QED
        BY <1>3, <2>1, <3>2, <4>1
    <3>3. QED
      BY <3>1, <3>2
  <2>3. QED
    BY <2>1, <2>2
<1>6. after = E(after)
  <2>1. g = E(g)
    BY <1>2, <1>5
  <2> HIDE DEF E
  <2>2. QED
    BY <2>1
<1>7. after = [k \in 0 .. Size |-> IF k = 0 THEN q ELSE Round(after[k - 1])]
  <2> HIDE DEF E, after
  <2>1. QED
    BY <1>2, <1>6
<1>8. Ring!Advanced(q) = after[Size]
  BY DEF Ring!Advanced
<1> HIDE DEF after
<1> DEFINE P == {k \in 0 .. Size : after[k] \in S}
<1>9. 0 \in P
  BY <1>0, <1>7
<1>10. ASSUME NEW k \in 1 .. Size, k - 1 \in P
       PROVE  k \in P
  <2>1. k \in 0 .. Size /\ k # 0
    OBVIOUS
  <2>2. after[k] = Round(after[k - 1])
    BY <1>7, <2>1
  <2>3. QED
    BY <1>1, <1>10, <2>1, <2>2
<1>11. Size \in P
  <2> HIDE DEF P
  <2>1. QED
    BY <1>0, <1>9, <1>10, UpTo
<1>12. QED
  BY <1>8, <1>11

\* PopFirst takes out the first item, and moves no other.
LEMMA PopKeeps ==
    ASSUME NEW r, RingInv(r), Tidy(r), ~Ring!IsEmpty(r)
    PROVE  LET s == Ring!Popped(r)
           IN /\ Tidy(s) /\ s.recycles = r.recycles
              /\ Occupied(s) = Occupied(r) \ {r.consume}
              /\ \A o \in Occupied(s) : s.block[o].size = r.block[o].size
              /\ ~Ring!IsEmpty(s) => s.produce = r.produce
<1> DEFINE c == r.consume
           P == r.produce
           f == SetFree(r)
           m == Ring!MergeBack(f, c)
           a == Ring!MergeAndAdvance(f)
           S == {q \in Rings : Keeps(f, q) /\ q.produce = P}
           b == Ring!Advanced(a)
           s == Ring!MergeBack(b, b.consume)
<1>1. Chain(r) /\ r \in Rings /\ c \in Heads(r) /\ ~Free(r, c)
  BY DEF RingInv, Chain, Ring!IsEmpty, Free
<1>2. /\ Chain(f) /\ Heads(f) = Heads(r) /\ \A o \in Ring!Offsets : End(f, o) = End(r, o)
      /\ \A o \in Heads(r) : Free(f, o) <=> (o = c \/ Free(r, o))
      /\ f.produce = P /\ f.consume = c /\ f.recycles = r.recycles
  BY <1>1, SetFreeIs
<1>3. Begun(r, m)
  BY <1>1, BegunIs
<1>4. Ring!Popped(r) = s
  BY DEF Ring!Popped, SetFree
<1>5. Tidy(f)
  <2> DEFINE blk == [r.block EXCEPT ![c].free = TRUE]
  <2>1. f.block = blk
    <3>1. r = [recycles |-> r.recycles, block |-> r.block, last |-> r.last, produce |-> r.produce, consume |-> r.consume]
      BY <1>1 DEF Rings
    <3>2. f = [r EXCEPT !.block = blk]
      BY DEF SetFree
    <3> HIDE DEF f, blk
    <3>3. QED
      BY <3>1, <3>2
  <2>2. ASSUME NEW o \in Ring!Offsets
        PROVE  blk[o].size = r.block[o].size /\ blk[o].next = r.block[o].next
    <3>1. r.block \in [Ring!Offsets -> Header]
      BY <1>1 DEF Rings
    <3>2. CASE o = c
      <4>1. blk[o] = [r.block[o] EXCEPT !.free = TRUE] /\ r.block[o] \in Header
        BY <3>1, <3>2
      <4>2. QED
        BY <4>1 DEF Header
    <3>3. CASE o # c
      BY <3>1, <3>3
    <3>4. QED
      BY <3>2, <3>3
  <2> HIDE DEF f, blk
  <2>3. QED
    BY <2>1, <2>2 DEF Tidy
<1>6. Occupied(f) = Occupied(r) \ {c} /\ \A o \in Occupied(f) : f.block[o].size = r.block[o].size
  <2>1. Occupied(f) = Occupied(r) \ {c}
    BY <1>2 DEF Occupied
  <2>2. ASSUME NEW o \in Occupied(f)
        PROVE  f.block[o].size = r.block[o].size
    <3>1. o \in Heads(f) /\ o \in Heads(r) /\ f \in Rings
      BY <1>2 DEF Occupied, Chain
    <3>2. o \in Int /\ o \in Ring!Offsets /\ f.block[o].size \in Int /\ r.block[o].size \in Int
      BY <1>1, <3>1, HeadIs
    <3>3. o + f.block[o].size = o + r.block[o].size
      BY <1>2, <3>2 DEF End
    <3>4. QED
      BY <3>2, <3>3, SumSame
  <2>3. QED
    BY <2>1, <2>2
<1> HIDE DEF f
<1>7. Keeps(f, a) /\ a.produce = P
  <2>1. Keeps(f, a)
    BY <1>2, <1>5, AdvanceKeeps
  <2>2. a = Moved(m, Ring!NextBlock(m, m.consume))
    BY <1>2 DEF Ring!MergeAndAdvance, Moved
  <2>3. m.produce = P /\ Chain(m) /\ m.consume \in Heads(m)
    BY <1>3 DEF Begun, Chain
  <2> HIDE DEF m, a
  <2>4. Ring!NextBlock(m, m.consume) \in Heads(m)
    BY <2>3, NextIs
  <2>5. a.produce = m.produce
    BY <2>2, <2>3, <2>4, MovedIs
  <2>6. QED
    BY <2>1, <2>3, <2>5
<1> HIDE DEF a, m
<1>8. b \in S
  <2>1. a \in S
    BY <1>7 DEF Keeps, Chain
  <2>2. ASSUME NEW q \in S, Skips(q)
        PROVE  Ring!MergeAndAdvance(q) \in S
    <3>1. Keeps(f, q) /\ q.produce = P /\ Chain(q) /\ Tidy(q) /\ q.produce # q.consume
      BY <2>2 DEF Keeps, Skips
    <3>2. Keeps(q, Ring!MergeAndAdvance(q)) /\ Ring!MergeAndAdvance(q).produce = P
      BY <3>1, AdvanceKeeps
    <3>3. Keeps(f, Ring!MergeAndAdvance(q))
      BY <3>1, <3>2, KeepsOn
    <3>4. Ring!MergeAndAdvance(q) \in Rings
      BY <3>2 DEF Keeps, Chain
    <3>5. QED
      BY <3>2, <3>3, <3>4
  <2> HIDE DEF S
  <2>3. QED
    BY <2>1, <2>2, AdvancedStays
<1> HIDE DEF b
<1>9. Keeps(f, b) /\ b.produce = P /\ Chain(b) /\ Tidy(b) /\ b.consume \in Heads(b)
  BY <1>8 DEF Keeps, Chain
<1>10. Keeps(b, s)
  BY <1>9, MergeKeeps
<1>11. Keeps(f, s)
  BY <1>9, <1>10, KeepsOn
<1>12. ~Ring!IsEmpty(s) => s.produce = P
  <2> HAVE ~Ring!IsEmpty(s)
  <2>1. ~Free(s, s.consume)
    BY DEF Ring!IsEmpty, Free
  <2>2. ~Ring!CanMerge(b, b.consume)
    BY <1>9, <2>1, MergeKeeps
  <2>3. s = b
    BY <2>2 DEF Ring!MergeBack
  <2>4. QED
    BY <1>9, <2>3
<1> HIDE DEF s
<1>13. QED
  BY <1>2, <1>4, <1>6, <1>11, <1>12 DEF Keeps

\* PopFirst takes the head off the items.
LEMMA PopItems ==
    ASSUME NEW r, RingInv(r), Tidy(r), ~Ring!IsEmpty(r)
    PROVE  LET s == Ring!Popped(r)
           IN /\ RingInv(s) /\ Tidy(s) /\ s.recycles = r.recycles
              /\ ListOf(r) # << >> /\ ListOf(s) = Tail(ListOf(r))
<1> DEFINE s == Ring!Popped(r)
           c == r.consume
           P == r.produce
           x == Item(r, c)
           L == ListOf(r)
           X == Shown(r)
<1>1. RingInv(s)
  BY PopIs
<1>2. /\ Tidy(s) /\ s.recycles = r.recycles
      /\ Occupied(s) = Occupied(r) \ {c}
      /\ \A o \in Occupied(s) : s.block[o].size = r.block[o].size
      /\ ~Ring!IsEmpty(s) => s.produce = P
  BY PopKeeps
<1>3. c \in Occupied(r) /\ \A o \in Occupied(r) : o # c => Dist(P, o) < Dist(P, c)
  BY FirstIs
<1>4. /\ r \in Rings /\ P \in Ring!Offsets /\ \A o \in Occupied(r) : o \in Heads(r) /\ o \in Ring!Offsets
  BY DEF RingInv, Chain, Occupied, Heads
<1>5. /\ Lists(L, X, Way(P)) /\ X \subseteq Thing /\ Way(P) \in [Thing -> Int]
      /\ Lists(ListOf(s), Shown(s), Way(s.produce)) /\ Shown(s) \subseteq Thing
  <2> HIDE DEF s
  <2>1. QED
    BY <1>1, <1>2, ItemsAre
<1> HIDE DEF s
<1>6. \A o \in Occupied(r) : /\ Item(r, o) \in Thing /\ Item(r, o).at = o
                             /\ Way(P)[Item(r, o)] = Dist(P, o) /\ Dist(P, o) \in Int
  <2> TAKE o \in Occupied(r)
  <2>1. Item(r, o) \in Thing /\ Item(r, o).at = o
    BY <1>4, ItemIs
  <2>2. QED
    BY <1>4, <2>1, DistIs
<1>7. x \in X /\ \A y \in X : y # x => Way(P)[x] > Way(P)[y]
  <2>1. x \in X
    BY <1>3 DEF Shown
  <2>2. ASSUME NEW y \in X, y # x
        PROVE  Way(P)[x] > Way(P)[y]
    <3>1. PICK o \in Occupied(r) : y = Item(r, o)
      BY DEF Shown
    <3>2. o # c
      BY <2>2, <3>1
    <3>3. QED
      BY <1>3, <1>6, <3>1, <3>2
  <2>3. QED
    BY <2>1, <2>2
<1>8. Shown(s) = X \ {x}
  <2>1. \A o \in Occupied(s) : Item(s, o) = Item(r, o)
    BY <1>2 DEF Item
  <2>2. \A o \in Occupied(r) : o # c => Item(r, o) # x
    BY <1>3, <1>6
  <2>3. Shown(s) = {Item(r, o) : o \in Occupied(r) \ {c}}
    BY <1>2, <2>1 DEF Shown
  <2>4. QED
    BY <2>2, <2>3 DEF Shown
<1> HIDE DEF x, X, L
<1>9. L # << >> /\ Lists(Tail(L), X \ {x}, Way(P))
  BY <1>5, <1>7, FirstListed
<1>10. ListOf(s) = Tail(L)
  <2>1. CASE Ring!IsEmpty(s)
    <3>1. X \ {x} = {}
      BY <1>1, <1>8, <2>1, EmptyShown
    <3> DEFINE B == Tail(L)
    <3>2. Lists(B, {}, Way(P))
      BY <1>9, <3>1
    <3> HIDE DEF B
    <3>3. B = << >>
      BY <3>2, NoList
    <3>4. ListOf(s) = << >>
      BY <2>1 DEF ListOf
    <3>5. QED
      BY <3>3, <3>4 DEF B
  <2>2. CASE ~Ring!IsEmpty(s)
    <3>1. Lists(ListOf(s), X \ {x}, Way(P)) /\ X \ {x} \subseteq Thing
      BY <1>2, <1>5, <1>8, <2>2
    <3> DEFINE Y == X \ {x}
               A == ListOf(s)
               B == Tail(L)
    <3>2. Lists(A, Y, Way(P)) /\ Lists(B, Y, Way(P)) /\ Y \subseteq Thing
      BY <1>9, <3>1
    <3> HIDE DEF Y, A, B
    <3>3. A = B
      BY <1>5, <3>2, OneList
    <3>4. QED
      BY <3>3 DEF A, B
  <2>3. QED
    BY <2>1, <2>2
<1>11. QED
  BY <1>1, <1>2, <1>9, <1>10 DEF s, L


\* A free block is given to an item.
LEMMA UsedKeeps ==
    ASSUME NEW r, RingInv(r), Tidy(r), NEW n \in 1 .. Size, Ring!Chosen(r, n) # Ring!None
    PROVE  LET b == Ring!Chosen(r, n)
               u == Ring!Used(r, b, n)
           IN /\ Tidy(u) /\ u.recycles = r.recycles /\ u.consume = r.consume
              /\ b \notin Occupied(r) /\ Occupied(u) = Occupied(r) \cup {b}
              /\ \A o \in Occupied(r) : u.block[o].size = r.block[o].size
              /\ u.block[b].size \in {n, n + 1}
<1> DEFINE b == Ring!Chosen(r, n)
           u == Ring!Used(r, b, n)
<1>1. Chain(r) /\ r \in Rings
  BY DEF RingInv, Chain
<1>2. b \in Heads(r) /\ Free(r, b) /\ r.block[b].size >= n
  BY <1>1, ChosenIs
<1> HIDE DEF b
<1>3. Handed(r, u, b)
  BY <1>1, <1>2, HandedIs
<1>4. u \in Rings /\ u.recycles = r.recycles /\ \A o \in Ring!Offsets : u.block[o] = BlockOf(r, b, n, o)
  <2>1. r \in Rings /\ Chain(r) /\ b \in Heads(r) /\ r.block[b].size >= n
    BY <1>1, <1>2
  <2>2. QED
    BY <2>1, BlockIs
<1> HIDE DEF u
<1>6. /\ Chain(u) /\ ~Free(u, b) /\ u.consume = r.consume
      /\ \A o \in Heads(r) : o # b => End(u, o) = End(r, o) /\ (Free(u, o) <=> Free(r, o))
      /\ \/ Heads(u) = Heads(r)
         \/ Heads(u) = Heads(r) \cup {End(u, b)} /\ End(u, b) \notin Heads(r) /\ Free(u, End(u, b))
  BY <1>3 DEF Handed
<1>7. Occupied(u) = Occupied(r) \cup {b} /\ b \notin Occupied(r)
  BY <1>2, <1>6 DEF Occupied
<1>8. ASSUME NEW o \in Occupied(r)
      PROVE  u.block[o].size = r.block[o].size
  <2>1. o \in Heads(r) /\ o # b /\ o \in Heads(u)
    BY <1>7 DEF Occupied
  <2>2. o \in Int /\ u.block[o].size \in Int /\ r.block[o].size \in Int
    BY <1>1, <1>4, <2>1, HeadIs
  <2>3. o + u.block[o].size = o + r.block[o].size
    BY <1>6, <2>1 DEF End
  <2>4. QED
    BY <2>2, <2>3, SumSame
<1>9. b \in Ring!Offsets /\ b \in Int /\ r.block[b].size \in Int /\ n \in Int /\ r.block[b] \in Header
  BY <1>1, <1>2, HeadIs
<1>10. u.block[b].size = IF Cuts(r, b, n) THEN n ELSE r.block[b].size
  <2>1. u.block[b] = BlockOf(r, b, n, b)
    BY <1>4, <1>9
  <2>2. BlockOf(r, b, n, b).size = IF Cuts(r, b, n) THEN n ELSE r.block[b].size
    BY DEF BlockOf
  <2>3. QED
    BY <2>1, <2>2
<1>11. u.block[b].size \in {n, n + 1}
  <2>1. CASE Cuts(r, b, n)
    BY <1>10, <2>1
  <2>2. CASE ~Cuts(r, b, n)
    <3>1. r.block[b].size <= n + 1
      BY <1>9, <2>2 DEF Cuts
    <3>2. r.block[b].size = n \/ r.block[b].size = n + 1
      BY <1>2, <1>9, <3>1
    <3>3. QED
      BY <1>10, <2>2, <3>2
  <2>3. QED
    BY <2>1, <2>2
<1>12. ASSUME NEW o \in Ring!Offsets, u.block[o].size = 0
       PROVE  u.block[o].next = Ring!None
  <2>1. u.block[o] = BlockOf(r, b, n, o)
    BY <1>4
  <2>2. o # b
    <3>1. n >= 1
      OBVIOUS
    <3>2. QED
      BY <1>9, <1>11, <1>12, <3>1
  <2>3. CASE Cuts(r, b, n) /\ o = Behind(r, b, n)
    <3>1. u.block[o] = [prev |-> b, next |-> r.block[b].next, free |-> TRUE, size |-> r.block[b].size - n]
      BY <2>1, <2>2, <2>3 DEF BlockOf
    <3>2. r.block[b].size - n > 0 /\ r.block[b].size - n \in Int
      BY <1>9, <2>3 DEF Cuts
    <3>3. QED
      BY <1>12, <3>1, <3>2
  <2>4. CASE ~(Cuts(r, b, n) /\ o = Behind(r, b, n)) /\ Cuts(r, b, n) /\ o = r.block[b].next
    <3>1. u.block[o] = [r.block[o] EXCEPT !.prev = Behind(r, b, n)]
      BY <2>1, <2>2, <2>4 DEF BlockOf
    <3>2. r.block[o] \in Header
      BY <1>1 DEF Rings
    <3>3. u.block[o].size = r.block[o].size /\ u.block[o].next = r.block[o].next
      BY <3>1, <3>2 DEF Header
    <3>4. QED
      BY <1>12, <3>3 DEF Tidy
  <2>5. CASE ~(Cuts(r, b, n) /\ o = Behind(r, b, n)) /\ ~(Cuts(r, b, n) /\ o = r.block[b].next)
    <3>1. u.block[o] = r.block[o]
      BY <2>1, <2>2, <2>5 DEF BlockOf
    <3>2. QED
      BY <1>12, <3>1 DEF Tidy
  <2>6. QED
    BY <2>3, <2>4, <2>5
<1>13. Tidy(u)
  BY <1>12 DEF Tidy
<1>14. QED
  BY <1>4, <1>6, <1>7, <1>8, <1>11, <1>13 DEF u, b

\* An item of n headers at its place, in memory of its own.
Placed(r, x, n) ==
    /\ x \in Thing /\ x.size \in {n, n + 1} /\ x.at + x.size <= Size
    /\ \A y \in Shown(r) : y.at + y.size <= x.at \/ x.at + x.size <= y.at

\* m_pProduce moves behind the new item: it is now the one that comes out last.
LEMMA LastIs ==
    ASSUME NEW r, RingInv(r), NEW n \in 1 .. Size, Ring!Chosen(r, n) # Ring!None
    PROVE  LET b == Ring!Chosen(r, n)
               Q == Ring!Used(r, b, n).produce
               P == r.produce
           IN /\ \A o \in Occupied(r) : Dist(Q, o) > Dist(Q, b)
              /\ \A o, q \in Occupied(r) : Dist(P, o) > Dist(P, q) => Dist(Q, o) > Dist(Q, q)
<1> DEFINE b == Ring!Chosen(r, n)
           u == Ring!Used(r, b, n)
           Q == u.produce
           P == r.produce
           c == r.consume
           h == End(u, b)
           Last == /\ \A o \in Occupied(r) : Dist(Q, o) > Dist(Q, b)
                   /\ \A o, q \in Occupied(r) : Dist(P, o) > Dist(P, q) => Dist(Q, o) > Dist(Q, q)
<1>1. /\ r \in Rings /\ Chain(r) /\ c \in Heads(r) /\ P \in Heads(r)
      /\ \A o \in Heads(r) : InChain(r, o)
      /\ ~Free(r, c) /\ P <= c => Wrapped(r)
  BY DEF RingInv, Chain, Order
<1>2. b \in Heads(r) /\ Free(r, b) /\ r.block[b].size >= n /\ (b = P \/ (b = 0 /\ b # P /\ Free(r, P)))
  BY <1>1, ChosenIs
<1> HIDE DEF b
<1>3. Handed(r, u, b)
  BY <1>1, <1>2, HandedIs
<1> HIDE DEF u
<1>4. /\ Chain(u) /\ Q = (IF h = Size THEN 0 ELSE h)
      /\ Heads(u) = Heads(r) \/ Heads(u) = Heads(r) \cup {h}
  BY <1>3 DEF Handed
<1>5. u \in Rings /\ b \in Heads(u) /\ InChain(u, b)
  BY <1>2, <1>4 DEF Chain
<1>6. /\ h \in Int /\ h > b /\ h <= Size /\ Size \in Int
      /\ b \in Int /\ b >= 0 /\ b < Size /\ P \in Int /\ P >= 0 /\ P < Size /\ c \in Int /\ c >= 0 /\ c < Size
  <2>1. h <= Size
    BY <1>5 DEF InChain
  <2>2. QED
    BY <1>1, <1>2, <1>5, <2>1, HeadIs
<1>7. \A o \in Heads(r) : b < o => h <= o
  BY <1>4, <1>5 DEF InChain
<1> HIDE DEF h
<1>8. ASSUME Ring!IsEmpty(r) PROVE Last
  <2>1. Shown(r) = {}
    BY <1>8, EmptyShown
  <2>2. Occupied(r) = {}
    BY <2>1 DEF Shown
  <2>3. QED
    BY <2>2
<1>9. ASSUME ~Ring!IsEmpty(r) PROVE Last
  <2>1. /\ c \in Occupied(r)
        /\ \A o \in Occupied(r) : IF c < P THEN c <= o /\ o < P ELSE c <= o \/ o < P
    BY <1>9, FirstIs
  <2>2. b # c
    BY <1>2, <2>1 DEF Occupied
  <2>3. P <= c => b = P
    <3> SUFFICES ASSUME P <= c, b = 0, b # P PROVE FALSE
      BY <1>2
    <3>1. Wrapped(r)
      BY <1>1, <1>9 DEF Ring!IsEmpty, Free
    <3>2. b < P
      BY <1>6
    <3>3. ~Free(r, b)
      BY <1>2, <3>1, <3>2 DEF Wrapped
    <3>4. QED
      BY <1>2, <3>3
  <2>4. ASSUME NEW o \in Occupied(r)
        PROVE  /\ o \in Int /\ o >= 0 /\ o < Size /\ o # b /\ (b < o => h <= o)
               /\ IF c < P THEN c <= o /\ o < P ELSE c <= o \/ o < P
    <3>1. o \in Heads(r) /\ o # b
      BY <1>2 DEF Occupied
    <3>2. o \in Int /\ o >= 0 /\ o < Size
      BY <1>1, <3>1, HeadIs
    <3>3. QED
      BY <1>7, <2>1, <3>1, <3>2
  <2>5. b < c => h <= c
    BY <1>1, <1>7
  <2> HIDE DEF c, P, Q
  <2>6. CASE c < P /\ b = P
    <3>1. \A o \in Occupied(r) : o \in Int /\ c <= o /\ o < P
      BY <2>4, <2>6
    <3>2. CASE h = Size
      BY <1>4, <1>6, <2>6, <3>1, <3>2 DEF Dist
    <3>3. CASE h # Size
      BY <1>4, <1>6, <2>6, <3>1, <3>3 DEF Dist
    <3>4. QED
      BY <3>2, <3>3
  <2>7. CASE c < P /\ b # P
    <3>1. \A o \in Occupied(r) : o \in Int /\ c <= o /\ o < P
      BY <2>4, <2>7
    <3>2. b = 0 /\ 0 < c /\ h <= c
      BY <1>2, <1>6, <2>2, <2>5, <2>7
    <3>3. Q = h
      BY <1>4, <1>6, <3>2
    <3>4. QED
      BY <1>6, <2>7, <3>1, <3>2, <3>3 DEF Dist
  <2>8. CASE ~(c < P)
    <3>1. b = P /\ P < c /\ h <= c
      BY <1>6, <2>2, <2>3, <2>5, <2>8
    <3>2. Q = h
      BY <1>4, <1>6, <3>1
    <3>3. \A o \in Occupied(r) : o \in Int /\ o >= 0 /\ o < Size /\ (o < P \/ c <= o)
      BY <2>4, <2>8
    <3>4. QED
      BY <1>6, <3>1, <3>2, <3>3 DEF Dist
  <2>9. QED
    BY <2>6, <2>7, <2>8
<1>10. QED
  BY <1>8, <1>9 DEF b, u


\* Allocate puts an item behind the others.
LEMMA UseItems ==
    ASSUME NEW r, RingInv(r), Tidy(r), NEW n \in 1 .. Size, Ring!Chosen(r, n) # Ring!None
    PROVE  LET u == Ring!Used(r, Ring!Chosen(r, n), n)
           IN /\ RingInv(u) /\ Tidy(u) /\ u.recycles = r.recycles
              /\ \E x : Placed(r, x, n) /\ ListOf(u) = Append(ListOf(r), x)
<1> DEFINE b == Ring!Chosen(r, n)
           u == Ring!Used(r, b, n)
           P == r.produce
           Q == u.produce
           x == Item(u, b)
           L == ListOf(r)
           X == Shown(r)
<1>1. RingInv(u)
  BY UseIs
<1>2. /\ Tidy(u) /\ u.recycles = r.recycles
      /\ b \notin Occupied(r) /\ Occupied(u) = Occupied(r) \cup {b}
      /\ \A o \in Occupied(r) : u.block[o].size = r.block[o].size
      /\ u.block[b].size \in {n, n + 1}
  BY UsedKeeps
<1>3. /\ \A o \in Occupied(r) : Dist(Q, o) > Dist(Q, b)
      /\ \A o, q \in Occupied(r) : Dist(P, o) > Dist(P, q) => Dist(Q, o) > Dist(Q, q)
  BY LastIs
<1>4. Lists(L, X, Way(P)) /\ X \subseteq Thing /\ Way(P) \in [Thing -> Int]
  BY ItemsAre
<1> HIDE DEF b, u
<1>5. Lists(ListOf(u), Shown(u), Way(Q)) /\ Shown(u) \subseteq Thing /\ Way(Q) \in [Thing -> Int]
  BY <1>1, <1>2, ItemsAre
<1>6. /\ u \in Rings /\ Chain(u) /\ r \in Rings /\ P \in Ring!Offsets /\ Q \in Ring!Offsets
      /\ \A o \in Occupied(u) : o \in Heads(u) /\ o \in Ring!Offsets /\ InChain(u, o)
      /\ \A o \in Occupied(r) : o \in Heads(r) /\ o \in Ring!Offsets
  BY <1>1 DEF RingInv, Chain, Occupied, Heads
<1>7. \A o \in Occupied(r) : /\ Item(u, o) = Item(r, o) /\ Item(r, o) \in Thing /\ Item(r, o).at = o
                             /\ Way(P)[Item(r, o)] = Dist(P, o) /\ Way(Q)[Item(r, o)] = Dist(Q, o)
  <2> TAKE o \in Occupied(r)
  <2>1. Item(u, o) = Item(r, o)
    BY <1>2 DEF Item
  <2>2. Item(r, o) \in Thing /\ Item(r, o).at = o
    BY <1>6, ItemIs
  <2>3. (\A y \in Thing : Way(P)[y] = Dist(P, y.at)) /\ (\A y \in Thing : Way(Q)[y] = Dist(Q, y.at))
    BY <1>6, DistIs
  <2>4. QED
    BY <2>1, <2>2, <2>3
<1>8. x \in Thing /\ x.at = b /\ x.size = u.block[b].size /\ Way(Q)[x] = Dist(Q, b)
  <2>1. x \in Thing /\ x.at = b /\ x.size = u.block[b].size
    BY <1>2, <1>6, ItemIs
  <2>2. QED
    BY <1>6, <2>1, DistIs
<1>9. Shown(u) = X \cup {x}
  BY <1>2, <1>7 DEF Shown
<1>10. \A y, z \in X : Way(P)[y] > Way(P)[z] => Way(Q)[y] > Way(Q)[z]
  BY <1>3, <1>7 DEF Shown
<1>11. \A y \in X : Way(Q)[y] > Way(Q)[x]
  BY <1>3, <1>7, <1>8 DEF Shown
<1>12. Placed(r, x, n)
  <2>1. x.at + x.size <= Size
    <3>1. InChain(u, b) /\ End(u, b) = b + u.block[b].size
      BY <1>2, <1>6 DEF End
    <3>2. QED
      BY <1>8, <3>1 DEF InChain
  <2>2. ASSUME NEW y \in X
        PROVE  y.at + y.size <= x.at \/ x.at + x.size <= y.at
    <3>1. PICK o \in Occupied(r) : y = Item(r, o)
      BY DEF Shown
    <3>2. y.at = o /\ y.size = u.block[o].size
      BY <1>2, <1>6, <3>1, ItemIs
    <3>3. o \in Heads(u) /\ b \in Heads(u) /\ o # b /\ InChain(u, o) /\ InChain(u, b)
      BY <1>2, <1>6
    <3>4. (o < b => o + u.block[o].size <= b) /\ (b < o => b + u.block[b].size <= o)
      BY <3>3 DEF InChain, End
    <3>5. o \in Int /\ b \in Int
      BY <1>6, <3>3, HeadIs
    <3>6. o < b \/ b < o
      BY <3>3, <3>5
    <3>7. QED
      BY <1>8, <3>2, <3>4, <3>6
  <2>3. QED
    BY <1>2, <1>8, <2>1, <2>2 DEF Placed
<1> HIDE DEF P, Q, x, L, X
<1>13. Lists(L, X, Way(Q))
  BY <1>4, <1>10, SameOrder
<1>14. Lists(Append(L, x), X \cup {x}, Way(Q))
  BY <1>4, <1>5, <1>8, <1>11, <1>13, PutLast
<1>15. ListOf(u) = Append(L, x)
  <2> DEFINE Y == X \cup {x}
             A == ListOf(u)
             B == Append(L, x)
  <2>1. Lists(A, Y, Way(Q)) /\ Lists(B, Y, Way(Q)) /\ Y \subseteq Thing
    BY <1>4, <1>5, <1>8, <1>9, <1>14
  <2> HIDE DEF Y, A, B
  <2>2. A = B
    BY <1>5, <2>1, OneList
  <2>3. QED
    BY <2>2 DEF A, B
<1>16. QED
  BY <1>1, <1>2, <1>12, <1>15 DEF u, b, L

\* A turn of the loop of Ring!Allocate.
Once(q, n) == IF Ring!Chosen(q, n) = Ring!None /\ q.recycles /\ ~Ring!IsEmpty(q) THEN Ring!Popped(q) ELSE q

\* The loop takes its turns within any set its turns stay within.
LEMMA RoomRuns ==
    ASSUME NEW S, NEW r \in S, NEW n \in 1 .. Size, \A q \in S : Once(q, n) \in S
    PROVE  \E g \in [0 .. Size -> S] :
               g[0] = r /\ (\A k \in 1 .. Size : g[k] = Once(g[k - 1], n)) /\ Ring!MadeRoom(r, n) = g[Size]
<1> DEFINE s == [q \in S |-> Once(q, n)]
           E(f) == [k \in 0 .. Size |->
                       IF k = 0 THEN r
                       ELSE LET q == f[k - 1]
                            IN IF Ring!Chosen(q, n) = Ring!None /\ q.recycles /\ ~Ring!IsEmpty(q) THEN Ring!Popped(q) ELSE q]
           after == CHOOSE f : f = E(f)
<1>0. Size \in Nat
  BY RingAssumption
<1>1. \A f : E(f) = [k \in 0 .. Size |-> IF k = 0 THEN r ELSE Once(f[k - 1], n)]
  BY DEF Once
<1>2. s \in [S -> S] /\ \A q \in S : s[q] = Once(q, n)
  OBVIOUS
<1> HIDE DEF s
<1>3. PICK g : IsRun(g, S, s, r, Size)
  BY <1>0, <1>2, Iterates
<1>4. g = [k \in 0 .. Size |-> IF k = 0 THEN r ELSE Once(g[k - 1], n)]
  <2>1. g \in [0 .. Size -> S] /\ g[0] = r /\ \A k \in 1 .. Size : g[k] = s[g[k - 1]]
    BY <1>3 DEF IsRun
  <2>2. \A k \in 0 .. Size : g[k] = (IF k = 0 THEN r ELSE Once(g[k - 1], n))
    <3> TAKE k \in 0 .. Size
    <3>1. CASE k = 0
      BY <2>1, <3>1
    <3>2. CASE k # 0
      <4>1. k \in 1 .. Size /\ k - 1 \in 0 .. Size
        BY <1>0, <3>2
      <4>2. QED
        BY <1>2, <2>1, <3>2, <4>1
    <3>3. QED
      BY <3>1, <3>2
  <2>3. QED
    BY <2>1, <2>2
<1>5. after = E(after)
  <2>1. g = E(g)
    BY <1>1, <1>4
  <2> HIDE DEF E
  <2>2. QED
    BY <2>1
<1>6. after = [k \in 0 .. Size |-> IF k = 0 THEN r ELSE Once(after[k - 1], n)]
  <2> HIDE DEF E, after
  <2>1. QED
    BY <1>1, <1>5
<1>7. Ring!MadeRoom(r, n) = after[Size]
  BY DEF Ring!MadeRoom
<1> HIDE DEF after
<1>8. after[0] = r /\ \A k \in 1 .. Size : after[k] = Once(after[k - 1], n)
  <2>1. after[0] = r
    BY <1>0, <1>6
  <2>2. ASSUME NEW k \in 1 .. Size
        PROVE  after[k] = Once(after[k - 1], n)
    <3>1. k \in 0 .. Size /\ k # 0
      OBVIOUS
    <3>2. QED
      BY <1>6, <3>1
  <2>3. QED
    BY <2>1, <2>2
<1> DEFINE P == {k \in 0 .. Size : after[k] \in S}
<1>9. 0 \in P
  BY <1>0, <1>8
<1>10. ASSUME NEW k \in 1 .. Size, k - 1 \in P
       PROVE  k \in P
  <2>1. k \in 0 .. Size /\ after[k] = Once(after[k - 1], n)
    BY <1>8
  <2>2. QED
    BY <1>10, <2>1
<1>11. \A k \in 0 .. Size : after[k] \in S
  <2> HIDE DEF P
  <2>1. \A k \in 0 .. Size : k \in P
    BY <1>0, <1>9, <1>10, UpTo
  <2>2. QED
    BY <2>1 DEF P
<1>12. after \in [0 .. Size -> S]
  <2>1. after = [k \in 0 .. Size |-> after[k]]
    BY <1>6
  <2>2. QED
    BY <1>11, <2>1
<1>13. QED
  BY <1>7, <1>8, <1>12


\* The loop of Allocate takes out some of the oldest items, if it may, and ends
\* when the new one fits.
LEMMA RoomItems ==
    ASSUME NEW r, RingInv(r), Tidy(r), NEW n \in 1 .. Size
    PROVE  LET m == Ring!MadeRoom(r, n)
               L == ListOf(r)
           IN /\ RingInv(m) /\ Tidy(m) /\ m.recycles = r.recycles
              /\ \E j \in 0 .. Len(L) :
                     /\ ListOf(m) = SubSeq(L, j + 1, Len(L)) /\ (j > 0 => r.recycles)
                     /\ Ring!Chosen(m, n) = Ring!None => j = 0
<1> DEFINE m == Ring!MadeRoom(r, n)
           L == ListOf(r)
           S == {q \in Rings : RingInv(q) /\ Tidy(q) /\ q.recycles = r.recycles}
           After(q, j) == ListOf(q) = SubSeq(L, j + 1, Len(L)) /\ (j > 0 => r.recycles)
           Fits(q) == Ring!Chosen(q, n) # Ring!None
           Left(q, k) == \E j \in 0 .. Len(L) : After(q, j) /\ (Fits(q) \/ ~r.recycles \/ j >= k)
<1>1. /\ Size \in Nat /\ r \in Rings /\ r \in S /\ r.produce \in Ring!Offsets
      /\ r.recycles \in BOOLEAN
  BY RingAssumption DEF RingInv, Chain, Rings
<1>2. Lists(L, Shown(r), Way(r.produce)) /\ Shown(r) \subseteq Thing /\ Way(r.produce) \in [Thing -> Int]
  BY ItemsAre
<1> HIDE DEF L
<1>3. L \in Seq(Thing) /\ Len(L) \in Nat
  <2>1. L \in Seq(Shown(r))
    BY <1>2 DEF Lists
  <2>2. QED
    BY <1>2, <2>1
<1>4. Len(L) <= Size
  <2>1. \A x \in Thing : x.at \in Ring!Offsets /\ Way(r.produce)[x] = Dist(r.produce, x.at)
    BY <1>1, DistIs DEF Thing
  <2>2. \A x \in Thing : 1 <= Way(r.produce)[x] /\ Way(r.produce)[x] <= Size
    BY <1>1, <2>1, DistIs
  <2>3. \A x \in Shown(r) : 1 <= Way(r.produce)[x] /\ Way(r.produce)[x] <= Size
    BY <1>2, <2>2
  <2>4. QED
    BY <1>1, <1>2, <2>3, ShortList
<1>5. ASSUME NEW q \in S, ~(Once(q, n) = q)
      PROVE  /\ Once(q, n) \in S /\ r.recycles /\ ~Fits(q)
             /\ ListOf(q) # << >> /\ ListOf(Once(q, n)) = Tail(ListOf(q))
  <2>1. /\ Once(q, n) = Ring!Popped(q) /\ ~Ring!IsEmpty(q) /\ RingInv(q) /\ Tidy(q)
        /\ q.recycles /\ q.recycles = r.recycles /\ ~Fits(q)
    BY <1>5 DEF Once
  <2>2. RingInv(Ring!Popped(q)) /\ Tidy(Ring!Popped(q)) /\ Ring!Popped(q).recycles = q.recycles
        /\ ListOf(q) # << >> /\ ListOf(Ring!Popped(q)) = Tail(ListOf(q))
    BY <2>1, PopItems
  <2>3. Ring!Popped(q) \in Rings
    BY <2>2 DEF RingInv, Chain
  <2> HIDE DEF Fits
  <2>4. QED
    BY <2>1, <2>2, <2>3
<1>6. ASSUME NEW q \in S, Once(q, n) = q
      PROVE  Fits(q) \/ ~r.recycles
  <2>1. RingInv(q) /\ q.recycles = r.recycles
    OBVIOUS
  <2>2. CASE Ring!IsEmpty(q)
    BY <2>1, <2>2, EmptyIs
  <2>3. CASE ~Ring!IsEmpty(q)
    <3> SUFFICES ASSUME ~Fits(q), r.recycles PROVE FALSE
      OBVIOUS
    <3>1. q = Ring!Popped(q)
      BY <1>6, <2>1, <2>3 DEF Once
    <3>2. ~Ring!IsEmpty(q) /\ RingInv(q) /\ Tidy(q)
      BY <2>3
    <3>3. Occupied(Ring!Popped(q)) = Occupied(q) \ {q.consume} /\ q.consume \in Occupied(q)
      BY <3>2, PopKeeps, FirstIs
    <3>4. QED
      BY <3>1, <3>3
  <2>4. QED
    BY <2>2, <2>3
<1>7. PICK g \in [0 .. Size -> S] :
          g[0] = r /\ (\A k \in 1 .. Size : g[k] = Once(g[k - 1], n)) /\ m = g[Size]
  <2>1. \A q \in S : Once(q, n) \in S
    BY <1>5
  <2> HIDE DEF S
  <2>2. QED
    BY <1>1, <2>1, RoomRuns
<1> HIDE DEF S, m, Fits
<1> DEFINE P == {k \in 0 .. Size : Left(g[k], k)}
<1>8. 0 \in P
  <2>1. L = SubSeq(L, 0 + 1, Len(L))
    BY <1>3
  <2>2. After(g[0], 0)
    BY <1>7, <2>1 DEF L
  <2>3. 0 \in 0 .. Len(L) /\ 0 \in 0 .. Size /\ 0 >= 0
    BY <1>1, <1>3
  <2> HIDE DEF After
  <2>4. QED
    BY <2>2, <2>3
<1>9. ASSUME NEW k \in 1 .. Size, k - 1 \in P
      PROVE  k \in P
  <2> DEFINE q == g[k - 1]
  <2>1. PICK j \in 0 .. Len(L) : After(q, j) /\ (Fits(q) \/ ~r.recycles \/ j >= k - 1)
    BY <1>9
  <2>0. k - 1 \in 0 .. Size /\ k \in 0 .. Size
    BY <1>1
  <2>2. q \in S /\ g[k] = Once(q, n) /\ k \in 0 .. Size
    BY <1>7, <2>0
  <2> HIDE DEF q
  <2>3. CASE Once(q, n) = q
    <3>1. Fits(q) \/ ~r.recycles
      BY <1>6, <2>2, <2>3
    <3>2. Left(g[k], k)
      BY <2>1, <2>2, <2>3, <3>1
    <3>3. QED
      BY <2>2, <3>2
  <2>4. CASE ~(Once(q, n) = q)
    <3>1. r.recycles /\ ~Fits(q) /\ ListOf(q) # << >> /\ ListOf(g[k]) = Tail(ListOf(q))
      BY <1>5, <2>2, <2>4
    <3>2. ListOf(q) = SubSeq(L, j + 1, Len(L)) /\ j >= k - 1
      BY <2>1, <3>1
    <3>3. j < Len(L)
      <4> SUFFICES ASSUME j = Len(L) PROVE FALSE
        BY <1>3
      <4>1. SubSeq(L, j + 1, Len(L)) = << >>
        BY <1>3
      <4>2. QED
        BY <3>1, <3>2, <4>1
    <3>4. Tail(SubSeq(L, j + 1, Len(L))) = SubSeq(L, (j + 1) + 1, Len(L))
      BY <1>3, <3>3
    <3>5. j + 1 \in 0 .. Len(L) /\ j + 1 >= k
      BY <1>3, <3>2, <3>3
    <3>6. After(g[k], j + 1)
      BY <3>1, <3>2, <3>4
    <3> HIDE DEF After
    <3>7. Left(g[k], k)
      BY <3>5, <3>6
    <3>8. QED
      BY <2>2, <3>7
  <2>5. QED
    BY <2>3, <2>4
<1>10. Left(m, Size)
  <2> HIDE DEF P
  <2>1. \A k \in 0 .. Size : k \in P
    BY <1>1, <1>8, <1>9, UpTo
  <2>2. Size \in P
    BY <1>1, <2>1
  <2>3. QED
    BY <1>7, <2>2 DEF P
<1>11. RingInv(m) /\ Tidy(m) /\ m.recycles = r.recycles
  <2>1. m \in S
    BY <1>1, <1>7
  <2>2. QED
    BY <2>1 DEF S
<1>12. PICK j \in 0 .. Len(L) : After(m, j) /\ (Fits(m) \/ ~r.recycles \/ j >= Size)
  BY <1>10
<1>13. ~Fits(m) => j = 0
  <2> HAVE ~Fits(m)
  <2>1. CASE ~r.recycles
    BY <1>12, <2>1
  <2>2. CASE j >= Size
    <3>1. j = Len(L)
      BY <1>1, <1>3, <1>4, <2>2
    <3>2. SubSeq(L, j + 1, Len(L)) = << >>
      BY <1>3, <3>1
    <3>3. ListOf(m) = << >>
      BY <1>12, <3>2
    <3>4. ~Ring!IsEmpty(m) => ListOf(m) # << >>
      BY <1>11, PopItems
    <3>5. Fits(m)
      BY <1>11, <3>3, <3>4, EmptyIs DEF Fits
    <3>6. QED
      BY <3>5
  <2>3. QED
    BY <1>12, <2>1, <2>2
<1>14. QED
  BY <1>11, <1>12, <1>13 DEF m, L, Fits

LEMMA ClearItems ==
    ASSUME NEW recycles \in BOOLEAN
    PROVE  LET r == Ring!Cleared(recycles)
           IN RingInv(r) /\ Tidy(r) /\ r.recycles = recycles /\ ListOf(r) = << >>
<1> DEFINE r == Ring!Cleared(recycles)
<1>1. 0 \in Ring!Offsets /\ Size \in Nat /\ Size > 0
  BY RingAssumption DEF Ring!Offsets
<1>2. /\ r.recycles = recycles /\ r.consume = 0
      /\ \A o \in Ring!Offsets : r.block[o] = IF o = 0 THEN [prev |-> Ring!None, next |-> Ring!None, free |-> TRUE, size |-> Size]
                                              ELSE Ring!NoBlock
  BY DEF Ring!Cleared
<1>3. RingInv(r)
  BY ClearIs
<1> HIDE DEF r
<1>4. Tidy(r)
  BY <1>1, <1>2 DEF Tidy, Ring!NoBlock
<1>5. Ring!IsEmpty(r)
  BY <1>1, <1>2 DEF Ring!IsEmpty
<1>6. ListOf(r) = << >>
  BY <1>5 DEF ListOf
<1>7. QED
  BY <1>2, <1>3, <1>4, <1>6 DEF r


\* The invariant of the ring buffer.
RingOrder == RingInv(ring) /\ Tidy(ring)

\* The headers of the ring buffer are in order, however often the memory wraps
\* around: the blocks fill the memory, no two free ones follow each other, the
\* items lie between m_pConsume and m_pProduce, and what is no header links
\* nowhere (Allocate, PopFirst, MergeBack).
THEOREM RingInductive == Ring!Spec => []RingOrder
<1>1. ASSUME Ring!Init PROVE RingOrder
  BY <1>1, ClearItems DEF Ring!Init, RingOrder
<1>2. ASSUME RingOrder, [Ring!Next]_ring PROVE RingOrder'
  <2>1. CASE Ring!PopFirst
    BY <1>2, <2>1, PopItems DEF Ring!PopFirst, RingOrder
  <2>2. CASE Ring!Clear
    <3>1. ring.recycles \in BOOLEAN
      BY <1>2 DEF RingOrder, RingInv, Chain, Rings
    <3>2. QED
      BY <2>2, <3>1, ClearItems DEF Ring!Clear, RingOrder
  <2>3. ASSUME NEW n \in 1 .. Size, Ring!Allocate(n) PROVE RingOrder'
    <3> DEFINE room == Ring!MadeRoom(ring, n)
    <3>1. RingInv(room) /\ Tidy(room)
      BY <1>2, RoomItems DEF RingOrder
    <3>2. ring' = IF Ring!Chosen(room, n) = Ring!None THEN room ELSE Ring!Used(room, Ring!Chosen(room, n), n)
      BY <2>3 DEF Ring!Allocate, Ring!Allocated
    <3> HIDE DEF room
    <3>3. QED
      BY <3>1, <3>2, UseItems DEF RingOrder
  <2>4. CASE UNCHANGED ring
    BY <1>2, <2>4 DEF RingOrder
  <2>5. QED
    BY <1>2, <2>1, <2>2, <2>3, <2>4 DEF Ring!Next
<1>3. QED
  BY <1>1, <1>2, PTL DEF Ring!Spec

\* What First and Next show, before and after a step.
LEMMA ItemsList == Ring!Items = ListOf(ring) /\ Ring!Items' = ListOf(ring')
  BY DEF Ring!Items, ListOf, Following, Follows

\* Allocate: the oldest items that make room go, and the new one lies in none
\* of the others.
LEMMA AllocateItems ==
    ASSUME RingOrder, RingOrder', NEW n \in 1 .. Size, Ring!Allocate(n)
    PROVE  [Ring!Queue!Next]_<<Ring!Items, ring.recycles>>
<1> DEFINE room == Ring!MadeRoom(ring, n)
           L == ListOf(ring)
           K == ListOf(room)
           M == ListOf(ring')
<1>1. RingInv(room) /\ Tidy(room) /\ room.recycles = ring.recycles
  BY RoomItems DEF RingOrder
<1>2. PICK j \in 0 .. Len(L) :
          /\ K = SubSeq(L, j + 1, Len(L)) /\ (j > 0 => ring.recycles)
          /\ Ring!Chosen(room, n) = Ring!None => j = 0
  BY RoomItems DEF RingOrder
<1>3. ring' = IF Ring!Chosen(room, n) = Ring!None THEN room ELSE Ring!Used(room, Ring!Chosen(room, n), n)
  BY DEF Ring!Allocate, Ring!Allocated
<1>4. Ring!Items = L /\ Ring!Items' = M
  BY ItemsList
<1>5. L \in Seq(Thing)
  <2>1. Lists(L, Shown(ring), Way(ring.produce)) /\ Shown(ring) \subseteq Thing
    BY ItemsAre DEF RingOrder
  <2> HIDE DEF L
  <2>2. L \in Seq(Shown(ring))
    BY <2>1 DEF Lists
  <2>3. QED
    BY <2>1, <2>2
<1>6. Lists(K, Shown(room), Way(room.produce)) /\ Shown(room) \subseteq Thing
  BY <1>1, ItemsAre
<1> HIDE DEF room, L, K, M
<1>7. CASE Ring!Chosen(room, n) = Ring!None
  <2>1. j = 0 /\ ring' = room
    BY <1>2, <1>3, <1>7
  <2>2. K = L
    BY <1>2, <1>5, <2>1
  <2>3. M = K
    BY <2>1 DEF M, K
  <2>4. QED
    BY <1>1, <1>4, <2>1, <2>2, <2>3
<1>8. CASE Ring!Chosen(room, n) # Ring!None
  <2>1. ring' = Ring!Used(room, Ring!Chosen(room, n), n)
    BY <1>3, <1>8
  <2>2. ring'.recycles = ring.recycles
    BY <1>1, <1>8, <2>1, UseItems
  <2>3. PICK x : Placed(room, x, n) /\ M = Append(K, x)
    BY <1>1, <1>8, <2>1, UseItems DEF M, K
  <2>4. x \in Thing /\ x.size \in {n, n + 1} /\ x.at + x.size <= Size
        /\ \A y \in Shown(room) : y.at + y.size <= x.at \/ x.at + x.size <= y.at
    BY <2>3 DEF Placed
  <2>5. /\ x = [at |-> x.at, size |-> x.size] /\ x.at \in Int /\ x.size \in Int /\ 0 <= x.at
        /\ Size \in Int /\ n \in Int
    BY <2>4, RingAssumption DEF Thing, Ring!Offsets
  <2>6. x \in Ring!Queue!Places(n)
    <3>1. x.at \in 0 .. Size - n /\ x.size \in n .. n + 1
      BY <2>4, <2>5
    <3>2. QED
      BY <2>5, <3>1 DEF Ring!Queue!Places
  <2>7. Ring!Queue!Bytes(x) \subseteq 0 .. Size - 1
    BY <2>4, <2>5 DEF Ring!Queue!Bytes
  <2>8. \A i \in 1 .. Len(K) : Ring!Queue!Bytes(K[i]) \cap Ring!Queue!Bytes(x) = {}
    <3> TAKE i \in 1 .. Len(K)
    <3>1. K[i] \in Shown(room)
      <4>1. K \in Seq(Shown(room))
        BY <1>6 DEF Lists
      <4>2. QED
        BY <4>1
    <3>2. K[i].at \in Int /\ K[i].size \in Int
      BY <1>6, <3>1 DEF Thing, Ring!Offsets
    <3>3. K[i].at + K[i].size <= x.at \/ x.at + x.size <= K[i].at
      BY <2>4, <3>1
    <3>4. QED
      BY <2>5, <3>2, <3>3 DEF Ring!Queue!Bytes
  <2>9. Ring!Queue!Allocate(n)
    BY <1>2, <1>4, <2>3, <2>6, <2>7, <2>8 DEF Ring!Queue!Allocate
  <2>10. QED
    BY <2>2, <2>9 DEF Ring!Queue!Next
<1>9. QED
  BY <1>7, <1>8

\* Each call is a step of the queue, or leaves it alone.
LEMMA RingStep ==
    ASSUME RingOrder, RingOrder', [Ring!Next]_ring
    PROVE  [Ring!Queue!Next]_<<Ring!Items, ring.recycles>>
<1>1. Ring!Items = ListOf(ring) /\ Ring!Items' = ListOf(ring')
  BY ItemsList
<1>2. CASE Ring!PopFirst
  <2>1. /\ ring'.recycles = ring.recycles
        /\ ListOf(ring) # << >> /\ ListOf(ring') = Tail(ListOf(ring))
    BY <1>2, PopItems DEF Ring!PopFirst, RingOrder
  <2>2. Ring!Queue!PopFirst
    BY <1>1, <2>1 DEF Ring!Queue!PopFirst
  <2>3. QED
    BY <2>1, <2>2 DEF Ring!Queue!Next
<1>3. CASE Ring!Clear
  <2>1. ring.recycles \in BOOLEAN
    BY DEF RingOrder, RingInv, Chain, Rings
  <2>2. ring'.recycles = ring.recycles /\ ListOf(ring') = << >>
    BY <1>3, <2>1, ClearItems DEF Ring!Clear
  <2>3. Ring!Queue!Clear
    BY <1>1, <2>2 DEF Ring!Queue!Clear
  <2>4. QED
    BY <2>2, <2>3 DEF Ring!Queue!Next
<1>4. ASSUME NEW n \in 1 .. Size, Ring!Allocate(n)
      PROVE  [Ring!Queue!Next]_<<Ring!Items, ring.recycles>>
  BY <1>4, AllocateItems
<1>5. CASE UNCHANGED ring
  BY <1>1, <1>5
<1>6. QED
  BY <1>2, <1>3, <1>4, <1>5 DEF Ring!Next

\* The ring buffer is a queue: Allocate puts an item behind the others, in
\* memory that is its own, PopFirst takes the oldest out, and only a buffer with
\* FLAG_RECYCLE takes out some of the oldest to make room.  First and Next show
\* every item once, from the oldest.
THEOREM RingIsQueue == Ring!Spec => QueueSpec
<1>1. ASSUME Ring!Init PROVE Ring!Queue!Init
  <2>1. ListOf(ring) = << >> /\ ring.recycles \in BOOLEAN
    BY <1>1, ClearItems DEF Ring!Init
  <2>2. QED
    BY <2>1, ItemsList DEF Ring!Queue!Init
<1>2. RingOrder /\ RingOrder' /\ [Ring!Next]_ring => [Ring!Queue!Next]_<<Ring!Items, ring.recycles>>
  BY RingStep
<1>3. QED
  BY <1>1, <1>2, RingInductive, PTL DEF Ring!Spec, QueueSpec, Ring!QueueSpec, Ring!Queue!Spec

\* An empty ring buffer takes an item of any size up to its own, so that
\* PopFirst makes room in the end and FLAG_RECYCLE refuses nothing.
THEOREM RingTakesAll == Ring!Spec => []EmptyTakesAll
<1>1. RingOrder => EmptyTakesAll
  <2>1. EmptyTakesAll = Ring!EmptyTakesAll
    BY DEF EmptyTakesAll
  <2>2. QED
    BY <2>1, EmptyIs DEF RingOrder, Ring!EmptyTakesAll
<1>2. QED
  BY <1>1, RingInductive, PTL
=============================================================================
