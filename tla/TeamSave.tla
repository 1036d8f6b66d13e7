------------------------------ MODULE TeamSave ------------------------------
(***************************************************************************)
(* Saving a team's race and loading it again: game/server/teams.cpp,       *)
(* score.cpp and scoreworker.cpp on top of the database pool.  The game    *)
(* servers share the remote database and may each have a file of their     *)
(* own.  A request of a team is worked on step by step in the pool while   *)
(* the game goes on; ProcessSaveTeam then applies what came of it.         *)
(*                                                                         *)
(* One race is followed, from the team that runs it through all its saves  *)
(* and loads.  Its progress is named by the last save that was tried: 0 is *)
(* the race before the first.  One team of each server is looked at.       *)
(***************************************************************************)
EXTENDS Naturals, FiniteSets

CONSTANTS
    Servers,    \* the game servers
    Slots,      \* for each, the client ids that are used
    Names,      \* the names of players
    First,      \* the server the race is started on
    Backed,     \* servers with a WRITE_BACKUP database
    UserCode,   \* a code that a player chooses; a generated one is the save's number
    MaxSaves,   \* bound on the saves
    MaxJoins,   \* bound on the players who connect after the start
    None        \* nobody, and no progress

\* What the constants must be.
SaveConstants ==
    /\ First \in Servers /\ Backed \subseteq Servers
    /\ MaxSaves \in Nat /\ MaxJoins \in Nat /\ UserCode \notin Nat
    /\ None \notin [id : Nat, name : Names]

VARIABLES
    who,        \* the name of the client in each slot
    members,    \* the slots with m_Core.Team(ClientId) == Team
    state,      \* m_aTeamState[Team]
    tee,        \* the progress of the character in each slot
    pending,    \* m_apSaveTeamResult[Team] is set
    result,     \* what it points to, and the query that belongs to it
    worker,     \* the step the pool is at with the query
    remote, kept, tmp,  \* rows: record_saves, and record_saves and record_saves_backup of the file
    saves,      \* history: how many saves were tried
    joins,      \* how many of MaxJoins have connected
    left,       \* history: servers whose team went away while it waited
    givenUp,    \* history: the players have left the race or lost it
    doubt       \* history: a database has done what it reported as failed

game   == <<who, members, state, tee>>
tables == <<remote, kept, tmp>>
counts == <<saves, joins, left, givenUp>>
vars   == <<game, pending, result, worker, tables, counts, doubt>>

Codes == {UserCode} \cup 1 .. MaxSaves

\* A member of a save: the client id and the name it is found by.
Crew(v, M) == {[slot |-> s, name |-> who[v][s]] : s \in M}
NamesOf(crew) == {m.name : m \in crew}
NoResult == [kind |-> "none", code |-> UserCode, id |-> 0, crew |-> {}, status |-> "none"]

Init ==
    /\ who \in [Servers -> UNION {[Slots[v] -> Names \cup {None}] : v \in Servers}]
    /\ \A v \in Servers : /\ DOMAIN who[v] = Slots[v]
                            /\ \A s, t \in Slots[v] : s # t /\ who[v][s] = who[v][t] => who[v][s] = None
    /\ members = [v \in Servers |-> IF v = First THEN {s \in Slots[v] : who[v][s] # None} ELSE {}]
    /\ members[First] # {}
    /\ saves \in 0 .. MaxSaves
    /\ state = [v \in Servers |-> IF v = First THEN "started" ELSE "empty"]
    /\ tee = [v \in Servers |-> [s \in Slots[v] |->
                  IF s \in members[v] THEN [id |-> saves, name |-> who[v][s]] ELSE None]]
    /\ pending = [v \in Servers |-> FALSE]
    /\ result = [v \in Servers |-> NoResult]
    /\ worker = [v \in Servers |-> "idle"]
    /\ remote = {} /\ kept = [v \in Servers |-> {}] /\ tmp = [v \in Servers |-> {}]
    /\ joins \in 0 .. MaxJoins /\ left = {} /\ givenUp = FALSE /\ doubt = FALSE

-----------------------------------------------------------------------------
(* The game.                                                               *)

\* SetForceCharacterTeam(ClientId, TEAM_FLOCK) for the members in M.
Dismiss(v, M) ==
    /\ members' = [members EXCEPT ![v] = @ \ M]
    /\ state' = [state EXCEPT ![v] = IF members[v] \subseteq M THEN "empty" ELSE @]

\* The characters in M are killed, for good when nobody else has the race.
Kill(v, M) ==
    tee' = [tee EXCEPT ![v] = [s \in Slots[v] |-> IF s \in M THEN None ELSE @[s]]]

GiveUp(v, M) ==
    givenUp' = (givenUp \/ /\ \E s \in M : tee[v][s] # None
                           /\ \A s \in Slots[v] \ M : tee[v][s] = None)

Connect(v, s, n) ==
    /\ joins < MaxJoins
    /\ who[v][s] = None /\ \A t \in Slots[v] : who[v][t] # n
    /\ who' = [who EXCEPT ![v][s] = n]
    /\ joins' = joins + 1
    /\ UNCHANGED <<members, state, tee, pending, result, worker, tables, saves, left,
                   givenUp, doubt>>

\* Fault: a team that is saving may be joined.
JoinTeam_Saving(v, s) ==
    /\ who[v][s] # None /\ s \notin members[v]
    /\ state[v] # "started"
    /\ members' = [members EXCEPT ![v] = @ \cup {s}]
    /\ state' = [state EXCEPT ![v] = "open"]
    /\ UNCHANGED <<who, tee, pending, result, worker, tables, counts, doubt>>

\* CanJoinTeam, SetForceCharacterTeam into a team that has not started.
JoinTeam(v, s) ==
    /\ who[v][s] # None /\ s \notin members[v]
    /\ state[v] # "started"
    /\ ~pending[v]
    /\ members' = [members EXCEPT ![v] = @ \cup {s}]
    /\ state' = [state EXCEPT ![v] = "open"]
    /\ UNCHANGED <<who, tee, pending, result, worker, tables, counts, doubt>>

\* OnPlayerDisconnect: the team is left even if it is saving.
Disconnect(v, s) ==
    /\ who[v][s] # None
    /\ who' = [who EXCEPT ![v][s] = None]
    /\ Dismiss(v, {s} \cap members[v]) /\ Kill(v, {s}) /\ GiveUp(v, {s})
    /\ left' = IF pending[v] /\ members[v] \subseteq {s} THEN left \cup {v} ELSE left
    /\ UNCHANGED <<pending, result, worker, tables, saves, joins, doubt>>

\* Fault: the dead leave the team while it is saving.
Die_Saving(v, s, locked) ==
    LET M == IF locked THEN members[v] ELSE {s} IN
    /\ s \in members[v]
    /\ Kill(v, M) /\ GiveUp(v, M)
    /\ IF locked THEN state' = [state EXCEPT ![v] = "open"] /\ UNCHANGED members
                 ELSE Dismiss(v, M)
    /\ UNCHANGED <<who, pending, result, worker, tables, saves, joins, left, doubt>>

\* OnCharacterDeath: the dead leave the team, or all of a locked team start
\* anew.  A team that waits for the database stays as it is.
Die(v, s, locked) ==
    LET M == IF locked THEN members[v] ELSE {s} IN
    /\ s \in members[v]
    /\ ~pending[v]
    /\ Kill(v, M) /\ GiveUp(v, M)
    /\ IF locked THEN state' = [state EXCEPT ![v] = "open"] /\ UNCHANGED members
                 ELSE Dismiss(v, M)
    /\ UNCHANGED <<who, pending, result, worker, tables, saves, joins, left, doubt>>

\* OnReset: the game is restarted, what the database will say is ignored.
Reset(v) ==
    /\ members[v] # {} \/ pending[v]
    /\ Dismiss(v, members[v]) /\ Kill(v, Slots[v])
    /\ pending' = [pending EXCEPT ![v] = FALSE]
    /\ left' = IF pending[v] THEN left \cup {v} ELSE left
    /\ GiveUp(v, Slots[v])
    /\ UNCHANGED <<who, result, worker, tables, saves, joins, doubt>>

-----------------------------------------------------------------------------
(* The requests.  A new one waits for the query before, as in the pool.    *)

\* CScore::SaveTeam: the team is saved, marked as saving and killed.
SaveTeam(v, code) ==
    /\ saves < MaxSaves /\ worker[v] = "idle"
    /\ ~pending[v]
    /\ state[v] = "started" /\ \A s \in members[v] : tee[v][s] # None
    /\ code \in {UserCode, saves + 1}
    /\ saves' = saves + 1
    /\ pending' = [pending EXCEPT ![v] = TRUE]
    /\ result' = [result EXCEPT ![v] = [kind |-> "save", code |-> code, id |-> saves',
                                        crew |-> Crew(v, members[v]), status |-> "SAVE_FAILED"]]
    /\ Kill(v, members[v])
    /\ worker' = [worker EXCEPT ![v] = IF v \in Backed THEN "first" ELSE "write"]
    /\ UNCHANGED <<who, members, state, tables, joins, left, givenUp, doubt>>

\* CScore::LoadTeam, with a code that has been told to somebody.
LoadTeam(v, code) ==
    /\ worker[v] = "idle"
    /\ ~pending[v]
    /\ state[v] = "open"
    /\ code \in {UserCode} \cup 1 .. saves
    /\ pending' = [pending EXCEPT ![v] = TRUE]
    /\ result' = [result EXCEPT ![v] = [kind |-> "load", code |-> code, id |-> 0,
                                        crew |-> Crew(v, members[v]), status |-> "LOAD_FAILED"]]
    /\ worker' = [worker EXCEPT ![v] = "select"]
    /\ UNCHANGED <<game, tables, counts, doubt>>

-----------------------------------------------------------------------------
(* The pool: CScoreWorker::SaveTeam.                                       *)

Row(v, code) == [code |-> code, id |-> result[v].id, names |-> NamesOf(result[v].crew)]

\* BACKUP_FIRST, under the generated code.
WriteFirst(v, ok) ==
    /\ worker[v] = "first"
    /\ tmp' = IF ok THEN [tmp EXCEPT ![v] = @ \cup {Row(v, result[v].id)}] ELSE tmp
    /\ result' = IF ok THEN [result EXCEPT ![v].status = "SAVE_FALLBACKFILE"] ELSE result
    /\ worker' = [worker EXCEPT ![v] = "write"]
    /\ UNCHANGED <<game, pending, remote, kept, counts, doubt>>

\* NORMAL: under the player's code, or the generated one if that is in use.
WriteSave(v, stored, ok) ==
    LET code == IF \E row \in remote : row.code = result[v].code THEN result[v].id
                                                                  ELSE result[v].code IN
    /\ worker[v] = "write"
    /\ ok => stored
    /\ remote' = IF stored THEN remote \cup {Row(v, code)} ELSE remote
    /\ result' = IF ok THEN [result EXCEPT ![v].status = "SAVE_SUCCESS"] ELSE result
    /\ doubt' = (doubt \/ stored # ok)
    /\ worker' = [worker EXCEPT ![v] = IF v \in Backed THEN "settle" ELSE "done"]
    /\ UNCHANGED <<game, pending, kept, tmp, counts>>

\* NORMAL_SUCCEEDED and NORMAL_FAILED on the file.
Settle(v, moved, deleted) ==
    LET Mine == {row \in tmp[v] : row.code = result[v].id} IN
    /\ worker[v] = "settle"
    /\ IF result[v].status = "SAVE_SUCCESS" THEN ~moved ELSE deleted => moved
    /\ kept' = IF moved THEN [kept EXCEPT ![v] = @ \cup Mine] ELSE kept
    /\ tmp' = IF deleted THEN [tmp EXCEPT ![v] = @ \ Mine] ELSE tmp
    /\ worker' = [worker EXCEPT ![v] = "done"]
    /\ UNCHANGED <<game, pending, result, remote, counts, doubt>>

-----------------------------------------------------------------------------
(* The pool: CScoreWorker::LoadTeam, on the remote database and, when that *)
(* fails, as NORMAL_FAILED on the file.                                    *)

Table(v) == IF worker[v] \in {"select", "delete"} THEN remote ELSE kept[v]
Failed(v) == [worker EXCEPT ![v] = IF worker[v] \in {"select", "delete"} /\ v \in Backed
                                   THEN "select file" ELSE "done"]
Deleting(v) == [worker EXCEPT ![v] = IF worker[v] = "select" THEN "delete" ELSE "delete file"]

\* SELECT fails, finds the save of the whole team, or refuses: there is none,
\* it is one of other players, or it is not old enough.
Select(v) ==
    /\ worker[v] \in {"select", "select file"}
    /\ \/ worker' = Failed(v) /\ UNCHANGED result
       \/ \E row \in Table(v) :
              /\ row.code = result[v].code /\ row.names = NamesOf(result[v].crew)
              /\ result' = [result EXCEPT ![v].id = row.id]
              /\ worker' = Deleting(v)
       \/ worker' = [worker EXCEPT ![v] = "done"] /\ UNCHANGED result
    /\ UNCHANGED <<game, pending, tables, counts, doubt>>

\* Fault: the DELETE names the code only.
Chosen_ByCode(v, row) == row.code = result[v].code

\* DELETE: it has to be the save that was read, and still there.
Chosen(v, row) == row.code = result[v].code /\ row.id = result[v].id

\* Fault: the number of deleted rows is not looked at.
LoadStatus_Uncounted(gone) == "LOAD_SUCCESS"
LoadStatus(gone) == IF Cardinality(gone) = 1 THEN "LOAD_SUCCESS" ELSE "LOAD_FAILED"

Delete(v, deleted, ok) ==
    LET gone == {row \in Table(v) : Chosen(v, row)} IN
    /\ worker[v] \in {"delete", "delete file"}
    /\ ok => deleted
    /\ IF deleted /\ worker[v] = "delete" THEN remote' = remote \ gone ELSE UNCHANGED remote
    /\ IF deleted /\ worker[v] # "delete" THEN kept' = [kept EXCEPT ![v] = @ \ gone]
                                          ELSE UNCHANGED kept
    /\ result' = IF ok THEN [result EXCEPT ![v].status = LoadStatus(gone)] ELSE result
    /\ doubt' = (doubt \/ (deleted # ok /\ gone # {}))
    /\ worker' = IF ok THEN [worker EXCEPT ![v] = "done"] ELSE Failed(v)
    /\ UNCHANGED <<game, pending, tmp, counts>>

-----------------------------------------------------------------------------
(* ProcessSaveTeam.                                                        *)

\* Fault: nobody looks who is still in the team.
Back_All(v) == result[v].crew

\* CSaveTeam::Load: those of the save who are still in the team get their
\* characters back.
Back(v) == {m \in result[v].crew : m.slot \in members[v]}

Restore(v) ==
    /\ state' = [state EXCEPT ![v] = "started"]
    /\ tee' = [tee EXCEPT ![v] = [s \in Slots[v] |->
                  IF \E m \in Back(v) : m.slot = s
                  THEN [id |-> result[v].id, name |-> (CHOOSE m \in Back(v) : m.slot = s).name]
                  ELSE @[s]]]
    /\ UNCHANGED members

ProcessSaveTeam(v) ==
    LET status == result[v].status IN
    /\ worker[v] = "done"
    /\ worker' = [worker EXCEPT ![v] = "idle"]
    /\ pending' = [pending EXCEPT ![v] = FALSE]
    /\ result' = [result EXCEPT ![v] = NoResult]
    /\ IF pending[v] /\ status \in {"SAVE_SUCCESS", "SAVE_FALLBACKFILE"}
       THEN Dismiss(v, members[v]) /\ Kill(v, members[v])
       ELSE IF pending[v] /\ status \in {"SAVE_FAILED", "LOAD_SUCCESS"} /\ members[v] # {}
       THEN Restore(v)
       ELSE UNCHANGED <<members, state, tee>>
    /\ givenUp' = (givenUp \/ (status \in {"SAVE_FAILED", "LOAD_SUCCESS"} /\ v \in left))
    /\ left' = left \ {v}
    /\ UNCHANGED <<who, tables, saves, joins, doubt>>

-----------------------------------------------------------------------------
Players(v) == \E s \in Slots[v] :
    \/ \E n \in Names : Connect(v, s, n)
    \/ JoinTeam(v, s) \/ Disconnect(v, s)
    \/ \E locked \in BOOLEAN : Die(v, s, locked)
Requests(v) == \E code \in Codes : SaveTeam(v, code) \/ LoadTeam(v, code)
Pool(v) ==
    \/ \E ok \in BOOLEAN : WriteFirst(v, ok)
    \/ \E a, b \in BOOLEAN : WriteSave(v, a, b) \/ Settle(v, a, b) \/ Delete(v, a, b)
    \/ Select(v)

Next == \E v \in Servers :
    Players(v) \/ Reset(v) \/ Requests(v) \/ Pool(v) \/ ProcessSaveTeam(v)

Spec == Init /\ [][Next]_vars

-----------------------------------------------------------------------------
Running(v)  == \E s \in members[v] : tee[v][s] # None
Arriving(v) == pending[v] /\ result[v].status = "LOAD_SUCCESS"

\* The race is in one place only: with one team, on its way to one, or in one
\* row that can be loaded; two servers that load it at the same time do not
\* both get it.  A database that does what it reports as failed can double it.
OneCopy ==
    ~doubt => Cardinality(remote) + Cardinality(UNION {{v} \X kept[v] : v \in Servers})
              + Cardinality({v \in Servers : Running(v) \/ Arriving(v)}) <= 1

\* What a team has saved last is not lost: it is with a team, on its way to
\* the database or back, or in a table, until the players give it up.
NotLost ==
    doubt \/ givenUp
    \/ \E v \in Servers : \/ \E s \in members[v] : tee[v][s] # None /\ tee[v][s].id = saves
                          \/ result[v].kind = "save" /\ result[v].id = saves
                          \/ result[v].status = "LOAD_SUCCESS" /\ result[v].id = saves
                          \/ \E row \in remote \cup kept[v] \cup tmp[v] : row.id = saves

\* Nobody gets the character of somebody else, whoever has come into the slot
\* in the meantime.
OwnTee ==
    \A v \in Servers : \A s \in Slots[v] :
        tee[v][s] # None => s \in members[v] /\ tee[v][s].name = who[v][s]
=============================================================================
