-------------------------------- MODULE DbPool --------------------------------
(***************************************************************************)
(* The database connection pool of engine/server/databases: the main       *)
(* thread puts queries into a ring, a backup thread looks at each query    *)
(* first and writes it to a local file, a worker thread then executes it   *)
(* on the remote database and settles the local copy, and the pool is shut *)
(* down by the main thread.                                                *)
(*                                                                         *)
(* A query is named by its JobNum: the first one inserted is 0.  Writes    *)
(* are those of SaveScore, SaveTeam and SaveTeamScore, which keep one row  *)
(* in each table.                                                          *)
(***************************************************************************)
EXTENDS Integers, FiniteSets

CONSTANTS
    Size,       \* slots of m_aQueries: 512
    MaxQueries, \* bound on the queries of a behaviour
    Backlog,    \* bound on the queries the worker has not taken yet
    Null        \* an empty slot: the null pointer

\* The ring has room for all the queries that may wait, with a slot to spare.
RoomInRing ==
    /\ Size \in Nat \ {0} /\ MaxQueries \in Nat /\ Backlog \in Nat /\ Backlog < Size
    /\ Null \notin Nat

VARIABLES
    hasBackup,               \* a WRITE_BACKUP database has been registered
    ring, insertIdx,         \* m_aQueries, m_InsertIdx
    inserted, writes,        \* history: how many queries, which of them write
    numBackup, numWorker,    \* the two semaphores
    down,                    \* m_pShared->m_Shutdown
    main,                    \* where the main thread is
    bpc, backupJob, backupQ, \* the backup thread: JobNum and pThreadData
    wpc, workerJob, workerQ, \* the worker thread: JobNum and pThreadData
    failMode, success,       \* its FailMode and Success
    remote, tmp, kept,       \* rows: race on the remote, race_backup and race in the file
    backed,                  \* history: the writes that BACKUP_FIRST has stored
    result                   \* what the main thread is told of each query

mainVars   == <<insertIdx, inserted, writes, main>>
backupVars == <<bpc, backupJob, backupQ>>
workerVars == <<wpc, workerJob, workerQ, failMode, success>>
tables     == <<remote, tmp, kept, backed>>
vars == <<hasBackup, ring, numBackup, numWorker, down, mainVars, backupVars, workerVars,
          tables, result>>

Queries == 0 .. MaxQueries - 1
Slots   == 0 .. Size - 1

Init ==
    /\ hasBackup \in BOOLEAN
    /\ ring = [s \in Slots |-> Null] /\ insertIdx = 0
    /\ inserted = 0 /\ writes = {}
    /\ numBackup = 0 /\ numWorker = 0
    /\ down = FALSE /\ main = "idle"
    /\ bpc = "wait" /\ backupJob = 0 /\ backupQ = Null
    /\ wpc = "top" /\ workerJob = 0 /\ workerQ = Null
    /\ failMode = FALSE /\ success = FALSE
    /\ remote = {} /\ tmp = {} /\ kept = {} /\ backed = {}
    /\ result = [q \in Queries |-> "none"]

-----------------------------------------------------------------------------
\* Fault: m_InsertIdx is not taken modulo the size of the ring.
Insert_NoWrap(isWrite) ==
    /\ main = "idle"
    /\ inserted < MaxQueries
    /\ inserted - workerJob < Backlog
    /\ ring' = [ring EXCEPT ![insertIdx] = inserted]
    /\ insertIdx' = insertIdx + 1
    /\ inserted' = inserted + 1
    /\ writes' = IF isWrite THEN writes \cup {inserted} ELSE writes
    /\ result' = [result EXCEPT ![inserted] = "pending"]
    /\ main' = "signal"
    /\ UNCHANGED <<hasBackup, numBackup, numWorker, down, backupVars, workerVars, tables>>

\* Execute and ExecuteWrite: the slot is overwritten, whatever it holds.  The
\* last conjunct leaves out the overwriting of a query that the backup thread
\* is executing, which would be freed under its feet.
Insert(isWrite) ==
    /\ main = "idle"
    /\ inserted < MaxQueries
    /\ inserted - workerJob < Backlog
    /\ ~(bpc = "exec" /\ backupJob % Size = insertIdx)
    /\ ring' = [ring EXCEPT ![insertIdx] = inserted]
    /\ insertIdx' = (insertIdx + 1) % Size
    /\ inserted' = inserted + 1
    /\ writes' = IF isWrite THEN writes \cup {inserted} ELSE writes
    /\ result' = [result EXCEPT ![inserted] = "pending"]
    /\ main' = "signal"
    /\ UNCHANGED <<hasBackup, numBackup, numWorker, down, backupVars, workerVars, tables>>

\* Fault: the worker is signalled as well, and need not wait for the backup.
SignalBackup_Both ==
    /\ main = "signal"
    /\ numBackup' = numBackup + 1
    /\ numWorker' = numWorker + 1
    /\ main' = "idle"
    /\ UNCHANGED <<hasBackup, ring, insertIdx, inserted, writes, down, backupVars, workerVars,
                   tables, result>>

SignalBackup ==
    /\ main = "signal"
    /\ numBackup' = numBackup + 1
    /\ main' = "idle"
    /\ UNCHANGED <<hasBackup, ring, insertIdx, inserted, writes, numWorker, down, backupVars,
                   workerVars, tables, result>>

BeginShutdown ==
    /\ main = "idle"
    /\ down' = TRUE
    /\ main' = "stop"
    /\ UNCHANGED <<hasBackup, ring, insertIdx, inserted, writes, numBackup, numWorker, backupVars,
                   workerVars, tables, result>>

\* The signal without a query: the threads will find an empty slot.
SignalStop ==
    /\ main = "stop"
    /\ numBackup' = numBackup + 1
    /\ main' = "closing"
    /\ UNCHANGED <<hasBackup, ring, insertIdx, inserted, writes, numWorker, down, backupVars,
                   workerVars, tables, result>>

EndShutdown ==
    /\ main = "closing"
    /\ ~down
    /\ main' = "closed"
    /\ UNCHANGED <<hasBackup, ring, insertIdx, inserted, writes, numBackup, numWorker, down,
                   backupVars, workerVars, tables, result>>

-----------------------------------------------------------------------------
\* CBackup::ProcessQueries.
BackupTake ==
    /\ bpc = "wait"
    /\ numBackup > 0
    /\ numBackup' = numBackup - 1
    /\ backupQ' = ring[backupJob % Size]
    /\ bpc' = IF backupQ' = Null THEN "leave" ELSE "exec"
    /\ UNCHANGED <<hasBackup, ring, numWorker, down, mainVars, backupJob, workerVars, tables,
                   result>>

\* Fault: the backup thread leaves without waking the worker.
BackupLeave_Silent ==
    /\ bpc = "leave"
    /\ bpc' = "exit"
    /\ UNCHANGED <<hasBackup, ring, numBackup, numWorker, down, mainVars, backupJob, backupQ,
                   workerVars, tables, result>>

BackupLeave ==
    /\ bpc = "leave"
    /\ numWorker' = numWorker + 1
    /\ bpc' = "exit"
    /\ UNCHANGED <<hasBackup, ring, numBackup, down, mainVars, backupJob, backupQ, workerVars,
                   tables, result>>

\* BACKUP_FIRST, which may fail; reads, and writes without a backup database,
\* are passed on.
BackupExec(ok) ==
    /\ bpc = "exec"
    /\ ok => hasBackup /\ backupQ \in writes
    /\ tmp'    = IF ok THEN tmp \cup {backupQ} ELSE tmp
    /\ backed' = IF ok THEN backed \cup {backupQ} ELSE backed
    /\ bpc' = "signal"
    /\ UNCHANGED <<hasBackup, ring, numBackup, numWorker, down, mainVars, backupJob, backupQ,
                   workerVars, remote, kept, result>>

BackupSignal ==
    /\ bpc = "signal"
    /\ numWorker' = numWorker + 1
    /\ backupJob' = backupJob + 1
    /\ bpc' = "wait"
    /\ UNCHANGED <<hasBackup, ring, numBackup, down, mainVars, backupQ, workerVars, tables,
                   result>>

-----------------------------------------------------------------------------
\* CWorker::ProcessQueries.  FailMode ends when no query is waiting.
WorkerTop ==
    /\ wpc = "top"
    /\ failMode' = (failMode /\ numWorker # 0)
    /\ wpc' = "wait"
    /\ UNCHANGED <<hasBackup, ring, numBackup, numWorker, down, mainVars, backupVars, workerJob,
                   workerQ, success, tables, result>>

\* The query is moved out of its slot.
WorkerTake ==
    LET q == ring[workerJob % Size] IN
    /\ wpc = "wait"
    /\ numWorker > 0
    /\ numWorker' = numWorker - 1
    /\ workerQ' = q
    /\ ring' = [ring EXCEPT ![workerJob % Size] = Null]
    /\ success' = FALSE
    /\ wpc' = IF q = Null THEN "leave" ELSE IF q \in writes THEN "write" ELSE "read"
    /\ UNCHANGED <<hasBackup, numBackup, down, mainVars, backupVars, workerJob, failMode, tables,
                   result>>

WorkerLeave ==
    /\ wpc = "leave"
    /\ down' = FALSE
    /\ wpc' = "exit"
    /\ UNCHANGED <<hasBackup, ring, numBackup, numWorker, mainVars, backupVars, workerJob,
                   workerQ, failMode, success, tables, result>>

\* A read is tried on the read servers, unless it is dismissed.
WorkerRead(ok) ==
    /\ wpc = "read"
    /\ ok => ~down /\ ~failMode
    /\ success' = ok
    /\ failMode' = (failMode \/ ~ok)
    /\ wpc' = "publish"
    /\ UNCHANGED <<hasBackup, ring, numBackup, numWorker, down, mainVars, backupVars, workerJob,
                   workerQ, tables, result>>

\* A write is left to the backup database during the shutdown and in FailMode;
\* otherwise it is tried on the remote one, which may store it and fail to say
\* so.
SkipRemote == hasBackup /\ (down \/ failMode)

WorkerWrite(stored, ok) ==
    /\ wpc = "write"
    /\ ok => stored
    /\ stored => ~SkipRemote
    /\ remote' = IF stored THEN remote \cup {workerQ} ELSE remote
    /\ success' = ok
    /\ failMode' = (failMode \/ ~ok)
    /\ wpc' = IF hasBackup THEN "settle" ELSE "publish"
    /\ UNCHANGED <<hasBackup, ring, numBackup, numWorker, down, mainVars, backupVars, workerJob,
                   workerQ, tmp, kept, backed, result>>

\* NORMAL_SUCCEEDED: the copy is removed from race_backup; that may fail.
SettleDone(deleted) ==
    /\ wpc = "settle"
    /\ success
    /\ tmp' = IF deleted THEN tmp \ {workerQ} ELSE tmp
    /\ wpc' = "publish"
    /\ UNCHANGED <<hasBackup, ring, numBackup, numWorker, down, mainVars, backupVars, workerJob,
                   workerQ, failMode, success, remote, kept, backed, result>>

\* Faults: the copy is deleted although it could not be moved; a query that
\* was never tried on the remote is settled like one that succeeded there.
SettleFailed_Deletes(moved, deleted) ==
    /\ wpc = "settle"
    /\ ~success
    /\ kept' = IF moved THEN kept \cup (tmp \cap {workerQ}) ELSE kept
    /\ tmp'  = IF deleted THEN tmp \ {workerQ} ELSE tmp
    /\ success' = (moved /\ deleted)
    /\ wpc' = "publish"
    /\ UNCHANGED <<hasBackup, ring, numBackup, numWorker, down, mainVars, backupVars, workerJob,
                   workerQ, failMode, remote, backed, result>>
SettleFailed_Swapped(moved, deleted) ==
    /\ wpc = "settle"
    /\ ~success
    /\ moved = deleted
    /\ tmp' = IF deleted THEN tmp \ {workerQ} ELSE tmp
    /\ success' = deleted
    /\ wpc' = "publish"
    /\ UNCHANGED <<hasBackup, ring, numBackup, numWorker, down, mainVars, backupVars, workerJob,
                   workerQ, failMode, remote, kept, backed, result>>

\* NORMAL_FAILED: what race_backup has of the query, if it has it, is copied to
\* race, then deleted.  Both statements succeed without a row to work on.
SettleFailed(moved, deleted) ==
    /\ wpc = "settle"
    /\ ~success
    /\ deleted => moved
    /\ kept' = IF moved THEN kept \cup (tmp \cap {workerQ}) ELSE kept
    /\ tmp'  = IF deleted THEN tmp \ {workerQ} ELSE tmp
    /\ success' = deleted
    /\ wpc' = "publish"
    /\ UNCHANGED <<hasBackup, ring, numBackup, numWorker, down, mainVars, backupVars, workerJob,
                   workerQ, failMode, remote, backed, result>>

\* m_Success, then m_Completed: the main thread may look now.
Publish ==
    /\ wpc = "publish"
    /\ result' = [result EXCEPT ![workerQ] = IF success THEN "ok" ELSE "failed"]
    /\ workerJob' = workerJob + 1
    /\ wpc' = "top"
    /\ UNCHANGED <<hasBackup, ring, numBackup, numWorker, down, mainVars, backupVars, workerQ,
                   failMode, success, tables>>

-----------------------------------------------------------------------------
Main   == (\E isWrite \in BOOLEAN : Insert(isWrite)) \/ BeginShutdown
Closing == SignalBackup \/ SignalStop \/ EndShutdown
Backup == BackupTake \/ BackupLeave \/ (\E ok \in BOOLEAN : BackupExec(ok)) \/ BackupSignal
Worker ==
    \/ WorkerTop \/ WorkerTake \/ WorkerLeave \/ Publish
    \/ \E ok \in BOOLEAN : WorkerRead(ok)
    \/ \E a, b \in BOOLEAN : WorkerWrite(a, b) \/ SettleFailed(a, b)
    \/ \E deleted \in BOOLEAN : SettleDone(deleted)

Next == Main \/ Closing \/ Backup \/ Worker

Spec == Init /\ [][Next]_vars

\* The three threads are scheduled and every database call returns.
Fairness == WF_vars(Closing) /\ WF_vars(Backup) /\ WF_vars(Worker)
FairSpec == Spec /\ Fairness

-----------------------------------------------------------------------------
Busy == {"read", "write", "settle", "publish"}

\* Every variable has its type.
TypeOK ==
    /\ hasBackup \in BOOLEAN
    /\ ring \in [Slots -> Queries \cup {Null}] /\ insertIdx \in Slots
    /\ inserted \in 0 .. MaxQueries /\ writes \subseteq Queries
    /\ numBackup \in Nat /\ numWorker \in Nat
    /\ down \in BOOLEAN
    /\ main \in {"idle", "signal", "stop", "closing", "closed"}
    /\ bpc \in {"wait", "exec", "signal", "leave", "exit"}
    /\ backupJob \in Nat /\ backupQ \in Queries \cup {Null}
    /\ wpc \in {"top", "wait", "leave", "exit"} \cup Busy
    /\ workerJob \in Nat /\ workerQ \in Queries \cup {Null}
    /\ failMode \in BOOLEAN /\ success \in BOOLEAN
    /\ remote \subseteq writes /\ tmp \subseteq writes /\ kept \subseteq writes
    /\ backed \subseteq writes
    /\ result \in [Queries -> {"none", "pending", "ok", "failed"}]

\* The ring is a queue as long as it is not full: both threads take the
\* queries in the order in which they were inserted, the backup thread first,
\* and the worker answers each of them once.
InOrder ==
    /\ TypeOK
    /\ bpc \in {"exec", "signal"} => backupQ = backupJob
    /\ wpc \in Busy => workerQ = workerJob /\ workerJob < backupJob
    /\ \A q \in Queries : result[q] \in {"ok", "failed"} <=> q < workerJob

\* "This is done to not loose ranks when the server shuts down before all
\* queries are executed on the mysql server": what the backup database has
\* stored first stays in one of the tables, whichever step fails.
RowsKept == \A q \in backed : q \in remote \cup tmp \cup kept

\* A write reported as a success that the backup database had stored, or that
\* had no backup database to go to, is in a table the ranks are read from.
OkIsStored ==
    \A q \in writes : result[q] = "ok" /\ (hasBackup => q \in backed) => q \in remote \cup kept

\* "work through all database jobs after OnShutdown is called before exiting
\* the thread": when the worker has left, every query has been answered.
AllHandled == wpc = "exit" => \A q \in Queries : q < inserted => result[q] \in {"ok", "failed"}

\* Queries and threads come to their end: each query is answered, OnShutdown
\* returns, and both threads leave.
Settled ==
    /\ \A q \in Queries : result[q] # "pending"
    /\ main \in {"stop", "closing", "closed"} => main = "closed" /\ bpc = "exit" /\ wpc = "exit"

AllEnd == []<>Settled
=============================================================================
