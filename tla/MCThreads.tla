------------------------------ MODULE MCThreads ------------------------------
(***************************************************************************)
(* The parts of base and engine that have threads of their own: the job    *)
(* pool, the asynchronous file, the database pool and the HTTP client.     *)
(* They do not touch each other: in each behaviour one of them, `part', is *)
(* used.                                                                   *)
(* As threads.cfg gives the constants:                                     *)
(* Jobs: four jobs, two of them abortable, and two workers.                *)
(* File: one writer, up to five bytes through a ring of four bytes and a   *)
(* local buffer of two.                                                    *)
(* Database: a ring of three slots, four queries of which the third is a   *)
(* read, at most two of them waiting for the worker.                       *)
(* Http: two requests.                                                     *)
(***************************************************************************)
EXTENDS JobPool

CONSTANTS
    Writers, InitialSize, LocalSize, MaxWrite, MaxBytes,    \* AsyncIo
    Size, MaxQueries, Backlog,                              \* DbPool
    Requests                                                \* HttpClient

VARIABLES part,
    buf, finish, refcount, freed, error, ioError, tokens, thread, local, writer, owner, file,
    broken, closed, queued, promised,
    hasBackup, ring, insertIdx, inserted, writes, numBackup, numWorker, dbDown, dbMain, bpc,
    backupJob, backupQ, wpc, workerJob, workerQ, failMode, success, remote, tmp, kept, backed,
    result,
    client, shutdown, deadline, wakeup, loop, pending, fresh, transfers, ended, abort, request

fileVars == <<buf, finish, refcount, freed, error, ioError, tokens, thread, local, writer, owner,
              file, broken, closed, queued, promised>>
dbVars == <<hasBackup, ring, insertIdx, inserted, writes, numBackup, numWorker, dbDown, dbMain, bpc,
            backupJob, backupQ, wpc, workerJob, workerQ, failMode, success, remote, tmp, kept,
            backed, result>>
httpVars == <<client, shutdown, deadline, wakeup, loop, pending, fresh, transfers, ended, abort,
              request>>

Aio == INSTANCE AsyncIo
ASSUME FileAssumption == Aio!Sizes
Db == INSTANCE DbPool WITH Null <- None, down <- dbDown, main <- dbMain
ASSUME DbAssumption == Db!RoomInRing
Http == INSTANCE HttpClient WITH pc <- loop, running <- transfers, state <- request

MCInit ==
    /\ Init /\ Aio!Init /\ Db!Init /\ Http!Init
    /\ part \in {"jobs", "file", "database", "http"}
    /\ part # "database" => hasBackup

\* The queries of the instance that are writes.
MCWrites == {0, 1, 3}

MCNext ==
    \/ part = "jobs" /\ Next /\ UNCHANGED <<part, fileVars, dbVars, httpVars>>
    \/ part = "file" /\ Aio!Next /\ UNCHANGED <<part, vars, dbVars, httpVars>>
    \/ /\ part = "database" /\ Db!Next /\ UNCHANGED <<part, vars, fileVars, httpVars>>
       /\ writes' = {q \in MCWrites : q < inserted'}
    \/ part = "http" /\ Http!Next /\ UNCHANGED <<part, vars, fileVars, dbVars>>

MCSpec == MCInit /\ [][MCNext]_<<part, vars, fileVars, dbVars, httpVars>>

-----------------------------------------------------------------------------
\* Every byte is in one place and in its order.
NothingLost == Aio!NothingLost

\* After aio_wait the owner knows what is in the file, and the memory is
\* freed when both sides have left.
OwnerServed == Aio!OwnerServed

\* The queries are answered once and in order.
InOrder == Db!InOrder

\* What the backup database has stored is not lost.
RowsKept == Db!RowsKept

\* A write reported as a success is in a table the ranks are read from.
OkIsStored == Db!OkIsStored

\* A request is completed once.
RequestSpec == Http!RequestSpec

\* What the threads were asked for comes to its end, as they are scheduled.
ThreadsEnd ==
    /\ Fairness => AllEnd
    /\ Aio!Fairness => Aio!AllEnd
    /\ Db!Fairness => Db!AllEnd
    /\ Http!Fairness => Http!AllEnd
=============================================================================
