------------------------------- MODULE JobPool -------------------------------
(***************************************************************************)
(* The job pool of engine/shared/jobs.cpp: jobs that the main thread adds, *)
(* worker threads that run them, jobs that are aborted from any thread,    *)
(* and the shutdown of the pool.                                           *)
(*                                                                         *)
(* The main thread calls Add and Shutdown (every caller of AddJob in the   *)
(* program is the main thread).  A job is added once.  Each step below is  *)
(* one critical section or one atomic operation of the code.               *)
(***************************************************************************)
EXTENDS Integers, Sequences, FiniteSets

CONSTANTS
    Jobs,
    Workers,
    Abortables, \* the jobs that called Abortable(true) in their constructor
    None        \* no job: the null pointer

ASSUME JobsAssumption ==
    /\ IsFiniteSet(Workers) /\ Workers # {}
    /\ Abortables \subseteq Jobs
    /\ None \notin Jobs

VARIABLES
    state,    \* IJob::m_State
    queue,    \* the list from m_pFirstJob to m_pLastJob
    running,  \* m_RunningJobs
    sem,      \* the value of m_Semaphore
    down,     \* m_Shutdown
    pc, job,  \* where each worker is in RunLoop, and its pJob
    main,     \* where the main thread is in Add or Shutdown
    added,    \* history: the jobs the pool has accepted
    complete  \* history: the jobs whose Run has returned

vars == <<state, queue, running, sem, down, pc, job, main, added, complete>>

States == {"queued", "running", "done", "aborted"}
Places == {"wait", "fetch", "look", "start", "enlist", "run", "finish", "exit"}

\* The order-preserving choices of places of s: a subsequence of s, by the
\* places its elements come from.
Choices(s, n) == {f \in [1 .. n -> 1 .. Len(s)] : \A i, k \in 1 .. n : i < k => f[i] < f[k]}

InQueue(j) == \E i \in 1 .. Len(queue) : queue[i] = j
Holding == {"start", "enlist", "run", "finish"}

Init ==
    /\ state = [j \in Jobs |-> "queued"]
    /\ queue = << >>
    /\ running = {}
    /\ sem = 0
    /\ down = FALSE
    /\ pc = [w \in Workers |-> "wait"]
    /\ job = [w \in Workers |-> None]
    /\ main = "idle"
    /\ added = {}
    /\ complete = {}

-----------------------------------------------------------------------------
\* Add: the job is put into the queue, then a worker is signalled.
Add(j) ==
    /\ main = "idle"
    /\ ~down
    /\ j \notin added
    /\ queue' = Append(queue, j)
    /\ added' = added \cup {j}
    /\ main' = "signal"
    /\ UNCHANGED <<state, running, sem, down, pc, job, complete>>

\* Fault: only the first job of a burst is signalled.
SignalAdd_FirstOnly ==
    /\ main = "signal"
    /\ sem' = IF Len(queue) <= 1 THEN sem + 1 ELSE sem
    /\ main' = "idle"
    /\ UNCHANGED <<state, queue, running, down, pc, job, added, complete>>

SignalAdd ==
    /\ main = "signal"
    /\ sem' = sem + 1
    /\ main' = "idle"
    /\ UNCHANGED <<state, queue, running, down, pc, job, added, complete>>

\* Add when the pool has been shut down: the job is aborted, if it can be.
Refuse(j) ==
    /\ main = "closed"
    /\ j \in Abortables \ added
    /\ state' = [state EXCEPT ![j] = "aborted"]
    /\ UNCHANGED <<queue, running, sem, down, pc, job, main, added, complete>>

\* Abort, from any thread, by whoever still holds the job: the state is
\* overwritten, whatever it is.
Abort(j) ==
    /\ j \in Abortables \cap added
    /\ state' = [state EXCEPT ![j] = "aborted"]
    /\ UNCHANGED <<queue, running, sem, down, pc, job, main, added, complete>>

-----------------------------------------------------------------------------
\* RunLoop of worker w.
Wake(w) ==
    /\ pc[w] = "wait"
    /\ sem > 0
    /\ sem' = sem - 1
    /\ pc' = [pc EXCEPT ![w] = "fetch"]
    /\ UNCHANGED <<state, queue, running, down, job, main, added, complete>>

\* Fault: the fetched job stays at the head of the queue.
Fetch_Keeps(w) ==
    /\ pc[w] = "fetch"
    /\ queue # << >>
    /\ job' = [job EXCEPT ![w] = Head(queue)]
    /\ pc' = [pc EXCEPT ![w] = "start"]
    /\ UNCHANGED <<state, queue, running, sem, down, main, added, complete>>

Fetch(w) ==
    /\ pc[w] = "fetch"
    /\ queue # << >>
    /\ job' = [job EXCEPT ![w] = Head(queue)]
    /\ queue' = Tail(queue)
    /\ pc' = [pc EXCEPT ![w] = "start"]
    /\ UNCHANGED <<state, running, sem, down, main, added, complete>>

\* Fault: a worker looks at m_Shutdown before it looks at the queue.
FetchNothing_Impatient(w) ==
    /\ pc[w] = "fetch"
    /\ queue = << >> \/ down
    /\ pc' = [pc EXCEPT ![w] = "look"]
    /\ UNCHANGED <<state, queue, running, sem, down, job, main, added, complete>>

\* The queue is found empty.  m_Shutdown is read later, with m_Lock released.
FetchNothing(w) ==
    /\ pc[w] = "fetch"
    /\ queue = << >>
    /\ pc' = [pc EXCEPT ![w] = "look"]
    /\ UNCHANGED <<state, queue, running, sem, down, job, main, added, complete>>

LookShutdown(w) ==
    /\ pc[w] = "look"
    /\ pc' = [pc EXCEPT ![w] = IF down THEN "exit" ELSE "wait"]
    /\ UNCHANGED <<state, queue, running, sem, down, job, main, added, complete>>

\* Faults: the worker does not look whether the job was aborted, before it
\* runs the job or after.
Finish_Blind(w) ==
    /\ pc[w] = "finish"
    /\ state' = [state EXCEPT ![job[w]] = "done"]
    /\ pc' = [pc EXCEPT ![w] = "wait"]
    /\ job' = [job EXCEPT ![w] = None]
    /\ UNCHANGED <<queue, running, sem, down, main, added, complete>>

\* The compare-and-exchange QUEUED -> RUNNING.
Start(w) ==
    /\ pc[w] = "start"
    /\ state[job[w]] = "queued"
    /\ state' = [state EXCEPT ![job[w]] = "running"]
    /\ pc' = [pc EXCEPT ![w] = "enlist"]
    /\ UNCHANGED <<queue, running, sem, down, job, main, added, complete>>

SkipAborted(w) ==
    /\ pc[w] = "start"
    /\ state[job[w]] = "aborted"
    /\ pc' = [pc EXCEPT ![w] = "wait"]
    /\ job' = [job EXCEPT ![w] = None]
    /\ UNCHANGED <<state, queue, running, sem, down, main, added, complete>>

\* Fault: the job is marked DONE before it is run.
Enlist_MarksDone(w) ==
    /\ pc[w] = "enlist"
    /\ running' = running \cup {job[w]}
    /\ state' = [state EXCEPT ![job[w]] = IF @ = "running" THEN "done" ELSE @]
    /\ pc' = [pc EXCEPT ![w] = "run"]
    /\ UNCHANGED <<queue, sem, down, job, main, added, complete>>

\* The job enters m_RunningJobs; from then on it runs.
Enlist(w) ==
    /\ pc[w] = "enlist"
    /\ running' = running \cup {job[w]}
    /\ pc' = [pc EXCEPT ![w] = "run"]
    /\ UNCHANGED <<state, queue, sem, down, job, main, added, complete>>

\* Run returns, and the job leaves m_RunningJobs.
Complete(w) ==
    /\ pc[w] = "run"
    /\ complete' = complete \cup {job[w]}
    /\ running' = running \ {job[w]}
    /\ pc' = [pc EXCEPT ![w] = "finish"]
    /\ UNCHANGED <<state, queue, sem, down, job, main, added>>

\* The compare-and-exchange RUNNING -> DONE.
Finish(w) ==
    /\ pc[w] = "finish"
    /\ state' = [state EXCEPT ![job[w]] = IF @ = "running" THEN "done" ELSE @]
    /\ pc' = [pc EXCEPT ![w] = "wait"]
    /\ job' = [job EXCEPT ![w] = None]
    /\ UNCHANGED <<queue, running, sem, down, main, added, complete>>

-----------------------------------------------------------------------------
\* Shutdown.
BeginShutdown ==
    /\ main = "idle"
    /\ down' = TRUE
    /\ main' = "abort_queued"
    /\ UNCHANGED <<state, queue, running, sem, pc, job, added, complete>>

\* Abortable jobs leave the queue; the others stay to be run.
AbortQueued ==
    /\ main = "abort_queued"
    /\ state' = [j \in Jobs |-> IF j \in Abortables /\ InQueue(j) THEN "aborted" ELSE state[j]]
    /\ \E n \in 0 .. Len(queue) : \E f \in Choices(queue, n) :
           /\ \A i \in 1 .. Len(queue) :
                  queue[i] \notin Abortables <=> \E k \in 1 .. n : f[k] = i
           /\ queue' = [k \in 1 .. n |-> queue[f[k]]]
    /\ main' = "abort_running"
    /\ UNCHANGED <<running, sem, down, pc, job, added, complete>>

AbortRunning ==
    /\ main = "abort_running"
    /\ state' = [j \in Jobs |-> IF j \in Abortables \cap running THEN "aborted" ELSE state[j]]
    /\ main' = "wake"
    /\ UNCHANGED <<queue, running, sem, down, pc, job, added, complete>>

\* Fault: one worker too few is woken.
WakeAll_OneShort ==
    /\ main = "wake"
    /\ sem' = sem + Cardinality(Workers) - 1
    /\ main' = "join"
    /\ UNCHANGED <<state, queue, running, down, pc, job, added, complete>>

\* One signal for each worker.
WakeAll ==
    /\ main = "wake"
    /\ sem' = sem + Cardinality(Workers)
    /\ main' = "join"
    /\ UNCHANGED <<state, queue, running, down, pc, job, added, complete>>

Join ==
    /\ main = "join"
    /\ \A w \in Workers : pc[w] = "exit"
    /\ main' = "closed"
    /\ UNCHANGED <<state, queue, running, sem, down, pc, job, added, complete>>

-----------------------------------------------------------------------------
RunLoop(w) ==
    \/ Wake(w) \/ Fetch(w) \/ FetchNothing(w) \/ LookShutdown(w) \/ Start(w)
    \/ SkipAborted(w) \/ Enlist(w) \/ Complete(w) \/ Finish(w)

Shutdown == BeginShutdown \/ AbortQueued \/ AbortRunning \/ WakeAll \/ Join

Next ==
    \/ \E j \in Jobs : Add(j) \/ Refuse(j) \/ Abort(j)
    \/ SignalAdd
    \/ \E w \in Workers : RunLoop(w)
    \/ Shutdown

Spec == Init /\ [][Next]_vars

\* The threads are scheduled, jobs return from Run, and Shutdown, once begun,
\* is carried out.  Nobody has to add a job, to abort one or to shut down.
Fairness ==
    /\ WF_vars(SignalAdd)
    /\ \A w \in Workers : WF_vars(RunLoop(w))
    /\ WF_vars(AbortQueued \/ AbortRunning \/ WakeAll \/ Join)

FairSpec == Spec /\ Fairness

-----------------------------------------------------------------------------
\* Every variable has its type.
TypeOK ==
    /\ state \in [Jobs -> States]
    /\ queue \in Seq(Jobs)
    /\ running \subseteq Jobs
    /\ sem \in Nat
    /\ down \in BOOLEAN
    /\ pc \in [Workers -> Places]
    /\ job \in [Workers -> Jobs \cup {None}]
    /\ main \in {"idle", "signal", "abort_queued", "abort_running", "wake", "join", "closed"}
    /\ added \subseteq Jobs
    /\ complete \subseteq Jobs

\* A job is in one place: once in the queue, or with one worker, and only if
\* it was added.
OnePlace ==
    /\ \A i \in 1 .. Len(queue) : queue[i] \in added
    /\ \A i, k \in 1 .. Len(queue) : queue[i] = queue[k] => i = k
    /\ \A w \in Workers : pc[w] \in Holding => job[w] \in added /\ ~InQueue(job[w])
    /\ \A w, v \in Workers : pc[w] \in Holding /\ pc[v] \in Holding /\ job[w] = job[v] => w = v

\* The assertions of RunLoop hold: a job that is fetched has not been started,
\* one that runs is RUNNING or ABORTED, and it is found in m_RunningJobs when
\* it is erased from there.
AssertionsHold ==
    /\ \A w \in Workers :
           /\ pc[w] = "start" => state[job[w]] \in {"queued", "aborted"}
           /\ pc[w] \in {"enlist", "run", "finish"} => state[job[w]] \in {"running", "aborted"}
           /\ pc[w] = "run" => job[w] \in running
    /\ \A i \in 1 .. Len(queue) : state[queue[i]] \in {"queued", "aborted"}

\* Only abortable jobs are aborted, and jobs that were never added are not run.
AbortableOnly ==
    \A j \in Jobs : /\ state[j] = "aborted" => j \in Abortables
                    /\ j \notin added => state[j] \in {"queued", "aborted"}

\* A job that has been run is not queued again.
RunOnce ==
    /\ \A j \in complete : state[j] # "queued"
    /\ \A w \in Workers : pc[w] = "finish" => job[w] \in complete

\* No job is forgotten: one that was added waits in the queue, is with a
\* worker, is done, or could be aborted and was.
Accounted ==
    \A j \in added :
        \/ InQueue(j)
        \/ \E w \in Workers : pc[w] \in Holding /\ job[w] = j
        \/ state[j] = "done"
        \/ state[j] = "aborted"

\* Every job in the queue has a worker coming for it: a token of the
\* semaphore, a worker that took one and has not looked at the queue yet, or
\* the signal that Add is about to give.
Coming == sem + Cardinality({w \in Workers : pc[w] = "fetch"}) + (IF main = "signal" THEN 1 ELSE 0)

NoLostWakeup == Len(queue) <= Coming

\* Until the pool is shut down there is no worker too many either: this is why
\* a worker that has found the queue empty can look at m_Shutdown with m_Lock
\* released, and why it never leaves a job behind.
Stopping ==
    /\ down <=> main \notin {"idle", "signal"}
    /\ ~down => Len(queue) = Coming
    /\ \A w \in Workers : pc[w] \in {"look", "exit"} => down /\ queue = << >>
    /\ main = "closed" => \A w \in Workers : pc[w] = "exit"

\* Whoever finds a job DONE may use its results: Run has returned, and nobody
\* runs it any more.
Active(j) == \E w \in Workers : job[w] = j /\ pc[w] \in {"enlist", "run"}

DoneIsComplete == \A j \in Jobs : state[j] = "done" => j \in complete /\ ~Active(j)

IndInv ==
    /\ TypeOK /\ OnePlace /\ AssertionsHold /\ AbortableOnly /\ RunOnce
    /\ Accounted /\ NoLostWakeup /\ Stopping /\ DoneIsComplete

-----------------------------------------------------------------------------
\* "Scheduled jobs which are not abortable are guaranteed to fully complete
\* before the job pool is shut down" (jobs.h): when Shutdown returns, all of
\* them are DONE, and have been run to their end.
UnabortableComplete ==
    main = "closed" => \A j \in added \ Abortables : state[j] = "done" /\ j \in complete

\* Whoever waits for a job gets what it waits for: the results of a job that
\* is DONE, and with the return of Shutdown those of every job that must run.
ResultsHold == DoneIsComplete /\ UnabortableComplete

\* A job is run once at most, and not at all when it was aborted before it was
\* started; an aborted job stays aborted, however the abort races with the
\* worker that finishes it.
AbortHolds ==
    [][\A j \in Jobs :
          /\ state[j] = "aborted" => state'[j] = "aborted"
          /\ ~Active(j) /\ Active(j)' => state[j] # "aborted" /\ j \notin complete]_vars

\* Jobs and the pool come to their end: an added job is done or aborted at
\* last, and Shutdown returns, since no worker sleeps through it.  Both stay as
\* they are once reached, so that they may be asked for together.
Settled ==
    /\ \A j \in added : state[j] \in {"done", "aborted"}
    /\ down => main = "closed"

AllEnd == []<>Settled

\* "Shuts down the job pool. Aborts all abortable jobs." (jobs.h): when
\* Shutdown starts to wait for the workers, no worker is about to run an
\* abortable job that it was not told to abort.
AllAborted ==
    main \in {"wake", "join"} =>
        \A w \in Workers :
            pc[w] \in {"start", "enlist", "run"} /\ job[w] \in Abortables =>
                state[job[w]] = "aborted"
=============================================================================
