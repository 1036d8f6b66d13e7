------------------------------ MODULE HttpClient ------------------------------
(***************************************************************************)
(* The HTTP client of engine/shared/http_curl.cpp: any thread hands over a *)
(* request, aborts it or waits for it, and a thread of the client runs all *)
(* requests on one multi handle of libcurl, until it is shut down or       *)
(* libcurl fails.                                                          *)
(*                                                                         *)
(* Each step is one critical section of m_Lock or one call of libcurl.     *)
(* libcurl ends a transfer, successfully or not, or never: a request may   *)
(* be without a timeout.  Wakeups of curl_multi_poll are sticky.           *)
(***************************************************************************)
EXTENDS Integers, Sequences

CONSTANTS Requests

VARIABLES
    client,   \* m_State
    shutdown, \* m_Shutdown
    deadline, \* m_ShutdownTime: "none", "set" or "passed"
    wakeup,   \* has curl_multi_wakeup been called since the last poll?
    pc,       \* where the thread is in RunLoop
    pending,  \* m_PendingRequests
    fresh,    \* NewRequests
    running,  \* m_RunningRequests
    ended,    \* for each request what libcurl has to say of it, Unknown before
    abort,    \* the requests with m_Abort
    state     \* m_State of each request, "idle" before it is handed over

Unknown == "none"
shared == <<client, shutdown, wakeup>>
requests == <<ended, abort, state>>
vars == <<shared, deadline, pc, pending, fresh, running, requests>>

Final == {"done", "error", "aborted"}
Elements(s) == {s[i] : i \in DOMAIN s}

\* OnCompletionInternal of the requests of R, each with the outcome out[r].
Complete(R, out) == state' = [r \in Requests |-> IF r \in R THEN out[r] ELSE state[r]]
Aborted == [r \in Requests |-> "aborted"]

\* The thread has been started: Init waits for the end of Begin before
\* anyone can use the client.
Init ==
    /\ client = "uninitialized" /\ shutdown = FALSE /\ deadline = "none" /\ wakeup = FALSE
    /\ pc = "begin"
    /\ pending = << >> /\ fresh = << >> /\ running = {}
    /\ ended = [r \in Requests |-> Unknown]
    /\ abort = {}
    /\ state = [r \in Requests |-> "idle"]

-----------------------------------------------------------------------------
(* Users. *)

\* Fault: the client does not look whether it is being shut down.
Run_Late(r) ==
    /\ client # "uninitialized"
    /\ state[r] = "idle"
    /\ pending' = Append(pending, r) /\ wakeup' = TRUE
    /\ state' = [state EXCEPT ![r] = "queued"]
    /\ UNCHANGED <<client, shutdown, deadline, pc, fresh, running, ended, abort>>

Run(r) ==
    /\ client # "uninitialized"
    /\ state[r] = "idle"
    /\ IF shutdown \/ client = "error"
       THEN state' = [state EXCEPT ![r] = "aborted"] /\ UNCHANGED <<pending, wakeup>>
       ELSE /\ pending' = Append(pending, r) /\ wakeup' = TRUE
            /\ state' = [state EXCEPT ![r] = "queued"]
    /\ UNCHANGED <<client, shutdown, deadline, pc, fresh, running, ended, abort>>

\* IHttpRequest::Abort.
Abort(r) ==
    /\ state[r] # "idle"
    /\ abort' = abort \cup {r}
    /\ UNCHANGED <<shared, deadline, pc, pending, fresh, running, ended, state>>

Shutdown ==
    /\ client = "running" /\ ~shutdown
    /\ shutdown' = TRUE /\ wakeup' = TRUE
    /\ UNCHANGED <<client, deadline, pc, pending, fresh, running, requests>>

-----------------------------------------------------------------------------
(* libcurl and the clock. *)

\* A transfer ends; one that is to be aborted ends when ProgressCallback says so.
Transfer(r) ==
    /\ pc # "ended"
    /\ r \in running /\ ended[r] = Unknown
    /\ \E out \in {"done", "error"} \cup {s \in {"aborted"} : r \in abort} :
           ended' = [ended EXCEPT ![r] = out]
    /\ UNCHANGED <<shared, deadline, pc, pending, fresh, running, abort, state>>

DeadlinePasses ==
    /\ deadline = "set"
    /\ deadline' = "passed"
    /\ UNCHANGED <<shared, pc, pending, fresh, running, requests>>

-----------------------------------------------------------------------------
(* RunLoop. *)

\* Fault: requests that had been taken but not been started are forgotten.
Leave_Forgets(R, status) ==
    /\ pc' = "ended" /\ client' = status
    /\ Complete(R \ Elements(fresh), Aborted)
    /\ pending' = << >> /\ fresh' = << >> /\ running' = {}

\* The end of RunLoop, with m_Lock held since the loop was left: the requests
\* R that are left are aborted.
Leave(R, status) ==
    /\ pc' = "ended" /\ client' = status
    /\ Complete(R, Aborted)
    /\ pending' = << >> /\ fresh' = << >> /\ running' = {}

Left == Elements(pending) \cup Elements(fresh) \cup running

\* curl_global_init, curl_multi_init.
Begin ==
    /\ pc = "begin"
    /\ \/ client' = "running" /\ pc' = "poll"
       \/ client' = "error" /\ pc' = "ended"
    /\ UNCHANGED <<shutdown, deadline, wakeup, pending, fresh, running, requests>>

\* curl_multi_poll returns: it was woken up, its time-out is over, or a transfer
\* has ended.
Poll ==
    /\ pc = "poll"
    /\ wakeup \/ deadline = "passed" \/ \E r \in running : ended[r] # Unknown
    /\ wakeup' = FALSE
    /\ pc' = "look"
    /\ UNCHANGED <<client, shutdown, deadline, pending, fresh, running, requests>>

\* curl_multi_poll fails, whatever there is to do: the loop is left when
\* m_Shutdown has been looked at.
PollFails ==
    /\ pc = "poll"
    /\ pc' = "look_failed"
    /\ UNCHANGED <<shared, deadline, pending, fresh, running, requests>>

\* The loop ends when nothing is left, or when the delay is over.
LookShutdown ==
    /\ pc \in {"look", "look_failed"}
    /\ LET over == shutdown /\ (Left = {} \/ deadline = "passed")
       IN /\ pc' = IF over THEN "leave" ELSE IF pc = "look" THEN "perform" ELSE "fail"
          /\ deadline' = IF shutdown /\ ~over /\ deadline = "none" THEN "set" ELSE deadline
    /\ UNCHANGED <<shared, pending, fresh, running, requests>>

LeaveLoop ==
    /\ pc = "leave"
    /\ Leave(Left, client)
    /\ UNCHANGED <<shutdown, deadline, wakeup, ended, abort>>

\* curl_multi_poll, curl_multi_perform, curl_easy_init or curl_multi_add_handle
\* failed.
Fail ==
    /\ pc \in {"fail", "perform"} \/ (pc = "start" /\ fresh # << >>)
    /\ Leave(Left, "error")
    /\ UNCHANGED <<shutdown, deadline, wakeup, ended, abort>>

\* Fault: requests that have been completed stay in m_RunningRequests.
Perform_Keeps ==
    /\ pc = "perform"
    /\ LET R == {r \in running : ended[r] # Unknown /\ state[r] = "running"}
       IN Complete(R, ended)
    /\ pc' = "swap"
    /\ UNCHANGED <<shared, deadline, pending, fresh, running, ended, abort>>

\* What libcurl says of its transfers is passed on.  A transfer that was
\* successful may still be an error: the hash differs, the file cannot be
\* written or moved.
Perform ==
    /\ pc = "perform"
    /\ LET R == {r \in running : ended[r] # Unknown}
       IN /\ \E out \in [R -> Final] :
                 /\ \A r \in R : out[r] = ended[r] \/ (ended[r] = "done" /\ out[r] = "error")
                 /\ Complete(R, out)
          /\ running' = running \ R
    /\ pc' = "swap"
    /\ UNCHANGED <<shared, deadline, pending, fresh, ended, abort>>

Swap ==
    /\ pc = "swap"
    /\ pending' = << >> /\ fresh' = pending
    /\ pc' = "start"
    /\ UNCHANGED <<shared, deadline, running, requests>>

\* A request is started; or it is not needed, as its file is there
\* (ShouldSkipRequest); or ConfigureHandle fails.
StartNext ==
    /\ pc = "start" /\ fresh # << >>
    /\ fresh' = Tail(fresh)
    /\ \E s \in {"running", "done", "error"} :
           /\ state' = [state EXCEPT ![Head(fresh)] = s]
           /\ running' = IF s = "running" THEN running \cup {Head(fresh)} ELSE running
    /\ UNCHANGED <<shared, deadline, pc, pending, ended, abort>>

Again ==
    /\ pc = "start" /\ fresh = << >>
    /\ pc' = "poll"
    /\ UNCHANGED <<shared, deadline, pending, fresh, running, requests>>

-----------------------------------------------------------------------------
RunLoop ==
    \/ Begin \/ Poll \/ LookShutdown \/ LeaveLoop \/ Fail \/ Perform \/ Swap
    \/ StartNext \/ Again

Next ==
    \/ \E r \in Requests : Run(r) \/ Abort(r) \/ Transfer(r)
    \/ Shutdown \/ DeadlinePasses
    \/ RunLoop \/ PollFails

Spec == Init /\ [][Next]_vars

\* The thread is scheduled, and time passes.  Transfers need not end, and a poll
\* need not fail.
Fairness == WF_vars(RunLoop) /\ WF_vars(DeadlinePasses)
FairSpec == Spec /\ Fairness

-----------------------------------------------------------------------------
\* Every variable has its type.
TypeOK ==
    /\ client \in {"uninitialized", "running", "error"}
    /\ deadline \in {"none", "set", "passed"}
    /\ Left \subseteq Requests
    /\ state \in [Requests -> Final \cup {"idle", "queued", "running"}]
    /\ ended \in [Requests -> Final \cup {Unknown}]

\* A request is completed once, whoever else aborts it, shuts the client down
\* or lets it fail.
Promise == INSTANCE HttpRequests
RequestSpec == Promise!RequestSpec

\* Nobody waits for ever.  A request that was handed over is started or
\* completed; one whose transfer has ended is completed; and after Shutdown,
\* or an error, all of them are, however long their transfers would take.
Settled ==
    \A r \in Requests :
        /\ state[r] # "queued"
        /\ ended[r] # Unknown => state[r] \in Final
        /\ shutdown \/ client = "error" => pc = "ended" /\ state[r] \in Final \cup {"idle"}

AllEnd == []<>Settled
=============================================================================
