----------------------------- MODULE HttpRequests -----------------------------
(***************************************************************************)
(* What an HTTP request promises to those who poll its state or wait for   *)
(* it (IHttpRequest of engine/http.h): it is completed once, and then      *)
(* neither its state nor its results change.  This is how CClient uses it  *)
(* for maps and the server for its registration.                           *)
(***************************************************************************)
CONSTANTS Requests

VARIABLES state \* IHttpRequest::m_State, with "idle" before it is handed over

Final == {"done", "error", "aborted"}

RequestInit == state = [r \in Requests |-> "idle"]

\* A request is taken by the client, or refused.
Handed(r) == state[r] = "idle" /\ state'[r] \in {"queued", "aborted"}
Started(r) == state[r] = "queued" /\ state'[r] = "running"
Completed(r) == state[r] \in {"queued", "running"} /\ state'[r] \in Final

\* Several may be completed in one step.
RequestNext ==
    /\ DOMAIN state' = Requests
    /\ \A r \in Requests : Handed(r) \/ Started(r) \/ Completed(r) \/ state'[r] = state[r]

RequestSpec == RequestInit /\ [][RequestNext]_state
=============================================================================
