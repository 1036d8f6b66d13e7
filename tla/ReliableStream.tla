--------------------------- MODULE ReliableStream ---------------------------
(***************************************************************************)
(* What a connection promises the game about vital chunks, one direction   *)
(* per end: a stream without gaps, duplicates or reordering, of which the  *)
(* sender knows a prefix to have been taken.  Chunks are numbered in the   *)
(* order they are offered.  An end that failed or left takes nothing more  *)
(* and learns nothing more, and the stream never comes back.               *)
(***************************************************************************)
EXTENDS Integers, Sequences

CONSTANTS Ends, Other(_), First

VARIABLES
    offered,    \* offered[e]: chunks e has offered
    taken,      \* taken[e]: the chunks e has taken from the other end
    confirmed,  \* confirmed[e]: e knows the other end has taken these
    status      \* "open", "failed" or "left"

vars == <<offered, taken, confirmed, status>>

Init ==
    /\ offered = First
    /\ taken = [e \in Ends |-> << >>]
    /\ confirmed = First
    /\ status = [e \in Ends |-> "open"]

Taken(e) == First[Other(e)] + Len(taken[e])

Offer(e) ==
    /\ offered' = [offered EXCEPT ![e] = @ + 1]
    /\ UNCHANGED <<taken, confirmed, status>>

Take(e) ==
    /\ status[e] = "open"
    /\ Taken(e) < offered[Other(e)]
    /\ taken' = [taken EXCEPT ![e] = Append(@, Taken(e) + 1)]
    /\ UNCHANGED <<offered, confirmed, status>>

Confirm(e) ==
    /\ status[e] = "open"
    /\ \E n \in confirmed[e] .. Taken(Other(e)) : confirmed' = [confirmed EXCEPT ![e] = n]
    /\ UNCHANGED <<offered, taken>>

\* The last packet of the other end may confirm chunks and fail this end.
Fail(e) ==
    /\ status[e] = "open"
    /\ status' = [status EXCEPT ![e] = "failed"]
    /\ UNCHANGED <<offered, taken, confirmed>>

Leave(e) ==
    /\ status[e] # "left"
    /\ status' = [status EXCEPT ![e] = "left"]
    /\ UNCHANGED <<offered, taken, confirmed>>

Next ==
    \E e \in Ends :
        \/ Offer(e) \/ Take(e) \/ Fail(e) \/ Leave(e)
        \/ Confirm(e) /\ status' \in {status, [status EXCEPT ![e] = "failed"]}

Spec == Init /\ [][Next]_vars
=============================================================================
