------------------------------ MODULE SnapIds ------------------------------
(***************************************************************************)
(* What the pool of snapshot ids promises the game: an id has at most one  *)
(* owner, an id that was given back rests for `Rest' before it gets a new  *)
(* owner, unless a new map ends the rest of all ids.                       *)
(***************************************************************************)
EXTENDS Integers

CONSTANTS Ids, Rest

VARIABLES
    now,      \* the clock
    owned,    \* ids in use
    freedAt   \* when each resting id was given back

vars == <<now, owned, freedAt>>

\* The ids that may be given out.
Available == {i \in Ids \ owned : i \in DOMAIN freedAt => freedAt[i] + Rest < now}

Without(ids) == [i \in DOMAIN freedAt \ ids |-> freedAt[i]]

Init == now = 0 /\ owned = {} /\ freedAt = [i \in {} |-> 0]

Tick == now' = now + 1 /\ UNCHANGED <<owned, freedAt>>

\* The ids whose rest is over may be forgotten when another id is given out.
New ==
    \E id \in Available :
        /\ owned' = owned \cup {id}
        /\ freedAt' = Without(Available)
        /\ UNCHANGED now

Free(id) ==
    /\ id \in owned
    /\ owned' = owned \ {id}
    /\ freedAt' = [i \in DOMAIN freedAt \cup {id} |-> IF i = id THEN now ELSE freedAt[i]]
    /\ UNCHANGED now

NewMap == freedAt' = Without(Ids) /\ UNCHANGED <<now, owned>>

Next == Tick \/ New \/ NewMap \/ \E id \in Ids : Free(id)

Spec == Init /\ [][Next]_vars
=============================================================================
