------------------------------ MODULE BanList ------------------------------
(***************************************************************************)
(* What the list of bans promises: each address or range is banned at most *)
(* once, until its ban is lifted or runs out, and a ban is refused only    *)
(* when the list is full.                                                  *)
(***************************************************************************)
EXTENDS Integers, FiniteSets

CONSTANTS
    Bannable,   \* addresses or ranges of addresses
    MaxBans,
    Longest,    \* ban in seconds
    Never

VARIABLES
    bans,   \* when each ban runs out
    full,   \* whether the list takes no other ban
    now,
    due     \* bans may have run out that are still there

Init == bans = << >> /\ full = (MaxBans = 0) /\ now = 0 /\ due = FALSE

Ban(d) ==
    /\ d \in DOMAIN bans \/ ~full
    /\ \E expires \in {Never} \cup now + 1 .. now + Longest :
           bans' = [e \in DOMAIN bans \cup {d} |-> IF e = d THEN expires ELSE bans[e]]

Lift(lifted) == bans' = [e \in DOMAIN bans \ lifted |-> bans[e]]

\* The bans that have run out are lifted, and no other.
Expire == Lift({d \in DOMAIN bans : bans[d] # Never /\ bans[d] < now})

Next ==
    /\ \/ now' = now + 1 /\ due' = TRUE /\ UNCHANGED bans
       \/ Expire /\ due' = FALSE /\ UNCHANGED now
       \/ /\ UNCHANGED <<now, due>>
          /\ \/ \E d \in Bannable : Ban(d) \/ Lift({d})
             \/ Lift(Bannable)
    /\ full' = (Cardinality(DOMAIN bans') = MaxBans)

Spec == Init /\ [][Next]_<<bans, full, now, due>>
=============================================================================
