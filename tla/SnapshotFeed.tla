---------------------------- MODULE SnapshotFeed ----------------------------
(***************************************************************************)
(* What the snapshot protocol promises the game of a client: it is shown   *)
(* snapshots the server built for it, item for item as the server built    *)
(* them, each of a later tick than the one before since it entered the     *)
(* game.  Snapshots may be left out.                                       *)
(***************************************************************************)
EXTENDS Integers

CONSTANT Items    \* what a snapshot may contain

VARIABLES
    built,    \* built[t]: the snapshot of tick t, for the ticks that have one
    shown     \* the snapshot the game sees, and its tick; tick -1 before the first

vars == <<built, shown>>

Init == built = [t \in {} |-> 0] /\ shown.tick = -1

Build ==
    \E t \in DOMAIN built' \ DOMAIN built, v \in Items :
        /\ \A u \in DOMAIN built : u < t
        /\ built' = [u \in DOMAIN built \cup {t} |-> IF u = t THEN v ELSE built[u]]
        /\ UNCHANGED shown

Show ==
    /\ LET t == shown'.tick
       IN /\ t > shown.tick /\ t \in DOMAIN built
          /\ shown' = [tick |-> t, items |-> built[t]]
    /\ UNCHANGED built

\* The client enters the game, for the first time or again.
Restart == shown' = [tick |-> -1] /\ UNCHANGED built

Next == Build \/ Show \/ Restart

Spec == Init /\ [][Next]_vars
=============================================================================
