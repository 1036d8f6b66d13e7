----------------------------- MODULE GameSessions -----------------------------
(***************************************************************************)
(* What the server promises the game about the players of its slots: a     *)
(* player joins once, enters the game once, keeps playing through every    *)
(* reconnection until it leaves, and only then may the slot bring another. *)
(* CServer calls OnClientConnected, OnClientEnter, OnClientRejoin and      *)
(* OnClientDrop (src/engine/server.h) in this order; a map change ends all *)
(* sessions.                                                               *)
(***************************************************************************)
CONSTANT Slots
VARIABLE game      \* what the game knows of each slot

Init == game = [i \in Slots |-> "none"]

Connected(i) ==
    /\ game[i] = "none"
    /\ game' = [game EXCEPT ![i] = "joined"]

Enter(i) ==
    /\ game[i] = "joined"
    /\ game' = [game EXCEPT ![i] = "playing"]

\* Players leave alone, with all of a banned address, or with the map.
Leave(gone) == game' = [i \in Slots |-> IF i \in gone THEN "none" ELSE game[i]]

Next ==
    \/ \E i \in Slots: Connected(i) \/ Enter(i)
    \/ \E gone \in SUBSET Slots: Leave(gone)

Spec == Init /\ [][Next]_game
=============================================================================
