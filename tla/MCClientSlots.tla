---------------------------- MODULE MCClientSlots ----------------------------
(***************************************************************************)
(* Two slots and three addresses, two of them of one machine.              *)
(***************************************************************************)
EXTENDS ClientSlots

CONSTANTS a1, a2, b1, machineA, machineB

MCAddrs == {a1, a2, b1}
MCIp == [a \in MCAddrs |-> IF a = b1 THEN machineB ELSE machineA]
=============================================================================
