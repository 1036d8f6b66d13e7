---------------------------- MODULE MCResumption ----------------------------
(***************************************************************************)
(* The server sends a vital chunk; the client's only one carries the       *)
(* timeout code.                                                           *)
(***************************************************************************)
EXTENDS Resumption, TLC

MCStart == Client :> 0 @@ Server :> 5
MCSend == Client :> 1 @@ Server :> 6

\* What the old connection had acknowledged is out of the new one's way.
Quiet == {[peerAck |-> 3, construct |-> EmptyConstruct, requested |-> r] : r \in BOOLEAN}
\* It had numbers acknowledged that mean nothing to the new one.
AnyAck == {[peerAck |-> a, construct |-> EmptyConstruct, requested |-> FALSE] : a \in SeqNum}
=============================================================================
