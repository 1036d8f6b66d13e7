------------------------------- MODULE NetSeq -------------------------------
(***************************************************************************)
(* The arithmetic of the vital-chunk sequence numbers of a connection      *)
(* (engine/shared/network.cpp, network_conn.cpp).  Sequence numbers live   *)
(* in 0 .. MaxSeq-1 and wrap around; MaxSeq is NET_MAX_SEQUENCE, 1024 in   *)
(* the program.                                                            *)
(***************************************************************************)
EXTENDS Integers

CONSTANT MaxSeq

\* Half of the numbers are "behind" an acknowledgement, half are "ahead".
ASSUME MaxSeqAssumption == MaxSeq \in Nat /\ MaxSeq > 1 /\ MaxSeq % 2 = 0

SeqNum == 0 .. MaxSeq - 1

\* The number after s.
NextSeq(s) == (s + 1) % MaxSeq

\* Is the number s among the MaxSeq/2 numbers up to and including a?
IsSeqInBackroom(s, a) ==
    LET bottom == a - MaxSeq \div 2 IN
    \/ bottom < 0 /\ (s <= a \/ s >= bottom + MaxSeq)
    \/ bottom >= 0 /\ s <= a /\ s >= bottom

\* Fault: the window of acknowledgements does not wrap.
AckAcceptable_NoWrap(s, peerAck, a) == ~(a < peerAck \/ a > s)

\* May a packet carry the acknowledgement a, when the last one accepted was
\* peerAck and the last number given out is s?
AckAcceptable(s, peerAck, a) ==
    IF s >= peerAck
    THEN ~(a < peerAck \/ a > s)
    ELSE ~(a < peerAck /\ a > s)
=============================================================================
