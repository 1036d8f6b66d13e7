----------------------------- MODULE Resumption -----------------------------
(***************************************************************************)
(* A player whose connection timed out comes back on a new one and sends   *)
(* its timeout code (ConTimeout of ddracechat.cpp, SetTimedOut of          *)
(* server.cpp, ResumeOldConnection of network_server.cpp): the server      *)
(* moves the new connection into the slot of the old one, which still      *)
(* holds its player (ResumeConnection of network_conn.cpp).                *)
(*                                                                         *)
(* The two ends of NetConnection are those of the new connection.  Of the  *)
(* server's old end nothing matters but what ResumeConnection leaves in    *)
(* place: it takes the numbers, the buffer and the address of the new      *)
(* connection, but neither m_PeerAck nor the packet under construction nor *)
(* the request to resend.                                                  *)
(***************************************************************************)
EXTENDS NetConnection

CONSTANTS
    Command,    \* the vital chunk of the client that carries the code
    Leftovers   \* what the connection in the slot may hold when it timed out

Leftover == [peerAck : SeqNum, construct : Construct, requested : BOOLEAN]

ASSUME LeftoversAssumption == Leftovers \subseteq Leftover /\ Command \in Nat

VARIABLE slot   \* the slot that timed out, none once it is used

ResumeInit == Init /\ \E old \in Leftovers : slot = {old}

\* The next thing the server does is to execute the command.
Commanded ==
    /\ slot # {}
    /\ state[Server] = "ONLINE"
    /\ rx[Server] # << >>
    /\ LET c == Head(rx[Server]) IN c.vital /\ c.n = Command /\ InSequence(Server, c)

\* Fault: the chunks that wait for an acknowledgement are not moved.
Resume_LosesBuffer ==
    /\ Commanded
    /\ ack' = [ack EXCEPT ![Server] = NextSeq(@)]
    /\ log' = [log EXCEPT ![Server] = Append(@, Command)]
    /\ \E old \in slot :
           /\ peerAck' = [peerAck EXCEPT ![Server] = old.peerAck]
           /\ construct' = [construct EXCEPT ![Server] = old.construct]
           /\ requested' = [requested EXCEPT ![Server] = old.requested]
    /\ closed' = [closed EXCEPT ![Server] = FALSE]
    /\ timedOut' = [timedOut EXCEPT ![Server] = TRUE]
    /\ buffer' = [buffer EXCEPT ![Server] = << >>]
    /\ rx' = [rx EXCEPT ![Server] = << >>]
    /\ slot' = {}
    /\ UNCHANGED <<state, seq, net, sent, heard>>

\* The command is delivered and the connection moved; the rest of the packet
\* it came in is dropped with the connection it came from.  The slot still
\* counts as timed out until the next Update.
Resume ==
    /\ Commanded
    /\ ack' = [ack EXCEPT ![Server] = NextSeq(@)]
    /\ log' = [log EXCEPT ![Server] = Append(@, Command)]
    /\ \E old \in slot :
           /\ peerAck' = [peerAck EXCEPT ![Server] = old.peerAck]
           /\ construct' = [construct EXCEPT ![Server] = old.construct]
           /\ requested' = [requested EXCEPT ![Server] = old.requested]
    /\ closed' = [closed EXCEPT ![Server] = FALSE]
    /\ timedOut' = [timedOut EXCEPT ![Server] = TRUE]
    /\ rx' = [rx EXCEPT ![Server] = << >>]
    /\ slot' = {}
    /\ UNCHANGED <<state, seq, buffer, net, sent, heard>>

\* Whatever else the two ends do; the command is not unpacked without effect.
Continue ==
    /\ Next
    /\ Commanded => rx'[Server] = rx[Server]
    /\ UNCHANGED slot

ResumeNext == Resume \/ Continue

ResumeSpec == ResumeInit /\ [][ResumeNext]_<<vars, slot>>
ResumeFairSpec == ResumeSpec /\ Fairness /\ WF_<<vars, slot>>(Resume)
=============================================================================
