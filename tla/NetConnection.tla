---------------------------- MODULE NetConnection ----------------------------
(***************************************************************************)
(* Two CNetConnection objects that talk over UDP (engine/shared/           *)
(* network_conn.cpp, the chunk unpacker of network.cpp and the receive     *)
(* loops of network_client.cpp and network_server.cpp), from the moment    *)
(* both are ONLINE.  The handshake that brings them there belongs to the   *)
(* client slots of the server.                                             *)
(*                                                                         *)
(* A chunk is the unit the game hands over.  A vital chunk takes the next  *)
(* sequence number and is kept in the resend buffer until the peer         *)
(* acknowledges it; chunks are gathered in a packet under construction,    *)
(* which is sent when it is full, when the game asks, or when a timer      *)
(* says so.  Every packet carries the sender's acknowledgement.            *)
(*                                                                         *)
(* Time is abstracted: whether a timer has elapsed is a free choice.  The  *)
(* network loses, duplicates and reorders packets.                         *)
(*                                                                         *)
(* The fields `n' of a chunk and `seen' of a packet, and the variables     *)
(* sent, log and heard, are history: they count vital chunks from the      *)
(* first one of the connection, without wrapping, and no guard of the      *)
(* program reads them.  They say what the modular numbers mean.            *)
(***************************************************************************)
EXTENDS NetSeq, FiniteSets, Sequences

CONSTANTS
    Client, Server,  \* the two endpoints
    PacketCap,       \* chunks that fit in a packet
    BufferCap,       \* chunks that fit in the resend buffer
    Start,           \* Start[e]: vital chunks e has sent, and had acknowledged, before Init
    MaxSend,         \* bound: the last vital chunk e may send
    MaxUnacked,      \* the application keeps fewer vital chunks than this unacknowledged
    MaxAge,          \* the network delivers no packet overtaken by more vital chunks than this
    NetCap,          \* bound: packets in flight in one direction
    Unreliable,      \* the endpoints whose game sends non-vital chunks too
    MayEnd,          \* may the game disconnect, or the peer be silent for conn_timeout?
    MayDuplicate     \* may the network duplicate packets?

Endpoints == {Client, Server}
Peer(e) == IF e = Client THEN Server ELSE Client

ASSUME EndpointsAssumption == Client # Server
ASSUME CapacityAssumption ==
    /\ PacketCap \in Nat \ {0}
    /\ BufferCap \in Nat
    /\ NetCap \in Nat
    /\ Start \in [Endpoints -> Nat]
    /\ MaxSend \in [Endpoints -> Nat]
    /\ Unreliable \subseteq Endpoints /\ {MayEnd, MayDuplicate} \subseteq BOOLEAN

\* What the environment has to respect for the modular numbers to mean
\* something.  In the program MaxSeq is 1024 and PacketCap at most 255.
ASSUME WindowAssumption ==
    /\ MaxUnacked \in Nat /\ MaxAge \in Nat
    /\ 2 * MaxUnacked < MaxSeq
    /\ MaxUnacked + MaxAge < MaxSeq
    /\ MaxAge + PacketCap < MaxSeq

VARIABLES
    state,      \* m_State
    seq,        \* m_Sequence, the number of the last vital chunk queued
    ack,        \* m_Ack, the number of the last vital chunk received in sequence
    peerAck,    \* m_PeerAck, the last acknowledgement accepted from the peer
    buffer,     \* m_Buffer, the unacknowledged chunks, oldest first
    construct,  \* m_Construct, the packet under construction
    requested,  \* m_ResendRequested
    closed,     \* m_RemoteClosed
    timedOut,   \* m_TimeoutSituation
    rx,         \* chunks of the packet received last that are not unpacked yet
    net,        \* net[e]: the packets in flight to e
    sent, log, heard   \* history

code == <<state, seq, ack, peerAck, buffer, construct, requested, closed, timedOut, rx>>
vars == <<code, net, sent, log, heard>>

-----------------------------------------------------------------------------
Chunk == [vital : BOOLEAN, seq : SeqNum, n : Nat]
Packet == [ctrl : {"none", "close", "keepalive"}, resend : BOOLEAN,
           ack : SeqNum, seen : Nat, chunks : Seq(Chunk)]
Construct == [resend : BOOLEAN, chunks : Seq(Chunk)]

Plain == [vital |-> FALSE, seq |-> 0, n |-> 0]
EmptyConstruct == [resend |-> FALSE, chunks |-> << >>]

\* The last vital chunk of its peer that e has handed to the game.
Got(e) == Start[Peer(e)] + Len(log[e])

\* A packet of e is stamped with e's acknowledgement when it is sent.
DataPacket(e, resend, chunks) ==
    [ctrl |-> "none", resend |-> resend, ack |-> ack[e], seen |-> Got(e), chunks |-> chunks]
ControlPacket(e, ctrl) ==
    [ctrl |-> ctrl, resend |-> FALSE, ack |-> ack[e], seen |-> Got(e), chunks |-> << >>]

\* Queueing chunks one after the other, flushing the construct whenever it is
\* full: what is sent, and what is left under construction.
Queued(e, cons, chunks) ==
    LET all == cons.chunks \o chunks
        full == IF all = << >> THEN 0 ELSE (Len(all) - 1) \div PacketCap
    IN [out  |-> {DataPacket(e, cons.resend /\ i = 1,
                             SubSeq(all, (i - 1) * PacketCap + 1, i * PacketCap)) : i \in 1 .. full},
        rest |-> [resend |-> cons.resend /\ full = 0,
                  chunks |-> SubSeq(all, full * PacketCap + 1, Len(all))]]

Flushed(e, cons) ==
    IF cons.chunks = << >> /\ ~cons.resend
    THEN [out |-> {}, rest |-> cons]
    ELSE [out |-> {DataPacket(e, cons.resend, cons.chunks)}, rest |-> EmptyConstruct]

\* The answer to a resend request: everything in the resend buffer, again.
Answered(e, cons, answer) ==
    IF answer THEN Queued(e, cons, buffer[e]) ELSE [out |-> {}, rest |-> cons]

\* Update resends the oldest chunk when it has not been acknowledged in time.
Resent_Never(e, cons, resend) == [out |-> {}, rest |-> cons] \* fault: it does not
Resent(e, cons, resend) ==
    IF resend THEN Queued(e, cons, <<Head(buffer[e])>>) ELSE [out |-> {}, rest |-> cons]

\* Fault: acknowledged numbers are compared without wrapping.
Unacked_NoWrap(b, a) == SelectSeq(b, LAMBDA c : c.seq > a)

\* The chunks of the buffer that remain when the peer acknowledges a: the
\* oldest are dropped up to the first that is not behind a.
Unacked(b, a) ==
    LET held == {k \in 1 .. Len(b) + 1 : k <= Len(b) => ~IsSeqInBackroom(b[k].seq, a)}
        first == CHOOSE k \in held : \A j \in held : k <= j
    IN SubSeq(b, first, Len(b))

\* What is in flight when `out' is sent after `flying'; beyond NetCap packets,
\* the network drops older ones.
InFlight(flying, out) ==
    LET all == flying \cup out
    IN IF Cardinality(all) <= NetCap THEN {all}
       ELSE {s \in SUBSET all : Cardinality(s) = NetCap /\ (out \subseteq s \/ s \subseteq out)}

Transmit(e, out) ==
    \E s \in InFlight(net[Peer(e)], out) : net' = [net EXCEPT ![Peer(e)] = s]

-----------------------------------------------------------------------------
Init ==
    /\ state = [e \in Endpoints |-> "ONLINE"]
    /\ seq = [e \in Endpoints |-> Start[e] % MaxSeq]
    /\ ack = [e \in Endpoints |-> Start[Peer(e)] % MaxSeq]
    /\ peerAck = [e \in Endpoints |-> Start[e] % MaxSeq]
    /\ buffer = [e \in Endpoints |-> << >>]
    /\ construct = [e \in Endpoints |-> EmptyConstruct]
    /\ requested = [e \in Endpoints |-> FALSE]
    /\ closed = [e \in Endpoints |-> FALSE]
    /\ timedOut = [e \in Endpoints |-> FALSE]
    /\ rx = [e \in Endpoints |-> << >>]
    /\ net = [e \in Endpoints |-> {}]
    /\ sent = Start
    /\ log = [e \in Endpoints |-> << >>]
    /\ heard = Start

-----------------------------------------------------------------------------
\* QueueChunk of a vital chunk.  The number is taken before anything is
\* checked.  A chunk that finds the resend buffer full is sent all the same,
\* but only once.
QueueVital(e) ==
    /\ sent[e] < MaxSend[e]
    /\ sent[e] - heard[e] < MaxUnacked
    /\ seq' = [seq EXCEPT ![e] = NextSeq(@)]
    /\ sent' = [sent EXCEPT ![e] = @ + 1]
    /\ \/ /\ state[e] = "ONLINE"
          /\ LET chunk == [vital |-> TRUE, seq |-> NextSeq(seq[e]), n |-> sent[e] + 1]
                 q == Queued(e, construct[e], <<chunk>>)
             IN /\ construct' = [construct EXCEPT ![e] = q.rest]
                /\ Transmit(e, q.out)
                /\ buffer' = [buffer EXCEPT ![e] =
                                 IF Len(@) < BufferCap THEN Append(@, chunk) ELSE @]
       \/ /\ state[e] # "ONLINE"
          /\ UNCHANGED <<construct, net, buffer>>
    /\ UNCHANGED <<state, ack, peerAck, requested, closed, timedOut, rx, log, heard>>

\* QueueChunk of a non-vital chunk.
QueuePlain(e) ==
    /\ e \in Unreliable
    /\ state[e] = "ONLINE"
    /\ LET q == Queued(e, construct[e], <<Plain>>)
       IN /\ construct' = [construct EXCEPT ![e] = q.rest]
          /\ Transmit(e, q.out)
    /\ UNCHANGED <<state, seq, ack, peerAck, buffer, requested, closed, timedOut, rx,
                   sent, log, heard>>

\* The game flushes the connection.
Flush(e) ==
    /\ state[e] # "OFFLINE"
    /\ construct[e] # EmptyConstruct
    /\ LET f == Flushed(e, construct[e])
       IN /\ construct' = [construct EXCEPT ![e] = f.rest]
          /\ Transmit(e, f.out)
    /\ UNCHANGED <<state, seq, ack, peerAck, buffer, requested, closed, timedOut, rx,
                   sent, log, heard>>

-----------------------------------------------------------------------------
\* What the network may still deliver: it may be late, but not by more than
\* MaxAge vital chunks of either direction.
Fresh(e, p) ==
    /\ heard[e] - p.seen <= MaxAge
    /\ \A i \in DOMAIN p.chunks : p.chunks[i].vital => Got(e) - p.chunks[i].n <= MaxAge

\* Recv and Feed: the socket is read when the last packet is unpacked to its
\* end, and packets are fed to a connection that is neither OFFLINE nor in
\* ERROR.  `answer' says whether the interval between answers is over.
Arrival(e, p, keep) == IF keep THEN net[e] ELSE net[e] \ {p}

RejectPacket(e, p, keep) ==
    /\ ~AckAcceptable(seq[e], peerAck[e], p.ack)
    /\ net' = [net EXCEPT ![e] = Arrival(e, p, keep)]
    /\ UNCHANGED <<code, sent, log, heard>>

AcceptPacket(e, p, keep, answer) ==
    /\ AckAcceptable(seq[e], peerAck[e], p.ack)
    /\ answer => requested[e] \/ p.resend
    /\ LET a == Answered(e, construct[e], answer)
       IN /\ construct' = [construct EXCEPT ![e] = a.rest]
          /\ \E s \in InFlight(net[Peer(e)], a.out) :
                net' = [net EXCEPT ![e] = Arrival(e, p, keep), ![Peer(e)] = s]
    /\ peerAck' = [peerAck EXCEPT ![e] = p.ack]
    /\ heard' = [heard EXCEPT ![e] = p.seen]
    /\ requested' = [requested EXCEPT ![e] = (@ \/ p.resend) /\ ~answer]
    /\ IF p.ctrl = "close"
       THEN /\ state' = [state EXCEPT ![e] = "ERROR"]
            /\ closed' = [closed EXCEPT ![e] = TRUE]
            /\ UNCHANGED <<buffer, rx>>
       ELSE /\ buffer' = [buffer EXCEPT ![e] = Unacked(@, p.ack)]
            /\ rx' = [rx EXCEPT ![e] = p.chunks]
            /\ UNCHANGED <<state, closed>>
    /\ UNCHANGED <<seq, ack, timedOut, sent, log>>

Recv(e, p) ==
    /\ p \in net[e]
    /\ Fresh(e, p)
    /\ state[e] = "ONLINE"
    /\ rx[e] = << >>
    /\ \E keep \in {FALSE, MayDuplicate}, answer \in BOOLEAN :
           RejectPacket(e, p, keep) \/ AcceptPacket(e, p, keep, answer)

\* A packet that nobody will read: lost on the way, or its receiver is gone.
Lose(e, p) ==
    /\ p \in net[e]
    /\ net' = [net EXCEPT ![e] = @ \ {p}]
    /\ UNCHANGED <<code, sent, log, heard>>

-----------------------------------------------------------------------------
\* UnpackNextChunk takes the chunks of the packet one by one; the game reacts
\* to each before the next is taken.
InSequence_AnyNew(e, c) == ~IsSeqInBackroom(c.seq, ack[e]) \* fault: gaps are not noticed
\* m_UnknownSeq is false: the peer's first number is known.
InSequence(e, c) == c.seq = NextSeq(ack[e])

Deliver(e, c) ==
    /\ c.vital /\ InSequence(e, c)
    /\ ack' = [ack EXCEPT ![e] = c.seq]
    /\ log' = [log EXCEPT ![e] = Append(@, c.n)]
    /\ UNCHANGED construct

\* Fault: a non-vital chunk moves the acknowledgement.
DeliverPlain_Counts(e, c) ==
    /\ ~c.vital
    /\ ack' = [ack EXCEPT ![e] = NextSeq(@)]
    /\ UNCHANGED <<log, construct>>

DeliverPlain(e, c) ==
    /\ ~c.vital
    /\ UNCHANGED <<ack, log, construct>>

SkipOld(e, c) ==
    /\ c.vital /\ ~InSequence(e, c)
    /\ IsSeqInBackroom(c.seq, ack[e])
    /\ UNCHANGED <<ack, log, construct>>

SignalResend(e, c) ==
    /\ c.vital /\ ~InSequence(e, c)
    /\ ~IsSeqInBackroom(c.seq, ack[e])
    /\ construct' = [construct EXCEPT ![e].resend = TRUE]
    /\ UNCHANGED <<ack, log>>

Unpack(e) ==
    /\ state[e] # "OFFLINE"
    /\ rx[e] # << >>
    /\ rx' = [rx EXCEPT ![e] = Tail(@)]
    /\ LET c == Head(rx[e])
       IN Deliver(e, c) \/ DeliverPlain(e, c) \/ SkipOld(e, c) \/ SignalResend(e, c)
    /\ UNCHANGED <<state, seq, peerAck, buffer, requested, closed, timedOut, net, sent, heard>>

\* The game dropped the connection while it looked at a chunk: the rest of
\* the packet is discarded.  What unpacking still does to the connection
\* that was reset is overwritten when the connection is used again.
DiscardPending(e) ==
    /\ state[e] = "OFFLINE"
    /\ rx[e] # << >>
    /\ rx' = [rx EXCEPT ![e] = << >>]
    /\ UNCHANGED <<state, seq, ack, peerAck, buffer, construct, requested, closed, timedOut,
                   net, sent, log, heard>>

-----------------------------------------------------------------------------
\* Update runs before the socket is read.  Which timers have elapsed:
\* "answer" the interval between resend answers, "resend" a second since the
\* oldest unacknowledged chunk was sent, "flush" half a second and
\* "keepalive" a second since anything was sent.
Update(e, due) ==
    /\ state[e] = "ONLINE"
    /\ rx[e] = << >>
    /\ "answer" \in due => requested[e]
    /\ "resend" \in due => buffer[e] # << >>
    /\ "keepalive" \in due => "flush" \in due
    /\ LET a == Answered(e, construct[e], "answer" \in due)
           r == Resent(e, a.rest, "resend" \in due)
           quiet == a.out = {} /\ r.out = {}
           f == IF "flush" \in due /\ quiet
                THEN Flushed(e, r.rest) ELSE [out |-> {}, rest |-> r.rest]
           k == IF "keepalive" \in due /\ quiet /\ f.out = {}
                THEN {ControlPacket(e, "keepalive")} ELSE {}
       IN /\ construct' = [construct EXCEPT ![e] = f.rest]
          /\ Transmit(e, a.out \cup r.out \cup f.out \cup k)
    /\ requested' = [requested EXCEPT ![e] = @ /\ "answer" \notin due]
    /\ timedOut' = [timedOut EXCEPT ![e] = FALSE]
    /\ UNCHANGED <<state, seq, ack, peerAck, buffer, closed, rx, sent, log, heard>>

\* Update finds that the peer was silent, or did not acknowledge the oldest
\* chunk, for conn_timeout seconds.
UpdateTimeout(e, answer) ==
    /\ MayEnd
    /\ state[e] = "ONLINE"
    /\ rx[e] = << >>
    /\ answer => requested[e]
    /\ LET a == Answered(e, construct[e], answer)
       IN /\ construct' = [construct EXCEPT ![e] = a.rest]
          /\ Transmit(e, a.out)
    /\ requested' = [requested EXCEPT ![e] = @ /\ ~answer]
    /\ state' = [state EXCEPT ![e] = "ERROR"]
    /\ timedOut' = [timedOut EXCEPT ![e] = TRUE]
    /\ UNCHANGED <<seq, ack, peerAck, buffer, closed, rx, sent, log, heard>>

\* Update of a connection that timed out, once conn_timeout_protection is over.
UpdateProtectionOver(e) ==
    /\ state[e] = "ERROR" /\ timedOut[e]
    /\ timedOut' = [timedOut EXCEPT ![e] = FALSE]
    /\ UNCHANGED <<state, seq, ack, peerAck, buffer, construct, requested, closed, rx,
                   net, sent, log, heard>>

\* Disconnect: the game leaves, or the server drops a client in ERROR.  The
\* peer is told unless it closed first or does not answer anyway; what is
\* still under construction is not sent.
Disconnect(e) ==
    /\ MayEnd
    /\ state[e] # "OFFLINE"
    /\ Transmit(e, IF closed[e] \/ timedOut[e] THEN {} ELSE {ControlPacket(e, "close")})
    /\ state' = [state EXCEPT ![e] = "OFFLINE"]
    /\ seq' = [seq EXCEPT ![e] = 0]
    /\ ack' = [ack EXCEPT ![e] = 0]
    /\ peerAck' = [peerAck EXCEPT ![e] = 0]
    /\ buffer' = [buffer EXCEPT ![e] = << >>]
    /\ construct' = [construct EXCEPT ![e] = EmptyConstruct]
    /\ requested' = [requested EXCEPT ![e] = FALSE]
    /\ closed' = [closed EXCEPT ![e] = FALSE]
    /\ timedOut' = [timedOut EXCEPT ![e] = FALSE]
    /\ UNCHANGED <<rx, sent, log, heard>>

Next ==
    \E e \in Endpoints :
        \/ QueueVital(e) \/ QueuePlain(e) \/ Flush(e)
        \/ \E p \in net[e] : Recv(e, p) \/ Lose(e, p)
        \/ Unpack(e) \/ DiscardPending(e)
        \/ \E due \in SUBSET {"answer", "resend", "flush", "keepalive"} : Update(e, due)
        \/ \E answer \in BOOLEAN : UpdateTimeout(e, answer)
        \/ UpdateProtectionOver(e) \/ Disconnect(e)

Spec == Init /\ [][Next]_vars

-----------------------------------------------------------------------------
\* Every variable has its type.
TypeOK ==
    /\ state \in [Endpoints -> {"ONLINE", "ERROR", "OFFLINE"}]
    /\ seq \in [Endpoints -> SeqNum]
    /\ ack \in [Endpoints -> SeqNum]
    /\ peerAck \in [Endpoints -> SeqNum]
    /\ buffer \in [Endpoints -> Seq(Chunk)]
    /\ construct \in [Endpoints -> Construct]
    /\ requested \in [Endpoints -> BOOLEAN]
    /\ closed \in [Endpoints -> BOOLEAN]
    /\ timedOut \in [Endpoints -> BOOLEAN]
    /\ rx \in [Endpoints -> Seq(Chunk)]
    /\ net \in [Endpoints -> SUBSET Packet]
    /\ sent \in [Endpoints -> Nat]
    /\ log \in [Endpoints -> Seq(Nat)]
    /\ heard \in [Endpoints -> Nat]

\* The inductive invariant behind the safety properties.

\* The vital chunks e may have queued, with the number that belongs to them.
Queueable(e) == {c \in Chunk : c.vital => c.n <= sent[e] /\ c.seq = c.n % MaxSeq}

\* What the modular numbers of a connection that is not OFFLINE stand for.
NumbersOK ==
    \A e \in Endpoints : state[e] # "OFFLINE" =>
        /\ seq[e] = sent[e] % MaxSeq
        /\ ack[e] = Got(e) % MaxSeq
        /\ peerAck[e] = heard[e] % MaxSeq

\* e knows of no more than was received, and what it does not know is bounded.
WindowOK ==
    \A e \in Endpoints :
        /\ heard[e] <= Got(Peer(e))
        /\ Got(Peer(e)) <= sent[e]
        /\ sent[e] - heard[e] <= MaxUnacked

\* Chunks keep their number wherever they wait.
ChunksOK ==
    \A e \in Endpoints :
        /\ buffer[e] \in Seq(Queueable(e))
        /\ \A i \in 1 .. Len(buffer[e]) : buffer[e][i].vital
        /\ construct[e].chunks \in Seq(Queueable(e))
        /\ Len(construct[e].chunks) <= PacketCap
        /\ rx[Peer(e)] \in Seq(Queueable(e))

\* The packets e may have sent.
Sendable(e) ==
    {p \in Packet : /\ p.ack = p.seen % MaxSeq
                    /\ p.seen <= Got(e)
                    /\ p.chunks \in Seq(Queueable(e))
                    /\ Len(p.chunks) <= PacketCap}

PacketsOK == \A e \in Endpoints : net[Peer(e)] \subseteq Sendable(e)

\* The chunks still to be unpacked are not older than the packet allows.
PendingOK ==
    \A e \in Endpoints : \A i \in 1 .. Len(rx[e]) :
        rx[e][i].vital => Got(e) - rx[e][i].n <= MaxAge + PacketCap - Len(rx[e])

LogOK ==
    \A e \in Endpoints : \A i \in 1 .. Len(log[e]) : log[e][i] = Start[Peer(e)] + i

IndInv ==
    /\ TypeOK /\ NumbersOK /\ WindowOK /\ ChunksOK /\ PacketsOK /\ PendingOK /\ LogOK

\* A connection that is ONLINE holds chunks its peer has not acknowledged,
\* oldest first; one in ERROR has unpacked what it received.
BufferOK ==
    \A e \in Endpoints :
        /\ state[e] = "ONLINE" => \A i \in 1 .. Len(buffer[e]) : buffer[e][i].n > heard[e]
        /\ \A i \in 1 .. Len(buffer[e]) : \A j \in 1 .. i - 1 : buffer[e][j].n < buffer[e][i].n
        /\ state[e] = "ERROR" => rx[e] = << >>

FullInv == IndInv /\ BufferOK

-----------------------------------------------------------------------------
\* Fairness.  Every tick of the main loops calls Update, empties the socket
\* and unpacks what it read; the timers elapse.  The network may lose packets
\* but not all of them: a packet that brings the receiver something new and
\* is sent again and again arrives.
BringsNews(e, p) ==
    \/ p.seen > heard[e]
    \/ \E i \in DOMAIN p.chunks : p.chunks[i].n = Got(e) + 1

RecvAny(e) == \E p \in net[e] : Recv(e, p)
RecvNews(e) == \E p \in net[e] : BringsNews(e, p) /\ Recv(e, p)
UpdateResend(e) == \E due \in SUBSET {"answer", "resend", "flush", "keepalive"} :
                      "resend" \in due /\ Update(e, due)
UpdateQuiet(e) == \E due \in SUBSET {"answer", "flush", "keepalive"} :
                      "keepalive" \in due /\ Update(e, due)

Fairness ==
    \A e \in Endpoints :
        /\ WF_vars(RecvAny(e))
        /\ ([]<>(\E p \in net[e] : BringsNews(e, p))) => []<><<RecvNews(e)>>_vars
        /\ WF_vars(Unpack(e))
        /\ SF_vars(UpdateResend(e)) /\ SF_vars(UpdateQuiet(e))

FairSpec == Spec /\ Fairness

-----------------------------------------------------------------------------
\* The vital chunks an endpoint hands to the game are the ones its peer
\* queued, each once, in the order they were queued, none left out, although
\* the network loses, duplicates and reorders packets, the resend buffer
\* overflows and the numbers wrap around (UnpackNextChunk).
InOrderOnce ==
    \A e \in Endpoints :
        /\ \A i \in 1 .. Len(log[e]) : log[e][i] = Start[Peer(e)] + i
        /\ Got(e) <= sent[Peer(e)]

\* What UnpackNextChunk skips silently as old has been delivered before: the
\* half of the numbers that counts as the past never holds a new chunk.
SkippedIsDelivered ==
    \A e \in Endpoints : rx[e] # << >> /\ state[e] = "ONLINE" =>
        LET c == Head(rx[e])
        IN c.vital /\ IsSeqInBackroom(c.seq, ack[e]) => c.n <= Got(e)

\* The window check of Feed throws away the packets that were overtaken by a
\* packet with a later acknowledgement, and no other: a connection never
\* refuses the newest packet of its peer, however the numbers have wrapped.
AckWindowExact ==
    \A e \in Endpoints : state[e] = "ONLINE" =>
        \A p \in net[e] : Fresh(e, p) =>
            (AckAcceptable(seq[e], peerAck[e], p.ack) <=> p.seen >= heard[e])

\* A step that leaves e connected keeps a buffered chunk, or the peer has
\* handed it to its game.
ReleasesDelivered(e) ==
    state'[e] # "OFFLINE" =>
        \A i \in 1 .. Len(buffer[e]) :
            \/ buffer[e][i].n <= Got(Peer(e))
            \/ \E j \in 1 .. Len(buffer'[e]) : buffer'[e][j] = buffer[e][i]

\* AckChunks releases from the resend buffer exactly the chunks the peer has
\* handed to its game by the time it sent the acknowledgement: no chunk is
\* forgotten before it was delivered.
ReleasedIsDelivered == [][\A e \in Endpoints : ReleasesDelivered(e)]_vars

\* A vital chunk that was queued while the resend buffer had room reaches the
\* peer's game, or one of the two connections ends.
AllDelivered ==
    \A e \in Endpoints : \A n \in Start[e] + 1 .. MaxSend[e] :
        (sent[e] >= n) ~> (Got(Peer(e)) >= n \/ \E x \in Endpoints : state[x] # "ONLINE")

-----------------------------------------------------------------------------
\* The connection implements a reliable stream in each direction: vital
\* chunks are taken in order, each once, and only while the end is open; what
\* an end believes acknowledged was taken, and never shrinks.
StatusOf == [ONLINE |-> "open", ERROR |-> "failed", OFFLINE |-> "left"]

Stream == INSTANCE ReliableStream WITH
    Ends <- Endpoints, Other <- Peer, First <- Start,
    offered <- sent, taken <- log, confirmed <- heard,
    status <- [e \in Endpoints |-> StatusOf[state[e]]]

StreamSpec == Stream!Spec
=============================================================================
