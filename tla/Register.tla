------------------------------ MODULE Register ------------------------------
(***************************************************************************)
(* A game server keeps itself listed at the master server: the main thread *)
(* of engine/server/register.cpp, its jobs, the requests on their way, and *)
(* the master server of mastersrv/src/main.rs.                             *)
(*                                                                         *)
(* Each life of the game server has a secret of its own.  Requests are     *)
(* numbered by the code; all it does with the numbers is to tell, of each  *)
(* request, whether a later one was answered, and whether it is the last   *)
(* one: the jobs of a protocol are a sequence in the order of sending, and *)
(* carry these two facts.  A challenge token is what the master server     *)
(* would say of it now.                                                    *)
(***************************************************************************)
EXTENDS MasterServer, Sequences

CONSTANTS
    MaxWire,    \* bound: requests that arrive after the end of their process
    Plans       \* what sv_register offers, the addresses the master server lists
                \* without a challenge, and bounds: how many jobs a protocol
                \* has under way, and one more for a token, how often the information, the setting and
                \* the master server's seeds change, how often the game server
                \* crashes, and how many requests or packets are lost

Plan == [offered : SUBSET Addrs, exempt : SUBSET Addrs, jobs : Nat,
         info : Nat, setting : Nat, seed : Nat, crash : Nat, loss : Nat]

ASSUME BoundsAssumption == MaxWire \in Nat /\ IsFiniteSet(Addrs)

ASSUME PlansAssumption == Plans \subseteq Plan /\ \A q \in Plans : 1 .. q.crash + 1 \subseteq Secrets

VARIABLES
    life,      \* m_Secret
    mode,      \* "running" until OnShutdown or a crash
    enabled,   \* m_aProtocolEnabled
    serial,    \* CGlobal::m_InfoSerial
    okSerial,  \* CGlobal::m_LatestSuccessfulInfoSerial
    proto,     \* the rest of each CProtocol and its CShared
    jobs,      \* for each protocol the jobs under way, in the order of sending
    wire,      \* requests under way that no job waits for
    packets,   \* for each protocol the challenge packets under way
    plan,      \* one of Plans, with the bounded events that are left
    forgotten, \* history: the master server has dropped this life's server
    accepted   \* history: the protocols whose last request was answered with success

serverVars == <<life, mode, enabled, serial, okSerial, proto, jobs>>
vars == <<serverVars, wire, packets, plan, forgotten, accepted, masterVars>>

Protocols == Addrs
Tokens == {"cur", "prev", "none"}

Request(p, n, info, tok) ==
    [p |-> p, secret |-> life, serial |-> n, info |-> info, token |-> tok]
Deletion(p) == [p |-> p, secret |-> life]
IsDeletion(r) == DOMAIN r = {"p", "secret"}

\* newToken is m_NewChallengeToken, answered that no request is in flight:
\* m_LatestResponseIndex is the index of the last one.  Time is not modelled:
\* m_NextRegister may have passed whenever the code looks at it.
NewProto == [status |-> "none", answered |-> TRUE, token |-> "none", newToken |-> FALSE]

Init ==
    /\ MasterInit
    /\ plan \in Plans
    /\ life = 1 /\ mode = "running" /\ enabled = plan.offered
    /\ serial = 0 /\ okSerial = -1
    /\ proto = [p \in Protocols |-> NewProto]
    /\ jobs = [p \in Protocols |-> << >>]
    /\ wire = {} /\ packets = [p \in Protocols |-> {}]
    /\ forgotten = FALSE /\ accepted = {}

Event(kind) == plan[kind] > 0 /\ plan' = [plan EXCEPT ![kind] = @ - 1]

Running(p) == Len(jobs[p])
IsFull(p) == Running(p) >= plan.jobs
-----------------------------------------------------------------------------
\* SendRegister for each protocol in S, given the serial and what each
\* protocol knows by then.
SendRegister(S, n, known) ==
    /\ jobs' = [p \in Protocols |->
           IF p \notin S THEN jobs[p]
           ELSE LET older == [i \in 1 .. Running(p) |-> [jobs[p][i] EXCEPT !.last = FALSE]]
                IN Append(older, [serial |-> n, msg |-> Request(p, n, n > okSerial, known[p].token),
                                  last |-> TRUE, stale |-> FALSE, at |-> "sent"])]
    /\ proto' = [p \in Protocols |->
           IF p \notin S THEN known[p]
           ELSE [known[p] EXCEPT !.answered = FALSE, !.newToken = FALSE]]
    /\ accepted' = accepted \ S

\* CheckChallengeStatus: whether it lets the next registration be due.
ActsAtOnce(q) ==
    q.answered /\ \/ q.status = "need_challenge" /\ q.newToken
                  \/ q.status = "need_info"

\* Update: the enabled protocols whose time has come, and those that do not
\* have to wait for it.  The serials are read once for all of them, as if
\* no job changed them in between.
Update(S) ==
    /\ mode = "running" /\ S # {} /\ S \subseteq enabled
    /\ \A p \in enabled : IF p \in S THEN ~IsFull(p) ELSE IsFull(p) \/ ~ActsAtOnce(proto[p])
    /\ SendRegister(S, serial, proto)
    /\ UNCHANGED <<life, mode, enabled, serial, okSerial, wire, packets, plan, forgotten, masterVars>>

\* OnNewInfo: the enabled protocol that is the next to register does so now,
\* if the last registration of any of them was a second ago, and with it the
\* others whose time has come.
OnNewInfo ==
    /\ mode = "running" /\ Event("info")
    /\ serial' = serial + 1
    /\ \E S \in SUBSET {p \in enabled : ~IsFull(p)} : SendRegister(S, serial + 1, proto)
    /\ UNCHANGED <<life, mode, enabled, okSerial, wire, packets, forgotten, masterVars>>

\* OnPacket and OnToken, with a token of the master server's present seed or
\* of an earlier one.
OnToken(p) ==
    \E tok \in packets[p] :
        LET known == [proto EXCEPT ![p].token = tok, ![p].newToken = TRUE]
        IN /\ mode = "running"
           /\ packets' = [packets EXCEPT ![p] = @ \ {tok}]
           /\ \/ Running(p) <= plan.jobs /\ SendRegister({p}, serial, known)
              \/ /\ ~ActsAtOnce(known[p])
                 /\ proto' = known /\ UNCHANGED <<jobs, accepted>>
           /\ UNCHANGED <<life, mode, enabled, serial, okSerial, wire, plan, forgotten, masterVars>>

\* SendDeleteIfRegistered for the protocols in S.
Registered(S) == {p \in S : proto[p].status = "success"}
Unregistered(S, q) == [p \in Protocols |-> IF p \in S THEN [q[p] EXCEPT !.status = "none"] ELSE q[p]]

\* OnConfigChange, with the protocols that are enabled from now on.
OnConfigChange(on) ==
    LET off == enabled \ on
    IN /\ mode = "running" /\ on # enabled /\ \A p \in on \ enabled : ~IsFull(p)
       /\ Event("setting")
       /\ enabled' = on
       /\ SendRegister(on \ enabled, serial, Unregistered(off, proto))
       /\ wire' = wire \cup {Deletion(p) : p \in Registered(off)}
       /\ UNCHANGED <<life, mode, serial, okSerial, packets, forgotten, masterVars>>
-----------------------------------------------------------------------------
\* The requests that still get to the master server when their jobs do not
\* wait any longer.
Sent(p) == {i \in 1 .. Running(p) : jobs[p][i].at = "sent"}
Unarrived == UNION {{jobs[p][i].msg : i \in Sent(p)} : p \in Protocols}

\* OnShutdown, and the end of the process.
OnShutdown ==
    /\ mode = "running"
    /\ mode' = "stopped"
    /\ \E late \in SUBSET Unarrived :
           /\ Cardinality(wire \cup late) <= MaxWire
           /\ wire' = wire \cup late \cup {Deletion(p) : p \in Registered(enabled)}
    /\ jobs' = [p \in Protocols |-> << >>]
    /\ proto' = [p \in Protocols |-> NewProto]
    /\ accepted' = {}
    /\ UNCHANGED <<life, enabled, serial, okSerial, packets, plan, forgotten, masterVars>>

\* The process dies and is started again, with another secret.
Crash ==
    /\ mode = "running" /\ Event("crash")
    /\ life' = life + 1
    /\ serial' = 0 /\ okSerial' = -1
    /\ proto' = [p \in Protocols |-> NewProto]
    /\ jobs' = [p \in Protocols |-> << >>]
    /\ \E late \in SUBSET Unarrived :
           /\ Cardinality(wire \cup late) <= MaxWire
           /\ wire' = wire \cup late
    /\ packets' = [p \in Protocols |-> {}]
    /\ forgotten' = FALSE /\ accepted' = {}
    /\ UNCHANGED <<mode, enabled, masterVars>>
-----------------------------------------------------------------------------
\* What the master server does with a registration: handle_register and the
\* challenge packet it sends to the address.
Answer(r) ==
    IF r.token = "none" /\ r.p \notin plan.exempt THEN "need_challenge"
    ELSE IF NeedsInfo(r.secret, r.serial, r.info) THEN "need_info" ELSE "success"

\* Whether the master server drops the server of the present life.
Drops == IsKnown(life) /\ life \notin DOMAIN servers'

HandleRegister(r) ==
    /\ IF Answer(r) = "success" THEN Add(r.p, r.secret, r.serial, r.info) ELSE UNCHANGED masterVars
    /\ forgotten' = (forgotten \/ Drops)
    /\ packets' = IF r.token = "cur" \/ r.p \in plan.exempt \/ r.secret # life \/ mode # "running" THEN packets
                  ELSE [packets EXCEPT ![r.p] = @ \cup {"cur"}]

\* A request arrives whose job waits for the answer.
Arrive(p, i) ==
    /\ jobs[p][i].at = "sent"
    /\ HandleRegister(jobs[p][i].msg)
    /\ jobs' = [jobs EXCEPT ![p][i].at = "answered", ![p][i].msg = [answer |-> Answer(@)]]
    /\ UNCHANGED <<life, mode, enabled, serial, okSerial, proto, wire, plan, accepted>>

\* A late request arrives, or a deletion: handle_delete.
ArriveLate(r) ==
    /\ wire' = wire \ {r}
    /\ IF ~IsDeletion(r) THEN HandleRegister(r)
       ELSE /\ Remove(r.p, r.secret) \/ (addresses[r.p] # r.secret /\ UNCHANGED masterVars)
            /\ forgotten' = (forgotten \/ Drops)
            /\ UNCHANGED packets
    /\ UNCHANGED <<serverVars, plan, accepted>>

Lose(r) ==
    /\ wire' = wire \ {r}
    /\ UNCHANGED <<serverVars, packets, plan, forgotten, accepted, masterVars>>

LosePacket(p) ==
    /\ Event("loss")
    /\ \E tok \in packets[p] : packets' = [packets EXCEPT ![p] = @ \ {tok}]
    /\ UNCHANGED <<serverVars, wire, forgotten, accepted, masterVars>>

\* The game server registers each fifteen seconds: that an address it keeps
\* registering is pruned means that requests were lost, or came late.
Kept(p) == mode = "running" /\ p \in enabled /\ addresses[p] = life

Prune(gone) ==
    /\ PruneBefore(gone)
    /\ forgotten' = (forgotten \/ Drops)
    /\ IF \E p \in gone : Kept(p) THEN Event("loss") ELSE UNCHANGED plan
    /\ UNCHANGED <<serverVars, wire, packets, accepted>>

\* What becomes of a token when the seed changes (for_addr still takes the
\* previous one), and when the master server is started again.
Aged == [cur |-> "prev", prev |-> "none", none |-> "none"]
Void == [tok \in Tokens |-> "none"]

\* Whoever holds a token holds an older one.  No packet is under way for two
\* hours.
AgeTokens(age) ==
    /\ Event("seed")
    /\ proto' = [p \in Protocols |-> [proto[p] EXCEPT !.token = age[@]]]
    /\ jobs' = [p \in Protocols |->
                   [i \in 1 .. Running(p) |->
                       IF jobs[p][i].at = "sent" THEN [jobs[p][i] EXCEPT !.msg.token = age[@]]
                       ELSE jobs[p][i]]]
    /\ wire' = {IF IsDeletion(r) THEN r ELSE [r EXCEPT !.token = age[@]] : r \in wire}
    /\ packets' = [p \in Protocols |-> {age[tok] : tok \in packets[p]} \ {"none"}]
    /\ UNCHANGED <<life, mode, enabled, serial, okSerial, accepted>>

\* Challenger::reseed, each hour.
Reseed == AgeTokens(Aged) /\ UNCHANGED <<forgotten, masterVars>>

MasterRestart == AgeTokens(Void) /\ Forget /\ forgotten' = TRUE
-----------------------------------------------------------------------------
Ended(p, i) == [k \in 1 .. Running(p) - 1 |-> jobs[p][IF k < i THEN k ELSE k + 1]]

\* CJob::Run: no answer, or an error.
Fail(p, i) ==
    /\ jobs[p][i].at \in {"sent", "answered"} /\ Event("loss")
    /\ jobs' = [jobs EXCEPT ![p] = Ended(p, i)]
    /\ UNCHANGED <<life, mode, enabled, serial, okSerial, proto, wire, packets, forgotten, accepted, masterVars>>

\* Fault: the answer that came last is taken for the latest.
NoteStatus_AnyOrder(p, i) ==
    LET j == jobs[p][i]
    IN /\ j.at = "answered"
       /\ jobs' = [jobs EXCEPT ![p][i].at = "noted"]
       /\ proto' = [proto EXCEPT ![p].status = j.msg.answer, ![p].answered = j.last]
       /\ accepted' = IF j.last /\ j.msg.answer = "success" THEN accepted \cup {p} ELSE accepted
       /\ UNCHANGED <<life, mode, enabled, serial, okSerial, wire, packets, plan, forgotten, masterVars>>

\* CJob::Run: the answer is noted, under CShared::m_Lock, unless a later
\* request was answered before.
NoteStatus(p, i) ==
    LET j == jobs[p][i]
    IN /\ j.at = "answered"
       /\ jobs' = [jobs EXCEPT ![p] = [k \in 1 .. Running(p) |->
              IF k = i THEN [j EXCEPT !.at = "noted"]
              ELSE IF k < i THEN [jobs[p][k] EXCEPT !.stale = TRUE] ELSE jobs[p][k]]]
       /\ proto' = IF j.stale THEN proto
                   ELSE [proto EXCEPT ![p].status = j.msg.answer, ![p].answered = j.last]
       /\ accepted' = IF j.last /\ j.msg.answer = "success" THEN accepted \cup {p} ELSE accepted
       /\ UNCHANGED <<life, mode, enabled, serial, okSerial, wire, packets, plan, forgotten, masterVars>>

\* Fault: other requests are not told to send the information again.
OkSerial_Kept(j) ==
    IF j.msg.answer = "success" /\ j.serial > okSerial THEN j.serial ELSE okSerial

\* What an answer says of the information the master server has.
OkSerial(j) ==
    CASE j.msg.answer = "success" /\ j.serial > okSerial -> j.serial
      [] j.msg.answer = "need_info" /\ j.serial = okSerial -> okSerial - 1
      [] OTHER -> okSerial

\* CJob::Run, its end: under CGlobal::m_Lock.
NoteSerial(p, i) ==
    /\ jobs[p][i].at = "noted"
    /\ okSerial' = OkSerial(jobs[p][i])
    /\ jobs' = [jobs EXCEPT ![p] = Ended(p, i)]
    /\ UNCHANGED <<life, mode, enabled, serial, proto, wire, packets, plan, forgotten, accepted, masterVars>>
-----------------------------------------------------------------------------
JobStep(p) == \E i \in 1 .. Running(p) : Arrive(p, i) \/ Fail(p, i) \/ NoteStatus(p, i) \/ NoteSerial(p, i)

Next ==
    \/ \E S \in SUBSET Protocols : Update(S)
    \/ OnNewInfo
    \/ \E on \in SUBSET plan.offered : OnConfigChange(on)
    \/ OnShutdown
    \/ Crash
    \/ \E p \in Protocols : OnToken(p) \/ LosePacket(p) \/ JobStep(p)
    \/ \E r \in wire : ArriveLate(r) \/ Lose(r)
    \/ \E gone \in SUBSET Addrs : Prune(gone)
    \/ Reseed
    \/ MasterRestart

Spec == Init /\ [][Next]_vars

\* The main thread and the jobs go on; time passes; what is not lost arrives
\* and is answered; the master server prunes its lists each second.
Fairness ==
    /\ \A p \in Protocols :
           /\ WF_vars(\E S \in SUBSET Protocols : p \in S /\ Update(S))
           /\ WF_vars(OnToken(p))
           /\ WF_vars(\E i \in 1 .. Running(p) : Arrive(p, i) \/ NoteStatus(p, i) \/ NoteSerial(p, i))
           /\ WF_vars(~Kept(p) /\ Prune({p}))
    /\ WF_vars(\E r \in wire : ArriveLate(r) \/ Lose(r))

FairSpec == Spec /\ Fairness
-----------------------------------------------------------------------------
TypeOK ==
    /\ MasterTypeOK
    /\ life \in Secrets /\ mode \in {"running", "stopped"} /\ enabled \subseteq Protocols
    /\ serial \in Nat /\ okSerial \in Int
    /\ \A p \in Protocols : packets[p] \subseteq Tokens /\ proto[p].token \in Tokens
    /\ \A p \in Protocols : Running(p) <= plan.jobs + 1
    /\ Cardinality(wire) <= MaxWire + Cardinality(Protocols)

\* What the server takes for known to the master server is known there, and
\* nothing older stands in its place: whatever order registrations of several
\* protocols and serials arrive and are answered in, as long as the master
\* server did not drop this life's server in between.
SuccessKept ==
    /\ TypeOK
    /\ okSerial >= 0 /\ ~forgotten => IsKnown(life) /\ servers[life].serial >= okSerial

\* A protocol whose last registration is known to have succeeded is deleted at
\* the master server when it is disabled, or the server shuts down: an answer
\* that comes late does not make the server forget.
DeletionSent ==
    [][\A p \in accepted \cap enabled :
           life' = life /\ (p \notin enabled' \/ mode' # mode) => Deletion(p) \in wire']_vars

\* As long as a protocol is enabled the server is found at the master server
\* with its present information, again and again, although requests, answers
\* and challenge packets get lost, entries are pruned, the master server
\* changes its seed or is started again and forgets all.
ListedAgain(p) ==
    <>[](mode = "running" /\ p \in enabled) =>
        []<>(addresses[p] = life /\ IsKnown(life) /\ servers[life].serial = serial)

\* A protocol that is disabled, or a server that has stopped, is not listed
\* for good, although a registration may arrive after the deletion, and a
\* challenge packet may make a disabled protocol register once more.
GoneAgain(p) == <>[](mode = "stopped" \/ p \notin enabled) => <>[](addresses[p] = None)

ListFollows == \A p \in Protocols : ListedAgain(p) /\ GoneAgain(p)
=============================================================================
