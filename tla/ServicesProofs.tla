---------------------------- MODULE ServicesProofs ----------------------------
(***************************************************************************)
(* Proofs about MasterServer, Register and MapDownload as MCServices uses  *)
(* them.                                                                   *)
(*                                                                         *)
(* MasterServer and Register: the lists of the master server agree,        *)
(* whatever registrations, deletions and time-outs come in whatever order, *)
(* and the game server of Register gives it no other steps to take; what   *)
(* the game server takes for known to the master server is known there.    *)
(*                                                                         *)
(* MapDownload, for any maps and sizes: the file of a download holds the   *)
(* first chunks of the wanted map.                                         *)
(***************************************************************************)
EXTENDS MCServices, FiniteSetTheorems, SequenceTheorems, TLAPS

MasterInv == MasterTypeOK /\ MapsAgree

\* Without some addresses the lists still agree: the addresses are gone from
\* both.
LEMMA UnlistAgrees ==
    ASSUME MasterInv, NEW gone \in SUBSET Addrs, Unlist(gone)
    PROVE  MasterInv'
<1>1. MasterTypeOK'
  BY DEF MasterInv, MasterTypeOK, Unlist, Without, Left, ServerInfo
<1>2. MapsAgree'
  <2> SUFFICES ASSUME NEW s \in Secrets
               PROVE LET listed == {a \in Addrs : addresses'[a] = s}
                     IN IF s \in DOMAIN servers' THEN listed # {} /\ servers'[s].addrs = listed
                        ELSE listed = {}
    BY DEF MapsAgree, IsKnown
  <2> DEFINE before == {a \in Addrs : addresses[a] = s}
             after == {a \in Addrs : addresses'[a] = s}
  <2>1. after = before \ {a \in gone : addresses[a] = s}
    BY MasterAssumption DEF Unlist, MasterInv, MasterTypeOK
  <2>2. CASE ~IsKnown(s)
    BY <2>1, <2>2 DEF Unlist, Without, MasterInv, MapsAgree, IsKnown
  <2>3. CASE IsKnown(s)
    <3>1. servers[s].addrs = before
      BY <2>3 DEF MasterInv, MapsAgree
    <3>2. Left(s, gone) = after
      BY <2>1, <3>1 DEF Left
    <3>3. QED
      BY <2>3, <3>2 DEF Unlist, Without, IsKnown
  <2>4. QED
    BY <2>2, <2>3
<1>3. QED
  BY <1>1, <1>2 DEF MasterInv

\* Adding an address to a server: the address leaves the server it belonged
\* to, and no other address changes its server.
LEMMA AddAgrees ==
    ASSUME MasterInv, NEW a \in Addrs, NEW s \in Secrets, NEW n \in Int, NEW info \in BOOLEAN,
           Add(a, s, n, info)
    PROVE  MasterInv'
<1> DEFINE gone == IF addresses[a] = s THEN {} ELSE {a}
           others == Without(gone)
<1>1. servers' = [t \in DOMAIN others \cup {s} |->
                     IF t = s THEN [addrs |-> Joined(a, s),
                                    serial |-> IF IsNewer(s, n) THEN n ELSE servers[s].serial]
                     ELSE others[t]]
  BY DEF Add, Added
<1>2. addresses' = [addresses EXCEPT ![a] = s]
  BY DEF Add
<1>3. Joined(a, s) \in SUBSET Addrs
  BY DEF Joined, IsKnown, MasterInv, MasterTypeOK, ServerInfo
<1>4. (IF IsNewer(s, n) THEN n ELSE servers[s].serial) \in Int
  BY DEF IsNewer, IsKnown, MasterInv, MasterTypeOK, ServerInfo
<1>5. DOMAIN others \subseteq Secrets /\ \A t \in DOMAIN others : others[t] \in ServerInfo
  BY DEF Without, Left, MasterInv, MasterTypeOK, ServerInfo
<1>6. MasterTypeOK'
  <2>1. addresses' \in [Addrs -> Secrets \cup {None}]
    BY <1>2 DEF MasterInv, MasterTypeOK
  <2>2. DOMAIN servers' \subseteq Secrets
    BY <1>1, <1>5
  <2>3. servers' \in [DOMAIN servers' -> ServerInfo]
    <3> HIDE DEF others
    <3>1. [addrs |-> Joined(a, s), serial |-> IF IsNewer(s, n) THEN n ELSE servers[s].serial] \in ServerInfo
      BY <1>3, <1>4 DEF ServerInfo
    <3>2. QED
      BY <1>1, <1>5, <3>1
  <2>4. QED
    BY <2>1, <2>2, <2>3 DEF MasterTypeOK
<1>7. MapsAgree'
  <2> SUFFICES ASSUME NEW t \in Secrets
               PROVE LET listed == {b \in Addrs : addresses'[b] = t}
                     IN IF t \in DOMAIN servers' THEN listed # {} /\ servers'[t].addrs = listed
                        ELSE listed = {}
    BY DEF MapsAgree, IsKnown
  <2> DEFINE before == {b \in Addrs : addresses[b] = t}
             after == {b \in Addrs : addresses'[b] = t}
  <2>1. IF IsKnown(t) THEN before # {} /\ servers[t].addrs = before ELSE before = {}
    BY DEF MasterInv, MapsAgree
  <2>2. CASE t = s
    <3>1. after = before \cup {a}
      BY <1>2, <2>2 DEF MasterInv, MasterTypeOK
    <3>2. t \in DOMAIN servers' /\ servers'[t].addrs = Joined(a, s)
      BY <1>1, <2>2
    <3>3. Joined(a, s) = before \cup {a}
      BY <2>1, <2>2 DEF Joined
    <3>4. QED
      BY <3>1, <3>2, <3>3
  <2>3. CASE t # s
    <3>1. after = before \ {b \in gone : addresses[b] = t}
      BY <1>2, <2>3 DEF MasterInv, MasterTypeOK
    <3>2. t \in DOMAIN servers' <=> t \in DOMAIN others
      BY <1>1, <2>3
    <3>3. t \in DOMAIN others => servers'[t] = others[t]
      BY <1>1, <2>3
    <3>4. CASE ~IsKnown(t)
      BY <2>1, <3>1, <3>2, <3>4 DEF Without, IsKnown
    <3>5. CASE IsKnown(t)
      <4>1. Left(t, gone) = after
        BY <2>1, <3>1, <3>5 DEF Left
      <4>2. t \in DOMAIN others <=> after # {}
        BY <3>5, <4>1 DEF Without, IsKnown
      <4>3. t \in DOMAIN others => others[t].addrs = after
        BY <3>5, <4>1 DEF Without, IsKnown
      <4>4. after = {} <=> t \notin DOMAIN servers'
        BY <3>2, <4>2
      <4>5. QED
        BY <3>2, <3>3, <4>2, <4>3
    <3>6. QED
      BY <3>4, <3>5
  <2>4. QED
    BY <2>2, <2>3
<1>8. QED
  BY <1>6, <1>7 DEF MasterInv

LEMMA MasterStepAgrees ==
    ASSUME MasterInv, [MasterNext]_masterVars
    PROVE  MasterInv'
<1>1. ASSUME NEW a \in Addrs, NEW s \in Secrets, NEW n \in Int, NEW info \in BOOLEAN,
             Add(a, s, n, info)
      PROVE MasterInv'
  BY <1>1, AddAgrees
<1>2. ASSUME NEW a \in Addrs, NEW s \in Secrets, Remove(a, s)
      PROVE MasterInv'
  <2>1. Unlist({a}) /\ {a} \in SUBSET Addrs
    BY <1>2 DEF Remove
  <2>2. QED
    BY <2>1, UnlistAgrees
<1>3. ASSUME NEW gone \in SUBSET Addrs, PruneBefore(gone)
      PROVE MasterInv'
  BY <1>3, UnlistAgrees DEF PruneBefore
<1>4. CASE Forget
  BY <1>4, MasterAssumption
     DEF Forget, MasterInv, MasterTypeOK, MapsAgree, IsKnown, ServerInfo
<1>5. CASE UNCHANGED masterVars
  BY <1>5 DEF masterVars, MasterInv, MasterTypeOK, MapsAgree, IsKnown
<1>6. QED
  BY <1>1, <1>2, <1>3, <1>4, <1>5 DEF MasterNext

LEMMA MasterInitAgrees == MasterInit => MasterInv
BY MasterAssumption
   DEF MasterInit, MasterInv, MasterTypeOK, MapsAgree, IsKnown, ServerInfo

\* The maps of the master server (struct Servers of main.rs) agree, whatever
\* comes in.
THEOREM MasterAgrees == MasterSpec => []MapsAgree
<1>1. MasterInv /\ [MasterNext]_masterVars => MasterInv'
  BY MasterStepAgrees
<1>2. QED
  BY <1>1, MasterInitAgrees, PTL DEF MasterSpec, MasterInv
-----------------------------------------------------------------------------
\* The game server and its network: what the jobs wait for, and what is under
\* way to the master server.
Registration == [p : Addrs, secret : Secrets, serial : Int, info : BOOLEAN, token : Tokens]
Deletions == [p : Addrs, secret : Secrets]
Answers == [answer : {"need_challenge", "need_info", "success"}]

Job ==
    [serial : Int, msg : Registration, last : BOOLEAN, stale : BOOLEAN, at : {"sent"}]
    \cup [serial : Int, msg : Answers, last : BOOLEAN, stale : BOOLEAN, at : {"answered", "noted"}]

Knowledge ==
    [status : {"none", "need_challenge", "need_info", "success"}, answered : BOOLEAN,
     token : Tokens, newToken : BOOLEAN]

LifeOK == life \in Nat \ {0} /\ plan \in Plan /\ 1 .. life + plan.crash \subseteq Secrets
WireOK == wire \subseteq Registration \cup Deletions
JobsOK == jobs \in [Protocols -> Seq(Job)]
RegisterTypes ==
    /\ LifeOK
    /\ enabled \subseteq Protocols /\ serial \in Int
    /\ proto \in [Protocols -> Knowledge]
    /\ JobsOK
    /\ WireOK
    /\ packets \in [Protocols -> SUBSET Tokens]

\* The bounded events leave the plan a plan, and the life its secret.
LEMMA EventKeepsLife ==
    ASSUME LifeOK, NEW kind \in {"info", "setting", "seed", "loss"}, Event(kind), life' = life
    PROVE  LifeOK'
BY DEF LifeOK, Event, Plan

LEMMA LifeIsSecret == LifeOK => life \in Secrets
BY DEF LifeOK, Plan

\* A function on 1 .. n is a sequence.
LEMMA TableIsSeq ==
    ASSUME NEW S, NEW n \in Nat, NEW f, f \in [1 .. n -> S]
    PROVE  f \in Seq(S)
OBVIOUS

\* What SendRegister makes of the jobs.
LEMMA SendKeepsJobs ==
    ASSUME RegisterTypes, NEW S, NEW n \in Int, NEW known \in [Protocols -> Knowledge],
           SendRegister(S, n, known)
    PROVE  JobsOK' /\ proto' \in [Protocols -> Knowledge]
<1>1. proto' \in [Protocols -> Knowledge]
  BY DEF SendRegister, Knowledge
<1>2. ASSUME NEW p \in Protocols
      PROVE  jobs'[p] \in Seq(Job)
  <2>1. CASE p \notin S
    BY <2>1 DEF SendRegister, RegisterTypes, JobsOK
  <2>2. CASE p \in S
    <3> DEFINE older == [i \in 1 .. Running(p) |-> [jobs[p][i] EXCEPT !.last = FALSE]]
               new == [serial |-> n, msg |-> Request(p, n, n > okSerial, known[p].token),
                       last |-> TRUE, stale |-> FALSE, at |-> "sent"]
    <3>1. jobs[p] \in Seq(Job)
      BY DEF RegisterTypes, JobsOK
    <3>2. Running(p) \in Nat /\ \A i \in 1 .. Running(p) : jobs[p][i] \in Job
      BY <3>1 DEF Running
    <3>3. \A i \in 1 .. Running(p) : [jobs[p][i] EXCEPT !.last = FALSE] \in Job
      BY <3>2 DEF Job
    <3>4. older \in Seq(Job)
      BY <3>2, <3>3, TableIsSeq
    <3>5. Request(p, n, n > okSerial, known[p].token) \in Registration
      BY LifeIsSecret DEF Request, Registration, RegisterTypes, Knowledge, Protocols
    <3>6. new \in Job
      BY <3>5 DEF Job
    <3>7. Append(older, new) \in Seq(Job)
      BY <3>4, <3>6
    <3>8. jobs'[p] = Append(older, new)
      BY <2>2 DEF SendRegister
    <3>9. QED
      BY <3>7, <3>8
  <2>3. QED
    BY <2>1, <2>2
<1>3. jobs' \in [Protocols -> Seq(Job)]
  <2>1. jobs' = [p \in Protocols |-> jobs'[p]]
    BY DEF SendRegister
  <2>2. QED
    BY <1>2, <2>1
<1>4. QED
  BY <1>1, <1>3 DEF JobsOK

\* A job that ends leaves the others.
LEMMA EndedIsSeq ==
    ASSUME RegisterTypes, NEW p \in Protocols, NEW i \in 1 .. Running(p)
    PROVE  [jobs EXCEPT ![p] = Ended(p, i)] \in [Protocols -> Seq(Job)]
<1>1. jobs \in [Protocols -> Seq(Job)] /\ jobs[p] \in Seq(Job)
  BY DEF RegisterTypes, JobsOK
<1>2. Running(p) \in Nat /\ Running(p) - 1 \in Nat /\ \A k \in 1 .. Running(p) : jobs[p][k] \in Job
  BY <1>1 DEF Running
<1>3. \A k \in 1 .. Running(p) - 1 : jobs[p][IF k < i THEN k ELSE k + 1] \in Job
  BY <1>2
<1>4. Ended(p, i) \in Seq(Job)
  BY <1>2, <1>3, TableIsSeq DEF Ended
<1>5. QED
  BY <1>1, <1>4

\* What the master server does with a registration is a step of its own.
LEMMA RegistrationStep ==
    ASSUME RegisterTypes, NEW r \in Registration, HandleRegister(r)
    PROVE  [MasterNext]_masterVars /\ packets' \in [Protocols -> SUBSET Tokens]
<1>1. packets' \in [Protocols -> SUBSET Tokens]
  BY DEF HandleRegister, RegisterTypes, Tokens
<1>2. r.p \in Addrs /\ r.secret \in Secrets /\ r.serial \in Int /\ r.info \in BOOLEAN
  BY DEF Registration
<1>3. Add(r.p, r.secret, r.serial, r.info) => MasterNext
  BY <1>2 DEF MasterNext
<1>4. QED
  BY <1>1, <1>3 DEF HandleRegister

\* What the master server knows of old tokens.
LEMMA AgedAreTokens ==
    /\ Aged \in [Tokens -> Tokens] /\ Aged["none"] = "none"
    /\ Void \in [Tokens -> Tokens] /\ Void["none"] = "none"
BY DEF Aged, Void, Tokens

\* A new seed leaves every request a request.
LEMMA AgeKeepsTypes ==
    ASSUME RegisterTypes, NEW age \in [Tokens -> Tokens], AgeTokens(age)
    PROVE  RegisterTypes'
<1>1. LifeOK'
  BY EventKeepsLife DEF AgeTokens, RegisterTypes
<1>2. proto' \in [Protocols -> Knowledge]
  <2>1. \A p \in Protocols : [proto[p] EXCEPT !.token = age[@]] \in Knowledge
    BY DEF RegisterTypes, Knowledge
  <2>2. QED
    BY <2>1 DEF AgeTokens
<1>3. JobsOK'
  <2>1. ASSUME NEW p \in Protocols
        PROVE [i \in 1 .. Running(p) |->
                   IF jobs[p][i].at = "sent" THEN [jobs[p][i] EXCEPT !.msg.token = age[@]]
                   ELSE jobs[p][i]] \in Seq(Job)
    <3>1. jobs[p] \in Seq(Job)
      BY DEF RegisterTypes, JobsOK
    <3>2. Running(p) \in Nat /\ \A i \in 1 .. Running(p) : jobs[p][i] \in Job
      BY <3>1 DEF Running
    <3>3. ASSUME NEW j \in Job, j.at = "sent"
          PROVE [j EXCEPT !.msg.token = age[@]] \in Job
      <4>1. j.msg \in Registration
        BY <3>3 DEF Job
      <4>2. [j.msg EXCEPT !.token = age[@]] \in Registration
        BY <4>1 DEF Registration
      <4>3. [j EXCEPT !.msg.token = age[@]] = [j EXCEPT !.msg = [j.msg EXCEPT !.token = age[@]]]
        BY <3>3 DEF Job
      <4>4. QED
        BY <3>3, <4>2, <4>3 DEF Job
    <3>4. \A i \in 1 .. Running(p) :
              (IF jobs[p][i].at = "sent" THEN [jobs[p][i] EXCEPT !.msg.token = age[@]]
               ELSE jobs[p][i]) \in Job
      BY <3>2, <3>3
    <3>5. QED
      BY <3>2, <3>4, TableIsSeq
  <2>2. QED
    BY <2>1 DEF AgeTokens, JobsOK
<1>4. WireOK'
  <2>1. ASSUME NEW r \in wire
        PROVE (IF IsDeletion(r) THEN r ELSE [r EXCEPT !.token = age[@]]) \in Registration \cup Deletions
    BY DEF RegisterTypes, WireOK, IsDeletion, Registration, Deletions
  <2>2. QED
    BY <2>1 DEF AgeTokens, WireOK
<1>5. packets' \in [Protocols -> SUBSET Tokens]
  <2>1. \A p \in Protocols : {age[tok] : tok \in packets[p]} \ {"none"} \in SUBSET Tokens
    BY DEF RegisterTypes
  <2>2. QED
    BY <2>1 DEF AgeTokens
<1>6. QED
  BY <1>1, <1>2, <1>3, <1>4, <1>5 DEF AgeTokens, RegisterTypes

\* The requests and deletions that are sent at the end of a life.
LEMMA LateAreRequests ==
    ASSUME RegisterTypes
    PROVE  /\ Unarrived \subseteq Registration
           /\ \A S \in SUBSET Protocols : {Deletion(p) : p \in Registered(S)} \subseteq Deletions
<1>1. ASSUME NEW p \in Protocols, NEW i \in Sent(p)
      PROVE jobs[p][i].msg \in Registration
  <2>1. jobs[p] \in Seq(Job) /\ i \in 1 .. Running(p)
    BY DEF RegisterTypes, JobsOK, Sent
  <2>2. jobs[p][i] \in Job /\ jobs[p][i].at = "sent"
    BY <2>1 DEF Running, Sent
  <2>3. QED
    BY <2>2 DEF Job
<1>2. ASSUME NEW S \in SUBSET Protocols
      PROVE {Deletion(p) : p \in Registered(S)} \subseteq Deletions
  BY LifeIsSecret DEF Deletion, Deletions, Registered, Protocols, RegisterTypes
<1>3. QED
  BY <1>1, <1>2 DEF Unarrived

\* No job, nothing known.
LEMMA FreshTypes ==
    /\ [p \in Protocols |-> NewProto] \in [Protocols -> Knowledge]
    /\ [p \in Protocols |-> << >>] \in [Protocols -> Seq(Job)]
BY DEF NewProto, Knowledge, Tokens

\* The steps of the main thread.
LEMMA MainKeepsTypes ==
    ASSUME RegisterTypes,
           \/ \E S \in SUBSET Protocols : Update(S)
           \/ OnNewInfo
           \/ \E on \in SUBSET plan.offered : OnConfigChange(on)
           \/ \E p \in Protocols : OnToken(p)
    PROVE  RegisterTypes' /\ UNCHANGED masterVars
<1>1. ASSUME NEW S \in SUBSET Protocols, Update(S)
      PROVE RegisterTypes' /\ UNCHANGED masterVars
  <2>1. JobsOK' /\ proto' \in [Protocols -> Knowledge]
    BY <1>1, SendKeepsJobs DEF Update, RegisterTypes
  <2>2. QED
    BY <1>1, <2>1 DEF Update, RegisterTypes, LifeOK, WireOK
<1>2. CASE OnNewInfo
  <2>1. PICK S \in SUBSET enabled : SendRegister(S, serial + 1, proto)
    BY <1>2 DEF OnNewInfo
  <2>2. JobsOK' /\ proto' \in [Protocols -> Knowledge]
    BY <2>1, SendKeepsJobs DEF RegisterTypes
  <2>3. LifeOK'
    BY <1>2, EventKeepsLife DEF OnNewInfo, RegisterTypes
  <2>4. QED
    BY <1>2, <2>2, <2>3 DEF OnNewInfo, RegisterTypes, WireOK
<1>3. ASSUME NEW on \in SUBSET plan.offered, OnConfigChange(on)
      PROVE RegisterTypes' /\ UNCHANGED masterVars
  <2>1. Unregistered(enabled \ on, proto) \in [Protocols -> Knowledge]
    <3>1. \A p \in Protocols : proto[p] \in Knowledge /\ [proto[p] EXCEPT !.status = "none"] \in Knowledge
      BY DEF RegisterTypes, Knowledge
    <3>2. QED
      BY <3>1 DEF Unregistered
  <2>2. JobsOK' /\ proto' \in [Protocols -> Knowledge]
    BY <1>3, <2>1, SendKeepsJobs DEF OnConfigChange, RegisterTypes
  <2>3. LifeOK' /\ on \subseteq Protocols
    BY <1>3, EventKeepsLife DEF OnConfigChange, RegisterTypes, LifeOK, Plan, Protocols
  <2>4. WireOK'
    BY <1>3, LateAreRequests DEF OnConfigChange, RegisterTypes, WireOK
  <2>5. QED
    BY <1>3, <2>2, <2>3, <2>4 DEF OnConfigChange, RegisterTypes
<1>4. ASSUME NEW p \in Protocols, OnToken(p)
      PROVE RegisterTypes' /\ UNCHANGED masterVars
  <2>1. PICK tok \in packets[p] :
            LET known == [proto EXCEPT ![p].token = tok, ![p].newToken = TRUE]
            IN /\ packets' = [packets EXCEPT ![p] = @ \ {tok}]
               /\ \/ SendRegister({p}, serial, known)
                  \/ proto' = known /\ UNCHANGED <<jobs, accepted>>
               /\ UNCHANGED <<life, enabled, serial, wire, plan, masterVars>>
    BY <1>4 DEF OnToken
  <2> DEFINE known == [proto EXCEPT ![p].token = tok, ![p].newToken = TRUE]
  <2>2. tok \in Tokens
    BY <2>1 DEF RegisterTypes
  <2>3. known \in [Protocols -> Knowledge]
    BY <2>2 DEF RegisterTypes, Knowledge
  <2>4. JobsOK' /\ proto' \in [Protocols -> Knowledge]
    <3>1. CASE SendRegister({p}, serial, known)
      BY <2>3, <3>1, SendKeepsJobs DEF RegisterTypes
    <3>2. CASE proto' = known /\ jobs' = jobs
      BY <2>3, <3>2 DEF RegisterTypes, JobsOK
    <3>3. QED
      BY <2>1, <3>1, <3>2
  <2>5. packets' \in [Protocols -> SUBSET Tokens]
    BY <2>1 DEF RegisterTypes
  <2>6. QED
    BY <2>1, <2>4, <2>5 DEF RegisterTypes, LifeOK, WireOK
<1>5. QED
  BY <1>1, <1>2, <1>3, <1>4

\* The end of a life.
LEMMA EndKeepsTypes ==
    ASSUME RegisterTypes, OnShutdown \/ Crash
    PROVE  RegisterTypes' /\ UNCHANGED masterVars
<1>1. CASE OnShutdown
  <2>1. PICK late \in SUBSET Unarrived :
            wire' = wire \cup late \cup {Deletion(p) : p \in Registered(enabled)}
    BY <1>1 DEF OnShutdown
  <2>2. WireOK'
    BY <2>1, LateAreRequests DEF RegisterTypes, WireOK
  <2>3. JobsOK' /\ proto' \in [Protocols -> Knowledge]
    BY <1>1, FreshTypes DEF OnShutdown, JobsOK
  <2>4. QED
    BY <1>1, <2>2, <2>3 DEF OnShutdown, RegisterTypes, LifeOK
<1>2. CASE Crash
  <2>1. PICK late \in SUBSET Unarrived : wire' = wire \cup late
    BY <1>2 DEF Crash
  <2>2. WireOK'
    BY <2>1, LateAreRequests DEF RegisterTypes, WireOK
  <2>3. JobsOK' /\ proto' \in [Protocols -> Knowledge]
    BY <1>2, FreshTypes DEF Crash, JobsOK
  <2>4. packets' \in [Protocols -> SUBSET Tokens]
    BY <1>2 DEF Crash
  <2>5. LifeOK'
    <3>1. plan' \in Plan /\ plan'.crash = plan.crash - 1 /\ plan.crash \in Nat /\ plan.crash > 0
      BY <1>2 DEF Crash, Event, RegisterTypes, LifeOK, Plan
    <3>2. life' = life + 1 /\ life \in Nat \ {0}
      BY <1>2 DEF Crash, RegisterTypes, LifeOK
    <3>3. 1 .. life + plan.crash \subseteq Secrets
      BY DEF RegisterTypes, LifeOK
    <3>4. life' + plan'.crash = life + plan.crash
      BY <3>1, <3>2
    <3>5. QED
      BY <3>1, <3>2, <3>3, <3>4 DEF LifeOK
  <2>6. QED
    BY <1>2, <2>2, <2>3, <2>4, <2>5 DEF Crash, RegisterTypes
<1>3. QED
  BY <1>1, <1>2

\* The steps of a job.
LEMMA JobKeepsTypes ==
    ASSUME RegisterTypes, NEW p \in Protocols, JobStep(p)
    PROVE  RegisterTypes' /\ [MasterNext]_masterVars
<1> PICK i \in 1 .. Running(p) : Arrive(p, i) \/ Fail(p, i) \/ NoteStatus(p, i) \/ NoteSerial(p, i)
  BY DEF JobStep
<1>1. jobs \in [Protocols -> Seq(Job)] /\ jobs[p] \in Seq(Job) /\ i \in DOMAIN jobs[p]
  BY DEF RegisterTypes, JobsOK, Running
<1>2. jobs[p][i] \in Job
  BY <1>1
<1>3. CASE Arrive(p, i)
  <2>1. jobs[p][i].msg \in Registration
    BY <1>2, <1>3 DEF Arrive, Job
  <2>2. [MasterNext]_masterVars /\ packets' \in [Protocols -> SUBSET Tokens]
    BY <1>3, <2>1, RegistrationStep DEF Arrive
  <2>3. JobsOK'
    <3> DEFINE j == [jobs[p][i] EXCEPT !.at = "answered", !.msg = [answer |-> Answer(@)]]
    <3>1. j \in Job
      BY <1>2 DEF Job, Answers, Answer
    <3>2. jobs' = [jobs EXCEPT ![p] = [jobs[p] EXCEPT ![i] = j]]
      BY <1>1, <1>3 DEF Arrive
    <3>3. [jobs[p] EXCEPT ![i] = j] \in Seq(Job)
      BY <1>1, <3>1
    <3>4. QED
      BY <1>1, <3>2, <3>3 DEF JobsOK
  <2>4. QED
    BY <1>3, <2>2, <2>3 DEF Arrive, RegisterTypes, LifeOK, WireOK
<1>4. CASE Fail(p, i)
  <2>1. LifeOK'
    BY <1>4, EventKeepsLife DEF Fail, RegisterTypes
  <2>2. QED
    BY <1>4, <2>1, EndedIsSeq DEF Fail, RegisterTypes, JobsOK, WireOK
<1>5. CASE NoteStatus(p, i)
  <2> DEFINE j == jobs[p][i]
             noted == [k \in 1 .. Running(p) |->
                          IF k = i THEN [j EXCEPT !.at = "noted"]
                          ELSE IF k < i THEN [jobs[p][k] EXCEPT !.stale = TRUE] ELSE jobs[p][k]]
  <2>1. j.msg \in Answers
    BY <1>2, <1>5 DEF NoteStatus, Job
  <2>2. JobsOK'
    <3>1. Running(p) \in Nat /\ \A k \in 1 .. Running(p) : jobs[p][k] \in Job
      BY <1>1 DEF Running
    <3>2. [j EXCEPT !.at = "noted"] \in Job
      BY <1>2, <1>5 DEF NoteStatus, Job
    <3>3. \A k \in 1 .. Running(p) : [jobs[p][k] EXCEPT !.stale = TRUE] \in Job
      BY <3>1 DEF Job
    <3>4. noted \in Seq(Job)
      BY <3>1, <3>2, <3>3, TableIsSeq
    <3>5. jobs' = [jobs EXCEPT ![p] = noted]
      BY <1>5 DEF NoteStatus
    <3>6. QED
      BY <1>1, <3>4, <3>5 DEF JobsOK
  <2>3. proto' \in [Protocols -> Knowledge]
    <3> DEFINE noticed == [proto[p] EXCEPT !.status = j.msg.answer, !.answered = j.last]
    <3>1. j.last \in BOOLEAN /\ j.msg.answer \in {"success", "need_challenge", "need_info"}
      BY <1>2, <2>1 DEF Job, Answers
    <3>2. noticed \in Knowledge
      BY <3>1 DEF RegisterTypes, Knowledge
    <3>3. proto' = proto \/ proto' = [proto EXCEPT ![p] = noticed]
      BY <1>5 DEF NoteStatus
    <3> HIDE DEF noticed
    <3>4. QED
      BY <3>2, <3>3 DEF RegisterTypes
  <2>4. QED
    BY <1>5, <2>2, <2>3 DEF NoteStatus, RegisterTypes, LifeOK, WireOK
<1>6. CASE NoteSerial(p, i)
  BY <1>6, EndedIsSeq DEF NoteSerial, RegisterTypes, LifeOK, JobsOK, WireOK
<1>7. QED
  BY <1>3, <1>4, <1>5, <1>6

\* The steps of the network and of the master server.
LEMMA OthersKeepTypes ==
    ASSUME RegisterTypes,
           \/ \E r \in wire : ArriveLate(r) \/ Lose(r)
           \/ \E p \in Protocols : LosePacket(p)
           \/ \E gone \in SUBSET Addrs : Prune(gone)
           \/ Reseed
           \/ MasterRestart
    PROVE  RegisterTypes' /\ [MasterNext]_masterVars
<1>1. ASSUME NEW r \in wire, ArriveLate(r)
      PROVE RegisterTypes' /\ [MasterNext]_masterVars
  <2>1. r \in Registration \cup Deletions
    BY DEF RegisterTypes, WireOK
  <2>2. WireOK'
    BY <1>1 DEF ArriveLate, RegisterTypes, WireOK
  <2>3. CASE ~IsDeletion(r)
    <3>1. r \in Registration
      BY <2>1, <2>3 DEF IsDeletion, Deletions
    <3>2. [MasterNext]_masterVars /\ packets' \in [Protocols -> SUBSET Tokens]
      BY <1>1, <2>3, <3>1, RegistrationStep DEF ArriveLate
    <3>3. QED
      BY <1>1, <2>2, <3>2 DEF ArriveLate, RegisterTypes, LifeOK, serverVars, JobsOK
  <2>4. CASE IsDeletion(r)
    <3>1. r.p \in Addrs /\ r.secret \in Secrets
      BY <2>1 DEF Registration, Deletions
    <3>2. Remove(r.p, r.secret) \/ UNCHANGED masterVars
      BY <1>1, <2>4 DEF ArriveLate
    <3>3. [MasterNext]_masterVars
      BY <3>1, <3>2 DEF MasterNext
    <3>4. QED
      BY <1>1, <2>2, <2>4, <3>3 DEF ArriveLate, RegisterTypes, LifeOK, serverVars, JobsOK
  <2>5. QED
    BY <2>3, <2>4
<1>2. ASSUME NEW r \in wire, Lose(r)
      PROVE RegisterTypes' /\ [MasterNext]_masterVars
  BY <1>2 DEF Lose, RegisterTypes, LifeOK, serverVars, JobsOK, WireOK
<1>3. ASSUME NEW p \in Protocols, LosePacket(p)
      PROVE RegisterTypes' /\ [MasterNext]_masterVars
  <2>1. packets' \in [Protocols -> SUBSET Tokens]
    BY <1>3 DEF LosePacket, RegisterTypes
  <2>2. LifeOK'
    BY <1>3, EventKeepsLife DEF LosePacket, RegisterTypes, serverVars
  <2>3. QED
    BY <1>3, <2>1, <2>2 DEF LosePacket, RegisterTypes, serverVars, JobsOK, WireOK
<1>4. ASSUME NEW gone \in SUBSET Addrs, Prune(gone)
      PROVE RegisterTypes' /\ [MasterNext]_masterVars
  <2>1. LifeOK'
    <3>1. CASE Event("loss")
      BY <1>4, <3>1, EventKeepsLife DEF Prune, RegisterTypes, serverVars
    <3>2. CASE UNCHANGED plan
      BY <1>4, <3>2 DEF Prune, RegisterTypes, LifeOK, serverVars
    <3>3. QED
      BY <1>4, <3>1, <3>2 DEF Prune
  <2>2. QED
    BY <1>4, <2>1 DEF Prune, MasterNext, RegisterTypes, serverVars, JobsOK, WireOK
<1>5. CASE Reseed
  BY <1>5, AgedAreTokens, AgeKeepsTypes DEF Reseed
<1>6. CASE MasterRestart
  BY <1>6, AgedAreTokens, AgeKeepsTypes DEF MasterRestart, MasterNext
<1>7. QED
  BY <1>1, <1>2, <1>3, <1>4, <1>5, <1>6

\* The game server starts with nothing under way.
LEMMA InitTypes == Init => RegisterTypes /\ MasterInit
<1> SUFFICES ASSUME Init
             PROVE RegisterTypes
  BY DEF Init
<1>1. plan \in Plan /\ 1 .. plan.crash + 1 \subseteq Secrets /\ plan.offered \subseteq Addrs
  BY PlansAssumption DEF Init, Plan
<1>2. LifeOK
  <2>1. plan.crash \in Nat /\ life = 1
    BY <1>1 DEF Init, Plan
  <2>2. life + plan.crash = plan.crash + 1
    BY <2>1
  <2>3. QED
    BY <1>1, <2>1, <2>2 DEF LifeOK
<1>3. QED
  BY <1>1, <1>2, FreshTypes DEF Init, RegisterTypes, JobsOK, WireOK, Protocols

\* Whatever the game server, its jobs and the network do is a step of the
\* master server, or none.
LEMMA StepIsMasterStep ==
    ASSUME RegisterTypes, [Next]_vars
    PROVE  RegisterTypes' /\ [MasterNext]_masterVars
<1>1. CASE UNCHANGED vars
  BY <1>1 DEF vars, serverVars, masterVars, RegisterTypes, LifeOK, JobsOK, WireOK
<1>2. CASE Next
  <2>1. CASE \/ \E S \in SUBSET Protocols : Update(S)
             \/ OnNewInfo
             \/ \E on \in SUBSET plan.offered : OnConfigChange(on)
             \/ \E p \in Protocols : OnToken(p)
    BY <2>1, MainKeepsTypes
  <2>2. CASE OnShutdown \/ Crash
    BY <2>2, EndKeepsTypes
  <2>3. CASE \E p \in Protocols : JobStep(p)
    BY <2>3, JobKeepsTypes
  <2>4. CASE \/ \E r \in wire : ArriveLate(r) \/ Lose(r)
             \/ \E p \in Protocols : LosePacket(p)
             \/ \E gone \in SUBSET Addrs : Prune(gone)
             \/ Reseed
             \/ MasterRestart
    BY <2>4, OthersKeepTypes
  <2>5. QED
    BY <1>2, <2>1, <2>2, <2>3, <2>4 DEF Next
<1>3. QED
  BY <1>1, <1>2

\* The game server, its jobs and the network ask nothing of the master server
\* but what it does.
THEOREM RegisterRefinesMaster == Spec => MasterSpec
<1>1. RegisterTypes /\ [Next]_vars => RegisterTypes' /\ [MasterNext]_masterVars
  BY StepIsMasterStep
<1>2. QED
  BY <1>1, InitTypes, PTL DEF Spec, MasterSpec

\* So the lists of the master server agree in every run of the two.
THEOREM RegisterAgrees == Spec => []MapsAgree
BY RegisterRefinesMaster, MasterAgrees, PTL
-----------------------------------------------------------------------------
(* What the game server believes. *)

\* The master server has this life's server, with the information of serial n
\* or newer.
Holds(n) == IsKnown(life) /\ servers[life].serial >= n

\* Requests are of this life, and what their answers told is still so.
JobsSound ==
    \A p \in Protocols : \A i \in 1 .. Running(p) :
        /\ jobs[p][i].at = "sent" =>
               jobs[p][i].msg.secret = life /\ jobs[p][i].msg.serial = jobs[p][i].serial
        /\ jobs[p][i].at # "sent" /\ jobs[p][i].msg.answer = "success" /\ ~forgotten =>
               Holds(jobs[p][i].serial)

OkSound == okSerial \in Int /\ (okSerial >= 0 /\ ~forgotten => Holds(okSerial))

\* Only the last request is not overtaken, and once it has succeeded no other
\* answer counts.
Settled(p) ==
    \A i \in 1 .. Running(p) :
        /\ jobs[p][i].last => i = Running(p) /\ ~jobs[p][i].stale
        /\ p \in accepted /\ jobs[p][i].at # "noted" => jobs[p][i].stale

AcceptedOK ==
    /\ accepted \subseteq Protocols
    /\ \A p \in Protocols : Settled(p)
    /\ \A p \in accepted \cap enabled : proto[p].status = "success"

\* Of what nobody waits for, all but the deletions of this life is bounded.
Own == {Deletion(p) : p \in Protocols}
RoomOK == \A p \in Protocols : Running(p) <= plan.jobs + 1
WireBounded ==
    /\ IsFiniteSet(wire) /\ Cardinality(wire \ Own) <= MaxWire
    /\ RoomOK
    /\ serial \in Nat /\ mode \in {"running", "stopped"}

RegisterInv == RegisterTypes /\ MasterInv /\ JobsSound /\ OkSound /\ AcceptedOK /\ WireBounded
-----------------------------------------------------------------------------
(* What the steps do with the jobs, one by one. *)

LEMMA JobsAre ==
    ASSUME RegisterTypes, NEW p \in Protocols
    PROVE  /\ Running(p) \in Nat /\ jobs[p] \in Seq(Job) /\ DOMAIN jobs[p] = 1 .. Running(p)
           /\ \A i \in 1 .. Running(p) : jobs[p][i] \in Job
BY DEF RegisterTypes, JobsOK, Running

\* SendRegister: the others are not the last any more; one is sent.
LEMMA SendIs ==
    ASSUME RegisterTypes, NEW S, NEW n, NEW known, SendRegister(S, n, known), NEW p \in Protocols
    PROVE  /\ p \notin S => jobs'[p] = jobs[p] /\ proto'[p] = known[p]
           /\ p \in S =>
                /\ Len(jobs'[p]) = Running(p) + 1
                /\ \A i \in 1 .. Running(p) : jobs'[p][i] = [jobs[p][i] EXCEPT !.last = FALSE]
                /\ jobs'[p][Running(p) + 1] =
                       [serial |-> n, msg |-> Request(p, n, n > okSerial, known[p].token),
                        last |-> TRUE, stale |-> FALSE, at |-> "sent"]
<1>1. CASE p \notin S
  BY <1>1 DEF SendRegister
<1>2. CASE p \in S
  <2> DEFINE older == [i \in 1 .. Running(p) |-> [jobs[p][i] EXCEPT !.last = FALSE]]
             new == [serial |-> n, msg |-> Request(p, n, n > okSerial, known[p].token),
                     last |-> TRUE, stale |-> FALSE, at |-> "sent"]
  <2>1. jobs'[p] = Append(older, new)
    BY <1>2 DEF SendRegister
  <2>2. Running(p) \in Nat /\ \A i \in 1 .. Running(p) : jobs[p][i] \in Job
    BY JobsAre
  <2>3. \A i \in 1 .. Running(p) : [jobs[p][i] EXCEPT !.last = FALSE] \in Job
    BY <2>2 DEF Job
  <2>4. older \in Seq(Job) /\ Len(older) = Running(p)
    <3>1. older \in Seq(Job)
      BY <2>2, <2>3, TableIsSeq
    <3>2. QED
      BY <2>2, <3>1
  <2>5. \A i \in 1 .. Running(p) : older[i] = [jobs[p][i] EXCEPT !.last = FALSE]
    OBVIOUS
  <2> HIDE DEF older, new
  <2>6. /\ Len(Append(older, new)) = Running(p) + 1
        /\ \A i \in 1 .. Running(p) : Append(older, new)[i] = older[i]
        /\ Append(older, new)[Running(p) + 1] = new
    BY <2>2, <2>4
  <2>7. QED
    BY <1>2, <2>1, <2>5, <2>6 DEF new
<1>3. QED
  BY <1>1, <1>2

\* A job ends.
LEMMA EndedIs ==
    ASSUME RegisterTypes, NEW p \in Protocols, NEW i \in 1 .. Running(p),
           jobs' = [jobs EXCEPT ![p] = Ended(p, i)]
    PROVE  /\ \A q \in Protocols \ {p} : jobs'[q] = jobs[q]
           /\ Len(jobs'[p]) = Running(p) - 1
           /\ \A k \in 1 .. Running(p) - 1 : jobs'[p][k] = jobs[p][IF k < i THEN k ELSE k + 1]
<1>1. jobs \in [Protocols -> Seq(Job)]
  BY DEF RegisterTypes, JobsOK
<1>2. Running(p) \in Nat /\ Running(p) - 1 \in Nat
  BY JobsAre
<1>3. jobs'[p] = Ended(p, i)
  BY <1>1
<1>4. QED
  BY <1>1, <1>2, <1>3 DEF Ended

\* An answer is noted.
LEMMA NotedIs ==
    ASSUME RegisterTypes, NEW p \in Protocols, NEW i \in 1 .. Running(p), NoteStatus(p, i)
    PROVE  /\ \A q \in Protocols \ {p} : jobs'[q] = jobs[q]
           /\ Len(jobs'[p]) = Running(p)
           /\ jobs'[p][i] = [jobs[p][i] EXCEPT !.at = "noted"]
           /\ \A k \in 1 .. Running(p) :
                /\ k < i => jobs'[p][k] = [jobs[p][k] EXCEPT !.stale = TRUE]
                /\ k > i => jobs'[p][k] = jobs[p][k]
<1>1. jobs \in [Protocols -> Seq(Job)] /\ Running(p) \in Nat
  BY JobsAre DEF RegisterTypes, JobsOK
<1>2. jobs'[p] = [k \in 1 .. Running(p) |->
                      IF k = i THEN [jobs[p][i] EXCEPT !.at = "noted"]
                      ELSE IF k < i THEN [jobs[p][k] EXCEPT !.stale = TRUE] ELSE jobs[p][k]]
  BY <1>1 DEF NoteStatus
<1>3. \A q \in Protocols \ {p} : jobs'[q] = jobs[q]
  BY <1>1 DEF NoteStatus
<1>4. QED
  BY <1>1, <1>2, <1>3

\* The tokens of the requests age.
LEMMA AgedIs ==
    ASSUME RegisterTypes, NEW age, AgeTokens(age), NEW p \in Protocols
    PROVE  /\ Len(jobs'[p]) = Running(p)
           /\ \A i \in 1 .. Running(p) :
                /\ jobs[p][i].at # "sent" => jobs'[p][i] = jobs[p][i]
                /\ jobs[p][i].at = "sent" =>
                     jobs'[p][i] = [jobs[p][i] EXCEPT !.msg = [jobs[p][i].msg EXCEPT !.token = age[@]]]
<1>1. Running(p) \in Nat /\ \A i \in 1 .. Running(p) : jobs[p][i] \in Job
  BY JobsAre
<1>2. jobs'[p] = [i \in 1 .. Running(p) |->
                      IF jobs[p][i].at = "sent" THEN [jobs[p][i] EXCEPT !.msg.token = age[@]]
                      ELSE jobs[p][i]]
  BY DEF AgeTokens
<1>3. ASSUME NEW i \in 1 .. Running(p), jobs[p][i].at = "sent"
      PROVE  [jobs[p][i] EXCEPT !.msg.token = age[@]] =
             [jobs[p][i] EXCEPT !.msg = [jobs[p][i].msg EXCEPT !.token = age[@]]]
  BY <1>1, <1>3 DEF Job
<1>4. QED
  BY <1>1, <1>2, <1>3

-----------------------------------------------------------------------------
(* What was told of the master server stays so. *)

\* A server that stays on the list has no older information than before.
SerialsKept == \A s \in DOMAIN servers \cap DOMAIN servers' : servers'[s].serial >= servers[s].serial

LEMMA SerialsAre ==
    ASSUME MasterInv
    PROVE  \A s \in DOMAIN servers : servers[s].serial \in Int
BY DEF MasterInv, MasterTypeOK, ServerInfo

LEMMA AddKeepsSerials ==
    ASSUME MasterInv, NEW a \in Addrs, NEW s \in Secrets, NEW n \in Int, NEW info \in BOOLEAN,
           Add(a, s, n, info)
    PROVE  SerialsKept /\ s \in DOMAIN servers' /\ servers'[s].serial >= n
<1> DEFINE others == Without(IF addresses[a] = s THEN {} ELSE {a})
           newest == IF IsNewer(s, n) THEN n ELSE servers[s].serial
<1>1. servers' = [t \in DOMAIN others \cup {s} |->
                     IF t = s THEN [addrs |-> Joined(a, s), serial |-> newest] ELSE others[t]]
  BY DEF Add, Added
<1>2. \A t \in DOMAIN others : t \in DOMAIN servers /\ others[t].serial = servers[t].serial
  BY DEF Without
<1>3. newest \in Int /\ newest >= n /\ (s \in DOMAIN servers => newest >= servers[s].serial)
  BY SerialsAre DEF IsNewer, IsKnown
<1> HIDE DEF others, newest
<1>4. s \in DOMAIN servers' /\ servers'[s].serial = newest
  BY <1>1
<1>5. ASSUME NEW t \in DOMAIN servers \cap DOMAIN servers', t # s
      PROVE  servers'[t].serial >= servers[t].serial
  <2>1. servers'[t].serial = servers[t].serial
    BY <1>1, <1>2, <1>5
  <2>2. QED
    BY <2>1, SerialsAre
<1>6. QED
  BY <1>3, <1>4, <1>5 DEF SerialsKept

LEMMA UnlistKeepsSerials ==
    ASSUME MasterInv, NEW gone, Unlist(gone)
    PROVE  SerialsKept
<1>1. \A s \in DOMAIN servers' : s \in DOMAIN servers /\ servers'[s].serial = servers[s].serial
  BY DEF Unlist, Without
<1>2. QED
  BY <1>1, SerialsAre DEF SerialsKept

LEMMA SameKeepsSerials == MasterInv /\ UNCHANGED masterVars => SerialsKept
BY SerialsAre DEF masterVars, SerialsKept

\* What holds of the present life still does, unless its server was dropped.
Stays ==
    /\ life' = life /\ (forgotten => forgotten')
    /\ \A n \in Int : Holds(n) /\ ~forgotten' => Holds(n)'

LEMMA DropsStays ==
    ASSUME MasterInv, MasterInv', life' = life, forgotten' = (forgotten \/ Drops), SerialsKept
    PROVE  Stays
<1> SUFFICES ASSUME NEW n \in Int, Holds(n), ~forgotten'
             PROVE  Holds(n)'
  BY DEF Stays
<1>1. life \in DOMAIN servers /\ servers[life].serial >= n
  BY DEF Holds, IsKnown
<1>2. life \in DOMAIN servers'
  BY <1>1 DEF Drops, IsKnown
<1>3. servers'[life].serial >= servers[life].serial
  BY <1>1, <1>2 DEF SerialsKept
<1>4. servers[life].serial \in Int /\ servers'[life].serial \in Int
  BY <1>1, <1>2, SerialsAre DEF MasterInv, MasterTypeOK, ServerInfo
<1>5. QED
  BY <1>1, <1>2, <1>3, <1>4 DEF Holds, IsKnown

LEMMA SameStays == UNCHANGED <<life, forgotten, masterVars>> => Stays
BY DEF masterVars, Stays, Holds, IsKnown

\* Job j is new, or was job k before and says the same.
SameJob(j, k) ==
    /\ j.serial = k.serial
    /\ \/ j.at = "sent" /\ k.at = "sent" /\ j.msg.secret = k.msg.secret /\ j.msg.serial = k.msg.serial
       \/ j.at # "sent" /\ k.at # "sent" /\ j.msg.answer = k.msg.answer
NewJob(j) == j.at = "sent" /\ j.msg.secret = life /\ j.msg.serial = j.serial

\* Job j was just answered.
ToldJob(j) ==
    /\ j.at # "sent"
    /\ j.msg.answer = "success" => life \in DOMAIN servers' /\ servers'[life].serial >= j.serial

LEMMA JobsStaySound ==
    ASSUME RegisterTypes, JobsSound, Stays,
           \A p \in Protocols : \A i \in 1 .. Len(jobs'[p]) :
               \/ NewJob(jobs'[p][i]) \/ ToldJob(jobs'[p][i])
               \/ \E k \in 1 .. Running(p) : SameJob(jobs'[p][i], jobs[p][k])
    PROVE  JobsSound'
<1> SUFFICES ASSUME NEW p \in Protocols, NEW i \in 1 .. Len(jobs'[p])
             PROVE  /\ jobs'[p][i].at = "sent" =>
                           jobs'[p][i].msg.secret = life' /\ jobs'[p][i].msg.serial = jobs'[p][i].serial
                    /\ jobs'[p][i].at # "sent" /\ jobs'[p][i].msg.answer = "success" /\ ~forgotten' =>
                           (life' \in DOMAIN servers' /\ servers'[life'].serial >= jobs'[p][i].serial)
  BY DEF JobsSound, Running, Holds, IsKnown
<1>1. CASE NewJob(jobs'[p][i]) \/ ToldJob(jobs'[p][i])
  BY <1>1 DEF NewJob, ToldJob, Stays
<1>2. ASSUME NEW k \in 1 .. Running(p), SameJob(jobs'[p][i], jobs[p][k])
      PROVE  /\ jobs'[p][i].at = "sent" =>
                    jobs'[p][i].msg.secret = life' /\ jobs'[p][i].msg.serial = jobs'[p][i].serial
             /\ jobs'[p][i].at # "sent" /\ jobs'[p][i].msg.answer = "success" /\ ~forgotten' =>
                    (life' \in DOMAIN servers' /\ servers'[life'].serial >= jobs'[p][i].serial)
  <2>1. jobs[p][k].serial \in Int
    BY JobsAre DEF Job
  <2>2. jobs[p][k].at = "sent" =>
            jobs[p][k].msg.secret = life /\ jobs[p][k].msg.serial = jobs[p][k].serial
    BY DEF JobsSound
  <2>3. jobs[p][k].at # "sent" /\ jobs[p][k].msg.answer = "success" /\ ~forgotten =>
            Holds(jobs[p][k].serial)
    BY DEF JobsSound
  <2>4. Holds(jobs[p][k].serial) /\ ~forgotten' =>
            life' \in DOMAIN servers' /\ servers'[life'].serial >= jobs[p][k].serial
    BY <2>1 DEF Stays, Holds, IsKnown
  <2>5. QED
    BY <1>2, <2>2, <2>3, <2>4 DEF SameJob, Stays
<1>3. QED
  BY <1>1, <1>2

LEMMA OkStaysSound ==
    ASSUME OkSound, Stays, okSerial' = okSerial
    PROVE  OkSound'
BY DEF OkSound, Stays, Holds, IsKnown

LEMMA SendSound ==
    ASSUME RegisterTypes, JobsSound, Stays, NEW S, NEW n, NEW known, SendRegister(S, n, known)
    PROVE  JobsSound'
<1> SUFFICES ASSUME NEW p \in Protocols, NEW i \in 1 .. Len(jobs'[p])
             PROVE  NewJob(jobs'[p][i]) \/ \E k \in 1 .. Running(p) : SameJob(jobs'[p][i], jobs[p][k])
  BY JobsStaySound
<1>1. Running(p) \in Nat /\ \A k \in 1 .. Running(p) : jobs[p][k] \in Job
  BY JobsAre
<1>2. CASE p \notin S
  <2>1. jobs'[p] = jobs[p]
    BY <1>2, SendIs
  <2>2. QED
    BY <1>1, <2>1 DEF SameJob, Running
<1>3. CASE p \in S
  <2>1. /\ Len(jobs'[p]) = Running(p) + 1
        /\ \A k \in 1 .. Running(p) : jobs'[p][k] = [jobs[p][k] EXCEPT !.last = FALSE]
        /\ jobs'[p][Running(p) + 1] =
               [serial |-> n, msg |-> Request(p, n, n > okSerial, known[p].token),
                last |-> TRUE, stale |-> FALSE, at |-> "sent"]
    BY <1>3, SendIs
  <2>2. CASE i = Running(p) + 1
    BY <2>1, <2>2 DEF NewJob, Request
  <2>3. CASE i \in 1 .. Running(p)
    <3>1. jobs'[p][i] = [jobs[p][i] EXCEPT !.last = FALSE] /\ jobs[p][i] \in Job
      BY <1>1, <2>1, <2>3
    <3>2. SameJob(jobs'[p][i], jobs[p][i])
      BY <3>1 DEF SameJob, Job
    <3>3. QED
      BY <2>3, <3>2
  <2>4. QED
    BY <1>1, <2>1, <2>2, <2>3
<1>4. QED
  BY <1>2, <1>3

\* The jobs are as they were, or none.
LEMMA IdleSound ==
    ASSUME RegisterTypes, JobsSound, Stays,
           \A p \in Protocols : jobs'[p] = jobs[p] \/ jobs'[p] = << >>
    PROVE  JobsSound'
<1> SUFFICES ASSUME NEW p \in Protocols, NEW i \in 1 .. Len(jobs'[p])
             PROVE  \E k \in 1 .. Running(p) : SameJob(jobs'[p][i], jobs[p][k])
  BY JobsStaySound
<1>1. jobs'[p] = jobs[p]
  OBVIOUS
<1>2. QED
  BY <1>1, JobsAre DEF SameJob, Running

\* A job of protocol p ends.
LEMMA EndedSound ==
    ASSUME RegisterTypes, JobsSound, Stays, NEW p \in Protocols, NEW i \in 1 .. Running(p),
           jobs' = [jobs EXCEPT ![p] = Ended(p, i)]
    PROVE  JobsSound'
<1> SUFFICES ASSUME NEW q \in Protocols, NEW m \in 1 .. Len(jobs'[q])
             PROVE  \E k \in 1 .. Running(q) : SameJob(jobs'[q][m], jobs[q][k])
  BY JobsStaySound
<1>1. Running(q) \in Nat
  BY JobsAre
<1>2. \E k \in 1 .. Running(q) : jobs'[q][m] = jobs[q][k]
  <2>1. CASE q # p
    BY <2>1, EndedIs DEF Running
  <2>2. CASE q = p
    <3>0. /\ Len(jobs'[p]) = Running(p) - 1
          /\ \A k \in 1 .. Running(p) - 1 : jobs'[p][k] = jobs[p][IF k < i THEN k ELSE k + 1]
      BY EndedIs
    <3>1. m \in 1 .. Running(p) - 1 /\ jobs'[p][m] = jobs[p][IF m < i THEN m ELSE m + 1]
      BY <2>2, <3>0
    <3>2. (IF m < i THEN m ELSE m + 1) \in 1 .. Running(p)
      BY <1>1, <2>2, <3>1
    <3>3. QED
      BY <2>2, <3>1, <3>2
  <2>3. QED
    BY <2>1, <2>2
<1>3. QED
  BY <1>2, JobsAre DEF SameJob

\* The master server's answer.
LEMMA HandleTells ==
    ASSUME MasterInv, MasterInv', NEW r \in Registration, HandleRegister(r), life' = life
    PROVE  /\ Stays
           /\ Answer(r) = "success" => r.secret \in DOMAIN servers' /\ servers'[r.secret].serial >= r.serial
<1>1. r.p \in Addrs /\ r.secret \in Secrets /\ r.serial \in Int /\ r.info \in BOOLEAN
  BY DEF Registration
<1>2. CASE Answer(r) = "success"
  <2>1. Add(r.p, r.secret, r.serial, r.info)
    BY <1>2 DEF HandleRegister
  <2>2. SerialsKept /\ r.secret \in DOMAIN servers' /\ servers'[r.secret].serial >= r.serial
    BY <1>1, <2>1, AddKeepsSerials
  <2>3. QED
    BY <2>2, DropsStays DEF HandleRegister
<1>3. CASE Answer(r) # "success"
  BY <1>3, SameKeepsSerials, DropsStays DEF HandleRegister
<1>4. QED
  BY <1>2, <1>3

LEMMA ArriveSound ==
    ASSUME RegisterTypes, MasterInv, MasterInv', JobsSound, OkSound,
           NEW p \in Protocols, NEW i \in 1 .. Running(p), Arrive(p, i)
    PROVE  JobsSound' /\ OkSound'
<1> DEFINE j == jobs[p][i]
           new == [j EXCEPT !.at = "answered", !.msg = [answer |-> Answer(j.msg)]]
<1>1. j \in Job /\ j.at = "sent" /\ j.msg \in Registration
  BY JobsAre DEF Arrive, Job
<1>2. HandleRegister(j.msg) /\ life' = life /\ okSerial' = okSerial
  BY DEF Arrive
<1>3. /\ Stays
      /\ Answer(j.msg) = "success" =>
             j.msg.secret \in DOMAIN servers' /\ servers'[j.msg.secret].serial >= j.msg.serial
  BY <1>1, <1>2, HandleTells
<1>4. j.msg.secret = life /\ j.msg.serial = j.serial
  BY <1>1 DEF JobsSound
<1>5. /\ \A q \in Protocols \ {p} : jobs'[q] = jobs[q]
      /\ Len(jobs'[p]) = Running(p) /\ jobs'[p][i] = new
      /\ \A k \in 1 .. Running(p) : k # i => jobs'[p][k] = jobs[p][k]
  <2>1. jobs \in [Protocols -> Seq(Job)] /\ jobs[p] \in Seq(Job) /\ i \in DOMAIN jobs[p]
    BY JobsAre DEF RegisterTypes, JobsOK
  <2>2. jobs' = [jobs EXCEPT ![p] = [jobs[p] EXCEPT ![i] = new]]
    BY <2>1 DEF Arrive
  <2>3. QED
    BY <2>1, <2>2 DEF Running
<1>6. ToldJob(new)
  BY <1>1, <1>3, <1>4 DEF ToldJob, Job
<1> HIDE DEF j, new
<1>7. JobsSound'
  <2> SUFFICES ASSUME NEW q \in Protocols, NEW m \in 1 .. Len(jobs'[q])
               PROVE  ToldJob(jobs'[q][m]) \/ \E k \in 1 .. Running(q) : SameJob(jobs'[q][m], jobs[q][k])
    BY <1>3, JobsStaySound
  <2>1. CASE q = p /\ m = i
    BY <1>5, <1>6, <2>1
  <2>2. CASE ~(q = p /\ m = i)
    <3>1. m \in 1 .. Running(q) /\ jobs'[q][m] = jobs[q][m]
      BY <1>5, <2>2 DEF Running
    <3>2. QED
      BY <3>1, JobsAre DEF SameJob
  <2>3. QED
    BY <2>1, <2>2
<1>8. QED
  BY <1>2, <1>3, <1>7, OkStaysSound

\* The end of CJob::Run: an answer is noted, and what it says of the serial.
LEMMA NotesSound ==
    ASSUME RegisterTypes, MasterInv, JobsSound, OkSound,
           NEW p \in Protocols, NEW i \in 1 .. Running(p), NoteStatus(p, i) \/ NoteSerial(p, i)
    PROVE  JobsSound' /\ OkSound'
<1>1. Stays
  BY SameStays DEF NoteStatus, NoteSerial
<1>2. CASE NoteStatus(p, i)
  <2>1. JobsSound'
    <3> SUFFICES ASSUME NEW q \in Protocols, NEW m \in 1 .. Len(jobs'[q])
                 PROVE  \E k \in 1 .. Running(q) : SameJob(jobs'[q][m], jobs[q][k])
      BY <1>1, JobsStaySound
    <3>1. CASE q # p
      <4>1. jobs'[q] = jobs[q]
        BY <1>2, <3>1, NotedIs
      <4>2. m \in 1 .. Running(q) /\ jobs[q][m] \in Job
        BY <4>1, JobsAre DEF Running
      <4>3. SameJob(jobs'[q][m], jobs[q][m])
        BY <4>1, <4>2 DEF SameJob
      <4>4. QED
        BY <4>2, <4>3
    <3>2. CASE q = p
      <4>0. Len(jobs'[p]) = Running(p)
        BY <1>2, NotedIs
      <4>1. m \in 1 .. Running(p) /\ jobs[p][m] \in Job /\ Running(p) \in Nat
        BY <3>2, <4>0, JobsAre
      <4>2. jobs[p][i].at = "answered"
        BY <1>2 DEF NoteStatus
      <4>3. \/ m = i /\ jobs'[p][m] = [jobs[p][m] EXCEPT !.at = "noted"]
            \/ jobs'[p][m] = [jobs[p][m] EXCEPT !.stale = TRUE]
            \/ jobs'[p][m] = jobs[p][m]
        <5>1. /\ jobs'[p][i] = [jobs[p][i] EXCEPT !.at = "noted"]
              /\ \A k \in 1 .. Running(p) :
                   /\ k < i => jobs'[p][k] = [jobs[p][k] EXCEPT !.stale = TRUE]
                   /\ k > i => jobs'[p][k] = jobs[p][k]
          BY <1>2, NotedIs
        <5>2. m = i \/ m < i \/ m > i
          BY <4>1
        <5>3. QED
          BY <4>1, <5>1, <5>2
      <4>4. SameJob(jobs'[p][m], jobs[p][m])
        BY <4>1, <4>2, <4>3 DEF SameJob, Job
      <4>5. QED
        BY <3>2, <4>1, <4>4
    <3>3. QED
      BY <3>1, <3>2
  <2>2. okSerial' = okSerial
    BY <1>2 DEF NoteStatus
  <2>3. QED
    BY <1>1, <2>1, <2>2, OkStaysSound
<1>3. CASE NoteSerial(p, i)
  <2> DEFINE j == jobs[p][i]
  <2>1. j \in Job /\ j.at = "noted" /\ j.serial \in Int /\ j.msg \in Answers
    BY <1>3, JobsAre DEF NoteSerial, Job
  <2>2. JobsSound'
    BY <1>1, <1>3, EndedSound DEF NoteSerial
  <2>3. okSerial \in Int /\ okSerial' = OkSerial(j)
    BY <1>3 DEF NoteSerial, OkSound
  <2>4. UNCHANGED <<life, forgotten, servers>>
    BY <1>3 DEF NoteSerial, masterVars
  <2>5. CASE j.msg.answer = "success" /\ j.serial > okSerial
    <3>1. okSerial' = j.serial
      BY <2>3, <2>5 DEF OkSerial
    <3>2. ~forgotten => Holds(j.serial)
      BY <2>1, <2>5 DEF JobsSound
    <3>3. QED
      BY <2>1, <2>2, <2>4, <3>1, <3>2 DEF OkSound, Holds, IsKnown
  <2>6. CASE ~(j.msg.answer = "success" /\ j.serial > okSerial)
    <3>1. okSerial' = okSerial \/ okSerial' = okSerial - 1
      BY <2>3, <2>6 DEF OkSerial
    <3>2. okSerial' \in Int /\ (okSerial' >= 0 => okSerial >= 0)
      BY <2>3, <3>1
    <3>3. okSerial' >= 0 /\ ~forgotten => life \in DOMAIN servers /\ servers[life].serial >= okSerial
      BY <3>2 DEF OkSound, Holds, IsKnown
    <3>4. life \in DOMAIN servers => (servers[life].serial >= okSerial => servers[life].serial >= okSerial')
      BY <2>3, <3>1, SerialsAre
    <3>5. QED
      BY <2>2, <2>4, <3>2, <3>3, <3>4 DEF OkSound, Holds, IsKnown
  <2>7. QED
    BY <2>5, <2>6
<1>4. QED
  BY <1>2, <1>3

\* The seed changes: the tokens of the requests are worth less.
LEMMA AgeSound ==
    ASSUME RegisterTypes, JobsSound, OkSound, Stays, NEW age, AgeTokens(age)
    PROVE  JobsSound' /\ OkSound'
<1>1. JobsSound'
  <2> SUFFICES ASSUME NEW p \in Protocols, NEW i \in 1 .. Len(jobs'[p])
               PROVE  \E k \in 1 .. Running(p) : SameJob(jobs'[p][i], jobs[p][k])
    BY JobsStaySound
  <2>1. Len(jobs'[p]) = Running(p)
    BY AgedIs
  <2>2. i \in 1 .. Running(p) /\ jobs[p][i] \in Job
    BY <2>1, JobsAre
  <2>3. CASE jobs[p][i].at # "sent"
    <3>1. jobs'[p][i] = jobs[p][i]
      BY <2>2, <2>3, AgedIs
    <3>2. SameJob(jobs'[p][i], jobs[p][i])
      BY <2>3, <3>1 DEF SameJob
    <3>3. QED
      BY <2>2, <3>2
  <2>4. CASE jobs[p][i].at = "sent"
    <3> DEFINE msg == [jobs[p][i].msg EXCEPT !.token = age[@]]
    <3>1. jobs'[p][i] = [jobs[p][i] EXCEPT !.msg = msg]
      BY <2>2, <2>4, AgedIs
    <3>2. jobs[p][i].msg \in Registration
      BY <2>2, <2>4 DEF Job
    <3>3. msg.secret = jobs[p][i].msg.secret /\ msg.serial = jobs[p][i].msg.serial
      BY <3>2 DEF Registration
    <3> HIDE DEF msg
    <3>4. /\ jobs'[p][i].serial = jobs[p][i].serial /\ jobs'[p][i].at = "sent"
          /\ jobs'[p][i].msg = msg
      BY <2>2, <2>4, <3>1 DEF Job
    <3>5. SameJob(jobs'[p][i], jobs[p][i])
      BY <2>4, <3>3, <3>4 DEF SameJob
    <3>6. QED
      BY <2>2, <3>5
  <2>5. QED
    BY <2>3, <2>4
<1>2. QED
  BY <1>1, OkStaysSound DEF AgeTokens

\* The main thread changes nothing that an answer told it.
LEMMA MainSound ==
    ASSUME RegisterTypes, JobsSound, OkSound,
           \/ \E S \in SUBSET Protocols : Update(S)
           \/ OnNewInfo
           \/ \E on \in SUBSET plan.offered : OnConfigChange(on)
           \/ \E p \in Protocols : OnToken(p)
           \/ OnShutdown
           \/ Crash
    PROVE  JobsSound' /\ OkSound'
<1>1. ASSUME UNCHANGED <<life, forgotten, masterVars, okSerial>>,
             \/ \E S, n, known : SendRegister(S, n, known)
             \/ \A p \in Protocols : jobs'[p] = jobs[p] \/ jobs'[p] = << >>
      PROVE  JobsSound' /\ OkSound'
  <2>1. Stays
    BY <1>1, SameStays
  <2>2. QED
    BY <1>1, <2>1, SendSound, IdleSound, OkStaysSound
<1>2. CASE \E S \in SUBSET Protocols : Update(S)
  BY <1>1, <1>2 DEF Update
<1>3. CASE OnNewInfo
  BY <1>1, <1>3 DEF OnNewInfo
<1>4. CASE \E on \in SUBSET plan.offered : OnConfigChange(on)
  BY <1>1, <1>4 DEF OnConfigChange
<1>5. CASE \E p \in Protocols : OnToken(p)
  <2>1. UNCHANGED <<life, forgotten, masterVars, okSerial>>
    BY <1>5 DEF OnToken
  <2>2. (\E S, n, known : SendRegister(S, n, known)) \/ jobs' = jobs
    BY <1>5 DEF OnToken
  <2>3. QED
    BY <1>1, <2>1, <2>2
<1>6. CASE OnShutdown
  BY <1>1, <1>6 DEF OnShutdown
<1>7. CASE Crash
  BY <1>7 DEF Crash, JobsSound, OkSound, Running
<1>8. QED
  BY <1>2, <1>3, <1>4, <1>5, <1>6, <1>7

\* The steps of a job.
LEMMA JobSound ==
    ASSUME RegisterTypes, MasterInv, MasterInv', JobsSound, OkSound, NEW p \in Protocols, JobStep(p)
    PROVE  JobsSound' /\ OkSound'
<1> PICK i \in 1 .. Running(p) : Arrive(p, i) \/ Fail(p, i) \/ NoteStatus(p, i) \/ NoteSerial(p, i)
  BY DEF JobStep
<1>1. CASE Fail(p, i)
  <2>1. Stays
    BY <1>1, SameStays DEF Fail
  <2>2. JobsSound'
    BY <1>1, <2>1, EndedSound DEF Fail
  <2>3. QED
    BY <1>1, <2>1, <2>2, OkStaysSound DEF Fail
<1>2. QED
  BY <1>1, ArriveSound, NotesSound

\* The steps of the network and of the master server.
LEMMA OthersSound ==
    ASSUME RegisterTypes, MasterInv, MasterInv', JobsSound, OkSound,
           \/ \E r \in wire : ArriveLate(r) \/ Lose(r)
           \/ \E p \in Protocols : LosePacket(p)
           \/ \E gone \in SUBSET Addrs : Prune(gone)
           \/ Reseed
           \/ MasterRestart
           \/ UNCHANGED vars
    PROVE  JobsSound' /\ OkSound'
<1>1. ASSUME Stays, UNCHANGED serverVars
      PROVE  JobsSound' /\ OkSound'
  BY <1>1, IdleSound, OkStaysSound DEF serverVars
<1>2. ASSUME NEW r \in wire, ArriveLate(r)
      PROVE  JobsSound' /\ OkSound'
  <2>1. UNCHANGED serverVars /\ life' = life
    BY <1>2 DEF ArriveLate, serverVars
  <2>2. CASE ~IsDeletion(r)
    <3>1. r \in Registration
      BY <2>2 DEF IsDeletion, Deletions, RegisterTypes, WireOK
    <3>2. Stays
      BY <1>2, <2>1, <2>2, <3>1, HandleTells DEF ArriveLate
    <3>3. QED
      BY <1>1, <2>1, <3>2
  <2>3. CASE IsDeletion(r)
    <3>1. forgotten' = (forgotten \/ Drops) /\ (Unlist({r.p}) \/ UNCHANGED masterVars)
      BY <1>2, <2>3 DEF ArriveLate, Remove
    <3>2. SerialsKept
      BY <3>1, UnlistKeepsSerials, SameKeepsSerials
    <3>3. QED
      BY <1>1, <2>1, <3>1, <3>2, DropsStays
  <2>4. QED
    BY <2>2, <2>3
<1>3. CASE \/ \E r \in wire : Lose(r)
           \/ \E p \in Protocols : LosePacket(p)
           \/ UNCHANGED vars
  <2>1. UNCHANGED <<serverVars, forgotten, masterVars>>
    BY <1>3 DEF Lose, LosePacket, vars
  <2>2. QED
    BY <1>1, <2>1, SameStays DEF serverVars
<1>4. ASSUME NEW gone \in SUBSET Addrs, Prune(gone)
      PROVE  JobsSound' /\ OkSound'
  <2>1. UNCHANGED serverVars /\ life' = life /\ forgotten' = (forgotten \/ Drops) /\ Unlist(gone)
    BY <1>4 DEF Prune, PruneBefore, serverVars
  <2>2. QED
    BY <1>1, <2>1, UnlistKeepsSerials, DropsStays
<1>5. CASE Reseed
  <2>1. Stays
    BY <1>5, SameStays DEF Reseed, AgeTokens
  <2>2. QED
    BY <1>5, <2>1, AgeSound DEF Reseed
<1>6. CASE MasterRestart
  <2>1. Stays
    BY <1>6 DEF MasterRestart, AgeTokens, Stays
  <2>2. QED
    BY <1>6, <2>1, AgeSound DEF MasterRestart
<1>7. QED
  BY <1>2, <1>3, <1>4, <1>5, <1>6

\* What the game server was told holds as long as its server is not dropped.
LEMMA SoundStep ==
    ASSUME RegisterTypes, MasterInv, MasterInv', JobsSound, OkSound, [Next]_vars
    PROVE  JobsSound' /\ OkSound'
<1>1. CASE \/ \E S \in SUBSET Protocols : Update(S)
           \/ OnNewInfo
           \/ \E on \in SUBSET plan.offered : OnConfigChange(on)
           \/ \E p \in Protocols : OnToken(p)
           \/ OnShutdown
           \/ Crash
  BY <1>1, MainSound
<1>2. CASE \E p \in Protocols : JobStep(p)
  BY <1>2, JobSound
<1>3. CASE \/ \E r \in wire : ArriveLate(r) \/ Lose(r)
           \/ \E p \in Protocols : LosePacket(p)
           \/ \E gone \in SUBSET Addrs : Prune(gone)
           \/ Reseed
           \/ MasterRestart
           \/ UNCHANGED vars
  BY <1>3, OthersSound
<1>4. QED
  BY <1>1, <1>2, <1>3 DEF Next

-----------------------------------------------------------------------------
(* No answer that comes late takes back a success. *)

\* A protocol is settled as long as its jobs keep their places.
LEMMA SamePlaceSettled ==
    ASSUME NEW p \in Protocols, Settled(p), p \in accepted' => p \in accepted,
           Len(jobs'[p]) = Running(p),
           \A i \in 1 .. Running(p) :
               /\ jobs'[p][i].last => jobs[p][i].last
               /\ jobs'[p][i].stale = jobs[p][i].stale
               /\ jobs'[p][i].at # "noted" => jobs[p][i].at # "noted"
    PROVE  Settled(p)'
BY DEF Settled, Running

LEMMA IdleSettled ==
    ASSUME NEW p \in Protocols, Settled(p), p \in accepted' => p \in accepted,
           jobs'[p] = jobs[p] \/ jobs'[p] = << >>
    PROVE  Settled(p)'
<1>1. CASE jobs'[p] = jobs[p]
  BY <1>1, SamePlaceSettled DEF Running
<1>2. CASE jobs'[p] = << >>
  BY <1>2 DEF Settled, Running
<1>3. QED
  BY <1>1, <1>2

\* A new request overtakes the others, and its protocol waits for its answer.
LEMMA SendAccepts ==
    ASSUME RegisterTypes, AcceptedOK, NEW S, NEW n, NEW known, SendRegister(S, n, known),
           \A p \in (accepted \ S) \cap enabled' : p \in enabled /\ known[p].status = proto[p].status
    PROVE  AcceptedOK'
<1>1. accepted' = accepted \ S
  BY DEF SendRegister
<1>2. ASSUME NEW p \in Protocols
      PROVE  Settled(p)'
  <2>1. CASE p \notin S
    BY <1>1, <2>1, SendIs, IdleSettled DEF AcceptedOK
  <2>2. CASE p \in S
    <3> DEFINE new == [serial |-> n, msg |-> Request(p, n, n > okSerial, known[p].token),
                       last |-> TRUE, stale |-> FALSE, at |-> "sent"]
    <3>1. /\ Len(jobs'[p]) = Running(p) + 1
          /\ \A k \in 1 .. Running(p) : jobs'[p][k] = [jobs[p][k] EXCEPT !.last = FALSE]
          /\ jobs'[p][Running(p) + 1] = new
      BY <2>2, SendIs
    <3>2. Running(p) \in Nat /\ \A k \in 1 .. Running(p) : jobs[p][k] \in Job
      BY JobsAre
    <3>3. ASSUME NEW k \in 1 .. Running(p)
          PROVE  ~jobs'[p][k].last
      BY <3>1, <3>2 DEF Job
    <3>4. new.last /\ ~new.stale
      OBVIOUS
    <3> HIDE DEF new
    <3>5. p \notin accepted'
      BY <1>1, <2>2
    <3>6. ASSUME NEW k \in 1 .. Len(jobs'[p])
          PROVE  jobs'[p][k].last => k = Len(jobs'[p]) /\ ~jobs'[p][k].stale
      <4>1. k = Running(p) + 1 \/ k \in 1 .. Running(p)
        BY <3>1, <3>2
      <4>2. QED
        BY <3>1, <3>3, <3>4, <4>1
    <3>7. QED
      BY <3>5, <3>6 DEF Settled, Running
  <2>3. QED
    BY <2>1, <2>2
<1>3. ASSUME NEW p \in accepted' \cap enabled'
      PROVE  proto'[p].status = "success"
  <2>1. p \in accepted /\ p \notin S /\ p \in Protocols
    BY <1>1 DEF AcceptedOK
  <2>2. p \in enabled /\ known[p].status = proto[p].status
    BY <2>1
  <2>3. proto'[p] = known[p]
    BY <2>1 DEF SendRegister
  <2>4. QED
    BY <2>1, <2>2, <2>3 DEF AcceptedOK
<1>4. QED
  BY <1>1, <1>2, <1>3 DEF AcceptedOK

\* A job of protocol p ends: the last one, if it is left, is the last one.
LEMMA EndedAccepts ==
    ASSUME RegisterTypes, AcceptedOK, NEW p \in Protocols, NEW i \in 1 .. Running(p),
           jobs' = [jobs EXCEPT ![p] = Ended(p, i)], UNCHANGED <<accepted, enabled, proto>>
    PROVE  AcceptedOK'
<1>1. ASSUME NEW q \in Protocols
      PROVE  Settled(q)'
  <2>1. CASE q # p
    BY <2>1, EndedIs, IdleSettled DEF AcceptedOK
  <2>2. CASE q = p
    <3>1. /\ Len(jobs'[p]) = Running(p) - 1
          /\ \A k \in 1 .. Running(p) - 1 : jobs'[p][k] = jobs[p][IF k < i THEN k ELSE k + 1]
      BY EndedIs
    <3>2. Running(p) \in Nat
      BY JobsAre
    <3>3. ASSUME NEW k \in 1 .. Running(p) - 1
          PROVE  /\ jobs'[p][k].last => k = Running(p) - 1 /\ ~jobs'[p][k].stale
                 /\ p \in accepted /\ jobs'[p][k].at # "noted" => jobs'[p][k].stale
      <4> DEFINE old == IF k < i THEN k ELSE k + 1
      <4>1. old \in 1 .. Running(p) /\ (old = Running(p) => k = Running(p) - 1)
        BY <3>2
      <4>2. jobs'[p][k] = jobs[p][old]
        BY <3>1
      <4>3. /\ jobs[p][old].last => old = Running(p) /\ ~jobs[p][old].stale
            /\ p \in accepted /\ jobs[p][old].at # "noted" => jobs[p][old].stale
        BY <4>1 DEF AcceptedOK, Settled
      <4>4. QED
        BY <4>1, <4>2, <4>3
    <3>4. QED
      BY <2>2, <3>1, <3>3 DEF Settled, Running
  <2>3. QED
    BY <2>1, <2>2
<1>2. QED
  BY <1>1 DEF AcceptedOK

\* The jobs keep their places, or there are none; no success is added.
LEMMA StillAccepts ==
    ASSUME AcceptedOK, accepted' = accepted, enabled' = enabled,
           \A p \in Protocols : proto'[p].status = proto[p].status,
           \A p \in Protocols : Settled(p)'
    PROVE  AcceptedOK'
BY DEF AcceptedOK

LEMMA ArriveAccepts ==
    ASSUME RegisterTypes, AcceptedOK, NEW p \in Protocols, NEW i \in 1 .. Running(p), Arrive(p, i)
    PROVE  AcceptedOK'
<1> DEFINE j == jobs[p][i]
           new == [j EXCEPT !.at = "answered", !.msg = [answer |-> Answer(j.msg)]]
<1>1. j \in Job /\ j.at = "sent"
  BY JobsAre DEF Arrive
<1>2. new.last = j.last /\ new.stale = j.stale /\ new.at # "noted"
  BY <1>1 DEF Job
<1>3. /\ \A q \in Protocols \ {p} : jobs'[q] = jobs[q]
      /\ Len(jobs'[p]) = Running(p) /\ jobs'[p][i] = new
      /\ \A k \in 1 .. Running(p) : k # i => jobs'[p][k] = jobs[p][k]
  <2>1. jobs \in [Protocols -> Seq(Job)] /\ jobs[p] \in Seq(Job) /\ i \in DOMAIN jobs[p]
    BY JobsAre DEF RegisterTypes, JobsOK
  <2>2. jobs' = [jobs EXCEPT ![p] = [jobs[p] EXCEPT ![i] = new]]
    BY <2>1 DEF Arrive
  <2>3. QED
    BY <2>1, <2>2 DEF Running
<1>4. UNCHANGED <<accepted, enabled, proto>>
  BY DEF Arrive
<1> HIDE DEF new
<1>5. ASSUME NEW q \in Protocols
      PROVE  Settled(q)'
  <2>1. CASE q # p
    BY <1>3, <1>4, <2>1, IdleSettled DEF AcceptedOK
  <2>2. CASE q = p
    <3>1. ASSUME NEW k \in 1 .. Running(p)
          PROVE  /\ jobs'[p][k].last => jobs[p][k].last
                 /\ jobs'[p][k].stale = jobs[p][k].stale
                 /\ jobs'[p][k].at # "noted" => jobs[p][k].at # "noted"
      <4>1. CASE k = i
        BY <1>1, <1>2, <1>3, <4>1
      <4>2. CASE k # i
        BY <1>3, <4>2
      <4>3. QED
        BY <4>1, <4>2
    <3>2. QED
      BY <1>3, <1>4, <2>2, <3>1, SamePlaceSettled DEF AcceptedOK
  <2>3. QED
    BY <2>1, <2>2
<1>6. QED
  BY <1>4, <1>5, StillAccepts

\* An answer counts only if none of a later request was noted: the answer to
\* the last request is the one that stays.
LEMMA NotedAccepts ==
    ASSUME RegisterTypes, AcceptedOK, NEW p \in Protocols, NEW i \in 1 .. Running(p), NoteStatus(p, i)
    PROVE  AcceptedOK'
<1> DEFINE j == jobs[p][i]
<1>1. j \in Job /\ j.at = "answered" /\ Running(p) \in Nat
  BY JobsAre DEF NoteStatus
<1>2. /\ j.last => i = Running(p) /\ ~j.stale
      /\ p \in accepted => j.stale
  BY <1>1 DEF AcceptedOK, Settled
<1>3. /\ \A q \in Protocols \ {p} : jobs'[q] = jobs[q]
      /\ Len(jobs'[p]) = Running(p)
      /\ jobs'[p][i] = [j EXCEPT !.at = "noted"]
      /\ \A k \in 1 .. Running(p) :
           /\ k < i => jobs'[p][k] = [jobs[p][k] EXCEPT !.stale = TRUE]
           /\ k > i => jobs'[p][k] = jobs[p][k]
  BY NotedIs
<1>4. accepted' = (IF j.last /\ j.msg.answer = "success" THEN accepted \cup {p} ELSE accepted)
  BY DEF NoteStatus
<1>5. ASSUME NEW q \in Protocols
      PROVE  Settled(q)'
  <2>1. CASE q # p
    BY <1>3, <1>4, <2>1, IdleSettled DEF AcceptedOK
  <2>2. CASE q = p
    <3>1. ASSUME NEW k \in 1 .. Running(p)
          PROVE  /\ jobs'[p][k].last => k = Running(p) /\ ~jobs'[p][k].stale
                 /\ p \in accepted' /\ jobs'[p][k].at # "noted" => jobs'[p][k].stale
      <4>1. jobs[p][k] \in Job
        BY JobsAre
      <4>2. /\ jobs[p][k].last => k = Running(p) /\ ~jobs[p][k].stale
            /\ p \in accepted /\ jobs[p][k].at # "noted" => jobs[p][k].stale
        BY DEF AcceptedOK, Settled
      <4>3. CASE k = i
        <5>1. jobs'[p][k].last = j.last /\ jobs'[p][k].stale = j.stale /\ jobs'[p][k].at = "noted"
          BY <1>1, <1>3, <4>3 DEF Job
        <5>2. QED
          BY <4>2, <4>3, <5>1
      <4>4. CASE k < i
        <5>1. jobs'[p][k].last = jobs[p][k].last /\ jobs'[p][k].stale
          BY <1>3, <4>1, <4>4 DEF Job
        <5>2. k # Running(p)
          BY <1>1, <4>4
        <5>3. QED
          BY <4>2, <5>1, <5>2
      <4>5. CASE k > i
        <5>1. jobs'[p][k] = jobs[p][k]
          BY <1>3, <4>5
        <5>2. i # Running(p)
          BY <1>1, <4>5
        <5>3. accepted' = accepted
          BY <1>2, <1>4, <5>2
        <5>4. QED
          BY <4>2, <5>1, <5>3
      <4>6. QED
        BY <4>3, <4>4, <4>5
    <3>2. QED
      BY <1>3, <2>2, <3>1 DEF Settled, Running
  <2>3. QED
    BY <2>1, <2>2
<1>6. ASSUME NEW q \in accepted' \cap enabled'
      PROVE  proto'[q].status = "success"
  <2>1. proto \in [Protocols -> Knowledge] /\ enabled' = enabled /\ q \in Protocols
    BY <1>4 DEF RegisterTypes, AcceptedOK, NoteStatus
  <2>2. CASE q # p
    <3>1. proto'[q] = proto[q]
      BY <2>1, <2>2 DEF NoteStatus
    <3>2. QED
      BY <1>4, <2>1, <2>2, <3>1 DEF AcceptedOK
  <2>3. CASE q = p /\ j.stale
    <3>1. proto' = proto /\ ~j.last
      BY <1>2, <2>3 DEF NoteStatus
    <3>2. QED
      BY <1>4, <2>1, <3>1 DEF AcceptedOK
  <2>4. CASE q = p /\ ~j.stale
    <3>1. p \notin accepted
      BY <1>2, <2>4
    <3>2. j.msg.answer = "success"
      BY <1>4, <2>4, <3>1
    <3>3. proto' = [proto EXCEPT ![p].status = j.msg.answer, ![p].answered = j.last]
      BY <2>4 DEF NoteStatus
    <3>4. proto'[p].status = j.msg.answer
      BY <2>1, <3>3 DEF Knowledge
    <3>5. QED
      BY <2>4, <3>2, <3>4
  <2>5. QED
    BY <2>2, <2>3, <2>4
<1>7. QED
  BY <1>4, <1>5, <1>6 DEF AcceptedOK

LEMMA AgeAccepts ==
    ASSUME RegisterTypes, AcceptedOK, NEW age, AgeTokens(age)
    PROVE  AcceptedOK'
<1>1. ASSUME NEW p \in Protocols
      PROVE  Settled(p)'
  <2>1. Len(jobs'[p]) = Running(p)
    BY AgedIs
  <2>2. ASSUME NEW i \in 1 .. Running(p)
        PROVE  /\ jobs'[p][i].last = jobs[p][i].last
               /\ jobs'[p][i].stale = jobs[p][i].stale
               /\ jobs'[p][i].at = jobs[p][i].at
    <3>1. jobs[p][i] \in Job
      BY JobsAre
    <3>2. CASE jobs[p][i].at # "sent"
      BY <3>2, AgedIs
    <3>3. CASE jobs[p][i].at = "sent"
      <4> DEFINE msg == [jobs[p][i].msg EXCEPT !.token = age[@]]
      <4>1. jobs'[p][i] = [jobs[p][i] EXCEPT !.msg = msg]
        BY <3>3, AgedIs
      <4> HIDE DEF msg
      <4>2. QED
        BY <3>1, <4>1 DEF Job
    <3>4. QED
      BY <3>2, <3>3
  <2>3. QED
    BY <2>1, <2>2, SamePlaceSettled DEF AcceptedOK, AgeTokens
<1>2. \A p \in Protocols : proto'[p].status = proto[p].status
  BY DEF AgeTokens, RegisterTypes, Knowledge
<1>3. QED
  BY <1>1, <1>2, StillAccepts DEF AgeTokens

LEMMA MainAccepts ==
    ASSUME RegisterTypes, AcceptedOK,
           \/ \E S \in SUBSET Protocols : Update(S)
           \/ OnNewInfo
           \/ \E on \in SUBSET plan.offered : OnConfigChange(on)
           \/ \E p \in Protocols : OnToken(p)
    PROVE  AcceptedOK'
<1>0. accepted \subseteq Protocols /\ proto \in [Protocols -> Knowledge]
  BY DEF AcceptedOK, RegisterTypes
<1>1. ASSUME NEW S \in SUBSET Protocols, Update(S)
      PROVE  AcceptedOK'
  BY <1>1, SendAccepts DEF Update
<1>2. CASE OnNewInfo
  BY <1>2, SendAccepts DEF OnNewInfo
<1>3. ASSUME NEW on \in SUBSET plan.offered, OnConfigChange(on)
      PROVE  AcceptedOK'
  <2> DEFINE known == Unregistered(enabled \ on, proto)
  <2>1. SendRegister(on \ enabled, serial, known) /\ enabled' = on
    BY <1>3 DEF OnConfigChange
  <2>2. \A p \in (accepted \ (on \ enabled)) \cap enabled' :
            p \in enabled /\ known[p].status = proto[p].status
    BY <1>0, <2>1 DEF Unregistered
  <2> HIDE DEF known
  <2>3. QED
    BY <2>1, <2>2, SendAccepts
<1>4. ASSUME NEW p \in Protocols, OnToken(p)
      PROVE  AcceptedOK'
  <2>1. PICK tok \in packets[p] :
            LET known == [proto EXCEPT ![p].token = tok, ![p].newToken = TRUE]
            IN /\ SendRegister({p}, serial, known) \/ (proto' = known /\ UNCHANGED <<jobs, accepted>>)
               /\ enabled' = enabled
    BY <1>4 DEF OnToken
  <2> DEFINE known == [proto EXCEPT ![p].token = tok, ![p].newToken = TRUE]
  <2>2. \A q \in Protocols : known[q].status = proto[q].status
    BY <1>0 DEF Knowledge
  <2> HIDE DEF known
  <2>3. CASE SendRegister({p}, serial, known)
    BY <1>0, <2>1, <2>2, <2>3, SendAccepts
  <2>4. CASE proto' = known /\ UNCHANGED <<jobs, accepted>>
    <3>1. \A q \in Protocols : Settled(q)'
      BY <2>4, IdleSettled DEF AcceptedOK
    <3>2. QED
      BY <2>1, <2>2, <2>4, <3>1, StillAccepts
  <2>5. QED
    BY <2>1, <2>3, <2>4 DEF known
<1>5. QED
  BY <1>1, <1>2, <1>3, <1>4

\* A protocol that counts as registered is: whatever order the answers to its
\* requests come in.
LEMMA AcceptStep ==
    ASSUME RegisterTypes, AcceptedOK, [Next]_vars
    PROVE  AcceptedOK'
<1>1. CASE \/ \E S \in SUBSET Protocols : Update(S)
           \/ OnNewInfo
           \/ \E on \in SUBSET plan.offered : OnConfigChange(on)
           \/ \E p \in Protocols : OnToken(p)
  BY <1>1, MainAccepts
<1>2. CASE OnShutdown \/ Crash
  BY <1>2 DEF OnShutdown, Crash, AcceptedOK, Settled, Running
<1>3. ASSUME NEW p \in Protocols, JobStep(p)
      PROVE  AcceptedOK'
  <2> PICK i \in 1 .. Running(p) : Arrive(p, i) \/ Fail(p, i) \/ NoteStatus(p, i) \/ NoteSerial(p, i)
    BY <1>3 DEF JobStep
  <2>1. CASE Fail(p, i) \/ NoteSerial(p, i)
    BY <2>1, EndedAccepts DEF Fail, NoteSerial
  <2>2. QED
    BY <2>1, ArriveAccepts, NotedAccepts
<1>4. CASE Reseed \/ MasterRestart
  BY <1>4, AgeAccepts DEF Reseed, MasterRestart
<1>5. CASE \/ \E r \in wire : ArriveLate(r) \/ Lose(r)
           \/ \E p \in Protocols : LosePacket(p)
           \/ \E gone \in SUBSET Addrs : Prune(gone)
           \/ UNCHANGED vars
  <2>1. UNCHANGED <<serverVars, accepted>>
    BY <1>5 DEF ArriveLate, Lose, LosePacket, Prune, vars
  <2>2. \A p \in Protocols : Settled(p)'
    BY <2>1, IdleSettled DEF AcceptedOK, serverVars
  <2>3. QED
    BY <2>1, <2>2, StillAccepts DEF serverVars
<1>6. QED
  BY <1>1, <1>2, <1>3, <1>4, <1>5 DEF Next

-----------------------------------------------------------------------------
(* What is under way is bounded. *)

\* An image of a finite set is finite, and no larger.
LEMMA ImageIsSmaller ==
    ASSUME NEW S, IsFiniteSet(S), NEW T, NEW f \in [S -> T], \A y \in T : \E x \in S : f[x] = y
    PROVE  IsFiniteSet(T) /\ Cardinality(T) <= Cardinality(S)
<1>1. f \in Surjection(S, T)
  BY DEF Surjection
<1>2. QED
  BY <1>1, FS_Surjection

\* There is one deletion of this life for each protocol.
LEMMA OwnIsSmall == IsFiniteSet(Own) /\ Cardinality(Own) <= Cardinality(Protocols)
<1> DEFINE f == [p \in Protocols |-> Deletion(p)]
<1>1. f \in [Protocols -> Own] /\ \A y \in Own : \E x \in Protocols : f[x] = y
  BY DEF Own
<1>2. IsFiniteSet(Protocols)
  BY BoundsAssumption DEF Protocols
<1> HIDE DEF f
<1>3. QED
  BY <1>1, <1>2, ImageIsSmaller

\* Only so many requests wait for their arrival.
LEMMA UnarrivedFinite ==
    ASSUME RegisterTypes
    PROVE  IsFiniteSet(Unarrived)
<1> DEFINE Of(p) == {jobs[p][i].msg : i \in Sent(p)}
           All == {Of(p) : p \in Protocols}
<1>1. ASSUME NEW p \in Protocols
      PROVE  IsFiniteSet(Of(p))
  <2>1. IsFiniteSet(Sent(p))
    <3>1. IsFiniteSet(1 .. Running(p))
      BY JobsAre, FS_Interval
    <3>2. QED
      BY <3>1, FS_Subset DEF Sent
  <2> DEFINE f == [i \in Sent(p) |-> jobs[p][i].msg]
  <2>2. f \in [Sent(p) -> Of(p)] /\ \A y \in Of(p) : \E x \in Sent(p) : f[x] = y
    OBVIOUS
  <2> HIDE DEF f, Of
  <2>3. QED
    BY <2>1, <2>2, ImageIsSmaller
<1>2. IsFiniteSet(All)
  <2> DEFINE f == [p \in Protocols |-> Of(p)]
  <2>1. f \in [Protocols -> All] /\ \A y \in All : \E x \in Protocols : f[x] = y
    OBVIOUS
  <2>2. IsFiniteSet(Protocols)
    BY BoundsAssumption DEF Protocols
  <2> HIDE DEF f, All
  <2>3. QED
    BY <2>1, <2>2, ImageIsSmaller
<1>3. Unarrived = UNION All
  BY DEF Unarrived
<1>4. \A T \in All : IsFiniteSet(T)
  BY <1>1
<1> HIDE DEF All, Of
<1>5. QED
  BY <1>2, <1>3, <1>4, FS_UNION

\* Nothing is added but deletions of this life.
LEMMA LessOnWire ==
    ASSUME WireBounded, IsFiniteSet(wire'), life' = life, wire' \ Own \subseteq wire
    PROVE  Cardinality(wire' \ Own') <= MaxWire
<1>1. Own' = Own
  BY DEF Own, Deletion
<1>2. wire' \ Own \in SUBSET (wire \ Own) /\ IsFiniteSet(wire \ Own)
  BY FS_Subset DEF WireBounded
<1>3. Cardinality(wire' \ Own) <= Cardinality(wire \ Own) /\ Cardinality(wire \ Own) \in Nat
  BY <1>2, FS_Subset, FS_CardinalityType
<1>4. Cardinality(wire' \ Own) \in Nat
  BY <1>2, FS_Subset, FS_CardinalityType
<1>5. QED
  BY <1>1, <1>3, <1>4, BoundsAssumption DEF WireBounded

\* The requests of a life that ends stay within the bound.
LEMMA LateBounded ==
    ASSUME RegisterTypes, WireBounded, NEW late \in SUBSET Unarrived, NEW W,
           Cardinality(wire \cup late) <= MaxWire, W \subseteq wire \cup late
    PROVE  IsFiniteSet(wire \cup late) /\ IsFiniteSet(W) /\ Cardinality(W) <= MaxWire
<1>1. IsFiniteSet(late)
  BY UnarrivedFinite, FS_Subset
<1>2. IsFiniteSet(wire \cup late)
  BY <1>1, FS_Union DEF WireBounded
<1>3. IsFiniteSet(W) /\ Cardinality(W) <= Cardinality(wire \cup late)
  BY <1>2, FS_Subset
<1>4. Cardinality(W) \in Nat /\ Cardinality(wire \cup late) \in Nat
  BY <1>2, <1>3, FS_CardinalityType
<1>5. QED
  BY <1>2, <1>3, <1>4, BoundsAssumption

\* A new seed makes no more of the requests.
LEMMA AgedWire ==
    ASSUME RegisterTypes, WireBounded, NEW age, AgeTokens(age)
    PROVE  IsFiniteSet(wire') /\ Cardinality(wire' \ Own') <= MaxWire
<1> DEFINE g == [r \in wire |-> IF IsDeletion(r) THEN r ELSE [r EXCEPT !.token = age[@]]]
           rest == wire \ Own
           h == [r \in rest |-> g[r]]
           T == {g[r] : r \in rest}
<1>1. wire' = {g[r] : r \in wire} /\ life' = life
  BY DEF AgeTokens
<1>2. \A r \in wire \cap Own : g[r] = r
  BY DEF Own, Deletion, IsDeletion
<1>3. Own' = Own
  BY <1>1 DEF Own, Deletion
<1> HIDE DEF g
<1>4. IsFiniteSet(wire')
  <2>1. g \in [wire -> wire'] /\ \A y \in wire' : \E x \in wire : g[x] = y
    BY <1>1 DEF g
  <2>2. QED
    BY <2>1, ImageIsSmaller DEF WireBounded
<1>5. IsFiniteSet(rest) /\ Cardinality(rest) <= MaxWire
  BY FS_Subset DEF WireBounded
<1>6. IsFiniteSet(T) /\ Cardinality(T) <= Cardinality(rest)
  <2>1. h \in [rest -> T] /\ \A y \in T : \E x \in rest : h[x] = y
    OBVIOUS
  <2> HIDE DEF h, T, rest
  <2>2. QED
    BY <1>5, <2>1, ImageIsSmaller
<1>7. wire' \ Own' \in SUBSET T
  BY <1>1, <1>2, <1>3
<1> HIDE DEF T, rest
<1>8. Cardinality(wire' \ Own') <= Cardinality(T) /\ IsFiniteSet(wire' \ Own')
  BY <1>6, <1>7, FS_Subset
<1>9. Cardinality(wire' \ Own') \in Nat /\ Cardinality(T) \in Nat /\ Cardinality(rest) \in Nat
  BY <1>5, <1>6, <1>8, FS_CardinalityType
<1>10. QED
  BY <1>4, <1>5, <1>6, <1>8, <1>9, BoundsAssumption

\* What is under way that no job waits for.
LEMMA WireStep ==
    ASSUME RegisterTypes, WireBounded, [Next]_vars
    PROVE  IsFiniteSet(wire') /\ Cardinality(wire' \ Own') <= MaxWire
<1>1. ASSUME life' = life, wire' \subseteq wire
      PROVE  IsFiniteSet(wire') /\ Cardinality(wire' \ Own') <= MaxWire
  <2>1. IsFiniteSet(wire')
    BY <1>1, FS_Subset DEF WireBounded
  <2>2. QED
    BY <1>1, <2>1, LessOnWire
<1>2. CASE \E S \in SUBSET Protocols : Update(S)
  BY <1>1, <1>2 DEF Update
<1>3. CASE OnNewInfo
  BY <1>1, <1>3 DEF OnNewInfo
<1>4. ASSUME NEW on \in SUBSET plan.offered, OnConfigChange(on)
      PROVE  IsFiniteSet(wire') /\ Cardinality(wire' \ Own') <= MaxWire
  <2> DEFINE gone == {Deletion(p) : p \in Registered(enabled \ on)}
  <2>1. gone \in SUBSET Own
    BY DEF Own, Registered, RegisterTypes
  <2>2. wire' = wire \cup gone /\ life' = life
    BY <1>4 DEF OnConfigChange
  <2> HIDE DEF gone
  <2>3. IsFiniteSet(gone)
    BY <2>1, OwnIsSmall, FS_Subset
  <2>4. IsFiniteSet(wire')
    BY <2>2, <2>3, FS_Union DEF WireBounded
  <2>5. QED
    BY <2>1, <2>2, <2>4, LessOnWire
<1>5. CASE OnShutdown
  <2> DEFINE gone == {Deletion(p) : p \in Registered(enabled)}
  <2>1. PICK late \in SUBSET Unarrived :
            Cardinality(wire \cup late) <= MaxWire /\ wire' = wire \cup late \cup gone
    BY <1>5 DEF OnShutdown
  <2>2. gone \in SUBSET Own
    BY DEF Own, Registered, RegisterTypes
  <2>3. Own' = Own
    BY <1>5 DEF OnShutdown, Own, Deletion
  <2> HIDE DEF gone
  <2>4. IsFiniteSet(gone)
    BY <2>2, OwnIsSmall, FS_Subset
  <2>5. wire' \ Own' \subseteq wire \cup late
    BY <2>1, <2>2, <2>3
  <2>6. IsFiniteSet(wire \cup late) /\ Cardinality(wire' \ Own') <= MaxWire
    BY <2>1, <2>5, LateBounded
  <2>7. IsFiniteSet(wire')
    BY <2>1, <2>4, <2>6, FS_Union
  <2>8. QED
    BY <2>6, <2>7
<1>6. CASE Crash
  <2>1. PICK late \in SUBSET Unarrived :
            Cardinality(wire \cup late) <= MaxWire /\ wire' = wire \cup late
    BY <1>6 DEF Crash
  <2>2. wire' \ Own' \subseteq wire \cup late
    BY <2>1
  <2>3. QED
    BY <2>1, <2>2, LateBounded
<1>7. ASSUME NEW p \in Protocols, OnToken(p) \/ LosePacket(p) \/ JobStep(p)
      PROVE  IsFiniteSet(wire') /\ Cardinality(wire' \ Own') <= MaxWire
  <2>1. UNCHANGED <<life, wire>>
    BY <1>7 DEF OnToken, LosePacket, JobStep, Arrive, Fail, NoteStatus, NoteSerial, serverVars
  <2>2. QED
    BY <1>1, <2>1
<1>8. CASE \/ \E r \in wire : ArriveLate(r) \/ Lose(r)
           \/ \E gone \in SUBSET Addrs : Prune(gone)
           \/ UNCHANGED vars
  <2>1. life' = life /\ wire' \subseteq wire
    BY <1>8 DEF ArriveLate, Lose, Prune, serverVars, vars
  <2>2. QED
    BY <1>1, <2>1
<1>9. CASE Reseed \/ MasterRestart
  BY <1>9, AgedWire DEF Reseed, MasterRestart
<1>10. QED
  BY <1>2, <1>3, <1>4, <1>5, <1>6, <1>7, <1>8, <1>9 DEF Next

\* Each protocol keeps its jobs within the bound.
LEMMA SendLeavesRoom ==
    ASSUME RegisterTypes, RoomOK, plan'.jobs = plan.jobs,
           NEW S, NEW n, NEW known, SendRegister(S, n, known),
           \A p \in S \cap Protocols : Running(p) <= plan.jobs
    PROVE  RoomOK'
<1> SUFFICES ASSUME NEW p \in Protocols
             PROVE  Len(jobs'[p]) <= plan.jobs + 1
  BY DEF RoomOK, Running
<1>1. CASE p \notin S
  BY <1>1, SendIs DEF RoomOK, Running
<1>2. CASE p \in S
  <2>1. Len(jobs'[p]) = Running(p) + 1
    BY <1>2, SendIs
  <2>2. Running(p) \in Nat /\ Running(p) <= plan.jobs /\ plan.jobs \in Nat
    BY <1>2, JobsAre DEF RegisterTypes, LifeOK, Plan
  <2>3. QED
    BY <2>1, <2>2
<1>3. QED
  BY <1>1, <1>2

LEMMA FewerJobsFit ==
    ASSUME RegisterTypes, RoomOK, plan'.jobs = plan.jobs,
           \A p \in Protocols : Len(jobs'[p]) \in Int /\ Len(jobs'[p]) <= Running(p)
    PROVE  RoomOK'
<1> SUFFICES ASSUME NEW p \in Protocols
             PROVE  Len(jobs'[p]) <= plan.jobs + 1
  BY DEF RoomOK, Running
<1>1. Running(p) \in Nat /\ Running(p) <= plan.jobs + 1 /\ plan.jobs \in Nat
  BY JobsAre DEF RoomOK, RegisterTypes, LifeOK, Plan
<1>2. QED
  BY <1>1

LEMMA EventKeepsRoom ==
    ASSUME LifeOK, NEW kind \in {"info", "setting", "seed", "loss", "crash"}, Event(kind)
    PROVE  plan'.jobs = plan.jobs
BY DEF LifeOK, Event, Plan

LEMMA RoomStep ==
    ASSUME RegisterTypes, RoomOK, [Next]_vars
    PROVE  RoomOK'
<1>0. LifeOK /\ plan.jobs \in Nat /\ \A p \in Protocols : Running(p) \in Nat
  BY JobsAre DEF RegisterTypes, LifeOK, Plan
<1>1. \A p \in Protocols : ~IsFull(p) => Running(p) <= plan.jobs
  BY <1>0 DEF IsFull
<1>2. ASSUME NEW S \in SUBSET Protocols, Update(S)
      PROVE  RoomOK'
  <2>1. \A p \in S \cap Protocols : Running(p) <= plan.jobs
    BY <1>1, <1>2 DEF Update
  <2>2. QED
    BY <1>2, <2>1, SendLeavesRoom DEF Update
<1>3. CASE OnNewInfo
  <2>1. PICK S \in SUBSET {p \in enabled : ~IsFull(p)} : SendRegister(S, serial + 1, proto)
    BY <1>3 DEF OnNewInfo
  <2>2. plan'.jobs = plan.jobs
    BY <1>0, <1>3, EventKeepsRoom DEF OnNewInfo
  <2>3. QED
    BY <1>1, <2>1, <2>2, SendLeavesRoom
<1>4. ASSUME NEW on \in SUBSET plan.offered, OnConfigChange(on)
      PROVE  RoomOK'
  <2>1. SendRegister(on \ enabled, serial, Unregistered(enabled \ on, proto))
    BY <1>4 DEF OnConfigChange
  <2>2. plan'.jobs = plan.jobs
    BY <1>0, <1>4, EventKeepsRoom DEF OnConfigChange
  <2>3. \A p \in (on \ enabled) \cap Protocols : Running(p) <= plan.jobs
    BY <1>1, <1>4 DEF OnConfigChange
  <2>4. QED
    BY <2>1, <2>2, <2>3, SendLeavesRoom
<1>5. ASSUME NEW p \in Protocols, OnToken(p)
      PROVE  RoomOK'
  <2>1. plan' = plan
    BY <1>5 DEF OnToken
  <2>2. (\E known : Running(p) <= plan.jobs /\ SendRegister({p}, serial, known)) \/ jobs' = jobs
    BY <1>5 DEF OnToken
  <2>3. CASE jobs' = jobs
    BY <2>1, <2>3 DEF RoomOK, Running
  <2>4. ASSUME NEW known, Running(p) <= plan.jobs, SendRegister({p}, serial, known)
        PROVE  RoomOK'
    <3>1. \A q \in {p} \cap Protocols : Running(q) <= plan.jobs
      BY <2>4
    <3>2. QED
      BY <2>1, <2>4, <3>1, SendLeavesRoom
  <2>5. QED
    BY <2>2, <2>3, <2>4
<1>6. CASE OnShutdown \/ Crash
  <2>1. plan'.jobs = plan.jobs
    BY <1>0, <1>6, EventKeepsRoom DEF OnShutdown, Crash
  <2>2. \A p \in Protocols : jobs'[p] = << >>
    BY <1>6 DEF OnShutdown, Crash
  <2>3. \A p \in Protocols : Len(jobs'[p]) \in Int /\ Len(jobs'[p]) <= Running(p)
    BY <1>0, <2>2
  <2>4. QED
    BY <2>1, <2>3, FewerJobsFit
<1>7. ASSUME NEW p \in Protocols, JobStep(p)
      PROVE  RoomOK'
  <2> PICK i \in 1 .. Running(p) : Arrive(p, i) \/ Fail(p, i) \/ NoteStatus(p, i) \/ NoteSerial(p, i)
    BY <1>7 DEF JobStep
  <2>1. plan'.jobs = plan.jobs
    BY <1>0, EventKeepsRoom DEF Arrive, Fail, NoteStatus, NoteSerial
  <2>2. CASE Fail(p, i) \/ NoteSerial(p, i)
    <3>1. \A q \in Protocols \ {p} : jobs'[q] = jobs[q]
      BY <2>2, EndedIs DEF Fail, NoteSerial
    <3>2. Len(jobs'[p]) = Running(p) - 1
      BY <2>2, EndedIs DEF Fail, NoteSerial
    <3>3. \A q \in Protocols : Len(jobs'[q]) \in Int /\ Len(jobs'[q]) <= Running(q)
      BY <1>0, <3>1, <3>2 DEF Running
    <3>4. QED
      BY <2>1, <3>3, FewerJobsFit
  <2>3. CASE Arrive(p, i) \/ NoteStatus(p, i)
    <3>1. jobs \in [Protocols -> Seq(Job)] /\ jobs[p] \in Seq(Job)
      BY JobsAre DEF RegisterTypes, JobsOK
    <3>2. \A q \in Protocols \ {p} : jobs'[q] = jobs[q]
      BY <2>3, <3>1 DEF Arrive, NoteStatus
    <3>3. Len(jobs'[p]) = Running(p)
      <4>1. CASE NoteStatus(p, i)
        BY <4>1, NotedIs
      <4>2. CASE Arrive(p, i)
        <5> DEFINE new == [jobs[p][i] EXCEPT !.at = "answered", !.msg = [answer |-> Answer(@)]]
        <5>1. jobs'[p] = [jobs[p] EXCEPT ![i] = new]
          BY <3>1, <4>2 DEF Arrive
        <5> HIDE DEF new
        <5>2. QED
          BY <3>1, <5>1 DEF Running
      <4>3. QED
        BY <2>3, <4>1, <4>2
    <3>4. \A q \in Protocols : Len(jobs'[q]) \in Int /\ Len(jobs'[q]) <= Running(q)
      BY <1>0, <3>2, <3>3 DEF Running
    <3>5. QED
      BY <2>1, <3>4, FewerJobsFit
  <2>4. QED
    BY <2>2, <2>3
<1>8. CASE Reseed \/ MasterRestart
  <2>1. PICK age : AgeTokens(age)
    BY <1>8 DEF Reseed, MasterRestart
  <2>2. plan'.jobs = plan.jobs
    BY <1>0, <2>1, EventKeepsRoom DEF AgeTokens
  <2>3. \A p \in Protocols : Len(jobs'[p]) \in Int /\ Len(jobs'[p]) <= Running(p)
    BY <1>0, <2>1, AgedIs
  <2>4. QED
    BY <2>2, <2>3, FewerJobsFit
<1>9. CASE \/ \E r \in wire : ArriveLate(r) \/ Lose(r)
           \/ \E p \in Protocols : LosePacket(p)
           \/ \E gone \in SUBSET Addrs : Prune(gone)
           \/ UNCHANGED vars
  <2>1. jobs' = jobs
    BY <1>9 DEF ArriveLate, Lose, LosePacket, Prune, vars, serverVars
  <2>2. plan'.jobs = plan.jobs
    BY <1>0, <1>9, EventKeepsRoom DEF ArriveLate, Lose, LosePacket, Prune, vars
  <2>3. QED
    BY <2>1, <2>2 DEF RoomOK, Running
<1>10. QED
  BY <1>2, <1>3, <1>4, <1>5, <1>6, <1>7, <1>8, <1>9 DEF Next

-----------------------------------------------------------------------------
LEMMA RegisterInvStep ==
    ASSUME RegisterInv, [Next]_vars
    PROVE  RegisterInv'
<1>0. RegisterTypes /\ MasterInv /\ JobsSound /\ OkSound /\ AcceptedOK /\ WireBounded
  BY DEF RegisterInv
<1>1. RegisterTypes' /\ MasterInv'
  BY <1>0, StepIsMasterStep, MasterStepAgrees
<1>2. JobsSound' /\ OkSound'
  BY <1>0, <1>1, SoundStep
<1>3. AcceptedOK'
  BY <1>0, AcceptStep
<1>4. IsFiniteSet(wire') /\ Cardinality(wire' \ Own') <= MaxWire
  BY <1>0, WireStep
<1>5. RoomOK'
  BY <1>0, RoomStep DEF WireBounded
<1>6. serial' \in Nat /\ mode' \in {"running", "stopped"}
  <2>1. serial \in Nat /\ mode \in {"running", "stopped"}
    BY <1>0 DEF WireBounded
  <2>2. serial' \in {serial, serial + 1, 0} /\ mode' \in {mode, "stopped"}
    BY DEF Next, Update, OnNewInfo, OnConfigChange, OnShutdown, Crash, OnToken, LosePacket, JobStep,
           Arrive, Fail, NoteStatus, NoteSerial, ArriveLate, Lose, Prune, Reseed, MasterRestart,
           AgeTokens, vars, serverVars
  <2>3. QED
    BY <2>1, <2>2
<1>7. QED
  BY <1>1, <1>2, <1>3, <1>4, <1>5, <1>6 DEF RegisterInv, WireBounded

LEMMA RegisterInvInit == Init => RegisterInv
<1> SUFFICES ASSUME Init
             PROVE  RegisterInv
  OBVIOUS
<1>1. RegisterTypes /\ MasterInv
  BY InitTypes, MasterInitAgrees
<1>2. \A p \in Protocols : Running(p) = 0
  BY DEF Init, Running
<1>3. JobsSound /\ OkSound
  BY <1>2 DEF Init, JobsSound, OkSound
<1>4. AcceptedOK
  BY <1>2 DEF Init, AcceptedOK, Settled
<1>5. WireBounded
  <2>1. IsFiniteSet(wire) /\ Cardinality(wire \ Own) = 0
    <3>1. wire = {} /\ wire \ Own = {}
      BY DEF Init
    <3>2. QED
      BY <3>1, FS_EmptySet
  <2>2. RoomOK
    BY <1>1, <1>2 DEF RoomOK, RegisterTypes, LifeOK, Plan
  <2>3. QED
    BY <2>1, <2>2, BoundsAssumption DEF WireBounded, Init
<1>6. QED
  BY <1>1, <1>3, <1>4, <1>5 DEF RegisterInv

\* What a game server takes for true of the master server, what it waits for,
\* and what is under way fit together in every state.
THEOREM RegisterInductive == Spec => []RegisterInv
BY RegisterInvInit, RegisterInvStep, PTL DEF Spec

LEMMA RegisterTyped == RegisterInv => TypeOK
<1> SUFFICES ASSUME RegisterInv
             PROVE  TypeOK
  OBVIOUS
<1>1. RegisterTypes /\ MasterInv /\ OkSound /\ WireBounded
  BY DEF RegisterInv
<1>2. Cardinality(wire) <= MaxWire + Cardinality(Protocols)
  <2> DEFINE rest == wire \ Own
             mine == wire \cap Own
  <2>1. rest \in SUBSET wire /\ mine \in SUBSET Own /\ wire = rest \cup mine /\ rest \cap mine = {}
    OBVIOUS
  <2>2. IsFiniteSet(rest) /\ Cardinality(rest) \in Nat /\ Cardinality(rest) <= MaxWire
    BY <1>1, FS_Subset, FS_CardinalityType DEF WireBounded
  <2> HIDE DEF rest, mine
  <2>3. IsFiniteSet(mine) /\ Cardinality(mine) <= Cardinality(Own)
    BY <2>1, OwnIsSmall, FS_Subset
  <2>4. Cardinality(mine) \in Nat /\ Cardinality(Own) \in Nat /\ Cardinality(Protocols) \in Nat
    BY <2>3, OwnIsSmall, BoundsAssumption, FS_CardinalityType DEF Protocols
  <2>5. Cardinality(wire) = Cardinality(rest) + Cardinality(mine)
    <3>1. Cardinality(wire) = Cardinality(rest) + Cardinality(mine) - Cardinality(rest \cap mine)
      BY <2>1, <2>2, <2>3, FS_Union
    <3>2. Cardinality(rest \cap mine) = 0
      BY <2>1, FS_EmptySet
    <3>3. QED
      BY <2>2, <2>4, <3>1, <3>2
  <2>6. QED
    BY <2>2, <2>3, <2>4, <2>5, OwnIsSmall, BoundsAssumption
<1>3. MasterTypeOK /\ life \in Secrets
  BY <1>1, LifeIsSecret DEF MasterInv, RegisterTypes
<1>4. mode \in {"running", "stopped"} /\ enabled \subseteq Protocols /\ serial \in Nat /\ okSerial \in Int
  BY <1>1 DEF RegisterTypes, OkSound, WireBounded
<1>5. \A p \in Protocols : packets[p] \subseteq Tokens /\ proto[p].token \in Tokens
  BY <1>1 DEF RegisterTypes, Knowledge
<1>6. \A p \in Protocols : Running(p) <= plan.jobs + 1
  BY <1>1 DEF WireBounded, RoomOK
<1>7. QED
  BY <1>2, <1>3, <1>4, <1>5, <1>6 DEF TypeOK

\* What m_LatestSuccessfulInfoSerial says the master server has, it has, until
\* it drops the server of this life.
THEOREM SuccessIsKept == Spec => []SuccessKept
<1>1. RegisterInv => SuccessKept
  <2>1. RegisterInv => OkSound
    BY DEF RegisterInv
  <2>2. QED
    BY <2>1, RegisterTyped DEF SuccessKept, OkSound, Holds
<1>2. QED
  BY <1>1, RegisterInductive, PTL

\* A protocol whose last registration succeeded is deleted at the master
\* server when it is disabled, and when the game server stops.
THEOREM DeletionIsSent == Spec => DeletionSent
<1>1. ASSUME RegisterInv, [Next]_vars
      PROVE  [\A p \in accepted \cap enabled :
                  life' = life /\ (p \notin enabled' \/ mode' # mode) => Deletion(p) \in wire']_vars
  <2> SUFFICES ASSUME NEW p \in accepted \cap enabled, life' = life, p \notin enabled' \/ mode' # mode
               PROVE  Deletion(p) \in wire'
    OBVIOUS
  <2>1. p \in enabled /\ proto[p].status = "success"
    BY <1>1 DEF RegisterInv, AcceptedOK
  <2>2. life \in Nat
    BY <1>1 DEF RegisterInv, RegisterTypes, LifeOK
  <2>3. CASE \E on \in SUBSET plan.offered : OnConfigChange(on)
    BY <2>1, <2>3 DEF OnConfigChange, Registered
  <2>4. CASE OnShutdown
    BY <2>1, <2>4 DEF OnShutdown, Registered
  <2>5. CASE Crash
    BY <2>2, <2>5 DEF Crash
  <2>6. CASE UNCHANGED <<enabled, mode>>
    BY <2>1, <2>6
  <2>7. \/ \E on \in SUBSET plan.offered : OnConfigChange(on)
        \/ OnShutdown
        \/ Crash
        \/ UNCHANGED <<enabled, mode>>
    <3>1. CASE \/ \E S \in SUBSET Protocols : Update(S)
               \/ OnNewInfo
               \/ \E r \in wire : ArriveLate(r) \/ Lose(r)
               \/ \E gone \in SUBSET Addrs : Prune(gone)
               \/ Reseed
               \/ MasterRestart
               \/ UNCHANGED vars
      BY <3>1 DEF Update, OnNewInfo, ArriveLate, Lose, Prune, Reseed, MasterRestart, AgeTokens, vars, serverVars
    <3>2. CASE \E q \in Protocols : OnToken(q) \/ LosePacket(q) \/ JobStep(q)
      <4>1. ASSUME NEW q \in Protocols, OnToken(q) \/ LosePacket(q)
            PROVE  UNCHANGED <<enabled, mode>>
        BY <4>1 DEF OnToken, LosePacket, serverVars
      <4>2. ASSUME NEW q \in Protocols, JobStep(q)
            PROVE  UNCHANGED <<enabled, mode>>
        <5>1. \A i \in 1 .. Running(q) :
                  Arrive(q, i) \/ Fail(q, i) \/ NoteStatus(q, i) \/ NoteSerial(q, i) =>
                      UNCHANGED <<enabled, mode>>
          BY DEF Arrive, Fail, NoteStatus, NoteSerial
        <5>2. QED
          BY <4>2, <5>1 DEF JobStep
      <4>3. QED
        BY <3>2, <4>1, <4>2
    <3>3. QED
      BY <1>1, <3>1, <3>2 DEF Next
  <2>8. QED
    BY <2>3, <2>4, <2>5, <2>6, <2>7
<1>2. QED
  BY <1>1, RegisterInductive, PTL DEF Spec, DeletionSent

-----------------------------------------------------------------------------
(* The download of a map. *)

ToClient == {Map!Change(m) : m \in Maps} \cup {Map!Data(m, k) : m \in Maps, k \in Nat} \cup {Map!ConReady}
ToServer == {Map!Request(k) : k \in Nat} \cup {Map!Ready, Map!Start}
Blocks == {Map!Data(m, k) : m \in Maps, k \in Nat}

Wires == toClient \in Seq(ToClient) /\ toServer \in Seq(ToServer)

Host ==
    /\ current \in Maps /\ state \in {"connecting", "ready", "started"}
    /\ next \in Nat /\ num \in 0 .. Map!Limit

\* The request and the file use the same path, one after the other; the file
\* holds the chunks that were asked for before the next one.
Download ==
    /\ wanted \in Maps \cup {None} /\ loaded \in Maps \cup {None} /\ disk \subseteq Maps
    /\ task \in {"none", "running", "done", "error"} /\ chunk \in Nat
    /\ task # "none" => wanted # None /\ file = None /\ chunk = 0 /\ loaded = None
    /\ file # None =>
           /\ task = "none" /\ wanted # None /\ loaded = None
           /\ file \in Seq(Blocks) /\ chunk = Len(file) /\ chunk < Chunks[wanted]
           /\ \A i \in 1 .. chunk : file[i] = Map!Data(wanted, i - 1)
    /\ refused \in BOOLEAN /\ (refused <=> wanted # None /\ task = "none" /\ file = None)

DownloadInv == Wires /\ Host /\ Download

\* What stands for a closed file is not what an open one holds.
LEMMA OpenIs == \A s \in Seq(Blocks) : s # None
<1> DEFINE all == [type : {"data"}, map : Maps, chunk : Nat]
<1>1. Blocks \subseteq all
  BY DEF Blocks, Map!Data
<1>2. None \notin Seq(all)
  BY DownloadAssumption DEF Map!DownloadConstants
<1> HIDE DEF all
<1>3. Seq(Blocks) \subseteq Seq(all)
  BY <1>1
<1>4. QED
  BY <1>2, <1>3

\* What a message is tells what it carries.
LEMMA ChangeIs == ASSUME NEW msg \in ToClient, msg.type = "change" PROVE msg.map \in Maps
BY DEF ToClient, Map!Change, Map!Data, Map!ConReady

LEMMA DataIs ==
    ASSUME NEW msg \in ToClient, msg.type = "data"
    PROVE  msg \in Blocks /\ msg = Map!Data(msg.map, msg.chunk)
BY DEF ToClient, Blocks, Map!Change, Map!Data, Map!ConReady

LEMMA RequestIs == ASSUME NEW msg \in ToServer, msg.type = "request" PROVE msg.chunk \in Nat
BY DEF ToServer, Map!Request, Map!Ready, Map!Start

LEMMA LimitIs == ASSUME NEW m \in Maps PROVE 2 * Chunks[m] \in Nat
BY DownloadAssumption DEF Map!DownloadConstants

\* One more message, or one less.
LEMMA Appended == ASSUME NEW S, NEW s \in Seq(S), NEW x \in S PROVE Append(s, x) \in Seq(S)
OBVIOUS

LEMMA HeadIs == ASSUME NEW S, NEW s \in Seq(S), s # << >> PROVE Head(s) \in S /\ Tail(s) \in Seq(S)
BY HeadTailProperties

\* MapDownload counts as this module does.
LEMMA CountIs == ASSUME NEW S PROVE Map!Cardinality(S) = Cardinality(S)
BY DEF Map!Cardinality, Cardinality, Map!IsFiniteSet, IsFiniteSet

\* Of what is asked for no more is sent than the limit leaves.
LEMMA AnsweredIs ==
    ASSUME Host, NEW ks \in Seq(Nat)
    PROVE  /\ Map!Answered(ks) \in Seq(Nat)
           /\ num + Len(Map!Answered(ks)) \in 0 .. Map!Limit
<1> DEFINE E == {i \in DOMAIN ks : Map!Exists(ks[i])}
           rest == Map!Limit - num
           n == IF Cardinality(E) < rest THEN Cardinality(E) ELSE rest
<1>1. Len(ks) \in Nat /\ DOMAIN ks = 1 .. Len(ks) /\ \A i \in 1 .. Len(ks) : ks[i] \in Nat
  BY LenProperties
<1>2. Cardinality(E) \in Nat /\ Cardinality(E) <= Len(ks)
  <2>1. IsFiniteSet(1 .. Len(ks)) /\ Cardinality(1 .. Len(ks)) = Len(ks)
    BY <1>1, FS_Interval
  <2>2. E \subseteq 1 .. Len(ks)
    BY <1>1
  <2> HIDE DEF E
  <2>3. IsFiniteSet(E) /\ Cardinality(E) <= Cardinality(1 .. Len(ks))
    BY <2>1, <2>2, FS_Subset
  <2>4. QED
    BY <2>1, <2>3, FS_CardinalityType
<1>3. Map!Answered(ks) = SubSeq(ks, 1, n)
  BY CountIs DEF Map!Answered
<1> HIDE DEF E
<1>4. rest \in Nat /\ num \in Nat /\ Map!Limit \in Nat
  BY LimitIs DEF Host, Map!Limit
<1>5. n \in Nat /\ n <= Len(ks) /\ n <= rest
  BY <1>2, <1>4
<1> HIDE DEF n
<1>6. SubSeq(ks, 1, n) \in Seq(Nat) /\ Len(SubSeq(ks, 1, n)) = n
  <2>1. \A i \in 1 .. n : ks[i] \in Nat
    BY <1>1, <1>5
  <2>2. /\ SubSeq(ks, 1, n) \in Seq(Nat)
        /\ Len(SubSeq(ks, 1, n)) = IF 1 <= n THEN n - 1 + 1 ELSE 0
    BY <1>5, <2>1, SubSeqProperties
  <2>3. QED
    BY <1>5, <2>2
<1>7. num + n \in 0 .. Map!Limit
  BY <1>4, <1>5
<1>8. QED
  BY <1>3, <1>6, <1>7

\* What is asked for is numbers of chunks.
LEMMA AskedIs ==
    ASSUME NEW k \in Nat, NEW at \in Nat
    PROVE  Map!Asked(k, at) \in Seq(Nat)
<1> DEFINE first == [i \in 1 .. Window |-> i - 1]
<1>1. Window \in Nat
  BY DownloadAssumption DEF Map!DownloadConstants
<1>2. first \in Seq(Nat)
  <2>1. first \in [1 .. Window -> Nat]
    BY <1>1
  <2> HIDE DEF first
  <2>2. QED
    BY <1>1, <2>1, SeqDef
<1>3. <<Window + at>> \in Seq(Nat) /\ <<k>> \in Seq(Nat) /\ << >> \in Seq(Nat)
  BY <1>1
<1> HIDE DEF first
<1>4. first \o <<Window + at>> \in Seq(Nat) /\ << >> \o <<Window + at>> \in Seq(Nat)
  BY <1>2, <1>3, ConcatProperties
<1>5. QED
  BY <1>3, <1>4 DEF Map!Asked, first

LEMMA OnRequestKeeps == ASSUME DownloadInv, Map!OnRequest PROVE DownloadInv'
<1> DEFINE k == Head(toServer).chunk
           at == IF k = 0 THEN 0 ELSE next
           sent == Map!Answered(Map!Asked(k, at))
           news == [i \in DOMAIN sent |-> Map!Data(current, sent[i])]
<1>1. /\ toServer # << >> /\ Head(toServer).type = "request"
      /\ next' = (IF fast /\ k = at THEN at + 1 ELSE at)
      /\ num' = num + Len(sent)
      /\ toClient' = toClient \o news
      /\ toServer' = Tail(toServer)
      /\ UNCHANGED <<fast, current, state, changes, Map!clientVars>>
  BY DEF Map!OnRequest
<1>2. Head(toServer) \in ToServer /\ Tail(toServer) \in Seq(ToServer)
  BY <1>1, HeadIs DEF DownloadInv, Wires
<1>3. k \in Nat /\ at \in Nat /\ next \in Nat
  BY <1>1, <1>2, RequestIs DEF DownloadInv, Host
<1>4. sent \in Seq(Nat) /\ num + Len(sent) \in 0 .. Map!Limit
  <2>1. Map!Asked(k, at) \in Seq(Nat)
    BY <1>3, AskedIs
  <2> HIDE DEF k, at
  <2>2. QED
    BY <2>1, AnsweredIs DEF DownloadInv
<1> HIDE DEF sent, k, at
<1>5. news \in Seq(ToClient)
  <2>1. Len(sent) \in Nat /\ DOMAIN sent = 1 .. Len(sent) /\ \A i \in 1 .. Len(sent) : sent[i] \in Nat
    BY <1>4, LenProperties
  <2>2. \A n \in Nat : Map!Data(current, n) \in ToClient
    BY DEF ToClient, DownloadInv, Host
  <2>3. news \in [1 .. Len(sent) -> ToClient]
    BY <2>1, <2>2
  <2> HIDE DEF news
  <2>4. QED
    BY <2>1, <2>3, SeqDef
<1> HIDE DEF news
<1>6. Wires'
  BY <1>1, <1>2, <1>5, ConcatProperties DEF DownloadInv, Wires
<1>7. Host'
  <2>1. next' \in Nat
    BY <1>1, <1>3
  <2>2. Map!Limit' = Map!Limit
    BY <1>1 DEF Map!Limit
  <2>3. QED
    BY <1>1, <1>4, <2>1, <2>2 DEF DownloadInv, Host
<1>8. Download'
  BY <1>1 DEF DownloadInv, Download, Map!clientVars, Map!download
<1>9. QED
  BY <1>6, <1>7, <1>8 DEF DownloadInv

\* The server's other steps.
LEMMA ServerKeeps ==
    ASSUME DownloadInv, (\E m \in Maps : Map!ChangeMap(m)) \/ Map!OnReady \/ Map!OnStart
    PROVE  DownloadInv'
<1>1. UNCHANGED Map!clientVars
  BY DEF Map!ChangeMap, Map!OnReady, Map!OnStart
<1>2. Download'
  BY <1>1 DEF DownloadInv, Download, Map!clientVars, Map!download
<1>3. ASSUME NEW m \in Maps, Map!ChangeMap(m)
      PROVE  Wires' /\ Host'
  <2>1. Map!Change(m) \in ToClient
    BY DEF ToClient
  <2>2. Wires'
    BY <1>3, <2>1, Appended DEF DownloadInv, Wires, Map!ChangeMap
  <2>3. 0 \in 0 .. 2 * Chunks[m]
    BY LimitIs
  <2>4. Host'
    BY <1>3, <2>3 DEF DownloadInv, Host, Map!ChangeMap, Map!Limit
  <2>5. QED
    BY <2>2, <2>4
<1>4. CASE Map!OnReady \/ Map!OnStart
  <2>1. toServer # << >> /\ toServer' = Tail(toServer) /\ current' = current /\ next' = next /\ num' = num
    BY <1>4 DEF Map!OnReady, Map!OnStart
  <2>2. toServer' \in Seq(ToServer)
    BY <2>1, HeadIs DEF DownloadInv, Wires
  <2>3. toClient' = toClient \/ toClient' = Append(toClient, Map!ConReady)
    BY <1>4 DEF Map!OnReady, Map!OnStart
  <2>4. Map!ConReady \in ToClient
    BY DEF ToClient
  <2>5. Wires'
    BY <2>2, <2>3, <2>4, Appended DEF DownloadInv, Wires
  <2>6. state' \in {"connecting", "ready", "started"}
    BY <1>4 DEF Map!OnReady, Map!OnStart, DownloadInv, Host
  <2>7. Host'
    BY <2>1, <2>6 DEF DownloadInv, Host, Map!Limit
  <2>8. QED
    BY <1>2, <2>5, <2>7 DEF DownloadInv
<1>5. QED
  BY <1>2, <1>3, <1>4 DEF DownloadInv

-----------------------------------------------------------------------------
\* What the parts of the client's handlers leave.
LEMMA ResetKeeps ==
    ASSUME Map!Reset, loaded' \in Maps \cup {None}, disk' \subseteq Maps
    PROVE  Download'
BY DEF Map!Reset, Download

LEMMA Sends ==
    ASSUME DownloadInv, NEW msg \in ToServer, Map!Send(msg)
    PROVE  toServer' \in Seq(ToServer)
BY Appended DEF DownloadInv, Wires, Map!Send

LEMMA DisconnectKeeps ==
    ASSUME DownloadInv, Map!Disconnect
    PROVE  Download' /\ toServer' \in Seq(ToServer)
<1>1. Download'
  BY ResetKeeps DEF Map!Disconnect, DownloadInv, Download
<1>2. QED
  BY <1>1 DEF Map!Disconnect, DownloadInv, Wires

LEMMA FallbackKeeps ==
    ASSUME DownloadInv, Map!Fallback, task # "none"
    PROVE  Download' /\ toServer' \in Seq(ToServer)
<1>1. Map!Request(chunk) \in ToServer
  BY DEF ToServer, DownloadInv, Download
<1>2. toServer' \in Seq(ToServer)
  BY <1>1, Sends DEF Map!Fallback
<1>3. wanted \in Maps /\ chunk = 0 /\ Chunks[wanted] \in Nat \ {0}
  BY DownloadAssumption DEF Map!DownloadConstants, DownloadInv, Download
<1>4. task' = "none" /\ loaded' = None /\ wanted' = wanted /\ chunk' = 0 /\ disk' = disk
  BY <1>3 DEF Map!Fallback
<1>5. << >> \in Seq(Blocks) /\ Len(<< >>) = 0 /\ << >> # None
  BY EmptySeq, OpenIs
<1>6. Download'
  <2>1. CASE file' = << >> /\ refused' = FALSE
    <3>1. file' \in Seq(Blocks) /\ chunk' = Len(file') /\ chunk' < Chunks[wanted] /\ file' # None
      BY <1>3, <1>4, <1>5, <2>1
    <3>2. refused' \in BOOLEAN /\ (refused' <=> wanted' # None /\ task' = "none" /\ file' = None)
      BY <2>1, <3>1
    <3>3. QED
      BY <1>3, <1>4, <3>1, <3>2, DownloadAssumption DEF Map!DownloadConstants, DownloadInv, Download
  <2>2. CASE file' = None /\ refused' = TRUE
    <3>1. wanted' # None /\ task' = "none" /\ file' = None
      BY <1>3, <1>4, <2>2, DownloadAssumption DEF Map!DownloadConstants
    <3>2. refused' \in BOOLEAN /\ (refused' <=> wanted' # None /\ task' = "none" /\ file' = None)
      BY <2>2, <3>1
    <3>3. QED
      BY <1>3, <1>4, <2>2, <3>2 DEF DownloadInv, Download
  <2>3. QED
    BY <2>1, <2>2 DEF Map!Fallback
<1>7. QED
  BY <1>2, <1>6

LEMMA FinishKeeps ==
    ASSUME DownloadInv, wanted # None, NEW content, NEW saved \in BOOLEAN, NEW loads \in BOOLEAN,
           Map!Finish(content, saved, loads)
    PROVE  Download' /\ toServer' \in Seq(ToServer)
<1>1. CASE Map!Disconnect
  BY <1>1, DisconnectKeeps
<1>2. CASE Map!Fallback /\ task # "none"
  BY <1>2, FallbackKeeps
<1>3. CASE Map!Reset /\ loaded' = wanted /\ disk' = disk \cup {wanted} /\ Map!Send(Map!Ready)
  <2>1. wanted \in Maps /\ disk \subseteq Maps
    BY DEF DownloadInv, Download
  <2>2. Map!Ready \in ToServer
    BY DEF ToServer
  <2>3. Download'
    BY <1>3, <2>1, ResetKeeps
  <2>4. QED
    BY <1>3, <2>2, <2>3, Sends
<1>4. QED
  BY <1>1, <1>2, <1>3 DEF Map!Finish

LEMMA OnMapChangeKeeps == ASSUME DownloadInv, Map!OnMapChange PROVE DownloadInv'
<1> DEFINE m == Head(toClient).map
<1>1. /\ toClient # << >> /\ Head(toClient).type = "change" /\ toClient' = Tail(toClient)
      /\ UNCHANGED <<disk, Map!serverVars>>
  BY DEF Map!OnMapChange, Map!Receive
<1>2. m \in Maps /\ toClient' \in Seq(ToClient)
  BY <1>1, HeadIs, ChangeIs DEF DownloadInv, Wires
<1>3. Host'
  BY <1>1 DEF DownloadInv, Host, Map!serverVars, Map!Limit
<1>4. CASE m \in disk
  <2>1. Map!Reset /\ loaded' = m /\ Map!Send(Map!Ready)
    BY <1>4 DEF Map!OnMapChange
  <2>2. Map!Ready \in ToServer
    BY DEF ToServer
  <2>3. disk' \subseteq Maps
    BY <1>1 DEF DownloadInv, Download
  <2>4. Download'
    BY <1>2, <2>1, <2>3, ResetKeeps
  <2>5. toServer' \in Seq(ToServer)
    BY <2>1, <2>2, Sends
  <2>6. QED
    BY <1>2, <1>3, <2>4, <2>5 DEF DownloadInv, Wires
<1>5. CASE m \notin disk
  <2>1. /\ wanted' = m /\ task' = "running" /\ file' = None /\ chunk' = 0 /\ loaded' = None
        /\ refused' = FALSE /\ toServer' = toServer
    BY <1>5 DEF Map!OnMapChange
  <2>2. None \notin Maps
    BY DownloadAssumption DEF Map!DownloadConstants
  <2> HIDE DEF m
  <2>3. Download'
    BY <1>1, <1>2, <2>1, <2>2 DEF DownloadInv, Download
  <2>4. QED
    BY <1>2, <1>3, <2>1, <2>3 DEF DownloadInv, Wires
<1>6. QED
  BY <1>4, <1>5

LEMMA OnMapDataKeeps ==
    ASSUME DownloadInv, NEW saved \in BOOLEAN, NEW loads \in BOOLEAN, Map!OnMapData(saved, loads)
    PROVE  DownloadInv'
<1> DEFINE msg == Head(toClient)
<1>1. /\ toClient # << >> /\ msg.type = "data" /\ toClient' = Tail(toClient)
      /\ UNCHANGED Map!serverVars
  BY DEF Map!OnMapData, Map!Receive
<1>2. msg \in Blocks /\ msg = Map!Data(msg.map, msg.chunk) /\ toClient' \in Seq(ToClient)
  BY <1>1, HeadIs, DataIs DEF DownloadInv, Wires
<1>3. Host'
  BY <1>1 DEF DownloadInv, Host, Map!serverVars, Map!Limit
<1>4. Download' /\ toServer' \in Seq(ToServer)
  <2>1. CASE ~Map!Expected(msg)
    BY <2>1 DEF Map!OnMapData, Map!clientVars, Map!download, DownloadInv, Download, Wires
  <2>2. CASE Map!Expected(msg) /\ chunk = Chunks[wanted] - 1
    <3>1. Map!Finish(Append(file, msg), saved, loads)
      BY <2>2 DEF Map!OnMapData
    <3>2. wanted # None
      BY <2>2 DEF Map!Expected, DownloadInv, Download
    <3> HIDE DEF msg
    <3>3. QED
      BY <3>1, <3>2, FinishKeeps
  <2>3. CASE Map!Expected(msg) /\ chunk # Chunks[wanted] - 1
    <3>1. /\ file' = Append(file, msg) /\ chunk' = chunk + 1 /\ Map!Send(Map!Request(chunk + 1))
          /\ UNCHANGED <<wanted, task, refused, loaded, disk>>
      BY <2>3 DEF Map!OnMapData
    <3>2. /\ file # None /\ task = "none" /\ wanted # None /\ loaded = None /\ wanted \in Maps
          /\ file \in Seq(Blocks) /\ chunk = Len(file) /\ chunk < Chunks[wanted] /\ chunk \in Nat
          /\ \A i \in 1 .. chunk : file[i] = Map!Data(wanted, i - 1)
      BY <2>3 DEF Map!Expected, DownloadInv, Download
    <3>3. Chunks[wanted] \in Nat
      BY <3>2, DownloadAssumption DEF Map!DownloadConstants
    <3>4. msg = Map!Data(wanted, chunk)
      BY <1>2, <2>3 DEF Map!Expected
    <3> HIDE DEF msg
    <3>5. /\ file' \in Seq(Blocks) /\ Len(file') = chunk + 1 /\ file'[chunk + 1] = msg
          /\ \A i \in 1 .. chunk : file'[i] = file[i]
      BY <1>2, <3>1, <3>2
    <3>6. chunk' \in Nat /\ chunk' < Chunks[wanted]
      BY <2>3, <3>1, <3>2, <3>3
    <3>7. ASSUME NEW i \in 1 .. chunk'
          PROVE  file'[i] = Map!Data(wanted, i - 1)
      <4>1. CASE i \in 1 .. chunk
        BY <3>2, <3>5, <4>1
      <4>2. CASE i = chunk + 1
        <5>1. i - 1 = chunk
          BY <3>2, <4>2
        <5>2. QED
          BY <3>4, <3>5, <4>2, <5>1
      <4>3. QED
        BY <3>1, <3>2, <4>1, <4>2
    <3>8. file' # None
      BY <3>5, OpenIs
    <3>9. Download'
      BY <3>1, <3>2, <3>5, <3>6, <3>7, <3>8 DEF DownloadInv, Download
    <3>10. Map!Request(chunk + 1) \in ToServer
      BY <3>2 DEF ToServer
    <3>11. QED
      BY <3>1, <3>9, <3>10, Sends
  <2>4. QED
    BY <2>1, <2>2, <2>3
<1>5. QED
  BY <1>2, <1>3, <1>4 DEF DownloadInv, Wires

\* The client's other steps.
LEMMA ClientKeeps ==
    ASSUME DownloadInv, Map!OnConReady \/ Map!TaskEnds \/ Map!Loop
    PROVE  DownloadInv'
<1>1. Host'
  BY DEF DownloadInv, Host, Map!serverVars, Map!Limit, Map!OnConReady, Map!TaskEnds, Map!Loop, Map!Update
<1>2. CASE Map!OnConReady
  <2>1. toClient # << >> /\ toClient' = Tail(toClient) /\ UNCHANGED Map!clientVars
    BY <1>2 DEF Map!OnConReady, Map!Receive
  <2>2. toClient' \in Seq(ToClient)
    BY <2>1, HeadIs DEF DownloadInv, Wires
  <2>3. Map!Start \in ToServer
    BY DEF ToServer
  <2>4. toServer' \in Seq(ToServer)
    BY <1>2, <2>3, Sends DEF Map!OnConReady, DownloadInv, Wires
  <2>5. Download'
    BY <2>1 DEF DownloadInv, Download, Map!clientVars, Map!download
  <2>6. QED
    BY <1>1, <2>2, <2>4, <2>5 DEF DownloadInv, Wires
<1>3. CASE Map!TaskEnds
  BY <1>1, <1>3 DEF DownloadInv, Download, Wires, Map!TaskEnds
<1>4. ASSUME NEW saved \in BOOLEAN, NEW loads \in BOOLEAN, Map!Update(saved, loads)
      PROVE  DownloadInv'
  <2>1. task # "none" /\ wanted # None /\ toClient' = toClient
    BY <1>4 DEF Map!Update, DownloadInv, Download
  <2>2. Map!Finish(Map!Content(wanted), saved, loads) \/ Map!Fallback
    BY <1>4 DEF Map!Update
  <2>3. Download' /\ toServer' \in Seq(ToServer)
    BY <2>1, <2>2, FinishKeeps, FallbackKeeps
  <2>4. QED
    BY <1>1, <2>1, <2>3 DEF DownloadInv, Wires
<1>5. QED
  BY <1>2, <1>3, <1>4 DEF Map!Loop

LEMMA DownloadInit == ASSUME Map!Init PROVE DownloadInv
<1>1. Map!Change(current) \in ToClient
  BY DEF Map!Init, ToClient
<1>2. Wires
  BY <1>1 DEF Map!Init, Wires
<1>3. 0 \in 0 .. Map!Limit
  BY LimitIs DEF Map!Init, Map!Limit
<1>4. Host
  BY <1>3 DEF Map!Init, Host
<1>5. disk \subseteq Maps
  BY DownloadAssumption DEF Map!Init, Map!DownloadConstants
<1>6. Download
  BY <1>5 DEF Map!Init, Download
<1>7. QED
  BY <1>2, <1>4, <1>6 DEF DownloadInv

LEMMA DownloadStep == ASSUME DownloadInv, [Map!Next]_Map!vars PROVE DownloadInv'
<1>1. CASE UNCHANGED Map!vars
  BY <1>1 DEF Map!vars, Map!serverVars, Map!clientVars, Map!download, DownloadInv, Wires, Host, Download, Map!Limit
<1>2. CASE Map!Deliver
  BY <1>2, OnMapChangeKeeps, OnMapDataKeeps, ClientKeeps DEF Map!Deliver
<1>3. QED
  BY <1>1, <1>2, OnRequestKeeps, ServerKeeps, ClientKeeps DEF Map!Next, Map!Server

\* The download of client.cpp: the file, the request and the messages on their
\* way fit each other, whatever maps and sizes there are.
THEOREM DownloadInductive == Map!Spec => []DownloadInv
BY DownloadInit, DownloadStep, PTL DEF Map!Spec

\* The file that is downloaded holds the chunks of the wanted map, from the
\* first, each once and in order, however often the map changes, and it is
\* not open while an HTTP request writes to its path.
THEOREM FileKeepsPrefix == Map!Spec => []FileIsPrefix
<1>1. DownloadInv => Map!FileIsPrefix
  <2> SUFFICES ASSUME DownloadInv PROVE Map!FileIsPrefix
    OBVIOUS
  <2>1. Map!TypeOK
    BY DEF Map!TypeOK, DownloadInv, Host, Download
  <2>2. ASSUME file # None
        PROVE  Map!IsPrefix(file, Map!Content(wanted))
    <3> DEFINE all == Map!Content(wanted)
    <3>1. /\ wanted \in Maps /\ file \in Seq(Blocks) /\ chunk = Len(file) /\ chunk < Chunks[wanted]
          /\ \A i \in 1 .. chunk : file[i] = Map!Data(wanted, i - 1)
      BY <2>2 DEF DownloadInv, Download
    <3>2. Chunks[wanted] \in Nat /\ chunk \in Nat
      BY <3>1, DownloadAssumption DEF Map!DownloadConstants, DownloadInv, Download
    <3>3. all \in Seq(Blocks) /\ Len(all) = Chunks[wanted]
          /\ \A i \in 1 .. Chunks[wanted] : all[i] = Map!Data(wanted, i - 1)
      <4>1. all = [i \in 1 .. Chunks[wanted] |-> Map!Data(wanted, i - 1)]
        BY DEF Map!Content
      <4>2. \A i \in 1 .. Chunks[wanted] : Map!Data(wanted, i - 1) \in Blocks
        BY <3>1, <3>2 DEF Blocks
      <4> HIDE DEF all
      <4>3. all \in [1 .. Chunks[wanted] -> Blocks]
        BY <4>1, <4>2
      <4>4. all \in Seq(Blocks)
        BY <3>2, <4>3, SeqDef
      <4>5. Len(all) = Chunks[wanted]
        BY <3>2, <4>3, <4>4, LenProperties
      <4>6. QED
        BY <4>1, <4>4, <4>5
    <3> HIDE DEF all
    <3>4. /\ SubSeq(all, 1, chunk) \in Seq(Blocks) /\ Len(SubSeq(all, 1, chunk)) = chunk
          /\ \A i \in 1 .. chunk : SubSeq(all, 1, chunk)[i] = all[i]
      <4>1. \A i \in 1 .. chunk : all[i] \in Blocks
        BY <3>1, <3>2, <3>3, ElementOfSeq
      <4>2. /\ SubSeq(all, 1, chunk) \in Seq(Blocks)
            /\ Len(SubSeq(all, 1, chunk)) = IF 1 <= chunk THEN chunk - 1 + 1 ELSE 0
            /\ \A i \in 1 .. chunk - 1 + 1 : SubSeq(all, 1, chunk)[i] = all[1 + i - 1]
        BY <3>2, <4>1, SubSeqProperties
      <4>3. QED
        BY <3>2, <4>2
    <3>5. \A i \in 1 .. chunk : SubSeq(all, 1, chunk)[i] = file[i]
      BY <3>1, <3>2, <3>3, <3>4
    <3>6. SubSeq(all, 1, chunk) = file
      BY <3>1, <3>4, <3>5, SeqEqual
    <3>7. SubSeq(file, 1, chunk) = file
      BY <3>1, SubSeqFull
    <3>8. QED
      BY <3>1, <3>2, <3>3, <3>6, <3>7 DEF Map!IsPrefix, all
  <2>3. QED
    BY <2>1, <2>2 DEF Map!FileIsPrefix, DownloadInv, Download
<1>2. QED
  BY <1>1, DownloadInductive, PTL DEF FileIsPrefix
=============================================================================
