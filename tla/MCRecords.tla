------------------------------ MODULE MCRecords ------------------------------
(***************************************************************************)
(* What the servers keep records of: ids of snapshots, items to be sent    *)
(* again, bans and the saved races of teams.  They do not touch each       *)
(* other: in each behaviour one of them, `part', is used.                  *)
(* Ids: three ids, a rest of two ticks and a clock of six.                 *)
(* Ring: a memory of eight headers.                                        *)
(* Bans: three entries for four addresses or three ranges, two of which    *)
(* share a bucket, two clients and a clock of two seconds.                 *)
(* Saves: one player on each of two servers and two saves; and a team of   *)
(* two, one save and one player who connects again.  The second server has *)
(* a file and no new players.  A behaviour ends when a database has done   *)
(* what it reports as failed, or when the race is given up.                *)
(***************************************************************************)
EXTENDS SnapIdPool, Sequences

CONSTANTS
    Size,                                   \* RingBuffer
    MaxBans, Length, Buckets, Clock,        \* BanPool
    Addrs, Clients, Plans,
    Servers, Slots, Names, First, Backed,   \* TeamSave
    UserCode, MaxSaves, MaxJoins, Nobody,
    Starts                                  \* where the instances of TeamSave start

VARIABLES part, ring, banPool, online, banned, time, due,
    who, members, team, tee, saving, save, worker, remote, kept, tmp, saves, joins, left, givenUp,
    doubt

ringVars == ring
banVars == <<banPool, online, banned, time, due>>
saveVars == <<who, members, team, tee, saving, save, worker, remote, kept, tmp, saves, joins, left,
              givenUp, doubt>>

Ring == INSTANCE RingBuffer
ASSUME RingAssumption == Size \in Nat \ {0}

Bans == INSTANCE BanPool WITH MaxTime <- Clock, pool <- banPool, now <- time
ASSUME BanAssumption == Bans!BanConstants

Save == INSTANCE TeamSave
    WITH None <- Nobody, state <- team, pending <- saving, result <- save

ASSUME SaveAssumption == Save!SaveConstants

MCInit ==
    /\ Init /\ Ring!Init /\ Bans!Init /\ Save!Init
    /\ part \in {"ids", "ring", "bans", "saves"}
    /\ \E start \in Starts :
           /\ who = start.who /\ saves = start.saves /\ joins = start.joins
           /\ start.alone => part = "saves"
    /\ part # "ring" => ring.recycles
    /\ part # "bans" => banned = CHOOSE q \in Plans : TRUE

MCNext ==
    \/ part = "ids" /\ Next /\ UNCHANGED <<part, ringVars, banVars, saveVars>>
    \/ part = "ring" /\ Ring!Next /\ UNCHANGED <<part, vars, banVars, saveVars>>
    \/ part = "bans" /\ Bans!Next /\ UNCHANGED <<part, vars, ringVars, saveVars>>
    \/ /\ part = "saves" /\ ~doubt /\ ~givenUp /\ Save!Next
       /\ \A v \in Backed : who'[v] \in {who[v], [s \in Slots[v] |-> Nobody]}
       /\ UNCHANGED <<part, vars, ringVars, banVars>>

MCSpec == MCInit /\ [][MCNext]_<<part, vars, ringVars, banVars, saveVars>>

\* The ring buffer is a queue of items, each in memory of its own.
QueueSpec == Ring!QueueSpec

\* An empty ring buffer takes an item of any size up to its own.
EmptyTakesAll == Ring!EmptyTakesAll

\* Each pool of bans is a list of bans that run out in time.
BanSpec == Bans!BanSpec

\* Exactly the banned addresses are found, and nobody plays from one.
BannedAreOut == Bans!BannedAreOut

\* A saved race is in one place only.
OneCopy == Save!OneCopy

\* A saved race is not lost.
NotLost == Save!NotLost

\* A character comes back to its own player only.
OwnTee == Save!OwnTee
-----------------------------------------------------------------------------
\* The values of the constants.
CONSTANTS s1, s2, n1, n2

FromTo(lb, ub) == [lb |-> lb, ub |-> ub]
MCAddrs == {<<0, 1>>, <<0, 2>>, <<1, 0>>, <<1, 1>>}
MCClients == {<<0, 1>>, <<1, 1>>}
MCPlans ==
    {{FromTo(a, a) : a \in MCAddrs},
     {FromTo(<<0, 1>>, <<0, 1>>), FromTo(<<1, 0>>, <<1, 1>>), FromTo(<<0, 1>>, <<1, 0>>)},
     {FromTo(<<0, 1>>, <<0, 2>>), FromTo(<<0, 0>>, <<0, 2>>), FromTo(<<0, 1>>, <<1, 0>>)}}

MCSlots == [v \in {s1, s2} |-> IF v = s1 THEN {1, 2} ELSE {1}]

\* The players of the two instances.
Rivals == [v \in {s1, s2} |-> IF v = s1 THEN <<n1, Nobody>> ELSE <<n1>>]
Pair   == [v \in {s1, s2} |-> IF v = s1 THEN <<n1, n2>> ELSE <<Nobody>>]
MCStarts ==
    {[who |-> Rivals, saves |-> 0, joins |-> 1, alone |-> FALSE],
     [who |-> Pair, saves |-> 1, joins |-> 0, alone |-> TRUE]}
=============================================================================
