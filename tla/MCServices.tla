------------------------------ MODULE MCServices ------------------------------
(***************************************************************************)
(* What the programs settle with others above the network's connections:   *)
(* the registration of a server and the download of its map.  They do not  *)
(* touch each other: in each behaviour one of them, `part', is used.       *)
(* Registration: a server with one protocol that has to answer a           *)
(* challenge, with every pair of events; and a server with two protocols   *)
(* that share the information.                                             *)
(* Map: two maps of two and three chunks, of which the client has none,    *)
(* one or both, and three changes of the map.                              *)
(***************************************************************************)
EXTENDS Register

CONSTANTS
    ipv4, ipv6,                                         \* Register
    Maps, Chunks, Exact, Window, OnDisk, MaxChanges,    \* MapDownload
    mapA, mapB

MCAddrs == {ipv4, ipv6}
MCSecrets == 1 .. 2
One(info, setting, seed, crash) ==
    [offered |-> {ipv4}, exempt |-> {}, jobs |-> 1, loss |-> 1,
     info |-> info, setting |-> setting, seed |-> seed, crash |-> crash]
Two(info, setting) ==
    [offered |-> MCAddrs, exempt |-> MCAddrs, jobs |-> 1, loss |-> 1,
     info |-> info, setting |-> setting, seed |-> 0, crash |-> 0]
MCPlans ==
    {Two(1, 1)} \cup {q \in {One(h, i, j, k) : h, i, j, k \in 0 .. 1} : q.info + q.setting + q.seed + q.crash = 2}

\* The first map has two chunks, the second one three.
MCChunks == [m \in {mapA, mapB} |-> IF m = mapA THEN 2 ELSE 3]
MCOnDisk == SUBSET {mapA, mapB}

VARIABLES part, fast, current, next, num, state, changes, toClient, toServer, up, wanted, task,
    file, chunk, refused, loaded, disk

mapVars == <<fast, current, next, num, state, changes, toClient, toServer, up, wanted, task, file,
             chunk, refused, loaded, disk>>

Map == INSTANCE MapDownload
ASSUME DownloadAssumption == Map!DownloadConstants

MCInit ==
    /\ Init /\ Map!Init
    /\ part \in {"registration", "map"}
    /\ part = "map" => plan = CHOOSE q \in Plans : TRUE
    /\ part # "map" => fast /\ current = (CHOOSE m \in Maps : TRUE) /\ disk = {}

MCNext ==
    \/ part = "registration" /\ Next /\ UNCHANGED <<part, mapVars>>
    \/ part = "map" /\ Map!Next /\ UNCHANGED <<part, vars>>

MCSpec == MCInit /\ [][MCNext]_<<part, vars, mapVars>>

-----------------------------------------------------------------------------
\* The server is found at the master server again and again, or forgotten there.
RegistrationFollows == Fairness => ListFollows

\* The file of a download holds the first chunks of the wanted map.
FileIsPrefix == Map!FileIsPrefix

\* A download ends, unless its file cannot be opened or the server's limit is
\* used up.
DownloadEnds == Map!Fairness => Map!DownloadEnds
=============================================================================
