---------------------------- MODULE MasterServer ----------------------------
(***************************************************************************)
(* The master server's lists of game servers, mastersrv/src/main.rs: the   *)
(* addresses that are listed, each with the secret of the process that     *)
(* registered it, and the servers behind the secrets, each with its        *)
(* addresses and the serial of the information the master has of it.  The  *)
(* information itself is its serial: a server gives every content a new    *)
(* one.                                                                    *)
(***************************************************************************)
EXTENDS Integers, FiniteSets

CONSTANTS
    Addrs,    \* the addresses: a protocol and an address of a game server
    Secrets,  \* Register::secret, one for each life of a game server
    None

ASSUME MasterAssumption == None \notin Secrets

VARIABLES
    addresses, \* Servers::addresses
    servers    \* Servers::servers

masterVars == <<addresses, servers>>

ServerInfo == [addrs : SUBSET Addrs, serial : Int]

MasterTypeOK ==
    /\ addresses \in [Addrs -> Secrets \cup {None}]
    /\ DOMAIN servers \subseteq Secrets
    /\ servers \in [DOMAIN servers -> ServerInfo]

MasterInit ==
    /\ addresses = [a \in Addrs |-> None]
    /\ servers = << >>

\* The server keeps its addresses but those in gone.
Left(s, gone) == servers[s].addrs \ {a \in gone : addresses[a] = s}

\* Fault: a server keeps its place when its last address goes.
Without_KeepsEmpty(gone) ==
    [s \in DOMAIN servers |-> [addrs |-> Left(s, gone), serial |-> servers[s].serial]]

\* What is left of the servers without the addresses in gone: a server
\* without an address is forgotten, and its information with it.
Without(gone) ==
    [s \in {t \in DOMAIN servers : Left(t, gone) # {}} |->
        [addrs |-> Left(s, gone), serial |-> servers[s].serial]]

IsKnown(s) == s \in DOMAIN servers
IsNewer(s, serial) == IsKnown(s) => serial > servers[s].serial

\* add returns NeedInfo and changes nothing.
NeedsInfo(s, serial, info) == IsNewer(s, serial) /\ ~info

\* The addresses of the server that registers address a.
Joined(a, s) == {a} \cup IF IsKnown(s) THEN servers[s].addrs ELSE {}

\* Fault: the information of a registration that was overtaken is taken over.
Added_Older(a, s, serial) ==
    LET others == Without(IF addresses[a] = s THEN {} ELSE {a})
    IN [t \in DOMAIN others \cup {s} |->
           IF t = s THEN [addrs |-> Joined(a, s), serial |-> serial] ELSE others[t]]

\* add, with the time of the entry taken under the lock of the lists, so that
\* it is never Obsolete: an address that belonged to another secret leaves
\* that server first.
Added(a, s, serial) ==
    LET others == Without(IF addresses[a] = s THEN {} ELSE {a})
        newest == IF IsNewer(s, serial) THEN serial ELSE servers[s].serial
    IN [t \in DOMAIN others \cup {s} |->
           IF t = s THEN [addrs |-> Joined(a, s), serial |-> newest] ELSE others[t]]

Add(a, s, serial, info) ==
    /\ ~NeedsInfo(s, serial, info)
    /\ addresses' = [addresses EXCEPT ![a] = s]
    /\ servers' = Added(a, s, serial)

Unlist(gone) ==
    /\ addresses' = [a \in Addrs |-> IF a \in gone THEN None ELSE addresses[a]]
    /\ servers' = Without(gone)

\* remove: only whoever knows the secret takes an address from the list.
Remove(a, s) == addresses[a] = s /\ Unlist({a})

\* Fault: the last address of a server is not pruned.
PruneBefore_NotLast(gone) ==
    /\ gone # {}
    /\ \A a \in gone : addresses[a] # None /\ servers[addresses[a]].addrs # gone
    /\ Unlist(gone)

\* prune_before: the addresses that have not been registered for thirty
\* seconds; which ones those are depends on how late the registrations came.
PruneBefore(gone) ==
    /\ gone # {}
    /\ \A a \in gone : addresses[a] # None
    /\ Unlist(gone)

\* The master server is started again, without a dump.
Forget ==
    /\ addresses' = [a \in Addrs |-> None]
    /\ servers' = << >>

MasterNext ==
    \/ \E a \in Addrs, s \in Secrets :
           \/ \E serial \in Int, info \in BOOLEAN : Add(a, s, serial, info)
           \/ Remove(a, s)
    \/ \E gone \in SUBSET Addrs : PruneBefore(gone)
    \/ Forget

MasterSpec == MasterInit /\ [][MasterNext]_masterVars

\* The two lists agree, which the unwraps and assertions of add, remove and
\* prune_before rely on (main.rs:415-480): a listed address is an address of
\* the server with its secret and of no other, and a server is known exactly
\* as long as it has an address.
MapsAgree ==
    \A s \in Secrets :
        LET listed == {a \in Addrs : addresses[a] = s}
        IN IF IsKnown(s) THEN listed # {} /\ servers[s].addrs = listed ELSE listed = {}
=============================================================================
