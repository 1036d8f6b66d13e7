------------------------------ MODULE BanPool ------------------------------
(***************************************************************************)
(* CNetBan and its two pools, of addresses and of ranges of addresses      *)
(* (engine/shared/netban.h, netban.cpp), and the server's clients, which a *)
(* ban drops (CServerBan, engine/server/server.cpp).  The entries of a     *)
(* pool are linked through m_pNext and m_pPrev, as used ones in the order  *)
(* in which they run out, or as free ones; and through m_pHashNext and     *)
(* m_pHashPrev with those in the same bucket.  A ban is found through its  *)
(* bucket only.  An address is a sequence of bytes of one type: websocket  *)
(* addresses are left out.                                                 *)
(***************************************************************************)
EXTENDS Integers, Sequences, FiniteSets

CONSTANTS
    MaxBans,    \* MAX_BANS, 2048 in the program
    Length,     \* bytes of an address
    Buckets,    \* 256 in the program
    Addrs,      \* addresses
    Clients,    \* those from which somebody plays
    Plans,      \* what gets banned: ranges [lb, ub], or an address as both ends
    MaxTime     \* bound: the clock stops here

None == -1
Never == -1     \* EXPIRES_NEVER
Entries == 0 .. MaxBans - 1
Kinds == {"addr", "range"}
Console == << >>

Address == {a \in Seq(Nat) : Len(a) = Length}
Ranges == [lb : Address, ub : Address]

\* What the constants must be.
BanConstants ==
    /\ MaxBans \in Nat \ {0} /\ Length \in Nat \ {0} /\ Buckets \in Nat \ {0}
    /\ Addrs \subseteq Address /\ Clients \subseteq Addrs
    /\ \A plan \in Plans : \A d \in plan : d \in Ranges

VARIABLES
    pool,   \* m_BanAddrPool and m_BanRangePool
    online, \* the addresses of the clients
    banned, \* bound: what is banned at all, one of Plans
    now,    \* time_timestamp()
    due     \* the second has changed since the last tick of the server

vars == <<pool, online, banned, now, due>>

IsRange(d) == d.lb # d.ub
KindOf(d) == IF IsRange(d) THEN "range" ELSE "addr"

Sum(a, n) == LET sum[k \in 0 .. n] == IF k = 0 THEN 0 ELSE sum[k - 1] + a[k] IN sum[n]

\* The bytes in which the ends of a range agree.
Common(d) == CHOOSE n \in 0 .. Length - 1 : SubSeq(d.lb, 1, n) = SubSeq(d.ub, 1, n) /\ d.lb[n + 1] # d.ub[n + 1]

\* Fault: the first byte that differs counts as well.
NetHash_OffByOne(d) ==
    IF IsRange(d) THEN [index |-> Common(d), hash |-> Sum(d.lb, Common(d) + 1) % Buckets]
    ELSE [index |-> 0, hash |-> Sum(d.lb, Length) % Buckets]

\* CNetHash::CNetHash
NetHash(d) ==
    IF IsRange(d) THEN [index |-> Common(d), hash |-> Sum(d.lb, Common(d)) % Buckets]
    ELSE [index |-> 0, hash |-> Sum(d.lb, Length) % Buckets]

Hashes == [index : 0 .. Length - 1, hash : 0 .. Buckets - 1]

\* mem_comp of the bytes from the n-th on
NotAfter(a, b, n) ==
    \/ SubSeq(a, n, Length) = SubSeq(b, n, Length)
    \/ \E k \in n .. Length : SubSeq(a, n, k - 1) = SubSeq(b, n, k - 1) /\ a[k] < b[k]

\* NetMatch
InRange(d, a, start) ==
    /\ SubSeq(d.lb, 1, start) = SubSeq(a, 1, start)
    /\ NotAfter(d.lb, a, start + 1) /\ NotAfter(a, d.ub, start + 1)
Matches(d, a) == IF IsRange(d) THEN InRange(d, a, 0) ELSE d.lb = a
-----------------------------------------------------------------------------
NoData == [lb |-> << >>, ub |-> << >>]

\* Reset
Reset ==
    [next |-> [i \in Entries |-> IF i = MaxBans - 1 THEN None ELSE i + 1],
     prev |-> [i \in Entries |-> i - 1],
     hashNext |-> [i \in Entries |-> None], hashPrev |-> [i \in Entries |-> None],
     data |-> [i \in Entries |-> NoData], expires |-> [i \in Entries |-> 0],
     bucket |-> [h \in Hashes |-> None],
     firstFree |-> 0, firstUsed |-> None, count |-> 0]

\* The entries from i on.
Linked(next, i) ==
    LET from[e \in Entries] == IF next[e] = None THEN <<e>> ELSE <<e>> \o from[next[e]]
    IN IF i = None THEN << >> ELSE from[i]

\* Entry b leaves the list that starts with first.
Unlinked(p, b, first) ==
    [p EXCEPT !.prev = IF p.next[b] = None THEN @ ELSE [@ EXCEPT ![p.next[b]] = p.prev[b]],
              !.next = IF p.prev[b] = None THEN @ ELSE [@ EXCEPT ![p.prev[b]] = p.next[b]],
              ![first] = IF p.prev[b] = None THEN p.next[b] ELSE @]

\* Fault: bans for ever are kept in front.
GoesBefore_NeverFirst(p, b, e) == p.expires[b] = Never \/ p.expires[b] <= p.expires[e]

GoesBefore(p, b, e) ==
    p.expires[e] = Never \/ (p.expires[b] # Never /\ p.expires[b] <= p.expires[e])

\* InsertUsed: entry b goes before the first that runs out no earlier.
InsertUsed(p, b) ==
    LET used == Linked(p.next, p.firstUsed)
        later == {k \in 1 .. Len(used) : GoesBefore(p, b, used[k])}
        at == IF later = {} THEN Len(used) + 1 ELSE CHOOSE k \in later : \A j \in later : k <= j
        after == IF at > Len(used) THEN None ELSE used[at]
        before == IF at = 1 THEN None ELSE used[at - 1]
    IN [p EXCEPT !.next = [i \in Entries |-> IF i = b THEN after ELSE IF i = before THEN b ELSE @[i]],
                 !.prev = [i \in Entries |-> IF i = b THEN before ELSE IF i = after THEN b ELSE @[i]],
                 !.firstUsed = IF at = 1 THEN b ELSE @]

\* Add, when there is a free entry: it goes to the front of its bucket.
Added(p, d, expires) ==
    LET b == p.firstFree
        h == NetHash(d)
        head == p.bucket[h]
        filled == [p EXCEPT !.data[b] = d, !.expires[b] = expires]
        taken == Unlinked(filled, b, "firstFree")
        hashed == [taken EXCEPT !.hashPrev = [i \in Entries |-> IF i = b THEN None ELSE IF i = head THEN b ELSE @[i]],
                                !.hashNext[b] = head, !.bucket[h] = b, !.count = @ + 1]
    IN InsertUsed(hashed, b)

\* Fault: an entry that is not the first of its bucket leaves it to those after it.
Unhashed_First(p, b) ==
    [p EXCEPT !.hashPrev = [i \in Entries |-> IF i = p.hashNext[b] THEN p.hashPrev[b] ELSE IF i = b THEN None ELSE @[i]],
              !.hashNext[b] = None,
              !.bucket[NetHash(p.data[b])] = p.hashNext[b]]

Unhashed(p, b) ==
    [p EXCEPT !.hashPrev = [i \in Entries |-> IF i = b THEN None
                                              ELSE IF i = p.hashNext[b] THEN p.hashPrev[b] ELSE @[i]],
              !.hashNext = [i \in Entries |-> IF i = b THEN None
                                              ELSE IF i = p.hashPrev[b] THEN p.hashNext[b] ELSE @[i]],
              !.bucket[NetHash(p.data[b])] = IF p.hashPrev[b] = None THEN p.hashNext[b] ELSE @]

\* Remove: the entry becomes the first free one.  Its content stays until it
\* is used again, which nothing sees.
Removed(p, b) ==
    LET q == Unlinked(Unhashed(p, b), b, "firstUsed")
    IN [q EXCEPT !.prev = [i \in Entries |-> IF i = b THEN None ELSE IF i = q.firstFree THEN b ELSE @[i]],
                 !.next[b] = q.firstFree, !.firstFree = b, !.count = @ - 1,
                 !.data[b] = NoData, !.expires[b] = 0]

\* Update, of a ban
Updated(p, b, expires) ==
    InsertUsed(Unlinked([p EXCEPT !.expires[b] = expires], b, "firstUsed"), b)

\* Find
Find(p, d) ==
    LET chain == Linked(p.hashNext, p.bucket[NetHash(d)])
        found == {k \in 1 .. Len(chain) : p.data[chain[k]] = d}
    IN IF found = {} THEN None ELSE chain[CHOOSE k \in found : \A j \in found : k <= j]

\* IsBanned, with the hashes of MakeHashArray
IsBanned(a) ==
    \/ Find(pool.addr, [lb |-> a, ub |-> a]) # None
    \/ \E n \in 0 .. Length - 1 :
           LET chain == Linked(pool.range.hashNext, pool.range.bucket[[index |-> n, hash |-> Sum(a, n) % Buckets]])
           IN \E k \in 1 .. Len(chain) : InRange(pool.range.data[chain[k]], a, n)
-----------------------------------------------------------------------------
Init ==
    /\ pool = [kind \in Kinds |-> Reset]
    /\ online = {} /\ banned \in Plans /\ now = 0 /\ due = FALSE

\* CServerBan::BanExt and CNetBan::Ban, by an admin at an address or from a
\* console; clients of the same or a higher level refuse like the admin's own
\* address.  A ban that is there already drops nobody.  Nobody is at localhost,
\* which is refused as well.
BanExt(d, seconds, by) ==
    LET p == pool[KindOf(d)]
        expires == IF seconds > 0 THEN now + seconds ELSE Never
        b == Find(p, d)
    IN /\ by \in online => ~Matches(d, by)
       /\ IF b # None THEN /\ pool' = [pool EXCEPT ![KindOf(d)] = Updated(p, b, expires)]
                           /\ UNCHANGED online
          ELSE /\ p.firstFree # None
               /\ pool' = [pool EXCEPT ![KindOf(d)] = Added(p, d, expires)]
               /\ online' = {a \in online : ~Matches(d, a)}
       /\ UNCHANGED <<banned, now, due>>

\* UnbanByAddr, UnbanByRange
Unban(d) ==
    LET p == pool[KindOf(d)]
    IN /\ Find(p, d) # None
       /\ pool' = [pool EXCEPT ![KindOf(d)] = Removed(p, Find(p, d))]
       /\ UNCHANGED <<online, banned, now, due>>

\* UnbanByIndex, counted as the command "bans" shows the two lists
UnbanByIndex(index) ==
    LET kind == IF index < pool.addr.count THEN "addr" ELSE "range"
        p == pool[kind]
        i == IF kind = "addr" THEN index ELSE index - pool.addr.count
    IN /\ i < p.count
       /\ pool' = [pool EXCEPT ![kind] = Removed(p, Linked(p.next, p.firstUsed)[i + 1])]
       /\ UNCHANGED <<online, banned, now, due>>

UnbanAll ==
    /\ pool' = [kind \in Kinds |-> Reset]
    /\ UNCHANGED <<online, banned, now, due>>

\* The loops of Update, many times a second: the first ban is lifted
\* as long as it has run out.
Swept(p) ==
    LET sweep[k \in 0 .. MaxBans] ==
            IF k = 0 THEN p
            ELSE LET q == sweep[k - 1]
                 IN IF q.firstUsed # None /\ q.expires[q.firstUsed] # Never /\ q.expires[q.firstUsed] < now
                    THEN Removed(q, q.firstUsed) ELSE q
    IN sweep[MaxBans]

Update ==
    /\ due' = FALSE
    /\ pool' = [kind \in Kinds |-> Swept(pool[kind])]
    /\ UNCHANGED <<online, banned, now>>

\* CNetServer::Recv looks at every packet's address.
Connect(a) ==
    /\ a \notin online /\ ~IsBanned(a)
    /\ online' = online \cup {a}
    /\ UNCHANGED <<pool, banned, now, due>>

Tick ==
    /\ now < MaxTime /\ ~due
    /\ now' = now + 1 /\ due' = TRUE
    /\ UNCHANGED <<pool, online, banned>>

Next ==
    \/ \E d \in banned, seconds \in 0 .. 1, by \in online \cup {Console} : BanExt(d, seconds, by)
    \/ \E d \in banned : Unban(d)
    \/ \E index \in 0 .. 2 * MaxBans - 1 : UnbanByIndex(index)
    \/ UnbanAll \/ Update \/ Tick
    \/ \E a \in Clients : Connect(a)

Spec == Init /\ [][Next]_vars
-----------------------------------------------------------------------------
Bans(kind) ==
    LET p == pool[kind]
    IN [d \in {p.data[b] : b \in Entries} \ {NoData} |-> p.expires[CHOOSE b \in Entries : p.data[b] = d]]

AddrList == INSTANCE BanList
    WITH Longest <- 1, Bannable <- UNION Plans, bans <- Bans("addr"), full <- (pool.addr.firstFree = None)
RangeList == INSTANCE BanList
    WITH Longest <- 1, Bannable <- UNION Plans, bans <- Bans("range"), full <- (pool.range.firstFree = None)

\* Each of the two pools is a list of bans: banning again changes the ban that
\* is there, the bans that have run out are lifted and no others, and entries
\* are not lost.
BanSpec == AddrList!Spec /\ RangeList!Spec

\* An address is taken for banned exactly if it was banned or is in a range
\* that was, although only a few buckets are searched, and no client plays
\* under such an address.
BannedAreOut ==
    \A a \in Addrs :
        /\ IsBanned(a) <=> \E kind \in Kinds : \E d \in DOMAIN Bans(kind) : Matches(d, a)
        /\ a \in online => ~IsBanned(a)
=============================================================================
