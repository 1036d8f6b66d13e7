----------------------------- MODULE SnapIdPool -----------------------------
(***************************************************************************)
(* CSnapIdPool (engine/server/snap_id_pool.cpp): the ids under which the   *)
(* entities of the game appear in snapshots.  Free ids and ids that rest   *)
(* after they were given back form two linked lists through m_aIds; the    *)
(* list of resting ids is processed only when an id is asked for.  A rest  *)
(* of five seconds keeps a client from taking a new entity for an old one. *)
(*                                                                         *)
(* The pool is one record, so that a call can walk through several states  *)
(* of it before it returns.                                                *)
(***************************************************************************)
EXTENDS Integers, FiniteSets

CONSTANTS
    MaxIds,     \* MAX_IDS, 32768 in the program
    Rest,       \* five seconds
    MaxTime     \* bound: the clock stops here

ASSUME PoolAssumption == MaxIds \in Nat \ {0} /\ Rest \in Nat /\ MaxTime \in Nat

Ids == 0 .. MaxIds - 1
None == -1

VARIABLES
    pool,       \* m_aIds (next, state, timeout) and the heads and counters
    now,        \* time_get()
    result      \* history: what the last call of NewId returned

vars == <<pool, now, result>>

-----------------------------------------------------------------------------
\* Reset: all ids in one free list.
Fresh ==
    [next |-> [i \in Ids |-> IF i = MaxIds - 1 THEN None ELSE i + 1],
     state |-> [i \in Ids |-> "free"],
     timeout |-> [i \in Ids |-> 0],
     firstFree |-> 0, firstTimed |-> None, lastTimed |-> None,
     usage |-> 0, inUsage |-> 0]

\* Fault: the end of the list is forgotten.
RemoveFirstTimeout_KeepsLast(p) ==
    LET id == p.firstTimed
    IN [p EXCEPT !.next[id] = p.firstFree, !.state[id] = "free",
                 !.firstFree = id, !.firstTimed = p.next[id], !.usage = @ - 1]

\* RemoveFirstTimeout: the longest resting id moves to the front of the free list.
RemoveFirstTimeout(p) ==
    LET id == p.firstTimed
        nextTimed == p.next[id]
    IN [p EXCEPT !.next[id] = p.firstFree, !.state[id] = "free",
                 !.firstFree = id, !.firstTimed = nextTimed,
                 !.lastTimed = IF nextTimed = None THEN None ELSE @,
                 !.usage = @ - 1]

\* The loops: RemoveFirstTimeout as long as the head of the list is due.
Swept(p, Due(_)) ==
    LET sweep[k \in 0 .. MaxIds] ==
            IF k = 0 THEN p
            ELSE LET q == sweep[k - 1]
                 IN IF q.firstTimed # None /\ Due(q.firstTimed)
                    THEN RemoveFirstTimeout(q) ELSE q
    IN sweep[MaxIds]

\* Fault: an id rests a tick less than it should.
Expired_Early(id) == pool.timeout[id] <= now
Expired(id) == pool.timeout[id] < now

-----------------------------------------------------------------------------
Init == pool = Fresh /\ now = 0 /\ result = None

Tick ==
    /\ now < MaxTime
    /\ now' = now + 1
    /\ UNCHANGED <<pool, result>>

\* Fault: the id is not counted.
Taken_Uncounted(p) ==
    [p EXCEPT !.firstFree = p.next[p.firstFree], !.state[p.firstFree] = "allocated",
              !.inUsage = @ + 1]

\* NewId takes the front of the free list.
Taken(p) ==
    [p EXCEPT !.firstFree = p.next[p.firstFree], !.state[p.firstFree] = "allocated",
              !.usage = @ + 1, !.inUsage = @ + 1]

NewId ==
    /\ LET p == Swept(pool, Expired)
       IN IF p.firstFree = None
          THEN pool' = p /\ result' = None
          ELSE pool' = Taken(p) /\ result' = p.firstFree
    /\ UNCHANGED now

\* Fault: the id goes to the front of the list of resting ids.
Freed_Front(p, id) ==
    [p EXCEPT !.inUsage = @ - 1, !.state[id] = "timed", !.timeout[id] = now + Rest,
              !.next[id] = p.firstTimed, !.firstTimed = id,
              !.lastTimed = IF p.lastTimed = None THEN id ELSE @]

\* FreeId appends to the list of resting ids.  Its callers give back only what
\* they own: the destructors of the entities and characters.
Freed(p, id) ==
    [p EXCEPT !.inUsage = @ - 1, !.state[id] = "timed", !.timeout[id] = now + Rest,
              !.next = IF p.lastTimed # None THEN [@ EXCEPT ![p.lastTimed] = id, ![id] = None]
                       ELSE [@ EXCEPT ![id] = None],
              !.firstTimed = IF p.lastTimed # None THEN @ ELSE id,
              !.lastTimed = id]

FreeId(id) ==
    /\ pool.state[id] = "allocated"
    /\ pool' = Freed(pool, id)
    /\ UNCHANGED <<now, result>>

\* A new map: LoadMap ends the rest of all ids.
TimeoutIds ==
    /\ pool' = Swept(pool, LAMBDA id : TRUE)
    /\ UNCHANGED <<now, result>>

Next == Tick \/ NewId \/ TimeoutIds \/ \E id \in Ids : FreeId(id)

Spec == Init /\ [][Next]_vars

-----------------------------------------------------------------------------
\* Every variable has its type.
TypeOK ==
    /\ pool \in [next : [Ids -> Ids \cup {None}],
                 state : [Ids -> {"free", "allocated", "timed"}],
                 timeout : [Ids -> Nat],
                 firstFree : Ids \cup {None}, firstTimed : Ids \cup {None},
                 lastTimed : Ids \cup {None}, usage : 0 .. MaxIds, inUsage : 0 .. MaxIds]
    /\ now \in 0 .. MaxTime
    /\ result \in Ids \cup {None}

\* The list that starts at `first': its k-th id, None after its end.
Nth(first) ==
    LET nth[k \in Nat] ==
            IF k = 0 THEN first
            ELSE IF nth[k - 1] = None THEN None ELSE pool.next[nth[k - 1]]
    IN nth

\* A list holds the ids of its state, each once, and ends after them.
IsListOf(first, state) ==
    LET ids == {i \in Ids : pool.state[i] = state}
        n == Cardinality(ids)
    IN /\ {Nth(first)[k] : k \in 0 .. n - 1} = ids
       /\ Nth(first)[n] = None

\* Types hold, and whatever is taken, given back and timed out in whatever order, no id is
\* lost from the lists, none is on both or twice on one, the end of the list
\* of resting ids is where FreeId appends, and the counters are exact.
ListsExact ==
    /\ TypeOK
    /\ IsListOf(pool.firstFree, "free")
    /\ IsListOf(pool.firstTimed, "timed")
    /\ pool.lastTimed = None <=> pool.firstTimed = None
    /\ pool.lastTimed # None => pool.state[pool.lastTimed] = "timed" /\ pool.next[pool.lastTimed] = None
    /\ pool.inUsage = Cardinality({i \in Ids : pool.state[i] = "allocated"})
    /\ pool.usage = Cardinality({i \in Ids : pool.state[i] # "free"})

\* The pool is what it promises: ids have one owner and rest in between,
\* although the resting ids are looked at only from the front of their list,
\* and an id is refused only when there is none.
Resting == {i \in Ids : pool.state[i] = "timed"}

Promise == INSTANCE SnapIds WITH
    owned <- {i \in Ids : pool.state[i] = "allocated"},
    freedAt <- [i \in Resting |-> pool.timeout[i] - Rest]

PromiseSpec == Promise!Spec

\* Asking for an id gives none only if every id is owned or still rests.
RefusedIsExhausted ==
    [][NewId /\ result' = None =>
          \A i \in Ids : pool.state[i] = "allocated" \/
                         (pool.state[i] = "timed" /\ now <= pool.timeout[i])]_vars
=============================================================================
