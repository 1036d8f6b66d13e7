----------------------------- MODULE RingBuffer -----------------------------
(***************************************************************************)
(* CRingBufferBase (engine/shared/ringbuffer.cpp): the memory of the       *)
(* chunks that may have to be resent, of the console's backlog and of the  *)
(* graphs.  The memory is cut into blocks, each behind a header that links *)
(* it with its neighbours; sizes and places are counted in headers.  The   *)
(* buffer is one record, so that a call can walk through several states of *)
(* it before it returns.                                                   *)
(***************************************************************************)
EXTENDS Integers, Sequences

CONSTANT Size   \* m_Size

None == -1
Offsets == 0 .. Size - 1

VARIABLE ring   \* m_pBuffer, m_pLast, m_pProduce, m_pConsume, and whether m_Flags
                \* is FLAG_RECYCLE; m_pFirst is 0

\* A header that no block starts with is overwritten by the items.
NoBlock == [prev |-> None, next |-> None, free |-> FALSE, size |-> 0]

Cleared(recycles) ==
    [recycles |-> recycles, block |-> [o \in Offsets |->
        IF o = 0 THEN [prev |-> None, next |-> None, free |-> TRUE, size |-> Size] ELSE NoBlock],
     last |-> 0, produce |-> 0, consume |-> 0]

NextBlock(r, i) == IF r.block[i].next # None THEN r.block[i].next ELSE 0
CanMerge(r, i) ==
    /\ r.block[i].free /\ r.block[i].prev # None
    /\ r.block[r.block[i].prev].free

\* Fault: m_pProduce stays where there is no block any more.
MergeBack_KeepsProduce(r, i) ==
    LET p == r.block[i].prev
        n == r.block[i].next
    IN IF ~CanMerge(r, i) THEN r
       ELSE [r EXCEPT !.block = [o \in Offsets |->
                 CASE o = i -> NoBlock
                   [] o = p -> [r.block[p] EXCEPT !.size = @ + r.block[i].size, !.next = n]
                   [] o = n -> [r.block[n] EXCEPT !.prev = p]
                   [] OTHER -> r.block[o]],
             !.last = IF n = None THEN p ELSE @, !.consume = IF @ = i THEN p ELSE @]

\* MergeBack: a free block becomes part of the free one before it.
MergeBack(r, i) ==
    LET p == r.block[i].prev
        n == r.block[i].next
    IN IF ~CanMerge(r, i) THEN r
       ELSE [r EXCEPT !.block = [o \in Offsets |->
                 CASE o = i -> NoBlock
                   [] o = p -> [r.block[p] EXCEPT !.size = @ + r.block[i].size, !.next = n]
                   [] o = n -> [r.block[n] EXCEPT !.prev = p]
                   [] OTHER -> r.block[o]],
             !.last = IF n = None THEN p ELSE @,
             !.produce = IF @ = i THEN p ELSE @, !.consume = IF @ = i THEN p ELSE @]

MergeAndAdvance(r) ==
    LET merged == MergeBack(r, r.consume)
    IN [merged EXCEPT !.consume = NextBlock(merged, merged.consume)]

\* The loop of PopFirst: on to the next item, if there is one.
Advanced(r) ==
    LET after[k \in 0 .. Size] ==
            IF k = 0 THEN r
            ELSE LET q == after[k - 1]
                 IN IF q.block[q.consume].free /\ q.consume # q.produce THEN MergeAndAdvance(q) ELSE q
    IN after[Size]

\* Fault: a free block in between is not skipped.
Popped_NoLoop(r) ==
    LET next == MergeAndAdvance([r EXCEPT !.block[r.consume].free = TRUE])
    IN MergeBack(next, next.consume)

\* PopFirst, when the buffer is not empty.
Popped(r) ==
    LET next == Advanced(MergeAndAdvance([r EXCEPT !.block[r.consume].free = TRUE]))
    IN MergeBack(next, next.consume)

IsEmpty(r) == r.block[r.consume].free

\* The block Allocate takes for an item of n headers, its own included.
Chosen(r, n) ==
    LET Fits(o) == r.block[o].free /\ r.block[o].size >= n
    IN CASE Fits(r.produce) -> r.produce
         [] ~Fits(r.produce) /\ r.block[r.produce].free /\ Fits(0) -> 0
         [] OTHER -> None

\* The loop of Allocate: items are taken out until the new one fits.
MadeRoom(r, n) ==
    LET after[k \in 0 .. Size] ==
            IF k = 0 THEN r
            ELSE LET q == after[k - 1]
                 IN IF Chosen(q, n) = None /\ q.recycles /\ ~IsEmpty(q) THEN Popped(q) ELSE q
    IN after[Size]

\* Block b is used for an item, and cut if more than a header would be left.
Used(r, b, n) ==
    LET old == r.block[b]
        cuts == old.size > n + 1
        rest == b + n
        block == [o \in Offsets |->
            CASE o = b -> [prev |-> old.prev, next |-> IF cuts THEN rest ELSE old.next,
                           free |-> FALSE, size |-> IF cuts THEN n ELSE old.size]
              [] cuts /\ o = rest -> [prev |-> b, next |-> old.next, free |-> TRUE, size |-> old.size - n]
              [] cuts /\ o = old.next -> [r.block[o] EXCEPT !.prev = rest]
              [] OTHER -> r.block[o]]
        used == [r EXCEPT !.block = block, !.last = IF cuts /\ old.next = None THEN rest ELSE @]
    IN [used EXCEPT !.produce = NextBlock(used, b)]

Allocated(r, n) ==
    LET room == MadeRoom(r, n)
        b == Chosen(room, n)
    IN IF b = None THEN room ELSE Used(room, b, n)
-----------------------------------------------------------------------------
Init == \E recycles \in BOOLEAN : ring = Cleared(recycles)

\* An item of n headers; the caller sees whether it got it.
Allocate(n) == ring' = Allocated(ring, n)

PopFirst == ~IsEmpty(ring) /\ ring' = Popped(ring)

Clear == ring' = Cleared(ring.recycles)

Next == PopFirst \/ Clear \/ \E n \in 1 .. Size : Allocate(n)

Spec == Init /\ [][Next]_ring
-----------------------------------------------------------------------------
\* The items as First and Next show them.
Items ==
    LET from[i \in Offsets] ==
            LET next == NextBlock(ring, i)
                rest == IF next = ring.produce THEN << >> ELSE from[next]
            IN IF ring.block[i].free THEN rest
               ELSE <<[at |-> i, size |-> ring.block[i].size]>> \o rest
    IN IF IsEmpty(ring) THEN << >> ELSE from[ring.consume]

Queue == INSTANCE ItemQueue WITH items <- Items, recycles <- ring.recycles

\* The items are a queue: they come out in the order they went in, none is
\* lost or shown twice, and none lies in the memory of another, however often
\* the memory wraps around.
QueueSpec == Queue!Spec

\* An empty buffer takes an item of any size up to its own, so that PopFirst
\* until there is nothing left always makes room, and a buffer that recycles
\* refuses nothing: the memory never stays cut.
EmptyTakesAll == IsEmpty(ring) => \A n \in 1 .. Size : Chosen(ring, n) # None
=============================================================================
