----------------------------- MODULE ItemQueue -----------------------------
(***************************************************************************)
(* What a ring buffer promises its users: a queue of items in a memory of  *)
(* their own.  An item stays where it is, and the memory it was given is   *)
(* its alone until it is the oldest and taken out; only a buffer that      *)
(* recycles takes out items by itself, from the oldest.                    *)
(***************************************************************************)
EXTENDS Integers, Sequences

CONSTANT Size   \* the memory

VARIABLES
    items,      \* the items from the oldest, each with its place
    recycles    \* FLAG_RECYCLE

Bytes(i) == i.at .. i.at + i.size - 1
Places(n) == {[at |-> at, size |-> size] : at \in 0 .. Size - n, size \in n .. n + 1}

Init == items = << >> /\ recycles \in BOOLEAN

Allocate(n) ==
    \E k \in 0 .. Len(items), new \in Places(n) :
        LET kept == SubSeq(items, k + 1, Len(items))
        IN /\ k > 0 => recycles
           /\ Bytes(new) \subseteq 0 .. Size - 1
           /\ \A i \in 1 .. Len(kept) : Bytes(kept[i]) \cap Bytes(new) = {}
           /\ items' = Append(kept, new)

PopFirst == items # << >> /\ items' = Tail(items)

Clear == items' = << >>

Next == (PopFirst \/ Clear \/ \E n \in 1 .. Size : Allocate(n)) /\ UNCHANGED recycles

Spec == Init /\ [][Next]_<<items, recycles>>
=============================================================================
