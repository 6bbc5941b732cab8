------------------------------ MODULE Allocator ------------------------------
(***************************************************************************)
(* What the users of a Slab rely on: the bytes they are given lie in the   *)
(* arena and belong to nobody else until they give them back.              *)
(***************************************************************************)
EXTENDS Integers

CONSTANTS ArenaSize,   \* bytes between start_ and end_
          Sizes        \* the sizes that are asked for

VARIABLE live          \* the blocks in use: offset from start_, and size

Disjoint(b, c) == b.at + b.size <= c.at \/ c.at + c.size <= b.at

Init == live = {}

\* A block of free bytes.
Obtain(size) ==
    \E at \in 0..(ArenaSize - size) :
        LET b == [at |-> at, size |-> size]
        IN  /\ live' = live \cup {b}
            /\ \A c \in live : Disjoint(b, c)

\* The null pointer: nothing changes.
Refuse == UNCHANGED live

GiveBack(b) == b \in live /\ live' = live \ {b}

Next ==
    \/ Refuse
    \/ \E b \in live : GiveBack(b)
    \/ \E size \in Sizes : Obtain(size)

Spec == Init /\ [][Next]_live

=============================================================================
