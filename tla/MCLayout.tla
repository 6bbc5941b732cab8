------------------------------ MODULE MCLayout ------------------------------
(***************************************************************************)
(* Instances of Layout for TLC.                                            *)
(***************************************************************************)
EXTENDS Layout

Msg(type, key, value) == [type |-> type, key |-> key, value |-> value]
Pivot(child, leftKey, msgs) ==
    [childNid |-> child, leftKey |-> leftKey, msgs |-> msgs]

Two == <<Msg(Put, <<1>>, <<3>>), Msg(Del, <<2>>, <<>>)>>

\* A buffer is filled or emptied.
MCBufs == {<<>>, Two}

\* An inner node with two children, whose buffers are both full.
MCShapes ==
    {[isLeaf |-> 0, pivots |-> <<Pivot(2, <<>>, Two), Pivot(3, <<2>>, Two)>>]}

\* A value that is shorter than its key.
ShortValue == {<<>>, <<Msg(Put, <<1, 2>>, <<3>>)>>}

=============================================================================
