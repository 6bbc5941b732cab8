-------------------------------- MODULE Node --------------------------------
(***************************************************************************)
(* The pivots of a node and the operations on them that need no lock of    *)
(* their own (src/src/Node.h, src/src/Node.cpp).                           *)
(*                                                                         *)
(* A pivot has the nid of a child (NID_NIL in a leaf), a left key and a    *)
(* message buffer.  The empty Slice, which is below every key, is EmptyKey.*)
(* Positions count from 1 where the code counts from 0.                    *)
(***************************************************************************)
EXTENDS MsgBuf, Sequences

CONSTANT MaxNodes      \* bound: node objects a behaviour may create

ASSUME MaxNodesAssumption == MaxNodes \in Nat \ {0}

Objs == 1..MaxNodes    \* node objects, in the order of their creation
NID_NIL == 0
EmptyKey == 0

Pivot == [child : 0..MaxNodes, leftKey : Keys \cup {EmptyKey}, buf : MsgBuf]

NewPivot(child, buf, key) == [child |-> child, leftKey |-> key, buf |-> buf]

\* Node::findPivot: the first pivot whose left key is above the key, and the
\* last pivot if there is none.
FindPivot(p, key) ==
    LET above == {i \in DOMAIN p : key < p[i].leftKey}
    IN  IF above = {} THEN Len(p) ELSE Smallest(above)

\* The pivot pushDownLocked moves a message to: the last one before the first
\* pivot, from the second on, whose left key is above the key.
Route(p, key) ==
    LET above == {i \in DOMAIN p : i > 1 /\ key < p[i].leftKey}
    IN  IF above = {} THEN Len(p) ELSE Smallest(above) - 1

\* Node::addPivot with a key: behind the pivot findPivot names.
AddPivot(p, child, buf, key) ==
    LET i == FindPivot(p, key)
    IN  SubSeq(p, 1, i) \o <<NewPivot(child, buf, key)>>
          \o SubSeq(p, i + 1, Len(p))

\* The pivots with another buffer in pivot i.
WithBuf(p, i, buf) ==
    [p EXCEPT ![i] = NewPivot(p[i].child, buf, p[i].leftKey)]

\* Node::insertMsg.
InsertMsg(p, i, key, msg) == WithBuf(p, i, Insert(p[i].buf, key, msg))

\* The keys of K whose messages go to pivot i.
Routed(p, K, i) == {k \in K : Route(p, k) = i}

\* Mutant of PushInto: the second loop is missing, and with it the messages
\* for the last pivot.
PushIntoBelow(p, msgs, K) ==
    [i \in DOMAIN p |->
        NewPivot(p[i].child,
                 IF i = Len(p) /\ i > 1 THEN p[i].buf
                 ELSE InsertAll(p[i].buf, msgs, Routed(p, K, i)),
                 p[i].leftKey)]

\* The receiving side of pushDownLocked for the messages of msgs with a key
\* in K.
PushInto(p, msgs, K) ==
    [i \in DOMAIN p |->
        NewPivot(p[i].child,
                 InsertAll(p[i].buf, msgs, Routed(p, K, i)),
                 p[i].leftKey)]

\* The pivots of a leaf after splitBuf has split the buffer of pivot i.
SplitPivots(p, i) ==
    LET buf   == p[i].buf
        upper == UpperKeys(buf)
    IN  AddPivot(WithBuf(p, i, Resize(buf, Count(buf) \div 2)), NID_NIL,
                 Keep(buf.msgs, upper), Smallest(upper))

\* Node::splitNode cuts the pivots in two after this many.
Middle(p) == Len(p) \div 2
Lower(p) == SubSeq(p, 1, Middle(p))
Upper(p) == SubSeq(p, Middle(p) + 1, Len(p))

=============================================================================
