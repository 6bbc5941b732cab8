--------------------------- MODULE BufferTreeSteps --------------------------
(***************************************************************************)
(* What one step of BufferTree does to the pivots, and the properties that *)
(* follow from it.                                                         *)
(*                                                                         *)
(* A step that touches pivots gives one node other pivots, in one of eight *)
(* ways, or makes a node without any.  StepKinds derives the kind from the *)
(* action and the invariant; what Copies says, and every property of       *)
(* BufferTree that is about messages or links, is then one case            *)
(* distinction.                                                            *)
(***************************************************************************)
EXTENDS BufferTreeProofs

\* No pivots change, and no node is added.
Quiet == UNCHANGED <<pivots, nodeCount, height>>

\* What the other threads rely on is left alone when thread u gives node o the
\* pivots p: a node they have locked exclusively or are making, and the buffer
\* they copy from.
Alone(u, o, p) ==
    \A t \in Threads \ {u} :
        /\ o \notin wr[t]
        /\ \A n \in DOMAIN made[t] : made[t][n] # o
        /\ pc[t] \in {"moving", "clearing"} /\ cur[t] = o =>
            Present(p[idx[t]].buf.msgs) = Present(pivots[o][idx[t]].buf.msgs)

\* Node o, and no other, is given the pivots p.
Sets(u, o, p) ==
    /\ o \in Live
    /\ pivots' = [pivots EXCEPT ![o] = p]
    /\ UNCHANGED <<nodeCount, height>>
    /\ Alone(u, o, p)

\* Node::insertMsg into pivot i of node o.
Inserts(u, o, i, k, m) ==
    /\ i \in DOMAIN pivots[o] /\ k \in Keys /\ m \in Messages
    /\ Sets(u, o, InsertMsg(pivots[o], i, k, m))
    /\ dirty'[o]

\* The copying half of pushDownLocked, all of it or one message of it.
CopiesTo(u, o, i, c, K) ==
    /\ o \in Live /\ i \in DOMAIN pivots[o] /\ c # o
    /\ K \in SUBSET Present(pivots[o][i].buf.msgs)
    /\ Sets(u, c, PushInto(pivots[c], pivots[o][i].buf.msgs, K))
    /\ K = {} \/ dirty'[c] \/ CopyingTo(u, c)'

\* The other half, which clears what has been copied.
Clears(u, o, i) ==
    /\ i \in DOMAIN pivots[o]
    /\ \A k \in Present(pivots[o][i].buf.msgs) : KeptBelow(o, k)
    /\ Sets(u, o, WithBuf(pivots[o], i, EmptyBuf))

\* Node::splitBuf of the buffer of pivot i.
SplitsBuffer(u, o, i) ==
    /\ i \in DOMAIN pivots[o] /\ Present(pivots[o][i].buf.msgs) # {}
    /\ Sets(u, o, SplitPivots(pivots[o], i))
    /\ o \in wr[u] /\ dirty'[o]

\* splitNode gives the upper pivots of node x to a new node,
Fills(u, o, x) ==
    /\ x \in Live /\ Len(pivots[x]) > 1
    /\ pivots[o] = <<>> /\ ~Reachable(o)
    /\ Sets(u, o, Upper(pivots[x]))
    /\ dirty'[o]

\* takes them from node o,
Cuts(u, o, a) ==
    /\ Len(pivots[o]) > 1 /\ o \in wr[u]
    /\ a \in Live /\ a # o /\ height[a] = height[o]
    /\ pivots[a] = Upper(pivots[o])
    /\ Sets(u, o, Lower(pivots[o]))
    /\ dirty'[o]

\* and adds a link to the parent or to a new root that has one link already.
Links(u, o, child, key) ==
    /\ pivots[o] # <<>> /\ child \in 0..MaxNodes /\ key \in Keys
    /\ o \in wr[u] \/ ~Reachable(o)
    /\ Sets(u, o, AddPivot(pivots[o], child, EmptyBuf, key))
    /\ dirty'[o]

\* The first link of a new root.
Begins(u, o, child) ==
    /\ pivots[o] = <<>> /\ child \in 0..MaxNodes /\ ~Reachable(o)
    /\ Sets(u, o, <<NewPivot(child, EmptyBuf, EmptyKey)>>)
    /\ dirty'[o]

\* BufferTree::createNode.
Makes ==
    /\ nodeCount + 1 \in Objs /\ nodeCount' = nodeCount + 1
    /\ pivots' = [pivots EXCEPT ![nodeCount + 1] = <<>>]
    /\ \A n \in Live : height'[n] = height[n]

\* The kinds of step a thread may make.
Kind(u) ==
    \/ Quiet
    \/ \E o, i, k, m : Inserts(u, o, i, k, m)
    \/ \E o, i, c, K : CopiesTo(u, o, i, c, K)
    \/ \E o, i : Clears(u, o, i)
    \/ \E o, i : SplitsBuffer(u, o, i)
    \/ \E o, x : Fills(u, o, x)
    \/ \E o, a : Cuts(u, o, a)
    \/ \E o, child, key : Links(u, o, child, key)
    \/ \E o, child : Begins(u, o, child)
    \/ Makes

-----------------------------------------------------------------------------
\* What locks are good for: a node no other thread has locked is no concern of
\* the others,
LEMMA FreeAlone ==
    ASSUME Protocol, NEW u \in Threads, NEW o \in Known, NEW p,
           \A t \in Threads \ {u} : o \notin rd[t] \cup wr[t]
    PROVE  Alone(u, o, p)
<1> SUFFICES ASSUME NEW t \in Threads \ {u}
             PROVE  /\ o \notin wr[t]
                    /\ \A n \in DOMAIN made[t] : made[t][n] # o
                    /\ pc[t] \in {"moving", "clearing"} => cur[t] # o
  BY DEF Alone
<1>1. o \notin wr[t] /\ o \notin rd[t]
  OBVIOUS
<1>2. \A n \in DOMAIN made[t] : made[t][n] # o
  BY DEF Known, Unlinked
<1>3. pc[t] \in {"moving", "clearing"} => cur[t] \in rd[t]
  BY PushFacts
<1> QED BY <1>1, <1>2, <1>3

LEMMA OwnedAlone ==
    ASSUME Protocol, NEW u \in Threads, NEW o \in Known, o \in wr[u], NEW p
    PROVE  Alone(u, o, p)
<1>1. \A t \in Threads \ {u} : o \notin rd[t] \cup wr[t]
  BY DEF Protocol, Exclusion
<1> QED BY <1>1, FreeAlone

\* one it has only read-locked is, as far as it is not the buffer they copy
\* from,
LEMMA SharedAlone ==
    ASSUME Protocol, NEW u \in Threads, NEW o \in Known, o \in rd[u] \cup wr[u], NEW p,
           \A t \in Threads \ {u} : pc[t] \in {"moving", "clearing"} /\ cur[t] = o =>
                Present(p[idx[t]].buf.msgs) = Present(pivots[o][idx[t]].buf.msgs)
    PROVE  Alone(u, o, p)
<1> SUFFICES ASSUME NEW t \in Threads \ {u}
             PROVE  /\ o \notin wr[t]
                    /\ \A n \in DOMAIN made[t] : made[t][n] # o
  BY DEF Alone
<1>1. o \notin wr[t]
  BY DEF Protocol, Exclusion
<1>2. \A n \in DOMAIN made[t] : made[t][n] # o
  BY DEF Known, Unlinked
<1> QED BY <1>1, <1>2

\* and nobody knows of a node in the making.
LEMMA MadeAlone ==
    ASSUME Protocol, NEW u \in Threads, pc[u] \in Filling, NEW o \in Live \ Known, NEW p
    PROVE  Alone(u, o, p)
<1> SUFFICES ASSUME NEW t \in Threads \ {u}
             PROVE  /\ o \notin wr[t]
                    /\ \A n \in DOMAIN made[t] : made[t][n] # o
                    /\ pc[t] \in {"moving", "clearing"} => cur[t] # o
  BY DEF Alone
<1>1. /\ pc[u] \in OnPath /\ made[t] = <<>> /\ \A n \in DOMAIN <<>> : FALSE
  BY MadeFacts DEF OnPath, Splitting
<1>2. pc[t] \notin OnPath /\ pc[t] \in PC /\ ThreadInv(t)
  BY <1>1, OnePath DEF Protocol, TypeOK, CallsTypeOK
<1>3. cur[t] \in Known
  BY <1>2 DEF ThreadInv, Places
<1>4. wr[t] \subseteq Known
  <2>1. CASE pc[t] \in {"pushBuf", "moving", "clearing"}
    <3>1. /\ Child(cur[t], idx[t]) \in Known
          /\ wr[t] = (IF isLeaf[Child(cur[t], idx[t])] THEN {Child(cur[t], idx[t])} ELSE {})
      BY <2>1, PushFacts
    <3> QED BY <3>1
  <2>2. CASE pc[t] \in {"insert", "push"}
    BY <1>2, <1>3, <2>2 DEF ThreadInv, HoldsCur
  <2>3. CASE pc[t] \in {"pushDown", "getLook", "getDown"}
    BY <1>2, <2>3 DEF ThreadInv, HoldsRead
  <2>4. CASE pc[t] \in {"idle", "incRef", "decRef", "writeLock", "relock", "lockPath",
                        "lpRoot", "getLock"}
    BY <1>2, <2>4 DEF ThreadInv, HoldsNone
  <2> QED BY <1>2, <2>1, <2>2, <2>3, <2>4 DEF PC, OnPath, Splitting, Filling
<1> QED BY <1>1, <1>3, <1>4

\* No put, del or get comes to a node in the making that is not below another.
LEMMA NotReachable ==
    ASSUME Protocol, NEW u \in Threads, pc[u] \in Filling, NEW o \in Live \ Known,
           \A n \in DOMAIN made[u] : height[made[u][n]] <= height[o]
    PROVE  ~Reachable(o)
<1>1. TypeOK /\ Naming /\ Tree /\ root \in Known
  BY KnownNodes DEF Protocol
<1>2. ASSUME NEW p \in Live, NEW i \in DOMAIN pivots[p],
             pivots[p][i].child # NID_NIL, Child(p, i) = o
      PROVE  FALSE
  <2>1. (p \in Known => o \in Known) /\ height[o] + 1 = height[p]
    BY <1>1, <1>2, ChildFacts
  <2>2. height[o] \in Nat /\ height[p] \in Nat
    BY <1>1, NodeFacts
  <2>3. p \notin Known
    BY <2>1
  <2>4. PICK t \in Threads : \E n \in DOMAIN made[t] : made[t][n] = p
    BY <2>3 DEF Known, Unlinked
  <2>5. t = u
    <3>1. \A n1 \in DOMAIN <<>> : FALSE
      OBVIOUS
    <3> QED BY <2>4, <3>1, MadeFacts
  <2> QED BY <2>1, <2>2, <2>4, <2>5
<1>3. ASSUME NEW t \in Threads
      PROVE  /\ o \notin {cur[t], base[t]}
             /\ \A n \in DOMAIN stack[t] : stack[t][n] # o
             /\ \A n \in DOMAIN path[t] : path[t][n] # o
  BY DEF Protocol, ThreadInv, Places, PathInv
<1> QED BY <1>1, <1>2, <1>3 DEF Reachable

-----------------------------------------------------------------------------
\* The kind of every action that changes pivots.

LEMMA InsertKind ==
    ASSUME Protocol, NEW u \in Threads, InsertAtRoot(u)
    PROVE  Kind(u)
<1> DEFINE o == cur[u]
           k == req[u].key
           i == FindPivot(pivots[o], k)
           m == IF req[u].op = "put" THEN req[u].value ELSE Del
<1>1. /\ TypeOK /\ Tree /\ pc[u] = "insert" /\ BufFree(o, i)
      /\ pivots' = [pivots EXCEPT ![o] = InsertMsg(pivots[o], i, k, m)]
      /\ UNCHANGED <<nodeCount, height>>
      /\ dirty' = [dirty EXCEPT ![o] = TRUE]
  BY DEF Protocol, InsertAtRoot, At
<1>2. o \in Known /\ o \in Live /\ o \in Objs /\ o \in rd[u] \cup wr[u]
  BY <1>1, Basics DEF Protocol, ThreadInv, Places, HoldsCur
<1>3. k \in Keys /\ m \in Messages
  BY <1>1 DEF TypeOK, CallsTypeOK, Messages
<1>4. i \in DOMAIN pivots[o] /\ pivots[o] \in Seq(Pivot)
  BY <1>1, <1>2, <1>3, NodeFacts
<1>5. dirty'[o]
  BY <1>1, <1>2 DEF TypeOK, MarksTypeOK
<1> HIDE DEF o, k, i, m
<1>6. Alone(u, o, InsertMsg(pivots[o], i, k, m))
  <2> DEFINE p == InsertMsg(pivots[o], i, k, m)
  <2>1. \A j \in DOMAIN pivots[o] : j # i => p[j] = pivots[o][j]
    BY <1>3, <1>4, InsertMsgResult
  <2> HIDE DEF p
  <2>2. ASSUME NEW t \in Threads \ {u}, pc[t] \in {"moving", "clearing"}, cur[t] = o
        PROVE  Present(p[idx[t]].buf.msgs) = Present(pivots[o][idx[t]].buf.msgs)
    <3>1. idx[t] \in DOMAIN pivots[o] /\ idx[t] # i
      BY <1>1, <2>2, PushFacts DEF BufFree
    <3> QED BY <2>1, <3>1
  <2>3. Alone(u, o, p)
    BY <1>2, <2>2, SharedAlone
  <2> QED BY <2>3 DEF p
<1>7. Inserts(u, o, i, k, m)
  BY <1>1, <1>2, <1>3, <1>4, <1>5, <1>6 DEF Inserts, Sets
<1> QED BY <1>7 DEF Kind

LEMMA PushDownKind ==
    ASSUME Protocol, NEW u \in Threads, PushDownLocked(u)
    PROVE  Kind(u)
<1> DEFINE o == cur[u]
           i == idx[u]
           c == Child(o, i)
           K == Present(pivots[o][i].buf.msgs)
<1>1. pc[u] = "pushBuf" /\ UNCHANGED <<nodeCount, height>>
  BY DEF PushDownLocked, At
<1>2. /\ o \in Live /\ i \in DOMAIN pivots[o]
      /\ c \in Known /\ c \in Live /\ c \in Objs /\ c # o
      /\ isLeaf[c] => wr[u] = {c}
  BY <1>1, PushFacts, Basics DEF Protocol
<1>3. CASE isLeaf[c] /\ K # {} /\ Copy(o, i, c, K) /\ SetDirty({o, c})
  <2>1. Alone(u, c, PushInto(pivots[c], pivots[o][i].buf.msgs, K))
    BY <1>2, <1>3, OwnedAlone
  <2>2. dirty'[c]
    BY <1>2, <1>3 DEF SetDirty
  <2>3. CopiesTo(u, o, i, c, K)
    BY <1>1, <1>2, <1>3, <2>1, <2>2 DEF CopiesTo, Sets, Copy
  <2> QED BY <2>3 DEF Kind
<1>4. CASE UNCHANGED pivots
  BY <1>1, <1>4 DEF Kind, Quiet
<1> QED BY <1>3, <1>4 DEF PushDownLocked

\* The message that is copied next.
LEMMA MoveFacts ==
    ASSUME Inv, NEW u \in Threads, pc[u] = "moving"
    PROVE  LET o == cur[u]
               c == Child(o, idx[u])
               k == Smallest(todo[u])
           IN  /\ o \in Live /\ idx[u] \in DOMAIN pivots[o]
               /\ c \in Known /\ c \in Live /\ c \in Objs /\ c # o /\ c \in rd[u]
               /\ ~isLeaf[c] /\ height[c] + 1 = height[o]
               /\ k \in todo[u] /\ k \in Keys
               /\ todo[u] \in SUBSET Present(pivots[o][idx[u]].buf.msgs)
<1> DEFINE c == Child(cur[u], idx[u])
<1>1. Protocol /\ CopyInv(u) /\ TypeOK /\ Naming /\ Tree /\ ThreadInv(u)
  BY DEF Inv, Protocol, Copies
<1>2. /\ cur[u] \in Live /\ idx[u] \in DOMAIN pivots[cur[u]] /\ ~isLeaf[cur[u]]
      /\ c = pivots[cur[u]][idx[u]].child + 1
      /\ c \in Known /\ c \in Live /\ c # cur[u]
      /\ rd[u] = (IF isLeaf[c] THEN {cur[u]} ELSE {cur[u], c})
  BY <1>1, PushFacts
<1>3. c \in Objs
  BY <1>1, <1>2, Basics
<1>4. ~isLeaf[c]
  BY <1>1, <1>2 DEF ThreadInv, HoldsChild
<1>5. height[c] + 1 = height[cur[u]]
  BY <1>1, <1>2, ChildFacts
<1>6. todo[u] # {} /\ todo[u] \in SUBSET Present(pivots[cur[u]][idx[u]].buf.msgs)
  BY <1>1 DEF CopyInv
<1>7. todo[u] \in SUBSET Nat /\ todo[u] \subseteq Keys
  BY <1>6, KeySets DEF Present
<1>8. Smallest(todo[u]) \in todo[u]
  BY <1>6, <1>7, SmallestIn
<1> QED BY <1>2, <1>3, <1>4, <1>5, <1>6, <1>7, <1>8

\* A message pushed into a node touches no buffer but the one it belongs to.
LEMMA PushOne ==
    ASSUME NEW p \in Seq(Pivot), NEW msgs \in [Keys -> Messages \cup {NoMsg}],
           NEW k \in Keys
    PROVE  \A j \in DOMAIN p : \A l \in Keys : Route(p, k) # j =>
            PushInto(p, msgs, {k})[j].buf.msgs[l] = p[j].buf.msgs[l]
<1> DEFINE q == PushInto(p, msgs, {k})
<1>1. {k} \in SUBSET Keys
  OBVIOUS
<1>2. \A j \in DOMAIN p : \A l \in Keys :
        q[j].buf.msgs[l] = IF l \in {k} /\ Route(p, l) = j
                           THEN msgs[l] ELSE p[j].buf.msgs[l]
  BY <1>1, PushIntoResult
<1> HIDE DEF q
<1>3. \A j \in DOMAIN p : \A l \in Keys : Route(p, k) # j =>
        q[j].buf.msgs[l] = p[j].buf.msgs[l]
  BY <1>2
<1> QED BY <1>3 DEF q

LEMMA MoveKind ==
    ASSUME Inv, NEW u \in Threads, MoveMsg(u)
    PROVE  /\ Kind(u)
           /\ CopiesTo(u, cur[u], idx[u], Child(cur[u], idx[u]), {Smallest(todo[u])})
<1> DEFINE o == cur[u]
           i == idx[u]
           c == Child(o, i)
           k == Smallest(todo[u])
<1>1. /\ pc[u] = "moving" /\ BufFree(c, Route(pivots[c], k)) /\ Copy(o, i, c, {k})
      /\ UNCHANGED <<nodeCount, height, nodeMap, cur, idx>>
      /\ \/ SetDirty({o, c})
         \/ UNCHANGED pc
  BY DEF MoveMsg, At
<1>2. /\ o \in Live /\ i \in DOMAIN pivots[o]
      /\ c \in Known /\ c \in Live /\ c \in Objs /\ c # o /\ c \in rd[u]
      /\ k \in Keys /\ {k} \in SUBSET Present(pivots[o][i].buf.msgs)
  BY <1>1, MoveFacts
<1>3. /\ Protocol /\ TypeOK /\ Tree
      /\ pivots[o] \in Seq(Pivot) /\ pivots[c] \in Seq(Pivot)
      /\ pivots[o][i].buf.msgs \in [Keys -> Messages \cup {NoMsg}]
  BY <1>2, NodeFacts, PivotsSeq DEF Inv, Protocol
<1>4. pivots' = [pivots EXCEPT ![c] = PushInto(pivots[c], pivots[o][i].buf.msgs, {k})]
  BY <1>1 DEF Copy
<1>5. dirty'[c] \/ CopyingTo(u, c)'
  <2>1. CASE SetDirty({o, c})
    BY <1>2, <2>1 DEF SetDirty
  <2>2. CASE UNCHANGED pc
    <3>1. pivots'[o] = pivots[o]
      BY <1>2, <1>3, <1>4 DEF TypeOK, NodesTypeOK
    <3> QED BY <1>1, <2>2, <3>1 DEF CopyingTo, Child
  <2> QED BY <1>1, <2>1, <2>2
<1>6. Alone(u, c, PushInto(pivots[c], pivots[o][i].buf.msgs, {k}))
  <2> SUFFICES ASSUME NEW msgs, msgs = pivots[o][i].buf.msgs
               PROVE  Alone(u, c, PushInto(pivots[c], msgs, {k}))
    OBVIOUS
  <2> HIDE DEF o, i, c, k
  <2> DEFINE p == PushInto(pivots[c], msgs, {k})
  <2>1. \A j \in DOMAIN pivots[c] : \A l \in Keys : Route(pivots[c], k) # j =>
            p[j].buf.msgs[l] = pivots[c][j].buf.msgs[l]
    BY <1>2, <1>3, PushOne
  <2> HIDE DEF p
  <2>2. ASSUME NEW t \in Threads \ {u}, pc[t] \in {"moving", "clearing"}, cur[t] = c
        PROVE  Present(p[idx[t]].buf.msgs) = Present(pivots[c][idx[t]].buf.msgs)
    <3>1. idx[t] \in DOMAIN pivots[c] /\ Route(pivots[c], k) # idx[t]
      BY <1>1, <1>3, <2>2, PushFacts DEF BufFree
    <3> QED BY <2>1, <3>1 DEF Present
  <2>3. Alone(u, c, p)
    BY <1>2, <1>3, <2>2, SharedAlone
  <2> QED BY <2>3 DEF p
<1>7. CopiesTo(u, o, i, c, {k})
  BY <1>1, <1>2, <1>4, <1>5, <1>6 DEF CopiesTo, Sets
<1>8. Kind(u)
  BY <1>7 DEF Kind
<1> QED BY <1>7, <1>8

LEMMA ClearKind ==
    ASSUME Inv, NEW u \in Threads, ClearBuf(u)
    PROVE  Kind(u)
<1> DEFINE o == cur[u]
           i == idx[u]
           p == WithBuf(pivots[o], i, EmptyBuf)
<1>1. pc[u] = "clearing" /\ Clear(o, i) /\ UNCHANGED <<nodeCount, height>>
  BY DEF ClearBuf, At
<1>2. Protocol /\ TypeOK /\ Tree /\ BufOwned /\ CopyInv(u)
  BY DEF Inv, Protocol, Copies
<1>3. o \in Known /\ o \in Live /\ i \in DOMAIN pivots[o] /\ o \in rd[u]
  BY <1>1, <1>2, PushFacts
<1>4. pivots[o] \in Seq(Pivot)
  BY <1>2, <1>3, NodeFacts
<1>5. \A k \in Present(pivots[o][i].buf.msgs) : KeptBelow(o, k)
  BY <1>1, <1>2 DEF CopyInv
<1>6. \A j \in DOMAIN pivots[o] : j # i => p[j] = pivots[o][j]
  BY <1>3, <1>4, WithBufResult, EmptyBufFacts
<1> HIDE DEF p
<1>7. ASSUME NEW t \in Threads \ {u}, pc[t] \in {"moving", "clearing"}, cur[t] = o
      PROVE  Present(p[idx[t]].buf.msgs) = Present(pivots[o][idx[t]].buf.msgs)
  <2>1. idx[t] \in DOMAIN pivots[o] /\ idx[t] # i
    BY <1>1, <1>2, <1>7, PushFacts DEF BufOwned
  <2> QED BY <1>6, <2>1
<1>8. Alone(u, o, p)
  BY <1>2, <1>3, <1>7, SharedAlone
<1>9. Clears(u, o, i)
  BY <1>1, <1>3, <1>5, <1>8 DEF Clears, Sets, Clear, p
<1> QED BY <1>9 DEF Kind

LEMMA LockPathDownKind ==
    ASSUME Protocol, NEW u \in Threads, LockPathDown(u)
    PROVE  Kind(u)
<1> SUFFICES ASSUME NEW o, o = Last(path[u]),
                    NEW key \in PathKeys(u), LockChild(u, FindPivot(pivots[o], key))
             PROVE  Kind(u)
  BY DEF LockPathDown
<1> DEFINE i == FindPivot(pivots[o], key)
           c == Child(o, i)
           K == Present(pivots[o][i].buf.msgs)
<1>1. /\ pc[u] = "lpDown" /\ UNCHANGED <<nodeCount, height>>
      /\ Copy(o, i, c, K) /\ CanWrite(c)
      /\ SetDirty(IF K = {} THEN {} ELSE {o, c})
  BY DEF LockPathDown, LockChild, WriteLock, At
<1>2. TypeOK /\ Naming /\ Tree /\ ThreadInv(u) /\ pc[u] \in OnPath
  BY <1>1 DEF Protocol, OnPath
<1>3. o \in Known /\ o \in Live
  BY <1>2, PathFacts
<1>4. ~isLeaf[o]
  BY <1>1, <1>2 DEF ThreadInv, PathInv
<1>5. key \in Keys /\ i \in DOMAIN pivots[o]
  BY <1>2, <1>3, NodeFacts, PathKeysAreKeys
<1> HIDE DEF i
<1>6. c \in Live /\ c \in Known /\ c # o /\ c \in Objs
  BY <1>2, <1>3, <1>4, <1>5, ChildFacts, Basics
<1> HIDE DEF c
<1>7. Alone(u, c, PushInto(pivots[c], pivots[o][i].buf.msgs, K))
  BY <1>1, <1>6, FreeAlone DEF CanWrite
<1>8. K = {} \/ dirty'[c]
  BY <1>1, <1>6 DEF SetDirty
<1>9. CopiesTo(u, o, i, c, K)
  BY <1>1, <1>3, <1>5, <1>6, <1>7, <1>8 DEF CopiesTo, Sets, Copy
<1> QED BY <1>9 DEF Kind

\* The last but one node of a path.
LEMMA PathParent ==
    ASSUME Protocol, NEW u \in Threads, pc[u] \in {"lpClear", "spLink"}
    PROVE  LET o == Last(Front(path[u]))
           IN  o \in Known /\ o \in Live /\ o \in Objs /\ o \in wr[u]
<1> SUFFICES ASSUME NEW o, o = Last(Front(path[u]))
             PROVE  o \in Known /\ o \in Live /\ o \in Objs /\ o \in wr[u]
  OBVIOUS
<1>1. /\ pc[u] \in OnPath /\ ThreadInv(u) /\ TypeOK
      /\ pc[u] = "spLink" => pc[u] \in Filling
  BY DEF Protocol, OnPath, Splitting, Filling
<1>2. /\ path[u] \in Seq(Objs) /\ path[u] # <<>> /\ Len(path[u]) \in Nat \ {0}
      /\ \A n \in 1..Len(path[u]) :
            path[u][n] \in Known /\ path[u][n] \in Live /\ path[u][n] \in wr[u]
  BY <1>1, PathFacts
<1>3. Len(path[u]) > 1
  BY <1>1 DEF ThreadInv, PathInv, MadeInv
<1>4. o = path[u][Len(path[u]) - 1] /\ Len(path[u]) - 1 \in 1..Len(path[u])
  <2>1. /\ Len(Front(path[u])) = Len(path[u]) - 1
        /\ \A n \in 1..(Len(path[u]) - 1) : Front(path[u])[n] = path[u][n]
    BY <1>2, FrontLast
  <2> QED BY <1>2, <1>3, <2>1 DEF Last
<1> QED BY <1>1, <1>2, <1>4, Basics

LEMMA LockPathClearKind ==
    ASSUME Inv, NEW u \in Threads, LockPathClear(u)
    PROVE  Kind(u)
<1> SUFFICES ASSUME NEW o, o = Last(Front(path[u])), NEW i, i = idx[u]
             PROVE  Kind(u)
  OBVIOUS
<1>1. pc[u] = "lpClear" /\ Clear(o, i) /\ UNCHANGED <<nodeCount, height>>
  BY DEF LockPathClear, At
<1>2. Protocol /\ ThreadInv(u) /\ CopyInv(u) /\ pc[u] \in OnPath
  BY <1>1 DEF Inv, Protocol, Copies, OnPath
<1>3. i \in DOMAIN pivots[o]
  BY <1>1, <1>2 DEF ThreadInv, PathInv
<1>4. o \in Known /\ o \in Live /\ o \in wr[u]
  BY <1>1, <1>2, PathParent
<1>5. \A k \in Present(pivots[o][i].buf.msgs) : KeptBelow(o, k)
  BY <1>1, <1>2 DEF CopyInv
<1>6. Alone(u, o, WithBuf(pivots[o], i, EmptyBuf))
  BY <1>2, <1>4, OwnedAlone
<1>7. Clears(u, o, i)
  BY <1>1, <1>3, <1>4, <1>5, <1>6 DEF Clears, Sets, Clear
<1> QED BY <1>7 DEF Kind

LEMMA SplitBufKind ==
    ASSUME Protocol, NEW u \in Threads, SplitBuf(u)
    PROVE  Kind(u)
<1> DEFINE o == cur[u]
           i == Smallest(Overfull(o))
<1>1. /\ pc[u] = "push" /\ Overfull(o) # {} /\ pivots[o][i].child = NID_NIL
      /\ UNCHANGED <<nodeCount, height>>
      /\ \/ UNCHANGED pivots
         \/ /\ pivots' = [pivots EXCEPT ![o] = SplitPivots(pivots[o], i)]
            /\ dirty' = [dirty EXCEPT ![o] = TRUE]
  BY DEF SplitBuf, Abort, At, nodeVars
<1>2. TypeOK /\ Naming /\ Tree /\ ThreadInv(u)
  BY DEF Protocol
<1>3. o \in Known /\ o \in Live /\ o \in Objs
  BY <1>2, Basics DEF ThreadInv, Places
<1>4. i \in DOMAIN pivots[o] /\ Present(pivots[o][i].buf.msgs) # {}
  BY <1>1, <1>2, <1>3, OverfullFacts
<1>5. o \in wr[u]
  <2>1. isLeaf[o]
    BY <1>1, <1>2, <1>3, <1>4, ChildFacts
  <2> QED BY <1>1, <1>2, <2>1 DEF ThreadInv, HoldsCur
<1>6. CASE UNCHANGED pivots
  BY <1>1, <1>6 DEF Kind, Quiet
<1>7. CASE /\ pivots' = [pivots EXCEPT ![o] = SplitPivots(pivots[o], i)]
           /\ dirty' = [dirty EXCEPT ![o] = TRUE]
  <2>1. dirty'[o]
    BY <1>2, <1>3, <1>7 DEF TypeOK, MarksTypeOK
  <2>2. Alone(u, o, SplitPivots(pivots[o], i))
    BY <1>3, <1>5, OwnedAlone
  <2>3. SplitsBuffer(u, o, i)
    BY <1>1, <1>3, <1>4, <1>5, <1>7, <2>1, <2>2 DEF SplitsBuffer, Sets
  <2> QED BY <2>3 DEF Kind
<1> QED BY <1>1, <1>6, <1>7

LEMMA FillSiblingKind ==
    ASSUME Protocol, NEW u \in Threads, FillSibling(u)
    PROVE  Kind(u)
<1> SUFFICES ASSUME NEW x, x = Last(path[u]), NEW o, o = made[u][1]
             PROVE  Kind(u)
  OBVIOUS
<1>1. /\ pc[u] = "spFill" /\ SetDirty({o})
      /\ pivots' = [pivots EXCEPT ![o] = Upper(pivots[x])]
      /\ UNCHANGED <<nodeCount, height>>
  BY DEF FillSibling, GivePivots, At
<1>2. pc[u] \in Splitting /\ pc[u] \in Filling
  BY <1>1 DEF Splitting, Filling
<1>3. /\ made[u] = <<nodeCount>> /\ o \in Live /\ o \in Objs /\ o \notin Known
      /\ o = nodeCount
  BY <1>1, <1>2, MadeFacts, Basics DEF Protocol
<1>4. MadeInv(u) /\ x \in Live
  BY <1>2, SplitFacts
<1>5. Len(pivots[x]) > 1 /\ pivots[o] = <<>>
  BY <1>1, <1>2, <1>4 DEF MadeInv
<1>6. Alone(u, o, Upper(pivots[x]))
  BY <1>2, <1>3, MadeAlone
<1>7. ~Reachable(o)
  <2>1. \A n \in DOMAIN made[u] : made[u][n] = o
    BY <1>3
  <2>2. height[o] <= height[o]
    BY <1>2, <1>3, SplitFacts, NodeFacts
  <2> QED BY <1>2, <1>3, <2>1, <2>2, NotReachable
<1>8. dirty'[o]
  BY <1>1, <1>3 DEF SetDirty
<1>9. Fills(u, o, x)
  BY <1>1, <1>3, <1>4, <1>5, <1>6, <1>7, <1>8 DEF Fills, Sets
<1> QED BY <1>9 DEF Kind

LEMMA CutNodeKind ==
    ASSUME Inv, NEW u \in Threads, CutNode(u)
    PROVE  Kind(u)
<1> SUFFICES ASSUME NEW o, o = Last(path[u]), NEW a, a = made[u][1]
             PROVE  Kind(u)
  OBVIOUS
<1>1. /\ pc[u] = "spCut" /\ SetDirty({o})
      /\ pivots' = [pivots EXCEPT ![o] = Lower(pivots[o])]
      /\ UNCHANGED <<nodeCount, height>>
  BY DEF CutNode, GivePivots, At
<1>2. /\ pc[u] \in Splitting /\ pc[u] \in Filling /\ Protocol /\ CopyInv(u)
  BY <1>1 DEF Splitting, Filling, Inv, Copies
<1>3. a \in Live /\ a \notin Known
  BY <1>1, <1>2, MadeFacts, Basics DEF Protocol
<1>4. MadeInv(u) /\ o \in Live /\ o \in Known /\ o \in Objs /\ o \in wr[u]
  BY <1>2, SplitFacts
<1>5. Len(pivots[o]) > 1 /\ height[a] = height[o]
  BY <1>1, <1>2, <1>4 DEF MadeInv
<1>6. pivots[a] = Upper(pivots[o])
  BY <1>1, <1>2 DEF CopyInv
<1>7. Alone(u, o, Lower(pivots[o]))
  BY <1>2, <1>4, OwnedAlone
<1>8. dirty'[o]
  BY <1>1, <1>4 DEF SetDirty
<1>9. Cuts(u, o, a)
  BY <1>1, <1>3, <1>4, <1>5, <1>6, <1>7, <1>8 DEF Cuts, Sets
<1> QED BY <1>9 DEF Kind

LEMMA AddToParentKind ==
    ASSUME Protocol, NEW u \in Threads, AddToParent(u)
    PROVE  Kind(u)
<1> SUFFICES ASSUME NEW o, o = Last(Front(path[u])),
                    NEW child, child = nid[made[u][1]], NEW key, key = MiddleKey(u)
             PROVE  Kind(u)
  OBVIOUS
<1>1. /\ pc[u] = "spLink" /\ SetDirty({o})
      /\ pivots' = [pivots EXCEPT ![o] = AddPivot(pivots[o], child, EmptyBuf, key)]
      /\ UNCHANGED <<nodeCount, height>>
  BY DEF AddToParent, GivePivots, At
<1>2. pc[u] \in Splitting /\ pc[u] \in Filling /\ pc[u] \in OnPath
  BY <1>1 DEF Splitting, Filling, OnPath
<1>3. MadeInv(u) /\ TypeOK /\ Tree
  BY <1>2, SplitFacts
<1>4. o \in Known /\ o \in Live /\ o \in wr[u] /\ o \in Objs
  BY <1>1, PathParent
<1>5. pivots[o] # <<>>
  BY <1>3, <1>4, NodeFacts
<1>6. child \in 0..MaxNodes
  BY <1>1, <1>2, <1>3, MadeFacts, Basics DEF TypeOK, NodesTypeOK
<1>7. key \in Keys
  BY <1>1, MiddleKeyFacts
<1>8. Alone(u, o, AddPivot(pivots[o], child, EmptyBuf, key))
  BY <1>4, OwnedAlone
<1>9. dirty'[o]
  BY <1>1, <1>4 DEF SetDirty
<1>10. Links(u, o, child, key)
  BY <1>1, <1>4, <1>5, <1>6, <1>7, <1>8, <1>9 DEF Links, Sets
<1> QED BY <1>10 DEF Kind

\* A new root: only its creator can come to it.
LEMMA NewRootAlone ==
    ASSUME Protocol, NEW u \in Threads, pc[u] \in {"spFirst", "spSecond"}, NEW p
    PROVE  LET o == made[u][2]
           IN  /\ o \in Live /\ o \in Objs /\ ~Reachable(o) /\ Alone(u, o, p)
               /\ pivots[o] = <<>> <=> pc[u] = "spFirst"
               /\ made[u][1] \in Objs
<1> DEFINE a == nodeCount - 1
           b == nodeCount
           r == Last(path[u])
<1>1. /\ pc[u] \in Filling /\ made[u] = <<a, b>> /\ made[u][2] = b /\ made[u][1] = a
      /\ b \in Live /\ b \in Objs /\ a \in Objs /\ b \notin Known
      /\ height[a] = height[r] /\ height[b] = height[r] + 1 /\ height[r] \in Nat
      /\ pivots[b] = <<>> <=> pc[u] = "spFirst"
  BY TopFacts
<1>2. \A n \in DOMAIN made[u] : height[made[u][n]] <= height[b]
  <2>1. \A n \in DOMAIN made[u] : made[u][n] \in {a, b}
    BY <1>1
  <2>2. height[a] <= height[b] /\ height[b] <= height[b]
    BY <1>1
  <2> QED BY <2>1, <2>2
<1>3. ~Reachable(b)
  BY <1>1, <1>2, NotReachable
<1>4. Alone(u, b, p)
  BY <1>1, MadeAlone
<1> QED BY <1>1, <1>3, <1>4

LEMMA AddFirstPivotKind ==
    ASSUME Protocol, NEW u \in Threads, AddFirstPivot(u)
    PROVE  Kind(u)
<1> SUFFICES ASSUME NEW o, o = made[u][2], NEW child, child = nid[Last(path[u])]
             PROVE  Kind(u)
  OBVIOUS
<1>1. /\ pc[u] = "spFirst" /\ SetDirty({o})
      /\ pivots' = [pivots EXCEPT ![o] = <<NewPivot(child, EmptyBuf, EmptyKey)>>]
      /\ UNCHANGED <<nodeCount, height>>
  BY DEF AddFirstPivot, GivePivots, At
<1>2. /\ o \in Live /\ o \in Objs /\ ~Reachable(o) /\ pivots[o] = <<>>
      /\ Alone(u, o, <<NewPivot(child, EmptyBuf, EmptyKey)>>)
  BY <1>1, NewRootAlone
<1>3. child \in 0..MaxNodes
  BY <1>1, TopFacts, Basics DEF Protocol, TypeOK, NodesTypeOK
<1>4. dirty'[o]
  BY <1>1, <1>2 DEF SetDirty
<1>5. Begins(u, o, child)
  BY <1>1, <1>2, <1>3, <1>4 DEF Begins, Sets
<1> QED BY <1>5 DEF Kind

LEMMA AddSecondPivotKind ==
    ASSUME Protocol, NEW u \in Threads, AddSecondPivot(u)
    PROVE  Kind(u)
<1> SUFFICES ASSUME NEW o, o = made[u][2], NEW child, child = nid[made[u][1]],
                    NEW key, key = MiddleKey(u)
             PROVE  Kind(u)
  OBVIOUS
<1>1. /\ pc[u] = "spSecond" /\ SetDirty({o})
      /\ pivots' = [pivots EXCEPT ![o] = AddPivot(pivots[o], child, EmptyBuf, key)]
      /\ UNCHANGED <<nodeCount, height>>
  BY DEF AddSecondPivot, GivePivots, At
<1>2. /\ o \in Live /\ o \in Objs /\ ~Reachable(o) /\ pivots[o] # <<>>
      /\ Alone(u, o, AddPivot(pivots[o], child, EmptyBuf, key))
      /\ made[u][1] \in Objs
  BY <1>1, NewRootAlone
<1>3. child \in 0..MaxNodes /\ key \in Keys
  BY <1>1, <1>2, MiddleKeyFacts DEF Protocol, TypeOK, NodesTypeOK
<1>4. dirty'[o]
  BY <1>1, <1>2 DEF SetDirty
<1>5. Links(u, o, child, key)
  BY <1>1, <1>2, <1>3, <1>4 DEF Links, Sets
<1> QED BY <1>5 DEF Kind

LEMMA CreateKind ==
    ASSUME TypeOK, NEW leaf, NEW h, CreateNode(leaf, h)
    PROVE  Makes
<1>1. nodeCount \in Nat /\ MaxNodes \in Nat
  BY Basics, MaxNodesAssumption
<1>2. nodeCount + 1 \in Objs
  BY <1>1 DEF CreateNode, Objs
<1>3. \A n \in Live : n # nodeCount + 1 /\ n \in Objs
  BY <1>1, Basics DEF Live
<1>4. \A n \in Live : height'[n] = height[n]
  BY <1>3 DEF CreateNode, TypeOK, NodesTypeOK
<1> QED BY <1>2, <1>4 DEF CreateNode, Makes

\* Every step of a thread is of one of the kinds.
LEMMA StepKinds ==
    ASSUME Inv, NEW u \in Threads, Begin(u) \/ Step(u)
    PROVE  Kind(u)
<1>1. Protocol /\ TypeOK
  BY DEF Inv, Protocol
<1>2. CASE UNCHANGED <<pivots, nodeCount, height>>
  BY <1>2 DEF Kind, Quiet
<1>3. CASE CreateSibling(u)
  BY <1>1, <1>3, CreateKind DEF CreateSibling, Kind
<1>4. CASE CreateRoot(u)
  BY <1>1, <1>4, CreateKind DEF CreateRoot, Kind
<1>5. CASE Begin(u) \/ IncRef(u) \/ DecRef(u) \/ WriteAtRoot(u) \/ PushReturn(u)
           \/ Relock(u) \/ ChoosePushDown(u) \/ PushDown(u)
  BY <1>2, <1>5 DEF Begin, IncRef, DecRef, WriteAtRoot, PushReturn, Relock,
     ChoosePushDown, PushDown, Abort, nodeVars
<1>6. CASE LockPath(u) \/ LockPathRoot(u) \/ LockPathStale(u) \/ SplitNodeDone(u)
           \/ GrowUp(u) \/ GetLock(u) \/ GetLook(u) \/ GetDown(u)
  BY <1>2, <1>6 DEF LockPath, LockPathRoot, LockPathStale, SplitNodeDone, GrowUp,
     GetLock, GetLook, GetDown, Abort, nodeVars
<1> QED
  BY <1>1, <1>3, <1>4, <1>5, <1>6, InsertKind, PushDownKind, MoveKind, ClearKind,
     LockPathDownKind, LockPathClearKind, SplitBufKind, FillSiblingKind, CutNodeKind,
     AddToParentKind, AddFirstPivotKind, AddSecondPivotKind DEF Step

-----------------------------------------------------------------------------
\* Messages stay where they are or move to a node of the same level.

HasKey(p, k) == \E i \in DOMAIN p : p[i].buf.msgs[k] # NoMsg

\* An insertion keeps the keys of the node.
LEMMA InsertKeepsKeys ==
    ASSUME NEW p \in Seq(Pivot), NEW i \in DOMAIN p, NEW key \in Keys,
           NEW msg \in Messages, NEW k \in Keys, HasKey(p, k)
    PROVE  HasKey(InsertMsg(p, i, key, msg), k)
<1> DEFINE q == InsertMsg(p, i, key, msg)
<1>1. PICK j \in DOMAIN p : p[j].buf.msgs[k] # NoMsg
  BY DEF HasKey
<1>2. /\ DOMAIN q = DOMAIN p
      /\ q[j].buf.msgs[k] = IF j = i /\ k = key THEN msg ELSE p[j].buf.msgs[k]
  BY InsertMsgResult DEF SameShape
<1>3. msg # NoMsg
  BY ValuesAssumption DEF Messages, Del, NoMsg
<1> HIDE DEF q
<1>4. HasKey(q, k)
  BY <1>1, <1>2, <1>3 DEF HasKey
<1> QED BY <1>4 DEF q

\* A push-down loses no key of the receiving node, for it writes messages only
\* over messages,
LEMMA PushKeepsKeys ==
    ASSUME NEW p \in Seq(Pivot), p # <<>>,
           NEW msgs \in [Keys -> Messages \cup {NoMsg}],
           NEW K \in SUBSET Present(msgs), NEW k \in Keys,
           HasKey(p, k) \/ k \in K
    PROVE  HasKey(PushInto(p, msgs, K), k)
<1> DEFINE q == PushInto(p, msgs, K)
<1>1. K \in SUBSET Keys
  BY DEF Present
<1>2. /\ DOMAIN q = DOMAIN p
      /\ \A j \in DOMAIN p : q[j].buf.msgs[k] =
            IF k \in K /\ Route(p, k) = j THEN msgs[k] ELSE p[j].buf.msgs[k]
  BY <1>1, PushIntoResult DEF SameShape
<1>3. Route(p, k) \in DOMAIN p
  BY RouteIn, KeySets
<1>4. k \in K => msgs[k] # NoMsg
  BY DEF Present
<1> HIDE DEF q
<1>5. HasKey(q, k)
  BY <1>2, <1>3, <1>4 DEF HasKey
<1> QED BY <1>5 DEF q

\* splitBuf keeps every key in the leaf.
LEMMA SplitKeepsKeys ==
    ASSUME NEW p \in Seq(Pivot), NEW i \in DOMAIN p,
           Present(p[i].buf.msgs) # {}, NEW k \in Keys, HasKey(p, k)
    PROVE  HasKey(SplitPivots(p, i), k)
<1>1. PICK l \in DOMAIN p : p[l].buf.msgs[k] # NoMsg
  BY DEF HasKey
<1>2. \E j \in DOMAIN SplitPivots(p, i) : SplitPivots(p, i)[j].buf.msgs[k] # NoMsg
  BY <1>1, SplitPivotsResult
<1> QED BY <1>2 DEF HasKey

\* splitNode keeps every key in one of the halves,
LEMMA HalvesKeepKeys ==
    ASSUME NEW p \in Seq(Pivot), Len(p) > 1, NEW k, HasKey(p, k)
    PROVE  HasKey(Lower(p), k) \/ HasKey(Upper(p), k)
<1> DEFINE m == Middle(p)
<1>1. PICK l \in DOMAIN p : p[l].buf.msgs[k] # NoMsg
  BY DEF HasKey
<1>2. Len(p) \in Nat /\ l \in 1..Len(p) /\ Len(p) > 1
  BY <1>1, PivotsSeq
<1>3. /\ m \in 1..(Len(p) - 1)
      /\ DOMAIN Lower(p) = 1..m
      /\ DOMAIN Upper(p) = 1..(Len(p) - m)
      /\ \A j \in 1..m : Lower(p)[j] = p[j]
      /\ \A j \in 1..(Len(p) - m) : Upper(p)[j] = p[m + j]
  BY <1>2, SplitNodeResult
<1> HIDE DEF m
<1>4. CASE l <= m
  <2>1. l \in DOMAIN Lower(p) /\ Lower(p)[l] = p[l]
    BY <1>2, <1>3, <1>4
  <2> QED BY <1>1, <2>1 DEF HasKey
<1>5. CASE l > m
  <2>1. l - m \in DOMAIN Upper(p) /\ Upper(p)[l - m] = p[l]
    BY <1>2, <1>3, <1>5
  <2> QED BY <1>1, <2>1 DEF HasKey
<1> QED BY <1>2, <1>3, <1>4, <1>5

\* and the parent keeps its own.
LEMMA ParentKeepsKeys ==
    ASSUME NEW p \in Seq(Pivot), p # <<>>, NEW child \in 0..MaxNodes,
           NEW key \in Keys, NEW k, HasKey(p, k)
    PROVE  HasKey(AddPivot(p, child, EmptyBuf, key), k)
<1> DEFINE q == AddPivot(p, child, EmptyBuf, key)
           f == FindPivot(p, key)
<1>1. PICK l \in DOMAIN p : p[l].buf.msgs[k] # NoMsg
  BY DEF HasKey
<1>2. Len(p) \in Nat /\ l \in 1..Len(p)
  BY <1>1, PivotsSeq
<1>3. /\ q \in Seq(Pivot) /\ Len(q) = Len(p) + 1 /\ f \in 1..Len(p)
      /\ \A j \in 1..Len(p) : q[IF j <= f THEN j ELSE j + 1] = p[j]
  BY EmptyBufFacts, AddPivotResult
<1> HIDE DEF q, f
<1>4. DOMAIN q = 1..(Len(p) + 1)
  BY <1>2, <1>3, PivotsSeq
<1>5. \E j \in DOMAIN q : q[j] = p[l]
  <2>1. CASE l <= f
    BY <1>2, <1>3, <1>4, <2>1
  <2>2. CASE l > f
    <3>1. l + 1 \in DOMAIN q /\ ~(l <= f)
      BY <1>2, <1>3, <1>4, <2>2
    <3> QED BY <1>2, <1>3, <3>1
  <2> QED BY <1>2, <1>3, <2>1, <2>2
<1>6. HasKey(q, k)
  BY <1>1, <1>5 DEF HasKey
<1> QED BY <1>6 DEF q

\* What every kind of step but the making of a node has in common.
LEMMA SetsNodes ==
    ASSUME Protocol, NEW u \in Threads, NEW o, NEW p, Sets(u, o, p)
    PROVE  /\ o \in Live /\ o \in Objs /\ Live' = Live
           /\ pivots'[o] = p
           /\ \A n \in Live : n # o => pivots'[n] = pivots[n]
           /\ \A n \in Objs : n # o => pivots'[n] = pivots[n]
           /\ height' = height
<1>1. TypeOK /\ Live \subseteq Objs
  BY Basics DEF Protocol
<1>2. pivots \in [Objs -> Seq(Pivot)]
  BY <1>1 DEF TypeOK, NodesTypeOK
<1> QED BY <1>1, <1>2 DEF Sets, Live

LEMMA MakesNodes ==
    ASSUME Protocol, Makes
    PROVE  /\ nodeCount + 1 \in Objs /\ nodeCount + 1 \notin Live
           /\ Live' = Live \cup {nodeCount + 1}
           /\ pivots'[nodeCount + 1] = <<>>
           /\ \A n \in Live : pivots'[n] = pivots[n] /\ height'[n] = height[n]
           /\ \A n \in Objs : n # nodeCount + 1 => pivots'[n] = pivots[n]
<1>1. nodeCount \in Nat /\ Live \subseteq Objs /\ pivots \in [Objs -> Seq(Pivot)]
  BY Basics DEF Protocol, TypeOK, NodesTypeOK
<1>2. nodeCount + 1 \notin Live /\ Live' = Live \cup {nodeCount + 1}
  BY <1>1 DEF Makes, Live
<1> QED BY <1>1, <1>2 DEF Makes

LEMMA QuietNodes ==
    ASSUME Quiet
    PROVE  Live' = Live /\ pivots' = pivots /\ height' = height
BY DEF Quiet, Live

\* Nodes stay, and their levels.
LEMMA NodesStay ==
    ASSUME Protocol, NEW u \in Threads, Kind(u), NEW n \in Live
    PROVE  n \in Live' /\ height'[n] = height[n]
<1>1. CASE Makes
  BY <1>1, MakesNodes
<1>2. CASE UNCHANGED <<nodeCount, height>>
  BY <1>2 DEF Live
<1> QED BY <1>1, <1>2 DEF Kind, Quiet, Inserts, CopiesTo, Clears, SplitsBuffer, Fills,
           Cuts, Links, Begins, Sets

LEMMA HeightOrder ==
    ASSUME Protocol, NEW n \in Live
    PROVE  height[n] \in Nat /\ height[n] <= height[n]
BY NodeFacts DEF Protocol

\* A message some node has is still there after the step, or further down.
LEMMA Persist ==
    ASSUME Protocol, NEW u \in Threads, Kind(u), NEW n \in Live, NEW k \in Keys,
           HasKey(pivots[n], k)
    PROVE  \E q \in Live : height[q] <= height[n] /\ HasKey(pivots'[q], k)
<1> DEFINE Kept == \E q \in Live : height[q] <= height[n] /\ HasKey(pivots'[q], k)
<1> SUFFICES Kept
  OBVIOUS
<1>1. \A m \in Live : pivots[m] \in Seq(Pivot)
  BY NodeFacts DEF Protocol
<1>2. pivots[n] # <<>>
  <2>1. \A i \in DOMAIN <<>> : FALSE
    OBVIOUS
  <2> QED BY <2>1 DEF HasKey
<1>3. ASSUME NEW o, NEW p, Sets(u, o, p),
             n = o /\ HasKey(pivots[o], k) => HasKey(p, k)
      PROVE  Kept
  <2>1. pivots'[o] = p /\ (n # o => pivots'[n] = pivots[n])
    BY <1>3, SetsNodes
  <2>2. HasKey(pivots'[n], k)
    BY <1>3, <2>1
  <2> QED BY <2>2, HeightOrder
<1>4. CASE Quiet
  BY <1>4, QuietNodes, HeightOrder
<1>5. ASSUME NEW o, NEW i, NEW key, NEW m, Inserts(u, o, i, key, m) PROVE Kept
  <2>1. n = o /\ HasKey(pivots[o], k) => HasKey(InsertMsg(pivots[o], i, key, m), k)
    BY <1>1, <1>5, InsertKeepsKeys DEF Inserts
  <2> HIDE DEF Kept
  <2> QED BY <1>3, <1>5, <2>1 DEF Inserts
<1>6. ASSUME NEW o, NEW i, NEW c, NEW K, CopiesTo(u, o, i, c, K) PROVE Kept
  <2> DEFINE msgs == pivots[o][i].buf.msgs
  <2>1. msgs \in [Keys -> Messages \cup {NoMsg}] /\ K \in SUBSET Present(msgs)
    BY <1>1, <1>6, PivotsSeq DEF CopiesTo
  <2>2. Sets(u, c, PushInto(pivots[c], msgs, K))
    BY <1>6 DEF CopiesTo
  <2> HIDE DEF Kept, msgs
  <2>3. n = c /\ HasKey(pivots[c], k) => HasKey(PushInto(pivots[c], msgs, K), k)
    BY <1>1, <1>2, <2>1, PushKeepsKeys
  <2> QED BY <1>3, <2>2, <2>3
<1>7. ASSUME NEW o, NEW i, Clears(u, o, i) PROVE Kept
  <2> DEFINE p == WithBuf(pivots[o], i, EmptyBuf)
  <2>1. /\ Sets(u, o, p) /\ i \in DOMAIN pivots[o] /\ o \in Live
        /\ \A l \in Present(pivots[o][i].buf.msgs) : KeptBelow(o, l)
    BY <1>7 DEF Clears, Sets
  <2>2. DOMAIN p = DOMAIN pivots[o] /\ \A j \in DOMAIN pivots[o] : j # i => p[j] = pivots[o][j]
    BY <1>1, <2>1, WithBufResult, EmptyBufFacts DEF SameShape
  <2>3. CASE n # o \/ \E j \in DOMAIN pivots[o] : j # i /\ pivots[o][j].buf.msgs[k] # NoMsg
    <3>1. n = o /\ HasKey(pivots[o], k) => HasKey(p, k)
      BY <2>2, <2>3 DEF HasKey
    <3> HIDE DEF Kept, p
    <3> QED BY <1>3, <2>1, <3>1
  <2>4. CASE /\ n = o
             /\ ~\E j \in DOMAIN pivots[o] : j # i /\ pivots[o][j].buf.msgs[k] # NoMsg
    <3>1. k \in Present(pivots[o][i].buf.msgs)
      BY <2>4 DEF HasKey, Present
    <3>2. PICK q \in Live : height[q] < height[o] /\ HasKey(pivots[q], k)
      BY <2>1, <3>1 DEF KeptBelow, HeldIn, HasKey
    <3>3. height[o] \in Nat /\ height[q] \in Nat
      BY <2>1, NodeFacts DEF Protocol
    <3>4. q # o /\ height[q] <= height[o]
      BY <3>2, <3>3
    <3>5. pivots'[q] = pivots[q]
      BY <2>1, <3>4, SetsNodes
    <3> QED BY <2>4, <3>2, <3>4, <3>5
  <2> QED BY <2>3, <2>4
<1>8. ASSUME NEW o, NEW i, SplitsBuffer(u, o, i) PROVE Kept
  <2>1. n = o /\ HasKey(pivots[o], k) => HasKey(SplitPivots(pivots[o], i), k)
    BY <1>1, <1>8, SplitKeepsKeys DEF SplitsBuffer
  <2> HIDE DEF Kept
  <2> QED BY <1>3, <1>8, <2>1 DEF SplitsBuffer
<1>9. ASSUME NEW o, NEW x, Fills(u, o, x) PROVE Kept
  <2>1. n # o
    BY <1>2, <1>9 DEF Fills
  <2> HIDE DEF Kept
  <2> QED BY <1>3, <1>9, <2>1 DEF Fills
<1>10. ASSUME NEW o, NEW a, Cuts(u, o, a) PROVE Kept
  <2>1. /\ Sets(u, o, Lower(pivots[o])) /\ o \in Live /\ a \in Live /\ a # o
        /\ height[a] = height[o] /\ pivots[a] = Upper(pivots[o]) /\ Len(pivots[o]) > 1
    BY <1>10 DEF Cuts, Sets
  <2>2. CASE n # o \/ HasKey(Lower(pivots[o]), k)
    <3> HIDE DEF Kept
    <3> QED BY <1>3, <2>1, <2>2
  <2>3. CASE n = o /\ ~HasKey(Lower(pivots[o]), k)
    <3>1. HasKey(Upper(pivots[o]), k)
      BY <1>1, <2>1, <2>3, HalvesKeepKeys
    <3>2. pivots'[a] = pivots[a]
      BY <2>1, SetsNodes
    <3> QED BY <2>1, <2>3, <3>1, <3>2, HeightOrder
  <2> QED BY <2>2, <2>3
<1>11. ASSUME NEW o, NEW child, NEW key, Links(u, o, child, key) PROVE Kept
  <2>1. n = o /\ HasKey(pivots[o], k) => HasKey(AddPivot(pivots[o], child, EmptyBuf, key), k)
    BY <1>1, <1>11, ParentKeepsKeys DEF Links
  <2> HIDE DEF Kept
  <2> QED BY <1>3, <1>11, <2>1 DEF Links
<1>12. ASSUME NEW o, NEW child, Begins(u, o, child) PROVE Kept
  <2>1. n # o
    BY <1>2, <1>12 DEF Begins
  <2> HIDE DEF Kept
  <2> QED BY <1>3, <1>12, <2>1 DEF Begins
<1>13. CASE Makes
  <2>1. pivots'[n] = pivots[n]
    BY <1>13, MakesNodes
  <2> QED BY <2>1, HeightOrder
<1> HIDE DEF Kept
<1> QED BY <1>4, <1>5, <1>6, <1>7, <1>8, <1>9, <1>10, <1>11, <1>12, <1>13 DEF Kind

\* So what is kept below a node stays below it.
LEMMA BelowStays ==
    ASSUME Protocol, NEW u \in Threads, Kind(u), NEW n \in Live, NEW k \in Keys,
           KeptBelow(n, k)
    PROVE  KeptBelow(n, k)'
<1>1. PICK p \in Live : height[p] < height[n] /\ HasKey(pivots[p], k)
  BY DEF KeptBelow, HeldIn, HasKey
<1>2. PICK q \in Live : height[q] <= height[p] /\ HasKey(pivots'[q], k)
  BY <1>1, Persist
<1>3. height'[n] = height[n] /\ height'[q] = height[q] /\ q \in Live'
  BY NodesStay
<1>4. height[p] \in Nat /\ height[n] \in Nat /\ height[q] \in Nat
  BY HeightOrder
<1>5. height[q] < height[n]
  BY <1>1, <1>2, <1>4
<1> QED BY <1>2, <1>3, <1>5 DEF KeptBelow, HeldIn, HasKey

-----------------------------------------------------------------------------
\* Copies is preserved: what has been copied is kept until it is cleared.

\* A step of another thread changes nothing a thread keeps in its variables.
Still(t) ==
    /\ pc'[t] = pc[t] /\ cur'[t] = cur[t] /\ idx'[t] = idx[t]
    /\ todo'[t] = todo[t] /\ path'[t] = path[t] /\ made'[t] = made[t]

LEMMA OthersStill ==
    ASSUME TypeOK, NEW u \in Threads, Begin(u) \/ Step(u), NEW t \in Threads \ {u}
    PROVE  Still(t)
<1>1. CallsTypeOK
  BY DEF TypeOK
<1>2. ASSUME Abort("splitBuf") \/ Abort("decRef") PROVE Still(t)
  BY <1>2 DEF Abort, threadVars, Still
<1>3. CASE Begin(u) \/ IncRef(u) \/ DecRef(u) \/ WriteAtRoot(u) \/ InsertAtRoot(u)
  BY <1>1, <1>2, <1>3 DEF Begin, IncRef, DecRef, WriteAtRoot, InsertAtRoot, CallsTypeOK,
     Still, Goto, threadVars
<1>4. CASE PushReturn(u) \/ Relock(u) \/ ChoosePushDown(u) \/ PushDown(u)
  BY <1>1, <1>4 DEF PushReturn, Relock, ChoosePushDown, PushDown, CallsTypeOK, Still,
     Goto, threadVars
<1>5. CASE PushDownLocked(u) \/ ClearBuf(u)
  BY <1>1, <1>5 DEF PushDownLocked, ClearBuf, EnterChild, CallsTypeOK, Still, Goto
<1>11. CASE MoveMsg(u)
  BY <1>1, <1>11 DEF MoveMsg, CallsTypeOK, Still, Goto
<1>12. CASE SplitBuf(u)
  BY <1>1, <1>2, <1>12 DEF SplitBuf, CallsTypeOK, Still, Goto
<1>6. CASE LockPath(u) \/ LockPathRoot(u) \/ LockPathStale(u)
  BY <1>1, <1>2, <1>6 DEF LockPath, LockPathRoot, LockPathStale, Advance, CallsTypeOK,
     Still, Goto, threadVars
<1>7. CASE LockPathDown(u) \/ LockPathClear(u)
  BY <1>1, <1>7 DEF LockPathDown, LockChild, LockPathClear, Advance, CallsTypeOK,
     Still, Goto, threadVars
<1>8. CASE SplitNodeDone(u)
  BY <1>1, <1>8 DEF SplitNodeDone, FinishSplit, CallsTypeOK, Still, Goto
<1>13. CASE CreateSibling(u) \/ FillSibling(u) \/ CutNode(u)
  BY <1>1, <1>13 DEF CreateSibling, FillSibling, CutNode, GivePivots, CallsTypeOK, Still,
     Goto
<1>14. CASE AddToParent(u)
  BY <1>1, <1>14 DEF AddToParent, GivePivots, CallsTypeOK, Still, Goto
<1>9. CASE CreateRoot(u) \/ AddFirstPivot(u) \/ AddSecondPivot(u)
  BY <1>1, <1>9 DEF CreateRoot, AddFirstPivot, AddSecondPivot, GivePivots, CallsTypeOK,
     Still, Goto
<1>15. CASE GrowUp(u)
  BY <1>1, <1>2, <1>15 DEF GrowUp, FinishSplit, CallsTypeOK, Still, Goto
<1>10. CASE GetLock(u) \/ GetLook(u) \/ GetDown(u)
  BY <1>1, <1>10 DEF GetLock, GetLook, GetDown, CallsTypeOK, Still, Goto, threadVars
<1> QED BY <1>3, <1>4, <1>5, <1>6, <1>7, <1>8, <1>9, <1>10, <1>11, <1>12,
           <1>13, <1>14, <1>15 DEF Step

\* A node another thread has locked exclusively or is making keeps its pivots,
LEMMA OwnedStays ==
    ASSUME Protocol, NEW u \in Threads, Kind(u), NEW t \in Threads \ {u},
           NEW n \in Live, n \in wr[t] \/ \E j \in DOMAIN made[t] : made[t][j] = n
    PROVE  pivots'[n] = pivots[n]
<1>1. CASE Quiet
  BY <1>1 DEF Quiet
<1>2. CASE Makes
  BY <1>2, MakesNodes
<1>3. ASSUME NEW o, NEW p, Sets(u, o, p) PROVE pivots'[n] = pivots[n]
  <2>1. n # o
    BY <1>3 DEF Sets, Alone
  <2> QED BY <1>3, <2>1, SetsNodes
<1> QED BY <1>1, <1>2, <1>3 DEF Kind, Inserts, CopiesTo, Clears, SplitsBuffer, Fills, Cuts,
           Links, Begins

\* and the buffer it copies from holds messages for the same keys.
LEMMA BufferStays ==
    ASSUME Protocol, NEW u \in Threads, Kind(u), NEW t \in Threads \ {u},
           pc[t] \in {"moving", "clearing"}
    PROVE  Present(pivots'[cur[t]][idx[t]].buf.msgs)
                = Present(pivots[cur[t]][idx[t]].buf.msgs)
<1> DEFINE n == cur[t]
           Same == Present(pivots'[n][idx[t]].buf.msgs) = Present(pivots[n][idx[t]].buf.msgs)
<1> SUFFICES Same
  OBVIOUS
<1>0. n \in Live
  BY PushFacts
<1>1. CASE Quiet
  BY <1>1 DEF Quiet
<1>2. CASE Makes
  BY <1>0, <1>2, MakesNodes
<1>3. ASSUME NEW o, NEW p, Sets(u, o, p) PROVE Same
  <2>1. CASE n = o
    BY <1>3, <2>1, SetsNodes DEF Sets, Alone
  <2>2. CASE n # o
    BY <1>0, <1>3, <2>2, SetsNodes
  <2> QED BY <2>1, <2>2
<1> HIDE DEF Same
<1> QED BY <1>1, <1>2, <1>3 DEF Kind, Inserts, CopiesTo, Clears, SplitsBuffer, Fills, Cuts,
           Links, Begins

\* So what has been copied by another thread is kept.
LEMMA OthersCopyInv ==
    ASSUME Inv, NEW u \in Threads, Begin(u) \/ Step(u), NEW t \in Threads \ {u}
    PROVE  CopyInv(t)'
<1>1. Protocol /\ CopyInv(t) /\ TypeOK /\ Kind(u)
  BY StepKinds DEF Inv, Copies, Protocol
<1>2. /\ pc'[t] = pc[t] /\ cur'[t] = cur[t] /\ idx'[t] = idx[t]
      /\ todo'[t] = todo[t] /\ path'[t] = path[t] /\ made'[t] = made[t]
  BY <1>1, OthersStill DEF Still
<1>3. ASSUME NEW n \in Live, NEW k \in Keys, KeptBelow(n, k)
      PROVE  KeptBelow(n, k)'
  BY <1>1, <1>3, BelowStays
<1>4. CASE pc[t] \in {"moving", "clearing"}
  <2> SUFFICES ASSUME NEW n, n = cur[t], NEW i, i = idx[t]
               PROVE  CopyInv(t)'
    OBVIOUS
  <2>1. n \in Live /\ Present(pivots'[n][i].buf.msgs) = Present(pivots[n][i].buf.msgs)
    BY <1>1, <1>4, PushFacts, BufferStays
  <2>2. \A k \in Present(pivots[n][i].buf.msgs) \ todo[t] :
            k \in Keys /\ KeptBelow(n, k)
    BY <1>1, <1>4 DEF CopyInv, Present
  <2>3. \A k \in Present(pivots'[n][i].buf.msgs) \ todo'[t] : KeptBelow(n, k)'
    BY <1>2, <1>3, <2>1, <2>2
  <2>4. cur'[t] = n /\ idx'[t] = i
    BY <1>2
  <2>5. \A k \in Present(pivots[cur[t]][idx[t]].buf.msgs)' \ todo'[t] : KeptBelow(cur[t], k)'
    BY <2>3, <2>4 DEF KeptBelow
  <2> QED BY <1>1, <1>2, <1>4, <2>1, <2>5 DEF CopyInv
<1>5. CASE pc[t] = "lpClear"
  <2> SUFFICES ASSUME NEW n, n = Last(Front(path[t])), NEW i, i = idx[t]
               PROVE  CopyInv(t)'
    OBVIOUS
  <2>1. n \in Live /\ n \in wr[t]
    BY <1>1, <1>5, PathParent
  <2>2. pivots'[n] = pivots[n]
    BY <1>1, <2>1, OwnedStays
  <2>3. \A k \in Present(pivots[n][i].buf.msgs) : k \in Keys /\ KeptBelow(n, k)
    BY <1>1, <1>5 DEF CopyInv, Present
  <2>4. \A k \in Present(pivots'[n][i].buf.msgs) : KeptBelow(n, k)'
    BY <1>3, <2>1, <2>2, <2>3
  <2>5. Last(Front(path'[t])) = n /\ idx'[t] = i
    BY <1>2
  <2>6. \A k \in Present(pivots[Last(Front(path[t]))][idx[t]].buf.msgs)' :
            KeptBelow(Last(Front(path[t])), k)'
    BY <2>4, <2>5 DEF KeptBelow
  <2> QED BY <1>1, <1>2, <1>5, <2>6 DEF CopyInv
<1>6. CASE pc[t] = "spCut"
  <2>1. /\ pc[t] \in Splitting /\ pc[t] \in Filling
    BY <1>6 DEF Splitting, Filling
  <2>2. Last(path[t]) \in Live /\ Last(path[t]) \in wr[t]
    BY <1>1, <2>1, SplitFacts
  <2>3. made[t][1] \in Live /\ 1 \in DOMAIN made[t]
    BY <1>1, <1>6, <2>1, MadeFacts
  <2>4. pivots'[Last(path[t])] = pivots[Last(path[t])]
    BY <1>1, <2>2, OwnedStays
  <2>5. pivots'[made[t][1]] = pivots[made[t][1]]
    BY <1>1, <2>3, OwnedStays
  <2> QED BY <1>1, <1>2, <1>6, <2>4, <2>5 DEF CopyInv
<1>7. CASE pc[t] \notin {"moving", "clearing", "lpClear", "spCut"}
  BY <1>1, <1>2, <1>7 DEF CopyInv
<1> QED BY <1>4, <1>5, <1>6, <1>7

\* Who copies messages, and who has copied some.
LEMMA CopiersOnly ==
    ASSUME TypeOK, NEW u \in Threads, Begin(u) \/ Step(u),
           ~PushDownLocked(u), ~MoveMsg(u)
    PROVE  /\ pc'[u] \notin {"moving", "clearing"}
           /\ pc[u] # "moving" /\ todo' = todo
           /\ ~LockPathDown(u) /\ ~FillSibling(u) => pc'[u] \notin {"lpClear", "spCut"}
<1> DEFINE Else == /\ pc'[u] \notin {"moving", "clearing"}
                   /\ pc[u] # "moving" /\ todo' = todo
                   /\ ~LockPathDown(u) /\ ~FillSibling(u) => pc'[u] \notin {"lpClear", "spCut"}
<1> SUFFICES Else
  OBVIOUS
<1>1. CallsTypeOK
  BY DEF TypeOK
<1>2. CASE Begin(u) \/ IncRef(u) \/ DecRef(u) \/ WriteAtRoot(u) \/ InsertAtRoot(u)
  BY <1>1, <1>2 DEF Begin, IncRef, DecRef, WriteAtRoot, InsertAtRoot, Abort, At,
     CallsTypeOK, Goto, threadVars
<1>3. CASE PushReturn(u) \/ Relock(u) \/ ChoosePushDown(u) \/ PushDown(u)
  BY <1>1, <1>3 DEF PushReturn, Relock, ChoosePushDown, PushDown, At, CallsTypeOK,
     Goto, threadVars
<1>4. CASE ClearBuf(u) \/ SplitBuf(u)
  BY <1>1, <1>4 DEF ClearBuf, SplitBuf, EnterChild, Abort, At, CallsTypeOK, Goto,
     threadVars
<1>5. CASE LockPath(u) \/ LockPathRoot(u) \/ LockPathStale(u)
  BY <1>1, <1>5 DEF LockPath, LockPathRoot, LockPathStale, Advance, Abort, At,
     CallsTypeOK, Goto, threadVars
<1>6. CASE LockPathDown(u)
  <2>1. PICK key \in PathKeys(u) : LockChild(u, FindPivot(pivots[Last(path[u])], key))
    BY <1>6 DEF LockPathDown
  <2> DEFINE c == Child(Last(path[u]), FindPivot(pivots[Last(path[u])], key))
  <2>2. Goto(u, "lpClear") \/ Advance(u, c)
    BY <2>1 DEF LockChild
  <2>3. Goto(u, "lpClear") \/ Goto(u, "lpDown") \/ Goto(u, "split")
    BY <2>2 DEF Advance
  <2>4. pc'[u] \notin {"moving", "clearing"}
    BY <1>1, <2>3 DEF Goto, CallsTypeOK
  <2>5. pc[u] # "moving" /\ todo' = todo
    BY <1>6 DEF LockPathDown, At
  <2> QED BY <1>6, <2>4, <2>5
<1>7. CASE LockPathClear(u)
  BY <1>1, <1>7 DEF LockPathClear, Advance, At, CallsTypeOK, Goto, threadVars
<1>8. CASE SplitNodeDone(u)
  BY <1>1, <1>8 DEF SplitNodeDone, FinishSplit, At, CallsTypeOK, Goto
<1>9. CASE CreateSibling(u) \/ FillSibling(u) \/ CutNode(u) \/ AddToParent(u)
  BY <1>1, <1>9 DEF CreateSibling, FillSibling, CutNode, AddToParent, GivePivots, At,
     CallsTypeOK, Goto
<1>10. CASE CreateRoot(u) \/ AddFirstPivot(u) \/ AddSecondPivot(u)
  BY <1>1, <1>10 DEF CreateRoot, AddFirstPivot, AddSecondPivot, GivePivots, At,
     CallsTypeOK, Goto
<1>11. CASE GrowUp(u)
  BY <1>1, <1>11 DEF GrowUp, FinishSplit, Abort, At, CallsTypeOK, Goto, threadVars
<1>12. CASE GetLock(u) \/ GetLook(u) \/ GetDown(u)
  BY <1>1, <1>12 DEF GetLock, GetLook, GetDown, At, CallsTypeOK, Goto, threadVars
<1> HIDE DEF Else
<1> QED BY <1>2, <1>3, <1>4, <1>5, <1>6, <1>7, <1>8, <1>9, <1>10, <1>11, <1>12 DEF Step

\* Whoever gets a buffer to itself finds it free.
LEMMA BufOwnedStep ==
    ASSUME Inv, NEW u \in Threads, Begin(u) \/ Step(u)
    PROVE  BufOwned'
<1>1. Protocol /\ TypeOK /\ BufOwned /\ CallsTypeOK
  BY DEF Inv, Protocol, Copies, TypeOK
<1>2. \A t \in Threads \ {u} : pc'[t] = pc[t] /\ cur'[t] = cur[t] /\ idx'[t] = idx[t]
  BY <1>1, OthersStill DEF Still
<1>3. ASSUME pc'[u] \in {"moving", "clearing"}, NEW t \in Threads \ {u},
             pc[t] \in {"moving", "clearing"}
      PROVE  <<cur[t], idx[t]>> # <<cur'[u], idx'[u]>>
  <2>1. CASE PushDownLocked(u)
    BY <1>1, <1>3, <2>1 DEF PushDownLocked, BufFree, EnterChild, Goto, CallsTypeOK
  <2>2. CASE MoveMsg(u)
    BY <1>1, <1>3, <2>2 DEF MoveMsg, At, BufOwned
  <2>3. CASE ~PushDownLocked(u) /\ ~MoveMsg(u)
    BY <1>1, <1>3, <2>3, CopiersOnly
  <2> QED BY <2>1, <2>2, <2>3
<1> QED BY <1>1, <1>2, <1>3 DEF BufOwned

\* What is copied to a node of the level below is kept below.
LEMMA CopiedBelow ==
    ASSUME Protocol, NEW u \in Threads, NEW o, NEW i, NEW c, NEW K,
           CopiesTo(u, o, i, c, K), c \in Known, height[c] + 1 = height[o]
    PROVE  /\ \A k \in K : KeptBelow(o, k)'
           /\ pivots'[o] = pivots[o]
<1> DEFINE msgs == pivots[o][i].buf.msgs
<1>1. /\ o \in Live /\ i \in DOMAIN pivots[o] /\ c # o /\ c \in Live
      /\ K \in SUBSET Present(msgs) /\ Sets(u, c, PushInto(pivots[c], msgs, K))
  BY DEF CopiesTo, Sets
<1>2. /\ pivots[c] \in Seq(Pivot) /\ pivots[c] # <<>>
      /\ msgs \in [Keys -> Messages \cup {NoMsg}]
  BY <1>1, NodeFacts, PivotsSeq DEF Protocol
<1>3. /\ pivots'[c] = PushInto(pivots[c], msgs, K) /\ pivots'[o] = pivots[o]
      /\ Live' = Live /\ height' = height
  BY <1>1, SetsNodes
<1>4. height[c] < height[o]
  BY <1>1, HeightOrder
<1> HIDE DEF msgs
<1>5. ASSUME NEW k \in K PROVE HasKey(pivots'[c], k)
  BY <1>1, <1>2, <1>3, PushKeepsKeys DEF Present
<1> QED BY <1>1, <1>3, <1>4, <1>5 DEF KeptBelow, HeldIn, HasKey


\* A thread keeps what Copies says of itself: pushDownLocked starts to copy,
LEMMA StartsCopying ==
    ASSUME Inv, NEW u \in Threads, PushDownLocked(u)
    PROVE  CopyInv(u)'
<1> SUFFICES ASSUME NEW o, o = cur[u], NEW i, i = idx[u], NEW c, c = Child(o, i),
                    NEW K, K = Present(pivots[o][i].buf.msgs)
             PROVE  CopyInv(u)'
  OBVIOUS
<1>1. /\ pc[u] = "pushBuf" /\ Protocol /\ CopyInv(u) /\ TypeOK /\ Naming /\ Tree
      /\ CallsTypeOK /\ todo[u] = {} /\ idx' = idx /\ UNCHANGED <<nodeCount, height>>
  BY DEF Inv, Protocol, Copies, TypeOK, PushDownLocked, At, CopyInv
<1>2. /\ o \in Live /\ i \in DOMAIN pivots[o] /\ ~isLeaf[o]
      /\ c \in Known /\ c \in Live /\ c \in Objs /\ c # o
      /\ wr[u] = (IF isLeaf[c] THEN {c} ELSE {})
  BY <1>1, PushFacts, Basics
<1>3. height[c] + 1 = height[o]
  BY <1>1, <1>2, ChildFacts
<1>4. CASE EnterChild(u, c) /\ todo' = todo
  <2>1. pc'[u] = "push" /\ todo'[u] = {}
    BY <1>1, <1>4 DEF EnterChild, Goto, CallsTypeOK
  <2> QED BY <2>1 DEF CopyInv
<1>5. CASE /\ isLeaf[c] /\ Copy(o, i, c, K) /\ SetDirty({o, c})
           /\ Goto(u, "clearing") /\ UNCHANGED <<cur, todo>>
  <2>1. pc'[u] = "clearing" /\ todo'[u] = {} /\ cur'[u] = o /\ idx'[u] = i
    BY <1>1, <1>5 DEF Goto, CallsTypeOK
  <2>2. CopiesTo(u, o, i, c, K)
    <3>1. Alone(u, c, PushInto(pivots[c], pivots[o][i].buf.msgs, K))
      BY <1>1, <1>2, <1>5, OwnedAlone
    <3>2. dirty'[c]
      BY <1>2, <1>5 DEF SetDirty
    <3> QED BY <1>1, <1>2, <1>5, <3>1, <3>2 DEF CopiesTo, Sets, Copy
  <2>3. (\A k \in K : KeptBelow(o, k)') /\ pivots'[o] = pivots[o]
    BY <1>1, <1>2, <1>3, <2>2, CopiedBelow
  <2>4. \A k \in Present(pivots[cur[u]][idx[u]].buf.msgs)' : KeptBelow(cur[u], k)'
    BY <2>1, <2>3 DEF KeptBelow
  <2> QED BY <2>1, <2>4 DEF CopyInv
<1>6. CASE /\ K # {} /\ Goto(u, "moving") /\ todo' = [todo EXCEPT ![u] = K]
           /\ UNCHANGED <<pivots, cur>>
  <2>1. pc'[u] = "moving" /\ todo'[u] = K /\ cur'[u] = o /\ idx'[u] = i
    BY <1>1, <1>6 DEF Goto, CallsTypeOK
  <2>2. Present(pivots[cur[u]][idx[u]].buf.msgs)' = K
    BY <1>6, <2>1
  <2> QED BY <1>6, <2>1, <2>2 DEF CopyInv
<1> QED BY <1>4, <1>5, <1>6 DEF PushDownLocked

\* goes on with it,
LEMMA GoesOnCopying ==
    ASSUME Inv, NEW u \in Threads, MoveMsg(u)
    PROVE  CopyInv(u)'
<1> SUFFICES ASSUME NEW o, o = cur[u], NEW i, i = idx[u], NEW c, c = Child(o, i),
                    NEW k, k = Smallest(todo[u])
             PROVE  CopyInv(u)'
  OBVIOUS
<1>1. /\ Protocol /\ CopyInv(u) /\ CallsTypeOK /\ pc[u] = "moving"
      /\ UNCHANGED <<cur, idx>> /\ todo' = [todo EXCEPT ![u] = todo[u] \ {k}]
      /\ \/ todo[u] = {k} /\ pc' = [pc EXCEPT ![u] = "clearing"]
         \/ todo[u] # {k} /\ UNCHANGED pc
  BY DEF Inv, Protocol, Copies, TypeOK, MoveMsg, At, CopyInv, Goto
<1>2. /\ o \in Live /\ i \in DOMAIN pivots[o]
      /\ c \in Known /\ c \in Live /\ height[c] + 1 = height[o]
      /\ k \in todo[u] /\ k \in Keys
      /\ todo[u] \in SUBSET Present(pivots[o][i].buf.msgs)
  BY <1>1, MoveFacts
<1>3. Kind(u) /\ CopiesTo(u, o, i, c, {k})
  BY MoveKind
<1>4. KeptBelow(o, k)' /\ pivots'[o] = pivots[o]
  BY <1>1, <1>2, <1>3, CopiedBelow
<1>5. \A l \in Present(pivots[o][i].buf.msgs) \ todo[u] : KeptBelow(o, l)'
  <2>1. \A l \in Present(pivots[o][i].buf.msgs) \ todo[u] : l \in Keys /\ KeptBelow(o, l)
    BY <1>1 DEF CopyInv, Present
  <2> SUFFICES ASSUME NEW l \in Present(pivots[o][i].buf.msgs) \ todo[u]
               PROVE  KeptBelow(o, l)'
    OBVIOUS
  <2> QED BY <1>1, <1>2, <1>3, <2>1, BelowStays
<1>6. /\ todo'[u] = todo[u] \ {k} /\ cur'[u] = o /\ idx'[u] = i
      /\ pc'[u] \in {"moving", "clearing"}
      /\ pc'[u] = "moving" => todo'[u] # {}
      /\ pc'[u] # "moving" => todo'[u] = {}
  BY <1>1, <1>2 DEF CallsTypeOK
<1>7. \A l \in Present(pivots[o][i].buf.msgs) \ todo'[u] : KeptBelow(o, l)'
  BY <1>4, <1>5, <1>6
<1>8. \A l \in Present(pivots[cur[u]][idx[u]].buf.msgs)' \ todo'[u] : KeptBelow(cur[u], l)'
  BY <1>4, <1>6, <1>7 DEF KeptBelow
<1>9. todo'[u] \subseteq Present(pivots[cur[u]][idx[u]].buf.msgs)'
  BY <1>2, <1>4, <1>6
<1> QED BY <1>6, <1>8, <1>9 DEF CopyInv

\* as lockPath does,
LEMMA PathCopying ==
    ASSUME Inv, NEW u \in Threads, LockPathDown(u)
    PROVE  CopyInv(u)'
<1> SUFFICES ASSUME NEW o, o = Last(path[u]), NEW key \in PathKeys(u),
                    NEW i, i = FindPivot(pivots[o], key), LockChild(u, i)
             PROVE  CopyInv(u)'
  BY DEF LockPathDown
<1> SUFFICES ASSUME NEW c, c = Child(o, i),
                    NEW K, K = Present(pivots[o][i].buf.msgs)
             PROVE  CopyInv(u)'
  OBVIOUS
<1>1. /\ pc[u] = "lpDown" /\ Protocol /\ CopyInv(u) /\ TypeOK /\ Naming /\ Tree
      /\ CallsTypeOK /\ ThreadInv(u) /\ todo[u] = {} /\ todo' = todo /\ pc[u] \in OnPath
      /\ UNCHANGED <<nodeCount, height>>
  BY DEF Inv, Protocol, Copies, TypeOK, LockPathDown, At, CopyInv, OnPath
<1>2. /\ path' = [path EXCEPT ![u] = Append(path[u], c)]
      /\ idx' = [idx EXCEPT ![u] = i]
      /\ Copy(o, i, c, K) /\ CanWrite(c) /\ SetDirty(IF K = {} THEN {} ELSE {o, c})
      /\ IF K = {} THEN Advance(u, c) ELSE Goto(u, "lpClear")
  BY DEF LockChild, WriteLock
<1>3. o \in Known /\ o \in Live /\ path[u] \in Seq(Objs) /\ path[u] # <<>>
  BY <1>1, PathFacts
<1>4. ~isLeaf[o]
  BY <1>1 DEF ThreadInv, PathInv
<1>5. key \in Keys /\ i \in DOMAIN pivots[o]
  BY <1>1, <1>3, NodeFacts, PathKeysAreKeys
<1>6. /\ c \in Live /\ c \in Known /\ c # o /\ c \in Objs
      /\ height[c] + 1 = height[o]
  BY <1>1, <1>3, <1>4, <1>5, ChildFacts, Basics
<1>7. todo'[u] = {}
  BY <1>1
<1>8. CASE K = {}
  <2>1. pc'[u] \in {"lpDown", "split"}
    BY <1>1, <1>2, <1>8, AdvanceTo
  <2> QED BY <1>7, <2>1 DEF CopyInv
<1>9. CASE K # {}
  <2>1. pc'[u] = "lpClear" /\ idx'[u] = i /\ path'[u] = Append(path[u], c)
    BY <1>1, <1>2, <1>9 DEF Goto, CallsTypeOK
  <2>2. Last(Front(path'[u])) = o
    <3> SUFFICES ASSUME NEW s \in Seq(Objs), s = path[u], s # <<>>
                 PROVE  Last(Front(Append(s, c))) = Last(s)
      BY <1>3, <2>1
    <3>1. Len(s) \in Nat \ {0}
      BY FrontLast
    <3>2. Append(s, c) \in Seq(Objs) /\ Append(s, c) # <<>> /\ Len(Append(s, c)) = Len(s) + 1
          /\ \A n \in 1..Len(s) : Append(s, c)[n] = s[n]
      BY <1>6, <3>1, AppendProperties
    <3>3. /\ Len(Front(Append(s, c))) = Len(s)
          /\ \A n \in 1..Len(s) : Front(Append(s, c))[n] = Append(s, c)[n]
      <4> SUFFICES ASSUME NEW r \in Seq(Objs), r # <<>>, Len(r) = Len(s) + 1
                   PROVE  /\ Len(Front(r)) = Len(s)
                          /\ \A n \in 1..Len(s) : Front(r)[n] = r[n]
        BY <3>2
      <4>1. /\ Len(Front(r)) = Len(r) - 1
            /\ \A n \in 1..(Len(r) - 1) : Front(r)[n] = r[n]
        BY FrontLast
      <4>2. Len(r) - 1 = Len(s)
        BY <3>1
      <4> QED BY <4>1, <4>2
    <3> QED BY <3>1, <3>2, <3>3 DEF Last
  <2>3. CopiesTo(u, o, i, c, K)
    <3>1. Alone(u, c, PushInto(pivots[c], pivots[o][i].buf.msgs, K))
      BY <1>1, <1>2, <1>6, FreeAlone DEF CanWrite
    <3>2. dirty'[c]
      BY <1>2, <1>6, <1>9 DEF SetDirty
    <3> QED BY <1>1, <1>2, <1>3, <1>5, <1>6, <3>1, <3>2 DEF CopiesTo, Sets, Copy
  <2>4. (\A k \in K : KeptBelow(o, k)') /\ pivots'[o] = pivots[o]
    BY <1>1, <1>6, <2>3, CopiedBelow
  <2>5. \A k \in Present(pivots[Last(Front(path[u]))][idx[u]].buf.msgs)' :
            KeptBelow(Last(Front(path[u])), k)'
    BY <2>1, <2>2, <2>4 DEF KeptBelow
  <2> QED BY <1>7, <2>1, <2>5 DEF CopyInv
<1> QED BY <1>8, <1>9

\* and splitNode copies pivots.
LEMMA FillCopying ==
    ASSUME Inv, NEW u \in Threads, FillSibling(u)
    PROVE  CopyInv(u)'
<1> SUFFICES ASSUME NEW x, x = Last(path[u]), NEW o, o = made[u][1]
             PROVE  CopyInv(u)'
  OBVIOUS
<1>1. /\ pc[u] = "spFill" /\ Protocol /\ CopyInv(u) /\ TypeOK /\ CallsTypeOK
      /\ todo[u] = {} /\ UNCHANGED <<todo, path, made>>
      /\ pivots' = [pivots EXCEPT ![o] = Upper(pivots[x])]
      /\ pc' = [pc EXCEPT ![u] = "spCut"]
  BY DEF Inv, Protocol, Copies, TypeOK, FillSibling, GivePivots, At, Goto, CopyInv
<1>2. pc[u] \in Splitting /\ pc[u] \in Filling
  BY <1>1 DEF Splitting, Filling
<1>3. o \in Objs /\ o \notin Known
  BY <1>1, <1>2, MadeFacts, Basics
<1>4. x \in Known /\ x \in Objs
  BY <1>1, <1>2, SplitFacts
<1>5. pivots'[o] = Upper(pivots[x]) /\ pivots'[x] = pivots[x]
  BY <1>1, <1>3, <1>4 DEF TypeOK, NodesTypeOK
<1>6. pc'[u] = "spCut" /\ todo'[u] = {} /\ made'[u][1] = o /\ Last(path'[u]) = x
  BY <1>1 DEF CallsTypeOK
<1> QED BY <1>5, <1>6 DEF CopyInv

LEMMA StepKeepsCopies ==
    ASSUME Inv, NEW u \in Threads, Begin(u) \/ Step(u)
    PROVE  Copies'
<1>1. \A t \in Threads \ {u} : CopyInv(t)'
  BY OthersCopyInv
<1>2. BufOwned'
  BY BufOwnedStep
<1>3. CopyInv(u)'
  <2>1. CASE PushDownLocked(u) \/ MoveMsg(u) \/ LockPathDown(u) \/ FillSibling(u)
    BY <2>1, StartsCopying, GoesOnCopying, PathCopying, FillCopying
  <2>2. CASE ~(PushDownLocked(u) \/ MoveMsg(u) \/ LockPathDown(u) \/ FillSibling(u))
    <3>1. TypeOK /\ CopyInv(u)
      BY DEF Inv, Protocol, Copies
    <3>2. /\ pc'[u] \notin {"moving", "clearing", "lpClear", "spCut"}
          /\ pc[u] # "moving" /\ todo' = todo
      BY <2>2, <3>1, CopiersOnly
    <3> QED BY <3>1, <3>2 DEF CopyInv
  <2> QED BY <2>1, <2>2
<1> QED BY <1>1, <1>2, <1>3 DEF Copies

-----------------------------------------------------------------------------
\* The invariant, and what it says of single states.

\* Every other step leaves alone what Copies is about.
LEMMA NextKinds ==
    ASSUME Inv, [Next]_vars
    PROVE  \/ \E u \in Threads : Begin(u) \/ Step(u)
           \/ UNCHANGED <<nodeVars, pc, threadVars, rd, wr>>
BY DEF Next, WriteBack, vars

LEMMA NextCopies == Inv /\ [Next]_vars => Copies'
<1> SUFFICES ASSUME Inv, [Next]_vars PROVE Copies'
  OBVIOUS
<1>1. CASE \E u \in Threads : Begin(u) \/ Step(u)
  BY <1>1, StepKeepsCopies
<1>2. CASE UNCHANGED <<nodeVars, pc, threadVars, rd, wr>>
  <2>1. Copies
    BY DEF Inv
  <2>2. UNCHANGED <<pivots, nodeCount, height, pc, cur, idx, todo, path, made>>
    BY <1>2 DEF nodeVars, threadVars
  <2>3. \A n, k : KeptBelow(n, k)' <=> KeptBelow(n, k)
    BY <2>2 DEF KeptBelow, HeldIn, Live
  <2>4. BufOwned'
    BY <2>1, <2>2 DEF Copies, BufOwned
  <2>5. ASSUME NEW t \in Threads PROVE CopyInv(t)'
    <3>1. CopyInv(t)
      BY <2>1 DEF Copies
    <3> QED BY <2>2, <2>3, <3>1 DEF CopyInv
  <2> QED BY <2>4, <2>5 DEF Copies
<1> QED BY <1>1, <1>2, NextKinds

\* The lock protocol of Node and BufferTree: at every control point a thread
\* holds exactly the locks Protocol lists, and what it relies on under them is
\* true; and a message that has been copied and not yet cleared is held further
\* down.  For any number of threads, keys, calls and nodes.
THEOREM LockProtocol == Spec => []Inv
<1>1. Init => Inv
  <2> SUFFICES ASSUME Init PROVE Copies
    BY InitInv DEF Inv
  <2> QED BY DEF Init, Copies, BufOwned, CopyInv
<1>2. Inv /\ [Next]_vars => Inv'
  BY NextInv, NextCopies DEF Inv
<1> QED BY <1>1, <1>2, PTL DEF Spec

\* Every variable keeps its type.
THEOREM TypesHold == Spec => []TypeOK
<1>1. Inv => TypeOK
  BY DEF Inv, Protocol
<1> QED BY <1>1, LockProtocol, PTL

\* A message enters the tree at the root and nowhere else.
THEOREM WritersAtRoot == Spec => []WritesEnterAtRoot
<1>1. Inv => WritesEnterAtRoot
  BY DEF Inv, Protocol, ThreadInv, WriterAtRoot, WritesEnterAtRoot
<1> QED BY <1>1, LockProtocol, PTL

\* A returned call has released every lock.
THEOREM LocksReleased == Spec => []IdleHoldsNothing
<1>1. Inv => IdleHoldsNothing
  BY DEF Inv, Protocol, ThreadInv, HoldsNone, HoldsMutex, IdleHoldsNothing
<1> QED BY <1>1, LockProtocol, PTL

\* The tree is balanced, and its links lead to nodes of the tree.
THEOREM TreeBalanced == Spec => []Balanced
<1>1. Inv => Balanced
  <2> SUFFICES ASSUME Protocol, NEW o \in Live
               PROVE  /\ isLeaf[o] <=> height[o] = 0
                      /\ o \notin Unlinked => pivots[o] # <<>>
                      /\ \A i \in DOMAIN pivots[o] :
                          /\ i > 1 => pivots[o][i].leftKey # EmptyKey
                          /\ IF isLeaf[o] THEN pivots[o][i].child = NID_NIL
                             ELSE /\ pivots[o][i].child # NID_NIL
                                  /\ Child(o, i) \in Live
                                  /\ o \notin Unlinked => Child(o, i) \notin Unlinked
                                  /\ height[Child(o, i)] + 1 = height[o]
    BY DEF Inv, Balanced
  <2>1. TypeOK /\ Naming /\ Tree /\ TreeNode(o)
    BY DEF Protocol, Tree
  <2>2. ASSUME NEW i \in DOMAIN pivots[o], ~isLeaf[o]
        PROVE  /\ pivots[o][i].child # NID_NIL
               /\ Child(o, i) \in Live
               /\ o \notin Unlinked => Child(o, i) \notin Unlinked
               /\ height[Child(o, i)] + 1 = height[o]
    BY <2>1, <2>2, ChildFacts DEF Known
  <2>3. o \notin Unlinked => pivots[o] # <<>>
    BY <2>1 DEF TreeNode, Known
  <2> QED BY <2>1, <2>2, <2>3 DEF TreeNode
<1> QED BY <1>1, LockProtocol, PTL

\* The path a splitting thread has locked is a branch of the tree.
THEOREM PathsAreBranches == Spec => []PathIsBranch
<1>1. Inv => PathIsBranch
  <2> SUFFICES ASSUME Protocol, NEW t \in Threads, pc[t] \in OnPath
               PROVE  /\ path[t][1] = root
                      /\ \A n \in DOMAIN path[t] : path[t][n] \in wr[t]
                      /\ \A n \in DOMAIN path[t] : n + 1 \in DOMAIN path[t] =>
                            \E i \in DOMAIN pivots[path[t][n]] :
                                /\ pivots[path[t][n]][i].child # NID_NIL
                                /\ Child(path[t][n], i) = path[t][n + 1]
    BY DEF Inv, PathIsBranch
  <2> DEFINE s == path[t]
  <2>1. /\ s[1] = root /\ DOMAIN s = 1..Len(s) /\ Len(s) \in Nat
        /\ \A n \in 1..Len(s) : s[n] \in Live /\ s[n] \in wr[t]
        /\ \A n \in 1..Len(s) : n + 1 \in 1..Len(s) =>
              \E i \in DOMAIN pivots[s[n]] : pivots[s[n]][i].child + 1 = s[n + 1]
        /\ \A n \in 1..Len(s) : height[s[n]] + n = height[root] + 1
        /\ \A n \in 1..Len(s) : height[s[n]] \in Nat
    BY PathFacts
  <2>2. TypeOK /\ Naming /\ Tree
    BY DEF Protocol
  <2> HIDE DEF s
  <2>3. ASSUME NEW n \in 1..Len(s), n + 1 \in 1..Len(s)
        PROVE  \E i \in DOMAIN pivots[s[n]] :
                  pivots[s[n]][i].child # NID_NIL /\ Child(s[n], i) = s[n + 1]
    <3>1. PICK i \in DOMAIN pivots[s[n]] : pivots[s[n]][i].child + 1 = s[n + 1]
      BY <2>1, <2>3
    <3>2. height[s[n]] # 0
      <4>1. /\ height[s[n]] + n = height[root] + 1 /\ height[s[n]] \in Nat
            /\ height[s[n + 1]] + (n + 1) = height[root] + 1 /\ height[s[n + 1]] \in Nat
        BY <2>1, <2>3
      <4> QED BY <2>1, <4>1
    <3>3. s[n] \in Live /\ ~isLeaf[s[n]]
      BY <2>1, <2>2, <3>2 DEF Tree, TreeNode
    <3> QED BY <2>2, <3>1, <3>3, ChildFacts
  <2> QED BY <2>1, <2>3 DEF s
<1> QED BY <1>1, LockProtocol, PTL

-----------------------------------------------------------------------------
\* Links change under an exclusive lock or where nobody can come.

\* Only nodes that have been made are reachable.
LEMMA ReachableLive ==
    ASSUME Protocol, NEW n, Reachable(n)
    PROVE  n \in Live
<1>1. TypeOK /\ Naming /\ Tree /\ root \in Live
  BY Basics DEF Protocol
<1>2. \A p \in Live : \A i \in DOMAIN pivots[p] :
        pivots[p][i].child # NID_NIL => Child(p, i) \in Live
  BY <1>1, ChildFacts
<1>3. \A t \in Threads :
        /\ cur[t] \in Live /\ base[t] \in Live
        /\ \A l \in DOMAIN stack[t] : stack[t][l] \in Live
        /\ \A l \in DOMAIN path[t] : path[t][l] \in Live
  BY DEF Protocol, ThreadInv, Places, PathInv, Known
<1> QED BY <1>1, <1>2, <1>3 DEF Reachable

\* A step that gives a node other links is made by a thread that has locked it
\* exclusively, or on a node nothing leads to.
LEMMA KindKeepsShape ==
    ASSUME Protocol, NEW u \in Threads, Kind(u), NEW n \in Objs, n \notin wr[u],
           Reachable(n)
    PROVE  SameShape(pivots[n], pivots'[n])
<1> DEFINE Same == SameShape(pivots[n], pivots'[n])
<1> SUFFICES Same
  OBVIOUS
<1>1. TypeOK /\ \A m \in Live : pivots[m] \in Seq(Pivot)
  BY NodeFacts DEF Protocol
<1>2. ASSUME pivots'[n] = pivots[n] PROVE Same
  BY <1>2 DEF SameShape
<1>3. ASSUME NEW o, NEW p, Sets(u, o, p), n = o => SameShape(pivots[o], p) PROVE Same
  BY <1>2, <1>3, SetsNodes
<1>4. CASE Quiet
  BY <1>2, <1>4 DEF Quiet
<1>5. ASSUME NEW o, NEW i, NEW k, NEW m, Inserts(u, o, i, k, m) PROVE Same
  <2>1. SameShape(pivots[o], InsertMsg(pivots[o], i, k, m))
    BY <1>1, <1>5, InsertMsgResult DEF Inserts, Sets
  <2> HIDE DEF Same
  <2> QED BY <1>3, <1>5, <2>1 DEF Inserts
<1>6. ASSUME NEW o, NEW i, NEW c, NEW K, CopiesTo(u, o, i, c, K) PROVE Same
  <2> DEFINE msgs == pivots[o][i].buf.msgs
  <2>1. msgs \in [Keys -> Messages \cup {NoMsg}] /\ K \in SUBSET Keys
    BY <1>1, <1>6, PivotsSeq DEF CopiesTo, Present
  <2>2. Sets(u, c, PushInto(pivots[c], msgs, K)) /\ c \in Live
    BY <1>6 DEF CopiesTo, Sets
  <2> HIDE DEF Same, msgs
  <2>3. SameShape(pivots[c], PushInto(pivots[c], msgs, K))
    BY <1>1, <2>1, <2>2, PushIntoResult
  <2> QED BY <1>3, <2>2, <2>3
<1>7. ASSUME NEW o, NEW i, Clears(u, o, i) PROVE Same
  <2>1. SameShape(pivots[o], WithBuf(pivots[o], i, EmptyBuf))
    BY <1>1, <1>7, WithBufResult, EmptyBufFacts DEF Clears, Sets
  <2> HIDE DEF Same
  <2> QED BY <1>3, <1>7, <2>1 DEF Clears
<1>8. ASSUME NEW o, NEW i, SplitsBuffer(u, o, i) PROVE Same
  <2> HIDE DEF Same
  <2> QED BY <1>3, <1>8 DEF SplitsBuffer
<1>9. ASSUME NEW o, NEW x, Fills(u, o, x) PROVE Same
  <2> HIDE DEF Same
  <2> QED BY <1>3, <1>9 DEF Fills
<1>10. ASSUME NEW o, NEW a, Cuts(u, o, a) PROVE Same
  <2> HIDE DEF Same
  <2> QED BY <1>3, <1>10 DEF Cuts
<1>11. ASSUME NEW o, NEW child, NEW key, Links(u, o, child, key) PROVE Same
  <2> HIDE DEF Same
  <2> QED BY <1>3, <1>11 DEF Links
<1>12. ASSUME NEW o, NEW child, Begins(u, o, child) PROVE Same
  <2> HIDE DEF Same
  <2> QED BY <1>3, <1>12 DEF Begins
<1>13. CASE Makes
  <2>1. n \in Live
    BY ReachableLive
  <2> QED BY <1>2, <1>13, <2>1, MakesNodes
<1> HIDE DEF Same
<1> QED BY <1>4, <1>5, <1>6, <1>7, <1>8, <1>9, <1>10, <1>11, <1>12, <1>13 DEF Kind

\* The links of a node change while one thread holds it exclusively and no other
\* thread holds it at all, or while nothing leads to it.
THEOREM LinksChangeGuarded == Spec => LinksGuarded
<1> DEFINE Guarded == \A o \in Objs : Shape(pivots'[o]) # Shape(pivots[o]) =>
                        \/ \E t \in Threads :
                            /\ o \in wr[t]
                            /\ \A u \in Threads \ {t} : o \notin rd[u] \cup wr[u]
                        \/ ~Reachable(o)
<1>1. ASSUME Inv, [Next]_vars PROVE Guarded
  <2> SUFFICES ASSUME NEW o \in Objs, Shape(pivots'[o]) # Shape(pivots[o]), Reachable(o)
               PROVE  \E t \in Threads :
                        /\ o \in wr[t]
                        /\ \A u \in Threads \ {t} : o \notin rd[u] \cup wr[u]
    OBVIOUS
  <2>1. ~SameShape(pivots[o], pivots'[o])
    BY DEF SameShape, Shape
  <2>2. pivots' # pivots
    BY <2>1 DEF SameShape
  <2>3. PICK t \in Threads : Kind(t)
    BY <1>1, <2>2, NextKinds, StepKinds DEF nodeVars
  <2>4. Protocol
    BY <1>1 DEF Inv
  <2>5. o \in wr[t]
    BY <2>1, <2>3, <2>4, KindKeepsShape
  <2> QED BY <2>4, <2>5 DEF Protocol, Exclusion
<1>2. Inv /\ [Next]_vars => [Guarded]_vars
  BY <1>1
<1> QED BY <1>2, LockProtocol, PTL DEF Spec, LinksGuarded

-----------------------------------------------------------------------------
\* No push-down, split or new root drops the last message of a key.
THEOREM NoKeyVanishes == Spec => KeysNeverVanish
<1> DEFINE Kept == \A k \in Keys : Held(k) => Held(k)'
<1>1. ASSUME Inv, [Next]_vars PROVE Kept
  <2> SUFFICES ASSUME NEW k \in Keys, Held(k) PROVE Held(k)'
    OBVIOUS
  <2>1. CASE UNCHANGED <<nodeVars, pc, threadVars, rd, wr>>
    BY <2>1 DEF nodeVars, Held, Live
  <2>2. ASSUME NEW u \in Threads, Kind(u) PROVE Held(k)'
    <3>1. PICK n \in Live : HasKey(pivots[n], k)
      BY DEF Held, HasKey
    <3>2. Protocol
      BY <1>1 DEF Inv
    <3>3. PICK q \in Live : HasKey(pivots'[q], k)
      BY <2>2, <3>1, <3>2, Persist
    <3>4. q \in Live'
      BY <2>2, <3>2, NodesStay
    <3> QED BY <3>3, <3>4 DEF Held, HasKey
  <2> QED BY <1>1, <2>1, <2>2, NextKinds, StepKinds
<1>2. Inv /\ [Next]_vars => [Kept]_vars
  BY <1>1
<1> QED BY <1>2, LockProtocol, PTL DEF Spec, KeysNeverVanish

-----------------------------------------------------------------------------
\* MsgBuf::size covers the messages.

\* What the messages of msgs with a key in K occupy in a buffer: their own
\* size, and 8 bytes each for the two lengths.
Bytes(msgs, K) ==
    MsgSize(msgs, K) + 8 * Cardinality({k \in K : msgs[k] # NoMsg})

\* The counts of disjoint sets of keys add up.
LEMMA CountsAdd ==
    ASSUME NEW A \in SUBSET Keys, NEW B \in SUBSET Keys, A \cap B = {}
    PROVE  Cardinality(A \cup B) = Cardinality(A) + Cardinality(B)
<1>1. IsFiniteSet(A) /\ IsFiniteSet(B)
  BY KeySets
<1>2. Cardinality(A \cup B) = Cardinality(A) + Cardinality(B) - Cardinality(A \cap B)
  BY <1>1, FS_Union
<1>3. Cardinality(A) \in Nat /\ Cardinality(B) \in Nat /\ Cardinality(A \cap B) = 0
  BY KeySets, FS_EmptySet
<1> QED BY <1>2, <1>3

\* Sizes are natural numbers.
LEMMA BytesType ==
    ASSUME NEW msgs, NEW K \in SUBSET Keys
    PROVE  /\ MsgSize(msgs, K) \in Nat /\ Bytes(msgs, K) \in Nat
           /\ MsgSize(msgs, K) <= Bytes(msgs, K)
<1>1. MsgSize(msgs, K) \in Nat
  BY MsgSizeType
<1>2. Cardinality({k \in K : msgs[k] # NoMsg}) \in Nat
  BY KeySets
<1> QED BY <1>1, <1>2 DEF Bytes

\* The bytes of two disjoint sets of keys add up.
LEMMA BytesAdd ==
    ASSUME NEW msgs, NEW A \in SUBSET Keys, NEW B \in SUBSET Keys, A \cap B = {}
    PROVE  Bytes(msgs, A \cup B) = Bytes(msgs, A) + Bytes(msgs, B)
<1> DEFINE P(K) == {k \in K : msgs[k] # NoMsg}
           V(K) == {k \in K : msgs[k] \in Values}
<1>1. P(A \cup B) = P(A) \cup P(B) /\ V(A \cup B) = V(A) \cup V(B)
  OBVIOUS
<1>2. /\ P(A) \in SUBSET Keys /\ P(B) \in SUBSET Keys /\ P(A) \cap P(B) = {}
      /\ V(A) \in SUBSET Keys /\ V(B) \in SUBSET Keys /\ V(A) \cap V(B) = {}
  OBVIOUS
<1>3. /\ \A K : MsgSize(msgs, K) = (4 + KeySize) * Cardinality(P(K))
                                      + ValueSize * Cardinality(V(K))
      /\ \A K : Bytes(msgs, K) = MsgSize(msgs, K) + 8 * Cardinality(P(K))
  BY DEF MsgSize, Bytes
<1> HIDE DEF P, V
<1>4. /\ Cardinality(P(A \cup B)) = Cardinality(P(A)) + Cardinality(P(B))
      /\ Cardinality(V(A \cup B)) = Cardinality(V(A)) + Cardinality(V(B))
  BY <1>1, <1>2, CountsAdd
<1>5. /\ Cardinality(P(A)) \in Nat /\ Cardinality(P(B)) \in Nat
      /\ Cardinality(V(A)) \in Nat /\ Cardinality(V(B)) \in Nat
  BY <1>2, KeySets
<1>6. \A x, y, z, f, g \in Nat : /\ f * (x + y) = f * x + f * y
                                 /\ f * x \in Nat
  OBVIOUS
<1>7. 4 + KeySize \in Nat /\ ValueSize \in Nat
  BY SizesAssumption
<1>8. /\ (4 + KeySize) * Cardinality(P(A \cup B))
            = (4 + KeySize) * Cardinality(P(A)) + (4 + KeySize) * Cardinality(P(B))
      /\ ValueSize * Cardinality(V(A \cup B))
            = ValueSize * Cardinality(V(A)) + ValueSize * Cardinality(V(B))
  BY <1>4, <1>5, <1>6, <1>7
<1>9. /\ (4 + KeySize) * Cardinality(P(A)) \in Nat
      /\ (4 + KeySize) * Cardinality(P(B)) \in Nat
      /\ ValueSize * Cardinality(V(A)) \in Nat
      /\ ValueSize * Cardinality(V(B)) \in Nat
  BY <1>5, <1>6, <1>7
<1>10. MsgSize(msgs, A \cup B) = MsgSize(msgs, A) + MsgSize(msgs, B)
  BY <1>3, <1>8, <1>9
<1>11. MsgSize(msgs, A) \in Nat /\ MsgSize(msgs, B) \in Nat
  BY MsgSizeType
<1> QED BY <1>3, <1>4, <1>5, <1>10, <1>11

\* Only the messages count: functions that agree on K have the same bytes,
LEMMA BytesSame ==
    ASSUME NEW msgs, NEW n, NEW K, \A k \in K : n[k] = msgs[k]
    PROVE  Bytes(n, K) = Bytes(msgs, K)
<1>1. /\ {k \in K : n[k] # NoMsg} = {k \in K : msgs[k] # NoMsg}
      /\ {k \in K : n[k] \in Values} = {k \in K : msgs[k] \in Values}
  OBVIOUS
<1> QED BY <1>1 DEF Bytes, MsgSize

\* and no message has no bytes.
LEMMA BytesNone ==
    ASSUME NEW msgs, NEW K \in SUBSET Keys, \A k \in K : msgs[k] = NoMsg
    PROVE  Bytes(msgs, K) = 0
<1>1. {k \in K : msgs[k] # NoMsg} = {}
  OBVIOUS
<1>2. MsgSize(msgs, K) = 0 /\ Cardinality({k \in K : msgs[k] # NoMsg}) = 0
  BY <1>1, MsgSizeType, ValuesAssumption, FS_EmptySet
<1> QED BY <1>2 DEF Bytes

\* size_ is at least what the messages of the buffer occupy.
Covers(buf) == buf.size >= Bytes(buf.msgs, Keys)

\* MsgBuf::resize and the insertion into a new buffer count exactly.
LEMMA KeepCovers ==
    ASSUME NEW msgs, NEW K \in SUBSET Keys
    PROVE  LET buf == Keep(msgs, K)
           IN  buf.size = Bytes(msgs, K) /\ Bytes(buf.msgs, Keys) = Bytes(msgs, K)
<1> DEFINE n == Keep(msgs, K).msgs
<1>1. /\ \A k \in K : n[k] = msgs[k]
      /\ \A k \in Keys \ K : n[k] = NoMsg
  BY DEF Keep
<1> HIDE DEF n
<1>2. Bytes(n, K) = Bytes(msgs, K) /\ Bytes(n, Keys \ K) = 0
  BY <1>1, BytesSame, BytesNone
<1>3. Keys = K \cup (Keys \ K) /\ Bytes(msgs, K) \in Nat
  BY BytesType
<1>4. Bytes(n, Keys) = Bytes(n, K) + Bytes(n, Keys \ K)
  BY <1>3, BytesAdd
<1>5. Bytes(n, Keys) = Bytes(msgs, K)
  BY <1>2, <1>3, <1>4
<1> QED BY <1>5 DEF n, Keep, Bytes

\* MsgBuf::insert takes off no more than the overwritten messages added.
LEMMA InsertAllCovers ==
    ASSUME NEW buf \in MsgBuf, Covers(buf), NEW msgs,
           NEW K \in SUBSET Keys, \A k \in K : msgs[k] # NoMsg
    PROVE  Covers(InsertAll(buf, msgs, K))
<1> DEFINE n == InsertAll(buf, msgs, K).msgs
           R == Keys \ K
<1>1. /\ \A k \in K : n[k] = msgs[k]
      /\ \A k \in R : n[k] = buf.msgs[k]
      /\ InsertAll(buf, msgs, K).size =
            buf.size - MsgSize(buf.msgs, K) + MsgSize(msgs, K) + 8 * Cardinality(K)
  BY DEF InsertAll
<1> HIDE DEF n
<1>2. Bytes(n, K) = Bytes(msgs, K) /\ Bytes(n, R) = Bytes(buf.msgs, R)
  BY <1>1, BytesSame
<1>3. Keys = K \cup R /\ R \in SUBSET Keys
  OBVIOUS
<1>4. /\ Bytes(n, Keys) = Bytes(n, K) + Bytes(n, R)
      /\ Bytes(buf.msgs, Keys) = Bytes(buf.msgs, K) + Bytes(buf.msgs, R)
  BY <1>3, BytesAdd
<1>5. {k \in K : msgs[k] # NoMsg} = K
  OBVIOUS
<1>6. Bytes(msgs, K) = MsgSize(msgs, K) + 8 * Cardinality(K)
  BY <1>5 DEF Bytes
<1>7. /\ MsgSize(msgs, K) \in Nat /\ MsgSize(buf.msgs, K) \in Nat
      /\ Bytes(buf.msgs, K) \in Nat /\ Bytes(buf.msgs, R) \in Nat
      /\ MsgSize(buf.msgs, K) <= Bytes(buf.msgs, K)
      /\ Cardinality(K) \in Nat /\ buf.size \in Int
  BY <1>3, BytesType, KeySets DEF MsgBuf
<1>8. buf.size >= Bytes(buf.msgs, K) + Bytes(buf.msgs, R)
  BY <1>4 DEF Covers
<1>9. InsertAll(buf, msgs, K).size >= Bytes(n, Keys)
  <2> HIDE DEF R
  <2> QED BY <1>1, <1>2, <1>4, <1>6, <1>7, <1>8
<1> QED BY <1>9 DEF Covers, n

\* All buffers of a node are covered.
CoveredNode(p) == \A j \in DOMAIN p : Covers(p[j].buf)

\* Node::insertMsg keeps the buffers covered,
LEMMA InsertMsgCovers ==
    ASSUME NEW p \in Seq(Pivot), CoveredNode(p), NEW i \in DOMAIN p,
           NEW key \in Keys, NEW msg \in Messages
    PROVE  CoveredNode(InsertMsg(p, i, key, msg))
<1> DEFINE q == InsertMsg(p, i, key, msg)
           n == [k \in Keys |-> msg]
           b == InsertAll(p[i].buf, n, {key})
<1>1. p[i].buf \in MsgBuf /\ n \in [Keys -> Messages \cup {NoMsg}]
  BY PivotsSeq
<1>2. b \in MsgBuf
  <2> HIDE DEF n
  <2> QED BY <1>1, InsertAllType
<1>3. Covers(b)
  <2>1. \A k \in {key} : n[k] # NoMsg
    BY ValuesAssumption DEF Messages, Del, NoMsg
  <2> HIDE DEF n
  <2> QED BY <1>1, <2>1, InsertAllCovers DEF CoveredNode
<1>4. q = WithBuf(p, i, b)
  BY DEF InsertMsg, Insert
<1> HIDE DEF q, b
<1>5. DOMAIN q = DOMAIN p /\ \A j \in DOMAIN p : q[j].buf = IF j = i THEN b ELSE p[j].buf
  BY <1>2, <1>4, WithBufResult DEF SameShape
<1>6. CoveredNode(q)
  BY <1>3, <1>5 DEF CoveredNode
<1> QED BY <1>6 DEF q

\* and pushDownLocked those of the receiving node;
LEMMA PushIntoCovers ==
    ASSUME NEW p \in Seq(Pivot), CoveredNode(p),
           NEW msgs \in [Keys -> Messages \cup {NoMsg}],
           NEW K \in SUBSET Present(msgs)
    PROVE  CoveredNode(PushInto(p, msgs, K))
<1> DEFINE q == PushInto(p, msgs, K)
<1>1. K \in SUBSET Keys /\ \A k \in K : msgs[k] # NoMsg
  BY DEF Present
<1>2. /\ DOMAIN q = DOMAIN p
      /\ \A j \in DOMAIN p : q[j].buf = InsertAll(p[j].buf, msgs, Routed(p, K, j))
  BY <1>1, PushIntoResult DEF SameShape
<1>3. ASSUME NEW j \in DOMAIN p PROVE Covers(InsertAll(p[j].buf, msgs, Routed(p, K, j)))
  <2>1. Routed(p, K, j) \in SUBSET Keys /\ \A k \in Routed(p, K, j) : msgs[k] # NoMsg
    BY <1>1 DEF Routed
  <2>2. p[j].buf \in MsgBuf /\ Covers(p[j].buf)
    BY PivotsSeq DEF CoveredNode
  <2> QED BY <2>1, <2>2, InsertAllCovers
<1> HIDE DEF q
<1>4. CoveredNode(q)
  BY <1>2, <1>3 DEF CoveredNode
<1> QED BY <1>4 DEF q

\* addPivot adds a buffer,
LEMMA AddPivotCovers ==
    ASSUME NEW p \in Seq(Pivot), p # <<>>, CoveredNode(p),
           NEW child \in 0..MaxNodes, NEW buf \in MsgBuf, Covers(buf),
           NEW key \in Keys
    PROVE  CoveredNode(AddPivot(p, child, buf, key))
<1> DEFINE q == AddPivot(p, child, buf, key)
           f == FindPivot(p, key)
<1>1. Len(p) \in Nat /\ DOMAIN p = 1..Len(p)
  BY PivotsSeq
<1>2. /\ q \in Seq(Pivot) /\ Len(q) = Len(p) + 1 /\ f \in 1..Len(p)
      /\ \A j \in 1..Len(q) :
            q[j] = IF j <= f THEN p[j]
                   ELSE IF j = f + 1 THEN NewPivot(child, buf, key)
                   ELSE p[j - 1]
  BY AddPivotResult
<1> HIDE DEF q, f
<1>3. DOMAIN q = 1..Len(q)
  BY <1>2, PivotsSeq
<1>4. ASSUME NEW j \in DOMAIN q PROVE Covers(q[j].buf)
  <2>0. j \in 1..Len(q) /\ j \in Nat
    BY <1>1, <1>2, <1>3
  <2>1. CASE j <= f
    <3>1. j \in DOMAIN p /\ q[j] = p[j]
      BY <1>1, <1>2, <2>0, <2>1
    <3> QED BY <3>1 DEF CoveredNode
  <2>2. CASE j = f + 1
    <3>1. q[j] = NewPivot(child, buf, key)
      BY <1>1, <1>2, <2>0, <2>2
    <3> QED BY <3>1 DEF NewPivot
  <2>3. CASE j > f + 1
    <3>1. j - 1 \in DOMAIN p /\ q[j] = p[j - 1]
      BY <1>1, <1>2, <2>0, <2>3
    <3> QED BY <3>1 DEF CoveredNode
  <2>4. j <= f \/ j = f + 1 \/ j > f + 1
    BY <1>1, <1>2, <2>0
  <2> QED BY <2>1, <2>2, <2>3, <2>4
<1>5. CoveredNode(q)
  BY <1>4 DEF CoveredNode
<1> QED BY <1>5 DEF q

\* splitBuf counts both buffers afresh,
LEMMA SplitPivotsCovers ==
    ASSUME NEW p \in Seq(Pivot), CoveredNode(p), NEW i \in DOMAIN p,
           Present(p[i].buf.msgs) # {}
    PROVE  CoveredNode(SplitPivots(p, i))
<1> DEFINE buf == p[i].buf
           upper == UpperKeys(buf)
           lower == FirstKeys(buf.msgs, Count(buf) \div 2)
           b0 == Keep(buf.msgs, lower)
           b1 == Keep(buf.msgs, upper)
           key == Smallest(upper)
           r == WithBuf(p, i, b0)
<1>1. buf \in MsgBuf /\ buf.msgs \in [Keys -> Messages \cup {NoMsg}]
  BY PivotsSeq
<1>2. upper \in SUBSET Keys /\ upper # {} /\ lower \in SUBSET Keys
  BY <1>1, UpperKeysType DEF Present, FirstKeys
<1>3. key \in Keys
  <2>1. upper \in SUBSET Nat
    BY <1>2, KeySets
  <2>2. key \in upper
    BY <1>2, <2>1, SmallestIn
  <2> QED BY <1>2, <2>2
<1>4. SplitPivots(p, i) = AddPivot(r, NID_NIL, b1, key)
  BY DEF SplitPivots, Resize
<1> HIDE DEF upper, lower, key
<1>5. b0 \in MsgBuf /\ b1 \in MsgBuf
  BY <1>1, <1>2, KeepType
<1>6. Covers(b0) /\ Covers(b1)
  <2>1. \A K \in SUBSET Keys : Covers(Keep(buf.msgs, K))
    <3> SUFFICES ASSUME NEW K \in SUBSET Keys PROVE Covers(Keep(buf.msgs, K))
      OBVIOUS
    <3>1. /\ Keep(buf.msgs, K).size = Bytes(buf.msgs, K)
          /\ Bytes(Keep(buf.msgs, K).msgs, Keys) = Bytes(buf.msgs, K)
      BY KeepCovers
    <3>2. Bytes(buf.msgs, K) \in Nat
      BY BytesType
    <3> QED BY <3>1, <3>2 DEF Covers
  <2> QED BY <1>2, <2>1
<1> HIDE DEF b0, b1, buf
<1>7. /\ r \in Seq(Pivot) /\ DOMAIN r = DOMAIN p
      /\ \A j \in DOMAIN p : r[j].buf = IF j = i THEN b0 ELSE p[j].buf
  BY <1>5, WithBufResult DEF SameShape
<1> HIDE DEF r
<1>8. CoveredNode(r) /\ r # <<>>
  BY <1>6, <1>7, PivotsSeq DEF CoveredNode
<1>9. NID_NIL \in 0..MaxNodes
  BY MaxNodesAssumption DEF NID_NIL
<1> QED BY <1>3, <1>4, <1>5, <1>6, <1>7, <1>8, <1>9, AddPivotCovers

\* and splitNode hands the buffers on.
LEMMA HalvesCovered ==
    ASSUME NEW p \in Seq(Pivot), CoveredNode(p), Len(p) > 1
    PROVE  CoveredNode(Lower(p)) /\ CoveredNode(Upper(p))
<1> DEFINE m == Middle(p)
<1>1. Len(p) \in Nat /\ DOMAIN p = 1..Len(p) /\ Len(p) > 1
  BY PivotsSeq
<1>2. /\ m \in 1..(Len(p) - 1)
      /\ DOMAIN Lower(p) = 1..m
      /\ DOMAIN Upper(p) = 1..(Len(p) - m)
      /\ \A j \in 1..m : Lower(p)[j] = p[j]
      /\ \A j \in 1..(Len(p) - m) : Upper(p)[j] = p[m + j]
  BY <1>1, SplitNodeResult
<1> HIDE DEF m
<1>3. /\ \A j \in 1..m : j \in DOMAIN p
      /\ \A j \in 1..(Len(p) - m) : m + j \in DOMAIN p
  BY <1>1, <1>2
<1> QED BY <1>2, <1>3 DEF CoveredNode

\* A buffer of a new node, or of a new link, is covered.
LEMMA EmptyCovered == Covers(EmptyBuf)
<1>1. \A k \in Keys : EmptyBuf.msgs[k] = NoMsg
  BY DEF EmptyBuf
<1> QED BY <1>1, BytesNone DEF Covers, EmptyBuf

\* All buffers of the tree are covered.
Covered == \A o \in Live : CoveredNode(pivots[o])

\* A step of any kind keeps the buffers covered.
LEMMA KindKeepsCovered ==
    ASSUME Protocol, Covered, NEW u \in Threads, Kind(u)
    PROVE  Covered'
<1> DEFINE Goal == Covered'
<1> SUFFICES Goal
  OBVIOUS
<1>1. \A n \in Live : pivots[n] \in Seq(Pivot) /\ CoveredNode(pivots[n])
  BY NodeFacts DEF Protocol, Covered
<1>2. ASSUME NEW o, NEW p, Sets(u, o, p), CoveredNode(p) PROVE Goal
  <2>1. Live' = Live /\ \A n \in Live : pivots'[n] = IF n = o THEN p ELSE pivots[n]
    BY <1>2, SetsNodes
  <2>2. \A n \in Live : CoveredNode(pivots'[n])
    BY <1>1, <1>2, <2>1
  <2> QED BY <2>1, <2>2 DEF Covered
<1>3. CASE Quiet
  BY <1>3, QuietNodes DEF Covered
<1>4. ASSUME NEW o, NEW i, NEW k, NEW m, Inserts(u, o, i, k, m) PROVE Goal
  <2>1. CoveredNode(InsertMsg(pivots[o], i, k, m))
    BY <1>1, <1>4, InsertMsgCovers DEF Inserts, Sets
  <2> HIDE DEF Goal
  <2> QED BY <1>2, <1>4, <2>1 DEF Inserts
<1>5. ASSUME NEW o, NEW i, NEW c, NEW K, CopiesTo(u, o, i, c, K) PROVE Goal
  <2> DEFINE msgs == pivots[o][i].buf.msgs
  <2>1. msgs \in [Keys -> Messages \cup {NoMsg}] /\ K \in SUBSET Present(msgs)
    BY <1>1, <1>5, PivotsSeq DEF CopiesTo
  <2>2. Sets(u, c, PushInto(pivots[c], msgs, K)) /\ c \in Live
    BY <1>5 DEF CopiesTo, Sets
  <2> HIDE DEF Goal, msgs
  <2>3. CoveredNode(PushInto(pivots[c], msgs, K))
    BY <1>1, <2>1, <2>2, PushIntoCovers
  <2> QED BY <1>2, <2>2, <2>3
<1>6. ASSUME NEW o, NEW i, Clears(u, o, i) PROVE Goal
  <2> DEFINE p == WithBuf(pivots[o], i, EmptyBuf)
  <2>1. /\ Sets(u, o, p) /\ i \in DOMAIN pivots[o]
        /\ pivots[o] \in Seq(Pivot) /\ CoveredNode(pivots[o])
    BY <1>1, <1>6 DEF Clears, Sets
  <2>2. /\ DOMAIN p = DOMAIN pivots[o]
        /\ \A j \in DOMAIN pivots[o] :
              p[j].buf = IF j = i THEN EmptyBuf ELSE pivots[o][j].buf
    BY <2>1, WithBufResult, EmptyBufFacts DEF SameShape
  <2> HIDE DEF Goal, p
  <2>3. CoveredNode(p)
    BY <2>1, <2>2, EmptyCovered DEF CoveredNode
  <2> QED BY <1>2, <2>1, <2>3
<1>7. ASSUME NEW o, NEW i, SplitsBuffer(u, o, i) PROVE Goal
  <2>1. CoveredNode(SplitPivots(pivots[o], i))
    BY <1>1, <1>7, SplitPivotsCovers DEF SplitsBuffer, Sets
  <2> HIDE DEF Goal
  <2> QED BY <1>2, <1>7, <2>1 DEF SplitsBuffer
<1>8. ASSUME NEW o, NEW x, Fills(u, o, x) PROVE Goal
  <2>1. CoveredNode(Upper(pivots[x]))
    BY <1>1, <1>8, HalvesCovered DEF Fills
  <2> HIDE DEF Goal
  <2> QED BY <1>2, <1>8, <2>1 DEF Fills
<1>9. ASSUME NEW o, NEW a, Cuts(u, o, a) PROVE Goal
  <2>1. CoveredNode(Lower(pivots[o]))
    BY <1>1, <1>9, HalvesCovered DEF Cuts, Sets
  <2> HIDE DEF Goal
  <2> QED BY <1>2, <1>9, <2>1 DEF Cuts
<1>10. ASSUME NEW o, NEW child, NEW key, Links(u, o, child, key) PROVE Goal
  <2>1. CoveredNode(AddPivot(pivots[o], child, EmptyBuf, key))
    BY <1>1, <1>10, AddPivotCovers, EmptyBufFacts, EmptyCovered DEF Links, Sets
  <2> HIDE DEF Goal
  <2> QED BY <1>2, <1>10, <2>1 DEF Links
<1>11. ASSUME NEW o, NEW child, Begins(u, o, child) PROVE Goal
  <2> DEFINE p == <<NewPivot(child, EmptyBuf, EmptyKey)>>
  <2>1. DOMAIN p = {1} /\ p[1].buf = EmptyBuf
    BY DEF NewPivot
  <2>2. Sets(u, o, p)
    BY <1>11 DEF Begins
  <2> HIDE DEF Goal, p
  <2>3. CoveredNode(p)
    BY <2>1, EmptyCovered DEF CoveredNode
  <2> QED BY <1>2, <2>2, <2>3
<1>12. CASE Makes
  <2>1. DOMAIN <<>> = {}
    OBVIOUS
  <2>2. \A n \in Live' : CoveredNode(pivots'[n])
    BY <1>1, <1>12, <2>1, MakesNodes DEF CoveredNode
  <2> QED BY <2>2 DEF Covered
<1> HIDE DEF Goal
<1> QED BY <1>3, <1>4, <1>5, <1>6, <1>7, <1>8, <1>9, <1>10, <1>11, <1>12 DEF Kind

\* size_ never falls below what the messages of the buffer occupy.
THEOREM SizesCover == Spec => []SizeCoversMessages
<1>1. Init => Covered
  <2> SUFFICES ASSUME Init PROVE Covered
    OBVIOUS
  <2>1. 1 \in Objs /\ Live = {1}
    BY MaxNodesAssumption DEF Init, Objs, Live
  <2>2. pivots[1] = <<NewPivot(NID_NIL, EmptyBuf, EmptyKey)>>
    BY <2>1 DEF Init
  <2>3. DOMAIN pivots[1] = {1} /\ pivots[1][1].buf = EmptyBuf
    BY <2>2 DEF NewPivot
  <2> QED BY <2>1, <2>3, EmptyCovered DEF Covered, CoveredNode
<1>2. Inv /\ Covered /\ [Next]_vars => Covered'
  <2>1. ASSUME Covered, UNCHANGED <<nodeVars, pc, threadVars, rd, wr>> PROVE Covered'
    BY <2>1 DEF nodeVars, Covered, Live
  <2> QED BY <2>1, NextKinds, StepKinds, KindKeepsCovered DEF Inv
<1>3. Inv /\ Covered => SizeCoversMessages
  BY DEF Covered, CoveredNode, Covers, Bytes, SizeCoversMessages, Count, Present
<1> QED BY <1>1, <1>2, <1>3, LockProtocol, PTL DEF Spec

-----------------------------------------------------------------------------
\* The assertion of splitBuf.

\* The two buffers splitBuf makes hold together exactly the bytes of the
\* messages of the old one.
LEMMA HalvesBytes ==
    ASSUME NEW buf \in MsgBuf
    PROVE  LET lower == Resize(buf, Count(buf) \div 2)
               upper == Keep(buf.msgs, UpperKeys(buf))
           IN  /\ lower.size + upper.size = Bytes(buf.msgs, Keys)
               /\ lower.size \in Nat /\ upper.size \in Nat
<1> DEFINE msgs == buf.msgs
           A == FirstKeys(msgs, Count(buf) \div 2)
           B == UpperKeys(buf)
           R == Keys \ Present(msgs)
<1>1. A \in SUBSET Keys /\ B \in SUBSET Keys /\ R \in SUBSET Keys
  BY DEF Present, FirstKeys, UpperKeys
<1>2. A \cap B = {} /\ (A \cup B) \cap R = {} /\ (A \cup B) \cup R = Keys
  BY DEF Present, FirstKeys, UpperKeys
<1>3. \A k \in R : msgs[k] = NoMsg
  BY DEF Present
<1> HIDE DEF A, B, R
<1>4. Bytes(msgs, Keys) = Bytes(msgs, A \cup B) + Bytes(msgs, R)
  BY <1>1, <1>2, BytesAdd
<1>5. Bytes(msgs, A \cup B) = Bytes(msgs, A) + Bytes(msgs, B)
  BY <1>1, <1>2, BytesAdd
<1>6. Bytes(msgs, R) = 0
  BY <1>1, <1>3, BytesNone
<1>7. Keep(msgs, A).size = Bytes(msgs, A) /\ Keep(msgs, B).size = Bytes(msgs, B)
  BY <1>1, KeepCovers
<1>8. Bytes(msgs, A) \in Nat /\ Bytes(msgs, B) \in Nat
  BY <1>1, BytesType
<1>9. Resize(buf, Count(buf) \div 2) = Keep(msgs, A)
  BY DEF Resize, A
<1> QED BY <1>4, <1>5, <1>6, <1>7, <1>8, <1>9 DEF B

\* So the assertion fails only for a buffer that counts more than its messages.
LEMMA AbortOnSurplus ==
    ASSUME Protocol, NEW u \in Threads, SplitBuf(u), failed' = "splitBuf"
    PROVE  \E o \in Live : \E i \in DOMAIN pivots[o] :
                pivots[o][i].buf.size > Bytes(pivots[o][i].buf.msgs, Keys)
<1> DEFINE o == cur[u]
           i == Smallest(Overfull(o))
           buf == pivots[o][i].buf
           lower == Resize(buf, Count(buf) \div 2)
           upper == Keep(buf.msgs, UpperKeys(buf))
<1>1. TypeOK /\ ThreadInv(u) /\ Tree /\ failed = "none"
  BY DEF Protocol, SplitBuf, At
<1>2. o \in Live
  BY <1>1 DEF ThreadInv, Places, Known
<1>3. i \in DOMAIN pivots[o]
  BY <1>1, <1>2, OverfullFacts DEF SplitBuf
<1>4. ~(BufSize(lower) + BufSize(upper) >= BufSize(buf))
  BY <1>1 DEF SplitBuf
<1>5. buf \in MsgBuf /\ buf.size \in Int
  BY <1>1, <1>2, <1>3, NodeFacts, PivotsSeq
<1> HIDE DEF buf
<1>6. /\ lower.size + upper.size = Bytes(buf.msgs, Keys)
      /\ lower.size \in Nat /\ upper.size \in Nat
  BY <1>5, HalvesBytes
<1> HIDE DEF lower, upper
<1>7. buf.size > Bytes(buf.msgs, Keys)
  BY <1>4, <1>5, <1>6 DEF BufSize
<1> QED BY <1>2, <1>3, <1>7 DEF buf

\* Only splitBuf can fail its assertion, and once it has nothing happens.
LEMMA FailingSteps ==
    ASSUME [Next]_vars, failed' = "splitBuf"
    PROVE  UNCHANGED vars \/ \E u \in Threads : SplitBuf(u)
<1>1. ASSUME NEW u \in Threads, Begin(u) \/ Step(u)
      PROVE  SplitBuf(u)
  <2>1. CASE \/ Begin(u) \/ IncRef(u) \/ WriteAtRoot(u) \/ InsertAtRoot(u)
             \/ PushReturn(u) \/ Relock(u) \/ ChoosePushDown(u) \/ PushDown(u)
    BY <2>1 DEF At, Begin, IncRef, WriteAtRoot, InsertAtRoot, PushReturn, Relock,
                ChoosePushDown, PushDown
  <2>2. CASE \/ PushDownLocked(u) \/ MoveMsg(u) \/ ClearBuf(u)
             \/ LockPath(u) \/ LockPathRoot(u) \/ LockPathDown(u) \/ LockPathClear(u)
             \/ GetLock(u) \/ GetLook(u) \/ GetDown(u)
    BY <2>2 DEF At, PushDownLocked, MoveMsg, ClearBuf, LockPath, LockPathRoot,
                LockPathDown, LockPathClear, GetLock, GetLook, GetDown
  <2>3. CASE \/ SplitNodeDone(u) \/ CreateSibling(u) \/ FillSibling(u) \/ CutNode(u)
             \/ AddToParent(u) \/ CreateRoot(u) \/ AddFirstPivot(u) \/ AddSecondPivot(u)
    BY <2>3 DEF At, GivePivots, SplitNodeDone, CreateSibling, FillSibling, CutNode,
                AddToParent, CreateRoot, AddFirstPivot, AddSecondPivot
  <2>4. CASE DecRef(u) \/ LockPathStale(u) \/ GrowUp(u)
    BY <2>4 DEF At, Abort, DecRef, LockPathStale, GrowUp
  <2> QED BY <1>1, <2>1, <2>2, <2>3, <2>4 DEF Step
<1>2. ASSUME NEW o \in Live, WriteBack(o) PROVE FALSE
  BY <1>2 DEF WriteBack
<1> QED BY <1>1, <1>2 DEF Next

\* When the assertion of splitBuf has failed, some buffer counts more than its
\* messages occupy.
THEOREM SplitBufSurplus == Spec => []SplitBufFailsOnSurplus
<1> DEFINE Surplus == \E o \in Live : \E i \in DOMAIN pivots[o] :
                        pivots[o][i].buf.size > Bytes(pivots[o][i].buf.msgs, Keys)
<1>1. SplitBufFailsOnSurplus <=> (failed = "splitBuf" => Surplus)
  BY DEF SplitBufFailsOnSurplus, Bytes, Count, Present
<1>2. Init => SplitBufFailsOnSurplus
  BY DEF Init, SplitBufFailsOnSurplus
<1>3. Inv /\ SplitBufFailsOnSurplus /\ [Next]_vars => SplitBufFailsOnSurplus'
  <2> SUFFICES ASSUME Inv, SplitBufFailsOnSurplus, [Next]_vars, failed' = "splitBuf"
               PROVE  Surplus'
    BY DEF SplitBufFailsOnSurplus, Bytes, Count, Present
  <2>1. CASE UNCHANGED vars
    BY <1>1, <2>1 DEF vars, nodeVars, Live
  <2>2. ASSUME NEW u \in Threads, SplitBuf(u) PROVE Surplus'
    <3>1. Surplus
      BY <2>2, AbortOnSurplus DEF Inv
    <3>2. UNCHANGED <<pivots, nodeCount>>
      BY <2>2 DEF SplitBuf, At, Abort, nodeVars
    <3> QED BY <3>1, <3>2 DEF Live
  <2> QED BY <2>1, <2>2, FailingSteps
<1> QED BY <1>2, <1>3, LockProtocol, PTL DEF Spec


-----------------------------------------------------------------------------
\* A node that gains something is marked.

\* Pivots q have a message or a link that pivots p do not have.
GainsOver(p, q) ==
    \/ ~SameShape(p, q)
    \/ \E i \in DOMAIN p : \E k \in Keys :
        q[i].buf.msgs[k] \notin {NoMsg, p[i].buf.msgs[k]}

LEMMA GainsGrow ==
    ASSUME NEW o, Gains(o)
    PROVE  GainsOver(pivots[o], pivots'[o])
<1>1. SameShape(pivots[o], pivots'[o]) => Shape(pivots'[o]) = Shape(pivots[o])
  BY DEF SameShape, Shape
<1> QED BY <1>1 DEF Gains, GainsOver

\* An object that is not in use has no pivots.
Blank == \A o \in Objs \ Live : pivots[o] = <<>>

LEMMA KindKeepsBlank ==
    ASSUME Protocol, Blank, NEW u \in Threads, Kind(u)
    PROVE  Blank'
<1>1. ASSUME NEW o, NEW p, Sets(u, o, p) PROVE Blank'
  BY <1>1, SetsNodes DEF Blank
<1>2. CASE Quiet
  BY <1>2, QuietNodes DEF Blank
<1>3. CASE Makes
  BY <1>3, MakesNodes DEF Blank
<1> QED BY <1>1, <1>2, <1>3 DEF Kind, Inserts, CopiesTo, Clears, SplitsBuffer, Fills,
           Cuts, Links, Begins

LEMMA BlankHolds == Spec => []Blank
<1>1. Init => Blank
  <2> SUFFICES ASSUME Init PROVE Blank
    OBVIOUS
  <2>1. Live = {1}
    BY DEF Init, Live
  <2> QED BY <2>1 DEF Init, Blank
<1>2. Inv /\ Blank /\ [Next]_vars => Blank'
  <2>1. ASSUME Blank, UNCHANGED <<nodeVars, pc, threadVars, rd, wr>> PROVE Blank'
    BY <2>1 DEF nodeVars, Blank, Live
  <2> QED BY <2>1, NextKinds, StepKinds, KindKeepsBlank DEF Inv
<1> QED BY <1>1, <1>2, LockProtocol, PTL DEF Spec

\* A node that gains something from a step is dirty afterwards, or messages are
\* being copied to it.
LEMMA KindMarks ==
    ASSUME Protocol, Blank, NEW u \in Threads, Kind(u), NEW n \in Objs, Gains(n)
    PROVE  dirty'[n] \/ CopyingTo(u, n)'
<1> DEFINE Goal == dirty'[n] \/ CopyingTo(u, n)'
<1> SUFFICES Goal
  OBVIOUS
<1>0. GainsOver(pivots[n], pivots'[n])
  BY GainsGrow
<1>1. \A m \in Live : pivots[m] \in Seq(Pivot)
  BY NodeFacts DEF Protocol
<1>2. pivots'[n] # pivots[n]
  BY <1>0 DEF GainsOver, SameShape
<1>3. ASSUME NEW o, NEW p, Sets(u, o, p) PROVE n = o /\ GainsOver(pivots[o], p)
  BY <1>0, <1>2, <1>3, SetsNodes
<1>4. ASSUME NEW o, NEW p, Sets(u, o, p), dirty'[o] PROVE Goal
  BY <1>3, <1>4
<1>5. ASSUME NEW o, NEW i, NEW c, NEW K, CopiesTo(u, o, i, c, K) PROVE Goal
  <2> DEFINE msgs == pivots[o][i].buf.msgs
             q == PushInto(pivots[c], msgs, K)
  <2>1. /\ msgs \in [Keys -> Messages \cup {NoMsg}] /\ K \in SUBSET Keys
        /\ Sets(u, c, q) /\ c \in Live
    BY <1>1, <1>5, PivotsSeq DEF CopiesTo, Sets, Present
  <2>2. n = c /\ GainsOver(pivots[c], q)
    <3> HIDE DEF q
    <3> QED BY <1>3, <2>1
  <2>3. K # {}
    <3> SUFFICES ASSUME K = {} PROVE FALSE
      OBVIOUS
    <3> HIDE DEF msgs
    <3>1. /\ SameShape(pivots[c], q)
          /\ \A j \in DOMAIN pivots[c] : \A k \in Keys :
                q[j].buf.msgs[k] = pivots[c][j].buf.msgs[k]
      BY <1>1, <2>1, PushIntoResult
    <3> HIDE DEF q
    <3> QED BY <2>2, <3>1 DEF GainsOver
  <2> QED BY <1>5, <2>2, <2>3 DEF CopiesTo
<1>6. ASSUME NEW o, NEW i, Clears(u, o, i) PROVE FALSE
  <2> DEFINE q == WithBuf(pivots[o], i, EmptyBuf)
  <2>1. Sets(u, o, q) /\ i \in DOMAIN pivots[o] /\ pivots[o] \in Seq(Pivot)
    BY <1>1, <1>6 DEF Clears, Sets
  <2>2. /\ SameShape(pivots[o], q)
        /\ \A j \in DOMAIN pivots[o] :
              q[j].buf = IF j = i THEN EmptyBuf ELSE pivots[o][j].buf
    BY <2>1, WithBufResult, EmptyBufFacts
  <2>3. \A k \in Keys : EmptyBuf.msgs[k] = NoMsg
    BY DEF EmptyBuf
  <2> HIDE DEF q
  <2>4. GainsOver(pivots[o], q)
    BY <1>3, <2>1
  <2> QED BY <2>2, <2>3, <2>4 DEF GainsOver
<1>7. CASE Makes
  <2>1. pivots'[n] = <<>> /\ n \notin Live
    BY <1>2, <1>7, MakesNodes
  <2> QED BY <1>2, <2>1 DEF Blank
<1>8. ~Quiet
  BY <1>2 DEF Quiet
<1> HIDE DEF Goal
<1>9. ASSUME NEW o, NEW i, NEW k, NEW m, Inserts(u, o, i, k, m) PROVE Goal
  BY <1>4, <1>9 DEF Inserts
<1>10. ASSUME NEW o, NEW i, SplitsBuffer(u, o, i) PROVE Goal
  BY <1>4, <1>10 DEF SplitsBuffer
<1>11. ASSUME NEW o, NEW x, Fills(u, o, x) PROVE Goal
  BY <1>4, <1>11 DEF Fills
<1>12. ASSUME NEW o, NEW a, Cuts(u, o, a) PROVE Goal
  BY <1>4, <1>12 DEF Cuts
<1>13. ASSUME NEW o, NEW child, NEW key, Links(u, o, child, key) PROVE Goal
  BY <1>4, <1>13 DEF Links
<1>14. ASSUME NEW o, NEW child, Begins(u, o, child) PROVE Goal
  BY <1>4, <1>14 DEF Begins
<1> QED BY <1>5, <1>6, <1>7, <1>8, <1>9, <1>10, <1>11, <1>12, <1>13, <1>14 DEF Kind

\* While a thread copies messages to a node, no step of another thread turns
\* the link it follows elsewhere.
LEMMA OthersCopyOn ==
    ASSUME Inv, Protocol', NEW u \in Threads, Begin(u) \/ Step(u),
           NEW t \in Threads \ {u}, NEW n, CopyingTo(t, n)
    PROVE  CopyingTo(t, n)'
<1> SUFFICES ASSUME NEW o, o = cur[t], NEW i, i = idx[t] PROVE CopyingTo(t, n)'
  OBVIOUS
<1>1. Protocol /\ TypeOK /\ Naming /\ Tree /\ Kind(u) /\ Naming'
  BY StepKinds DEF Inv, Protocol
<1>2. pc[t] = "moving" /\ n = Child(o, i)
  BY DEF CopyingTo
<1>3. /\ o \in Live /\ o \in Objs /\ ~isLeaf[o] /\ i \in DOMAIN pivots[o] /\ o \in rd[t]
  BY <1>1, <1>2, PushFacts, NodeFacts
<1>4. Child(o, i) = pivots[o][i].child + 1 /\ pivots[o][i].child \in 1..(nodeCount - 1)
  BY <1>1, <1>3, ChildFacts
<1>5. pivots'[o][i].child = pivots[o][i].child
  <2>1. o \notin wr[u]
    BY <1>1, <1>3 DEF Protocol, Exclusion
  <2>2. Reachable(o)
    BY DEF Reachable
  <2> QED BY <1>1, <1>3, <2>1, <2>2, KindKeepsShape DEF SameShape
<1>6. pivots[o][i].child \in 1..(nodeCount' - 1)
  <2>1. nodeCount \in Nat /\ (nodeCount' = nodeCount \/ nodeCount' = nodeCount + 1)
    BY <1>1, Basics DEF Kind, Quiet, Inserts, CopiesTo, Clears, SplitsBuffer, Fills, Cuts,
       Links, Begins, Makes, Sets
  <2> QED BY <1>4, <2>1
<1>7. nodeMap'[pivots'[o][i].child] = n
  BY <1>1, <1>2, <1>4, <1>5, <1>6 DEF Naming
<1>8. pc'[t] = "moving" /\ cur'[t] = o /\ idx'[t] = i
  BY <1>1, <1>2, OthersStill DEF Still
<1> QED BY <1>7, <1>8 DEF CopyingTo, Child

\* The thread itself sets the flag after the last message.
LEMMA OwnCopyMarks ==
    ASSUME Inv, NEW u \in Threads, Begin(u) \/ Step(u),
           NEW n \in Objs, CopyingTo(u, n)
    PROVE  dirty'[n] \/ CopyingTo(u, n)'
<1> SUFFICES ASSUME NEW o, o = cur[u], NEW i, i = idx[u]
             PROVE  dirty'[n] \/ CopyingTo(u, n)'
  OBVIOUS
<1>1. Protocol /\ TypeOK /\ CallsTypeOK
  BY DEF Inv, Protocol, TypeOK
<1>2. pc[u] = "moving" /\ n = Child(o, i)
  BY DEF CopyingTo
<1>3. MoveMsg(u)
  <2>1. ~PushDownLocked(u)
    BY <1>2 DEF PushDownLocked, At
  <2> QED BY <1>1, <1>2, <2>1, CopiersOnly
<1>4. n # o /\ o \in Objs
  BY <1>1, <1>2, PushFacts, Basics
<1>5. CASE todo[u] = {Smallest(todo[u])}
  BY <1>2, <1>3, <1>5 DEF MoveMsg, SetDirty
<1>6. CASE todo[u] # {Smallest(todo[u])}
  <2>1. UNCHANGED <<pc, cur, idx, nodeMap>> /\ pivots'[o] = pivots[o]
    <3>1. pivots \in [Objs -> Seq(Pivot)]
      BY <1>1 DEF TypeOK, NodesTypeOK
    <3> QED BY <1>2, <1>3, <1>4, <1>6, <3>1 DEF MoveMsg, Copy
  <2> QED BY <1>2, <2>1 DEF CopyingTo, Child
<1> QED BY <1>5, <1>6

\* Whoever gives a node messages or links leaves it dirty, or is on its way to
\* setDirty.
THEOREM ChangesAreMarked == Spec => GainsAreMarked
<1> DEFINE Copied(o) == \E t \in Threads : CopyingTo(t, o)
           Marked == \A o \in Objs :
                Gains(o) \/ (\E t \in Threads : CopyingTo(t, o)) =>
                    dirty'[o] \/ (\E t \in Threads : CopyingTo(t, o)')
<1>1. ASSUME Inv, Blank, [Next]_vars PROVE Marked
  <2> SUFFICES ASSUME NEW o \in Objs, Gains(o) \/ Copied(o)
               PROVE  dirty'[o] \/ Copied(o)'
    OBVIOUS
  <2>1. Protocol /\ Protocol'
    BY <1>1, NextInv DEF Inv
  <2>2. ASSUME NEW u \in Threads, Begin(u) \/ Step(u) PROVE dirty'[o] \/ Copied(o)'
    <3>1. Kind(u)
      BY <1>1, <2>2, StepKinds
    <3>2. CASE Gains(o)
      BY <1>1, <2>1, <3>1, <3>2, KindMarks
    <3>3. ASSUME NEW t \in Threads, CopyingTo(t, o) PROVE dirty'[o] \/ Copied(o)'
      <4>1. CASE t = u
        BY <1>1, <2>2, <3>3, <4>1, OwnCopyMarks
      <4>2. CASE t # u
        BY <1>1, <2>1, <2>2, <3>3, <4>2, OthersCopyOn
      <4> QED BY <4>1, <4>2
    <3> QED BY <3>2, <3>3
  <2>3. CASE UNCHANGED <<nodeVars, pc, threadVars, rd, wr>>
    <3>1. pivots' = pivots
      BY <2>3 DEF nodeVars
    <3>2. ~Gains(o)
      BY <3>1 DEF Gains
    <3>3. Copied(o)' <=> Copied(o)
      BY <2>3 DEF CopyingTo, Child, nodeVars, threadVars
    <3> QED BY <3>2, <3>3
  <2> QED BY <1>1, <2>2, <2>3, NextKinds
<1>2. Inv /\ Blank /\ [Next]_vars => [Marked]_vars
  BY <1>1
<1> QED BY <1>2, LockProtocol, BlankHolds, PTL DEF Spec, GainsAreMarked

-----------------------------------------------------------------------------
\* The reference count of the first root.

\* The threads whose call has incremented a count and not yet given it back.
Counting == {t \in Threads : pc[t] \notin {"idle", "incRef"}}

\* Sets of threads are finite.
LEMMA ThreadSets ==
    ASSUME NEW S \in SUBSET Threads
    PROVE  IsFiniteSet(S) /\ Cardinality(S) \in Nat
<1>1. IsFiniteSet(S)
  BY FiniteThreads, FS_Subset
<1> QED BY <1>1, FS_CardinalityType

\* Until the tree grows every call is at work on the one node of the tree.
LEMMA BeforeGrowth ==
    ASSUME Protocol, root = 1
    PROVE  /\ \A t \in Threads : base[t] = 1
           /\ \A t \in Threads : pc[t] = "lpRoot" => path[t][1] = root
<1>1. Known = {1}
  BY DEF Protocol, Naming
<1>2. ASSUME NEW t \in Threads PROVE base[t] = 1
  BY <1>1 DEF Protocol, ThreadInv, Places
<1>3. ASSUME NEW t \in Threads, pc[t] = "lpRoot" PROVE path[t][1] = root
  <2>1. /\ path[t] \in Seq(Objs) /\ Len(path[t]) = 1
        /\ \A n \in DOMAIN path[t] : path[t][n] \in Known
    BY <1>3 DEF Protocol, TypeOK, CallsTypeOK, ThreadInv, PathInv
  <2>2. 1 \in DOMAIN path[t]
    BY <2>1
  <2> QED BY <1>1, <2>1, <2>2
<1> QED BY <1>2, <1>3

\* Most steps leave the counts alone and add no call that counts.
CountsStay ==
    /\ refcnt' = refcnt
    /\ failed' \in {failed, "splitBuf"}
    /\ Counting' \subseteq Counting

\* When the others stay where they are, a step of a thread inside a call counts
\* no further thread.
LEMMA InsideCall ==
    ASSUME TypeOK, NEW u \in Threads, pc[u] \notin {"idle", "incRef"},
           \A t \in Threads \ {u} : pc'[t] = pc[t]
    PROVE  Counting' \subseteq Counting
BY DEF Counting

\* Which steps change the counts.
LEMMA CountSteps ==
    ASSUME TypeOK, [Next]_vars
    PROVE  \/ CountsStay
           \/ \E u \in Threads :
                IncRef(u) \/ DecRef(u) \/ LockPath(u) \/ LockPathStale(u) \/ GrowUp(u)
<1>0. CallsTypeOK /\ pc \in [Threads -> PC]
  BY DEF TypeOK, CallsTypeOK
<1>1. ASSUME NEW u \in Threads, Begin(u) \/ Step(u)
      PROVE  \/ CountsStay
             \/ IncRef(u) \/ DecRef(u) \/ LockPath(u) \/ LockPathStale(u) \/ GrowUp(u)
  <2>0. \A t \in Threads \ {u} : pc'[t] = pc[t]
    BY <1>1, OthersStill DEF Still
  <2>1. CASE Begin(u)
    BY <1>0, <2>1 DEF CountsStay, Counting, Begin, At, Goto
  <2>2. ASSUME refcnt' = refcnt, failed' \in {failed, "splitBuf"},
               pc[u] \notin {"idle", "incRef"}
        PROVE  CountsStay
    BY <2>0, <2>2, InsideCall DEF CountsStay
  <2>3. CASE \/ WriteAtRoot(u) \/ InsertAtRoot(u) \/ PushReturn(u) \/ Relock(u)
             \/ ChoosePushDown(u) \/ PushDown(u)
    BY <2>2, <2>3 DEF At, WriteAtRoot, InsertAtRoot, PushReturn, Relock, ChoosePushDown,
       PushDown
  <2>4. CASE \/ PushDownLocked(u) \/ MoveMsg(u) \/ ClearBuf(u) \/ SplitBuf(u)
             \/ LockPathRoot(u) \/ LockPathDown(u) \/ LockPathClear(u)
    BY <2>2, <2>4 DEF At, Abort, PushDownLocked, MoveMsg, ClearBuf, SplitBuf,
       LockPathRoot, LockPathDown, LockPathClear
  <2>5. CASE \/ SplitNodeDone(u) \/ CreateSibling(u) \/ FillSibling(u) \/ CutNode(u)
             \/ AddToParent(u) \/ CreateRoot(u) \/ AddFirstPivot(u) \/ AddSecondPivot(u)
    BY <2>2, <2>5 DEF At, GivePivots, SplitNodeDone, CreateSibling, FillSibling, CutNode,
       AddToParent, CreateRoot, AddFirstPivot, AddSecondPivot
  <2>6. CASE GetLock(u) \/ GetLook(u) \/ GetDown(u)
    BY <2>2, <2>6 DEF At, GetLock, GetLook, GetDown
  <2> QED BY <1>1, <2>1, <2>3, <2>4, <2>5, <2>6 DEF Step
<1>2. ASSUME NEW o \in Live, WriteBack(o) PROVE CountsStay
  BY <1>2 DEF CountsStay, Counting, WriteBack
<1>3. ASSUME UNCHANGED vars PROVE CountsStay
  BY <1>3 DEF CountsStay, Counting, vars
<1> QED BY <1>1, <1>2, <1>3 DEF Next

\* The root changes only in growUp, to the newest node.
LEMMA RootSteps ==
    ASSUME Protocol, [Next]_vars, root' # root
    PROVE  root' = nodeCount /\ nodeCount >= 3
<1>1. ASSUME NEW u \in Threads, Begin(u) \/ Step(u) PROVE GrowUp(u)
  <2>1. CASE \/ Begin(u) \/ IncRef(u) \/ DecRef(u) \/ WriteAtRoot(u) \/ InsertAtRoot(u)
             \/ PushReturn(u) \/ Relock(u) \/ ChoosePushDown(u) \/ PushDown(u)
    BY <2>1 DEF nodeVars, Abort, Begin, IncRef, DecRef, WriteAtRoot, InsertAtRoot,
       PushReturn, Relock, ChoosePushDown, PushDown
  <2>2. CASE \/ PushDownLocked(u) \/ MoveMsg(u) \/ ClearBuf(u) \/ SplitBuf(u)
             \/ LockPath(u) \/ LockPathRoot(u) \/ LockPathStale(u) \/ LockPathDown(u)
             \/ LockPathClear(u)
    BY <2>2 DEF nodeVars, Abort, PushDownLocked, MoveMsg, ClearBuf, SplitBuf, LockPath,
       LockPathRoot, LockPathStale, LockPathDown, LockPathClear
  <2>3. CASE \/ SplitNodeDone(u) \/ CreateSibling(u) \/ FillSibling(u) \/ CutNode(u)
             \/ AddToParent(u) \/ CreateRoot(u) \/ AddFirstPivot(u) \/ AddSecondPivot(u)
             \/ GetLock(u) \/ GetLook(u) \/ GetDown(u)
    BY <2>3 DEF nodeVars, GivePivots, SplitNodeDone, CreateSibling, FillSibling, CutNode,
       AddToParent, CreateRoot, AddFirstPivot, AddSecondPivot, GetLock, GetLook, GetDown
  <2> QED BY <1>1, <2>1, <2>2, <2>3 DEF Step
<1>2. ASSUME NEW u \in Threads, GrowUp(u) PROVE root' = nodeCount /\ nodeCount >= 3
  <2>1. pc[u] = "grow" /\ pc[u] \in Filling
    BY <1>2 DEF GrowUp, At, Filling
  <2>2. made[u][2] = nodeCount /\ nodeCount >= 3
    BY <2>1, MadeFacts
  <2> QED BY <1>2, <2>2 DEF GrowUp, Abort, nodeVars
<1>3. ASSUME NEW o \in Live, WriteBack(o) PROVE FALSE
  BY <1>3 DEF WriteBack, nodeVars
<1>4. ~UNCHANGED vars
  BY DEF vars, nodeVars
<1> QED BY <1>1, <1>2, <1>3, <1>4 DEF Next

\* A call that counts makes the count positive: no decRef of the first root
\* fails before the tree grows.
THEOREM CountsBeforeGrowth == Spec => []CountedUntilGrowth
<1> DEFINE Counted == root = 1 => /\ failed # "decRef"
                                  /\ refcnt[1] >= Cardinality(Counting)
<1>1. CountedUntilGrowth <=> Counted
  BY DEF CountedUntilGrowth, Counting
<1>2. Init => Counted
  <2> SUFFICES ASSUME Init PROVE Counted
    OBVIOUS
  <2>1. Counting = {} /\ refcnt[1] = 0 /\ failed = "none"
    BY MaxNodesAssumption DEF Init, Counting, Objs
  <2> QED BY <2>1, FS_EmptySet
<1>3. Inv /\ Counted /\ [Next]_vars => Counted'
  <2> SUFFICES ASSUME Protocol, Counted, [Next]_vars, root' = 1
               PROVE  failed' # "decRef" /\ refcnt'[1] >= Cardinality(Counting')
    BY DEF Inv
  <2>0. /\ TypeOK /\ nodeCount \in Nat /\ 1 \in Objs /\ refcnt \in [Objs -> Nat]
        /\ refcnt[1] \in Nat
    BY Basics DEF Protocol, TypeOK, MarksTypeOK
  <2>1. root = 1
    BY <2>0, RootSteps
  <2>2. /\ \A t \in Threads : base[t] = 1
        /\ \A t \in Threads : pc[t] = "lpRoot" => path[t][1] = root
    BY <2>1, BeforeGrowth
  <2>3. failed # "decRef" /\ refcnt[1] >= Cardinality(Counting)
    BY <2>1
  <2>4. Counting \in SUBSET Threads /\ pc \in [Threads -> PC]
    BY <2>0 DEF Counting, TypeOK, CallsTypeOK
  <2>5. IsFiniteSet(Counting) /\ Cardinality(Counting) \in Nat
    BY <2>4, ThreadSets
  <2>6. ASSUME Counting' \subseteq Counting
        PROVE  Cardinality(Counting') \in Nat /\ Cardinality(Counting') <= Cardinality(Counting)
    <3>1. Counting' \in SUBSET Threads
      BY <2>4, <2>6
    <3> QED BY <2>5, <2>6, <3>1, ThreadSets, FS_Subset
  <2>7. ASSUME NEW u \in Counting PROVE refcnt[1] > 0
    <3>1. Cardinality(Counting) # 0
      BY <2>5, <2>7, FS_EmptySet
    <3> QED BY <2>0, <2>3, <2>5, <3>1
  <2>8. CASE CountsStay
    BY <2>0, <2>3, <2>5, <2>6, <2>8 DEF CountsStay
  <2>9. ASSUME NEW u \in Threads, IncRef(u)
        PROVE  failed' # "decRef" /\ refcnt'[1] >= Cardinality(Counting')
    <3>1. refcnt'[1] = refcnt[1] + 1 /\ failed' = failed
      BY <2>0, <2>1, <2>2, <2>9 DEF IncRef
    <3>2. Counting' = Counting \cup {u}
      BY <2>4, <2>9 DEF IncRef, Goto, Counting
    <3>3. Cardinality(Counting') <= Cardinality(Counting) + 1 /\ Cardinality(Counting') \in Nat
      BY <2>5, <3>2, FS_AddElement, SMTT(30)
    <3> QED BY <2>0, <2>3, <2>5, <3>1, <3>3
  <2>10. ASSUME NEW u \in Threads, DecRef(u)
         PROVE  failed' # "decRef" /\ refcnt'[1] >= Cardinality(Counting')
    <3>1. u \in Counting
      BY <2>10 DEF DecRef, At, Counting
    <3>2. refcnt[base[u]] > 0
      BY <2>2, <2>7, <3>1
    <3>3. refcnt' = [refcnt EXCEPT ![1] = @ - 1] /\ Goto(u, "idle") /\ failed' = failed
      BY <2>2, <2>10, <3>2 DEF DecRef
    <3>4. Counting' = Counting \ {u}
      BY <2>4, <3>3 DEF Goto, Counting
    <3>5. Cardinality(Counting') = Cardinality(Counting) - 1
      BY <2>5, <3>1, <3>4, FS_RemoveElement
    <3>6. refcnt'[1] = refcnt[1] - 1
      BY <2>0, <3>3
    <3> QED BY <2>0, <2>3, <2>5, <3>3, <3>5, <3>6
  <2>11. ASSUME NEW u \in Threads, LockPath(u)
         PROVE  failed' # "decRef" /\ refcnt'[1] >= Cardinality(Counting')
    <3>1. refcnt'[1] = refcnt[1] + 1 /\ failed' = failed
      BY <2>0, <2>1, <2>11 DEF LockPath
    <3>2. Counting' \subseteq Counting
      BY <2>4, <2>11 DEF LockPath, At, Goto, Counting
    <3> QED BY <2>0, <2>3, <2>5, <2>6, <3>1, <3>2
  <2>12. ASSUME NEW u \in Threads, LockPathStale(u) PROVE FALSE
    BY <2>2, <2>12 DEF LockPathStale, At
  <2>13. ASSUME NEW u \in Threads, GrowUp(u) PROVE FALSE
    <3>1. u \in Counting
      BY <2>13 DEF GrowUp, At, Counting
    <3>2. refcnt[root] > 0
      BY <2>1, <2>7, <3>1
    <3>3. made[u][2] = nodeCount /\ nodeCount >= 3
      BY <2>13, MadeFacts DEF GrowUp, At, Filling
    <3> QED BY <2>13, <3>2, <3>3 DEF GrowUp
  <2> QED BY <2>8, <2>9, <2>10, <2>11, <2>12, <2>13, <2>0, CountSteps
<1> HIDE DEF Counted
<1>4. Inv /\ CountedUntilGrowth /\ [Next]_vars => CountedUntilGrowth'
  <2>1. CountedUntilGrowth' <=> Counted'
    BY DEF CountedUntilGrowth, Counting, Counted
  <2> QED BY <1>1, <1>3, <2>1
<1>5. Init => CountedUntilGrowth
  BY <1>1, <1>2
<1> QED BY <1>4, <1>5, LockProtocol, PTL DEF Spec
=============================================================================
