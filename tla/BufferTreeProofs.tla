-------------------------- MODULE BufferTreeProofs -------------------------
(***************************************************************************)
(* Every action of BufferTree preserves Protocol, the part of the          *)
(* invariant about locks, control points and the shape of the tree: one    *)
(* lemma per action.  The part about messages that are being copied, and   *)
(* the theorems, are in BufferTreeSteps.                                   *)
(*                                                                         *)
(* A step of thread u is looked at from two sides.  Frame(u) says what it  *)
(* leaves alone: the other threads' variables, and the pivots of every     *)
(* node u does not hold exclusively.  With Exclusion that is all another   *)
(* thread relies on, so its part of the invariant is preserved by the one  *)
(* lemma OthersKeep, whatever u does.  What remains for every action is    *)
(* that it keeps the tree in shape and establishes u's own part at the     *)
(* next control point.                                                     *)
(***************************************************************************)
EXTENDS BufferTreeInv, TLAPS, FiniteSetTheorems, SequenceTheorems

(***************************************************************************)
(* What the operators of MsgBuf and Node return, for every buffer and      *)
(* every sequence of pivots.                                               *)
(***************************************************************************)

\* A nonempty set of naturals has a smallest element.
LEMMA SmallestIn ==
    ASSUME NEW S \in SUBSET Nat, S # {}
    PROVE  Smallest(S) \in S /\ \A y \in S : Smallest(S) <= y
<1>1. PICK x \in S : \A y \in S : ~ (<<y, x>> \in OpToRel(<, Nat))
  BY NatLessThanWellFounded, WFMin
<1>2. ASSUME NEW y \in S PROVE x <= y
  <2>1. ~ (y < x)
    BY <1>1 DEF OpToRel
  <2> QED BY <2>1
<1> QED BY <1>2 DEF Smallest

\* The key set is finite, and so are the sets of keys that are counted.
LEMMA KeySets ==
    /\ Keys \subseteq Nat /\ 1 \in Keys
    /\ \A K \in SUBSET Keys : IsFiniteSet(K) /\ Cardinality(K) \in Nat
<1>1. IsFiniteSet(Keys)
  BY KeyCountAssumption, FS_Interval DEF Keys
<1>2. ASSUME NEW K \in SUBSET Keys PROVE IsFiniteSet(K) /\ Cardinality(K) \in Nat
  BY <1>1, FS_Subset, FS_CardinalityType
<1> QED BY <1>2, KeyCountAssumption DEF Keys

\* Msg::size sums are natural numbers, and 0 over no messages.
LEMMA MsgSizeType ==
    ASSUME NEW msgs, NEW K \in SUBSET Keys
    PROVE  /\ MsgSize(msgs, K) \in Nat
           /\ {k \in K : msgs[k] # NoMsg} = {} /\ NoMsg \notin Values
                => MsgSize(msgs, K) = 0
<1> DEFINE A == {k \in K : msgs[k] # NoMsg}
           B == {k \in K : msgs[k] \in Values}
<1>1. Cardinality(A) \in Nat /\ Cardinality(B) \in Nat
  BY KeySets
<1>2. MsgSize(msgs, K) \in Nat
  BY <1>1, SizesAssumption DEF MsgSize
<1>3. ASSUME A = {}, NoMsg \notin Values PROVE MsgSize(msgs, K) = 0
  <2>1. B = {}
    BY <1>3
  <2>2. Cardinality(A) = 0 /\ Cardinality(B) = 0
    BY <1>3, <2>1, FS_EmptySet
  <2> QED BY <2>2, SizesAssumption DEF MsgSize
<1> QED BY <1>2, <1>3

\* Inserting messages into a buffer (MsgBuf::insert) yields a buffer.
LEMMA InsertAllType ==
    ASSUME NEW buf \in MsgBuf, NEW msgs \in [Keys -> Messages \cup {NoMsg}],
           NEW K \in SUBSET Keys
    PROVE  InsertAll(buf, msgs, K) \in MsgBuf
<1>1. /\ MsgSize(buf.msgs, K) \in Nat /\ MsgSize(msgs, K) \in Nat
      /\ Cardinality(K) \in Nat
  BY MsgSizeType, KeySets
<1>2. buf.msgs \in [Keys -> Messages \cup {NoMsg}] /\ buf.size \in Int
  BY DEF MsgBuf
<1> QED BY <1>1, <1>2 DEF InsertAll, MsgBuf

\* What MsgBuf::resize leaves is a buffer.
LEMMA KeepType ==
    ASSUME NEW msgs \in [Keys -> Messages \cup {NoMsg}], NEW K \in SUBSET Keys
    PROVE  Keep(msgs, K) \in MsgBuf
<1>1. /\ MsgSize(msgs, K) \in Nat
      /\ Cardinality({k \in K : msgs[k] # NoMsg}) \in Nat
  BY MsgSizeType, KeySets
<1> QED BY <1>1 DEF Keep, MsgBuf

\* A split moves at least the last message to the new buffer.
LEMMA UpperKeysType ==
    ASSUME NEW buf \in MsgBuf, Present(buf.msgs) # {}
    PROVE  UpperKeys(buf) \in SUBSET Present(buf.msgs) /\ UpperKeys(buf) # {}
<1> DEFINE P == Present(buf.msgs)
           n == Cardinality(P)
<1>1. P \subseteq Keys /\ IsFiniteSet(P) /\ n \in Nat /\ n # 0
  BY KeySets, FS_EmptySet DEF Present
<1> HIDE DEF P
<1>2. PICK m \in P : \A j \in P : j <= m
  <2> DEFINE S == {KeyCount - j : j \in P}
  <2>1. S \in SUBSET Nat /\ S # {}
    BY <1>1, KeyCountAssumption DEF Keys, P
  <2>2. PICK m \in P : Smallest(S) = KeyCount - m
    BY <2>1, SmallestIn
  <2>3. ASSUME NEW j \in P PROVE j <= m
    <3>1. KeyCount - j \in S
      OBVIOUS
    <3>2. KeyCount - m <= KeyCount - j
      BY <2>1, <2>2, <3>1, SmallestIn
    <3> QED BY <3>2, <1>1, KeySets, KeyCountAssumption DEF Keys
  <2> QED BY <2>3
<1>3. {j \in P : j < m} = P \ {m}
  <2>1. \A j \in P : j \in Nat
    BY <1>1, KeySets
  <2>2. \A j \in P : j < m <=> j # m
    BY <1>2, <2>1
  <2> QED BY <2>2
<1>4. Cardinality({j \in P : j < m}) = n - 1
  BY <1>1, <1>3, FS_RemoveElement
<1>5. ~ (n - 1 < n \div 2)
  BY <1>1
<1>6. m \notin FirstKeys(buf.msgs, Count(buf) \div 2)
  BY <1>4, <1>5 DEF FirstKeys, Count, P
<1> QED BY <1>2, <1>6 DEF UpperKeys, P

-----------------------------------------------------------------------------
\* The pivots q are the pivots p with other buffers.
SameShape(p, q) ==
    /\ DOMAIN q = DOMAIN p
    /\ \A i \in DOMAIN p : /\ q[i].child = p[i].child
                           /\ q[i].leftKey = p[i].leftKey

\* A nonempty sequence of pivots, spelled out for the provers.
LEMMA PivotsSeq ==
    ASSUME NEW p \in Seq(Pivot)
    PROVE  /\ Len(p) \in Nat
           /\ DOMAIN p = 1..Len(p)
           /\ p # <<>> => Len(p) \in Nat \ {0}
           /\ \A i \in DOMAIN p :
                /\ p[i] \in Pivot
                /\ p[i].child \in 0..MaxNodes
                /\ p[i].leftKey \in Keys \cup {EmptyKey}
                /\ p[i].leftKey \in Nat
                /\ p[i].buf \in MsgBuf
                /\ p[i].buf.msgs \in [Keys -> Messages \cup {NoMsg}]
                /\ p[i].buf.size \in Int
                /\ p[i] = [child |-> p[i].child, leftKey |-> p[i].leftKey,
                           buf |-> p[i].buf]
<1>1. Len(p) \in Nat /\ DOMAIN p = 1..Len(p) /\ (p # <<>> => Len(p) \in Nat \ {0})
  BY LenProperties, EmptySeq
<1>2. \A i \in DOMAIN p : p[i] \in Pivot
  BY <1>1, ElementOfSeq
<1>3. EmptyKey \in Nat /\ Keys \subseteq Nat
  BY KeySets DEF EmptyKey
<1> QED BY <1>1, <1>2, <1>3 DEF Pivot, MsgBuf

\* A function on 1..n with pivots as values is a sequence of pivots.
LEMMA PivotsFromFcn ==
    ASSUME NEW n \in Nat, NEW q, DOMAIN q = 1..n, q = [i \in DOMAIN q |-> q[i]],
           \A i \in 1..n : q[i] \in Pivot
    PROVE  q \in Seq(Pivot) /\ Len(q) = n
<1>1. q \in [1..n -> Pivot]
  OBVIOUS
<1> QED BY <1>1

\* Node::findPivot returns the position of a pivot.
LEMMA FindPivotIn ==
    ASSUME NEW p \in Seq(Pivot), p # <<>>, NEW key \in Nat
    PROVE  FindPivot(p, key) \in DOMAIN p
<1> DEFINE above == {i \in DOMAIN p : key < p[i].leftKey}
<1>1. CASE above = {}
  BY <1>1, PivotsSeq DEF FindPivot
<1>2. CASE above # {}
  <2>1. above \in SUBSET Nat
    BY PivotsSeq
  <2>2. Smallest(above) \in above
    BY <1>2, <2>1, SmallestIn
  <2>3. FindPivot(p, key) = Smallest(above)
    BY <1>2 DEF FindPivot
  <2> QED BY <2>2, <2>3
<1> QED BY <1>1, <1>2

\* pushDownLocked moves every message to a pivot the node has.
LEMMA RouteIn ==
    ASSUME NEW p \in Seq(Pivot), p # <<>>, NEW key \in Nat
    PROVE  Route(p, key) \in DOMAIN p
<1> DEFINE above == {i \in DOMAIN p : i > 1 /\ key < p[i].leftKey}
<1>1. CASE above = {}
  BY <1>1, PivotsSeq DEF Route
<1>2. CASE above # {}
  <2>1. above \in SUBSET Nat
    BY PivotsSeq
  <2>2. Smallest(above) \in above
    BY <1>2, <2>1, SmallestIn
  <2>3. Route(p, key) = Smallest(above) - 1
    BY <1>2 DEF Route
  <2>4. Smallest(above) \in 1..Len(p) /\ Smallest(above) > 1 /\ Len(p) \in Nat
    BY <2>2, PivotsSeq
  <2>5. Smallest(above) - 1 \in 1..Len(p)
    BY <2>4
  <2> QED BY <2>3, <2>5, PivotsSeq
<1> QED BY <1>1, <1>2

\* addPivot keeps the pivots and their order, and puts the new one behind the
\* first: a shift by one from some position on.
LEMMA AddPivotResult ==
    ASSUME NEW p \in Seq(Pivot), p # <<>>, NEW child \in 0..MaxNodes,
           NEW buf \in MsgBuf, NEW key \in Keys \cup {EmptyKey}
    PROVE  LET q == AddPivot(p, child, buf, key)
               i == FindPivot(p, key)
           IN  /\ q \in Seq(Pivot)
               /\ Len(q) = Len(p) + 1
               /\ i \in 1..Len(p)
               /\ \A j \in 1..Len(p) : q[IF j <= i THEN j ELSE j + 1] = p[j]
               /\ \A j \in 1..Len(q) :
                    q[j] = IF j <= i THEN p[j]
                           ELSE IF j = i + 1 THEN NewPivot(child, buf, key)
                           ELSE p[j - 1]
<1> DEFINE i == FindPivot(p, key)
           new == NewPivot(child, buf, key)
           a == SubSeq(p, 1, i)
           b == SubSeq(p, i + 1, Len(p))
           ab == a \o <<new>>
           q == AddPivot(p, child, buf, key)
<1>0. key \in Nat
  BY KeySets DEF EmptyKey
<1>1. i \in 1..Len(p) /\ Len(p) \in Nat /\ \A j \in 1..Len(p) : p[j] \in Pivot
  BY <1>0, FindPivotIn, PivotsSeq
<1>2. new \in Pivot
  BY DEF NewPivot, Pivot
<1> HIDE DEF i, new
<1>3. /\ a \in Seq(Pivot) /\ Len(a) = i
      /\ \A j \in 1..i : a[j] = p[j]
  <2>1. 1 \in Int /\ i \in Int /\ \A j \in 1..i : p[j] \in Pivot
    BY <1>1
  <2>2. /\ a \in Seq(Pivot) /\ Len(a) = IF 1 <= i THEN i - 1 + 1 ELSE 0
        /\ \A j \in 1..(i - 1 + 1) : a[j] = p[1 + j - 1]
    BY <2>1, SubSeqProperties
  <2> QED BY <1>1, <2>2
<1>4. /\ b \in Seq(Pivot) /\ Len(b) = Len(p) - i
      /\ \A j \in 1..(Len(p) - i) : b[j] = p[i + j]
  <2>1. i + 1 \in Int /\ Len(p) \in Int /\ \A j \in (i + 1)..Len(p) : p[j] \in Pivot
    BY <1>1
  <2>2. /\ b \in Seq(Pivot)
        /\ Len(b) = IF i + 1 <= Len(p) THEN Len(p) - (i + 1) + 1 ELSE 0
        /\ \A j \in 1..(Len(p) - (i + 1) + 1) : b[j] = p[(i + 1) + j - 1]
    BY <2>1, SubSeqProperties
  <2> QED BY <1>1, <2>2
<1>5. <<new>> \in Seq(Pivot) /\ Len(<<new>>) = 1 /\ <<new>>[1] = new
  BY <1>2
<1> HIDE DEF a, b
<1>6. /\ ab \in Seq(Pivot) /\ Len(ab) = i + 1
      /\ \A j \in 1..(i + 1) : ab[j] = IF j <= i THEN p[j] ELSE new
  <2>1. /\ ab \in Seq(Pivot) /\ Len(ab) = i + 1
        /\ \A j \in 1..(i + 1) : ab[j] = IF j <= i THEN a[j] ELSE <<new>>[j - i]
    BY <1>3, <1>5, ConcatProperties
  <2> QED BY <1>1, <1>3, <1>5, <2>1
<1> HIDE DEF ab
<1>7. /\ ab \o b \in Seq(Pivot) /\ Len(ab \o b) = Len(p) + 1
      /\ \A j \in 1..(Len(p) + 1) :
            (ab \o b)[j] = IF j <= i THEN p[j]
                           ELSE IF j = i + 1 THEN new ELSE p[j - 1]
  <2>1. /\ ab \o b \in Seq(Pivot) /\ Len(ab \o b) = Len(ab) + Len(b)
        /\ \A j \in 1..(Len(ab) + Len(b)) :
            (ab \o b)[j] = IF j <= Len(ab) THEN ab[j] ELSE b[j - Len(ab)]
    BY <1>4, <1>6, ConcatProperties
  <2>2. Len(ab) + Len(b) = Len(p) + 1
    BY <1>1, <1>4, <1>6
  <2>3. ASSUME NEW j \in 1..(Len(p) + 1)
        PROVE  (ab \o b)[j] = IF j <= i THEN p[j]
                               ELSE IF j = i + 1 THEN new ELSE p[j - 1]
    <3>1. (ab \o b)[j] = IF j <= i + 1 THEN ab[j] ELSE b[j - (i + 1)]
      BY <1>6, <2>1, <2>2
    <3>2. CASE j <= i + 1
      BY <1>1, <1>6, <3>1, <3>2
    <3>3. CASE j > i + 1
      <4>1. j - (i + 1) \in 1..(Len(p) - i)
        BY <1>1, <3>3
      <4>2. b[j - (i + 1)] = p[i + (j - (i + 1))]
        BY <1>4, <4>1
      <4>3. i + (j - (i + 1)) = j - 1
        BY <1>1
      <4>4. b[j - (i + 1)] = p[j - 1]
        BY <4>2, <4>3
      <4>5. (ab \o b)[j] = b[j - (i + 1)]
        BY <1>1, <3>1, <3>3
      <4>6. ~ (j <= i) /\ j # i + 1
        BY <1>1, <3>3
      <4> QED BY <4>4, <4>5, <4>6
    <3>4. j <= i + 1 \/ j > i + 1
      BY <1>1
    <3> QED BY <3>2, <3>3, <3>4
  <2> QED BY <2>1, <2>2, <2>3
<1>8. q = ab \o b
  BY DEF AddPivot, i, new, a, b, ab
<1>9. \A j \in 1..Len(p) : (ab \o b)[IF j <= i THEN j ELSE j + 1] = p[j]
  BY <1>1, <1>7
<1> QED BY <1>1, <1>7, <1>8, <1>9, SMTT(30) DEF i, new

\* Replacing a buffer changes nothing else.
LEMMA WithBufResult ==
    ASSUME NEW p \in Seq(Pivot), NEW i \in DOMAIN p, NEW buf \in MsgBuf
    PROVE  LET q == WithBuf(p, i, buf)
           IN  /\ q \in Seq(Pivot)
               /\ SameShape(p, q)
               /\ \A j \in DOMAIN p : q[j].buf = IF j = i THEN buf ELSE p[j].buf
               /\ \A j \in DOMAIN p : j # i => q[j] = p[j]
<1> DEFINE new == NewPivot(p[i].child, buf, p[i].leftKey)
           q == WithBuf(p, i, buf)
<1>1. /\ new \in Pivot /\ new.buf = buf
      /\ new.child = p[i].child /\ new.leftKey = p[i].leftKey
  BY PivotsSeq DEF NewPivot, Pivot
<1>2. q = [p EXCEPT ![i] = new]
  BY DEF WithBuf
<1> HIDE DEF new
<1>3. q \in Seq(Pivot) /\ DOMAIN q = DOMAIN p
  BY <1>1, <1>2, PivotsSeq, ExceptSeq
<1>4. \A j \in DOMAIN p : q[j] = IF j = i THEN new ELSE p[j]
  BY <1>2
<1> HIDE DEF q
<1>5. SameShape(p, q)
  BY <1>1, <1>3, <1>4 DEF SameShape
<1>6. \A j \in DOMAIN p : q[j].buf = IF j = i THEN buf ELSE p[j].buf
  BY <1>1, <1>4
<1> QED BY <1>3, <1>4, <1>5, <1>6 DEF q

\* insertMsg changes one buffer, by one message.
LEMMA InsertMsgResult ==
    ASSUME NEW p \in Seq(Pivot), NEW i \in DOMAIN p, NEW key \in Keys,
           NEW msg \in Messages
    PROVE  LET q == InsertMsg(p, i, key, msg)
           IN  /\ q \in Seq(Pivot)
               /\ SameShape(p, q)
               /\ \A j \in DOMAIN p : \A k \in Keys :
                    q[j].buf.msgs[k] = IF j = i /\ k = key THEN msg
                                       ELSE p[j].buf.msgs[k]
               /\ \A j \in DOMAIN p : j # i => q[j] = p[j]
<1> DEFINE new == Insert(p[i].buf, key, msg)
           q == InsertMsg(p, i, key, msg)
<1>1. new \in MsgBuf
  <2>1. [k \in Keys |-> msg] \in [Keys -> Messages \cup {NoMsg}]
    OBVIOUS
  <2> QED BY <2>1, PivotsSeq, InsertAllType DEF Insert
<1>2. \A k \in Keys : new.msgs[k] = IF k = key THEN msg ELSE p[i].buf.msgs[k]
  BY DEF Insert, InsertAll
<1> HIDE DEF new
<1>3. q = WithBuf(p, i, new)
  BY DEF InsertMsg, new
<1> HIDE DEF q
<1>4. /\ q \in Seq(Pivot) /\ SameShape(p, q)
      /\ \A j \in DOMAIN p : q[j].buf = IF j = i THEN new ELSE p[j].buf
      /\ \A j \in DOMAIN p : j # i => q[j] = p[j]
  BY <1>1, <1>3, WithBufResult
<1>5. \A j \in DOMAIN p : \A k \in Keys :
        q[j].buf.msgs[k] = IF j = i /\ k = key THEN msg ELSE p[j].buf.msgs[k]
  BY <1>2, <1>4
<1> QED BY <1>4, <1>5 DEF q

\* Each message of K that msgs holds is in the buffer Route names, and no
\* other message is touched.
LEMMA PushIntoResult ==
    ASSUME NEW p \in Seq(Pivot), NEW msgs \in [Keys -> Messages \cup {NoMsg}],
           NEW K \in SUBSET Keys
    PROVE  LET q == PushInto(p, msgs, K)
           IN  /\ q \in Seq(Pivot)
               /\ SameShape(p, q)
               /\ \A j \in DOMAIN p : \A k \in Keys :
                    q[j].buf.msgs[k] = IF k \in K /\ Route(p, k) = j
                                       THEN msgs[k] ELSE p[j].buf.msgs[k]
               /\ \A j \in DOMAIN p : q[j].buf =
                    InsertAll(p[j].buf, msgs, Routed(p, K, j))
<1> DEFINE new(j) == InsertAll(p[j].buf, msgs, Routed(p, K, j))
           q == PushInto(p, msgs, K)
<1>1. \A j \in DOMAIN p : new(j) \in MsgBuf
  BY PivotsSeq, InsertAllType DEF Routed
<1>2. \A j \in DOMAIN p : \A k \in Keys :
        new(j).msgs[k] = IF k \in K /\ Route(p, k) = j
                         THEN msgs[k] ELSE p[j].buf.msgs[k]
  BY DEF InsertAll, Routed
<1>3. q = [j \in DOMAIN p |-> NewPivot(p[j].child, new(j), p[j].leftKey)]
  BY DEF PushInto
<1> HIDE DEF new
<1>4. DOMAIN q = DOMAIN p /\ \A j \in DOMAIN p : q[j] =
            [child |-> p[j].child, leftKey |-> p[j].leftKey, buf |-> new(j)]
  BY <1>3 DEF NewPivot
<1>5. \A j \in DOMAIN p : q[j] \in Pivot
  <2> SUFFICES ASSUME NEW j \in DOMAIN p PROVE q[j] \in Pivot
    OBVIOUS
  <2>1. p[j].child \in 0..MaxNodes /\ p[j].leftKey \in Keys \cup {EmptyKey}
    BY PivotsSeq
  <2> QED BY <1>1, <1>4, <2>1 DEF Pivot
<1>6. q \in Seq(Pivot)
  BY <1>3, <1>4, <1>5, PivotsSeq, PivotsFromFcn
<1> HIDE DEF q
<1>7. SameShape(p, q)
  BY <1>4 DEF SameShape
<1>8. \A j \in DOMAIN p : q[j].buf = new(j)
  BY <1>4
<1>9. \A j \in DOMAIN p : \A k \in Keys :
        q[j].buf.msgs[k] = IF k \in K /\ Route(p, k) = j
                           THEN msgs[k] ELSE p[j].buf.msgs[k]
  BY <1>2, <1>8
<1> QED BY <1>6, <1>7, <1>8, <1>9 DEF q, new

-----------------------------------------------------------------------------
\* Inserting messages leaves no buffer that is empty and has a size.
LEMMA InsertAllTight ==
    ASSUME NEW buf \in MsgBuf, Tight(buf),
           NEW msgs \in [Keys -> Messages \cup {NoMsg}],
           NEW K \in SUBSET Present(msgs)
    PROVE  Tight(InsertAll(buf, msgs, K))
<1> DEFINE q == InsertAll(buf, msgs, K)
<1>1. K \subseteq Keys
  BY DEF Present
<1>2. CASE K # {}
  <2>1. PICK k \in K : TRUE
    BY <1>2
  <2>2. k \in Keys /\ msgs[k] # NoMsg
    BY DEF Present
  <2>3. q.msgs[k] = msgs[k]
    BY <2>2 DEF InsertAll
  <2> QED BY <2>2, <2>3 DEF Tight, Present
<1>3. CASE K = {}
  <2>1. \A k \in Keys : q.msgs[k] = buf.msgs[k]
    BY <1>3 DEF InsertAll
  <2>2. Present(q.msgs) = Present(buf.msgs)
    BY <2>1 DEF Present
  <2>3. MsgSize(buf.msgs, K) = 0 /\ MsgSize(msgs, K) = 0 /\ Cardinality(K) = 0
    BY <1>1, <1>3, MsgSizeType, ValuesAssumption, FS_EmptySet
  <2>4. q.size = buf.size - MsgSize(buf.msgs, K) + MsgSize(msgs, K) + 8 * Cardinality(K)
    BY DEF InsertAll
  <2>5. buf.size \in Int
    BY DEF MsgBuf
  <2>6. q.size = buf.size
    BY <2>3, <2>4, <2>5
  <2> QED BY <2>2, <2>6 DEF Tight
<1> QED BY <1>2, <1>3

\* MsgBuf::resize counts size_ afresh, so an emptied buffer has size 0.
LEMMA KeepTight ==
    ASSUME NEW msgs \in [Keys -> Messages \cup {NoMsg}], NEW K \in SUBSET Keys
    PROVE  Tight(Keep(msgs, K))
<1> DEFINE q == Keep(msgs, K)
           A == {k \in K : msgs[k] # NoMsg}
<1> SUFFICES ASSUME Present(q.msgs) = {} PROVE q.size = 0
  BY DEF Tight
<1>1. \A k \in Keys : q.msgs[k] = IF k \in K THEN msgs[k] ELSE NoMsg
  BY DEF Keep
<1>2. A = {}
  BY <1>1 DEF Present
<1>3. MsgSize(msgs, K) = 0 /\ Cardinality(A) = 0
  BY <1>2, MsgSizeType, ValuesAssumption, FS_EmptySet
<1> QED BY <1>3 DEF Keep

\* splitBuf: every message is in the old or in the new buffer, and the pivots
\* are the old ones and one more without a child, behind the first.
LEMMA SplitPivotsResult ==
    ASSUME NEW p \in Seq(Pivot), NEW i \in DOMAIN p,
           Present(p[i].buf.msgs) # {}
    PROVE  LET q == SplitPivots(p, i)
           IN  /\ q \in Seq(Pivot) /\ q # <<>>
               /\ \A j \in DOMAIN q :
                    \/ /\ q[j].child = NID_NIL /\ q[j].leftKey # EmptyKey
                       /\ Tight(q[j].buf)
                    \/ \E l \in DOMAIN p :
                        /\ q[j].child = p[l].child /\ q[j].leftKey = p[l].leftKey
                        /\ Tight(p[l].buf) => Tight(q[j].buf)
                        /\ j > 1 => l > 1
               /\ \A l \in DOMAIN p : \A k \in Keys :
                    p[l].buf.msgs[k] # NoMsg =>
                        \E j \in DOMAIN q : q[j].buf.msgs[k] # NoMsg
<1> DEFINE buf == p[i].buf
           upper == UpperKeys(buf)
           lower == FirstKeys(buf.msgs, Count(buf) \div 2)
           b0 == Keep(buf.msgs, lower)
           b1 == Keep(buf.msgs, upper)
           key == Smallest(upper)
           r == WithBuf(p, i, b0)
           q == SplitPivots(p, i)
           f == FindPivot(r, key)
<1>1. buf \in MsgBuf /\ buf.msgs \in [Keys -> Messages \cup {NoMsg}] /\ p # <<>>
  BY PivotsSeq
<1>2. upper \in SUBSET Keys /\ upper # {} /\ lower \in SUBSET Keys
  BY <1>1, UpperKeysType DEF Present, FirstKeys
<1>3. Present(buf.msgs) = lower \cup upper
  BY DEF UpperKeys, FirstKeys
<1>4. key \in Keys /\ key # EmptyKey
  <2>1. upper \in SUBSET Nat
    BY <1>2, KeySets
  <2>2. key \in upper
    BY <1>2, <2>1, SmallestIn
  <2> QED BY <1>2, <2>2, KeyCountAssumption DEF Keys, EmptyKey
<1>5. /\ b0 \in MsgBuf /\ Tight(b0) /\ b1 \in MsgBuf /\ Tight(b1)
      /\ \A k \in lower : b0.msgs[k] = buf.msgs[k]
      /\ \A k \in upper : b1.msgs[k] = buf.msgs[k]
  <2>1. b0 \in MsgBuf /\ Tight(b0) /\ b1 \in MsgBuf /\ Tight(b1)
    BY <1>1, <1>2, KeepType, KeepTight
  <2> QED BY <1>2, <2>1 DEF Keep
<1>6. q = AddPivot(r, NID_NIL, b1, key)
  BY DEF SplitPivots, Resize
<1> HIDE DEF upper, lower, b0, b1, key
<1>7. /\ r \in Seq(Pivot) /\ SameShape(p, r) /\ r # <<>>
      /\ \A j \in DOMAIN p : r[j].buf = IF j = i THEN b0 ELSE p[j].buf
  <2>1. /\ r \in Seq(Pivot) /\ SameShape(p, r)
        /\ \A j \in DOMAIN p : r[j].buf = IF j = i THEN b0 ELSE p[j].buf
    BY <1>5, WithBufResult
  <2>2. i \in DOMAIN r
    BY <2>1 DEF SameShape
  <2>3. r # <<>>
    BY <2>1, <2>2, PivotsSeq
  <2> QED BY <2>1, <2>3
<1> HIDE DEF r, q, buf
<1>8. NID_NIL \in 0..MaxNodes
  BY MaxNodesAssumption DEF NID_NIL
<1>9. /\ q \in Seq(Pivot) /\ Len(q) = Len(r) + 1 /\ f \in 1..Len(r)
      /\ \A j \in 1..Len(r) : q[IF j <= f THEN j ELSE j + 1] = r[j]
      /\ \A j \in 1..Len(q) :
            q[j] = IF j <= f THEN r[j]
                   ELSE IF j = f + 1 THEN NewPivot(NID_NIL, b1, key)
                   ELSE r[j - 1]
  <2>1. key \in Keys \cup {EmptyKey}
    BY <1>4
  <2>2. b1 \in MsgBuf /\ r \in Seq(Pivot) /\ r # <<>>
    BY <1>5, <1>7
  <2> QED BY <1>6, <1>8, <2>1, <2>2, AddPivotResult, SMTT(30)
<1>10. /\ DOMAIN q = 1..(Len(r) + 1) /\ Len(r) \in Nat /\ q # <<>>
       /\ DOMAIN r = 1..Len(r) /\ DOMAIN p = 1..Len(r)
  BY <1>7, <1>9, PivotsSeq DEF SameShape
<1> HIDE DEF f
<1>11. ASSUME NEW j \in DOMAIN q
       PROVE  \/ /\ q[j].child = NID_NIL /\ q[j].leftKey # EmptyKey
                 /\ Tight(q[j].buf)
              \/ \E l \in DOMAIN p :
                    /\ q[j].child = p[l].child /\ q[j].leftKey = p[l].leftKey
                    /\ Tight(p[l].buf) => Tight(q[j].buf)
                    /\ j > 1 => l > 1
  <2> DEFINE l == IF j <= f THEN j ELSE j - 1
  <2>1. CASE j = f + 1
    <3>1. q[j] = NewPivot(NID_NIL, b1, key)
      BY <1>9, <1>10, <2>1
    <3> QED BY <1>4, <1>5, <3>1 DEF NewPivot
  <2>2. CASE j # f + 1
    <3>1. l \in DOMAIN p /\ q[j] = r[l] /\ (j > 1 => l > 1)
      BY <1>9, <1>10, <2>2
    <3>2. Tight(p[l].buf) => Tight(r[l].buf)
      BY <1>5, <1>7, <3>1
    <3>3. r[l].child = p[l].child /\ r[l].leftKey = p[l].leftKey
      BY <1>7, <3>1 DEF SameShape
    <3> QED BY <3>1, <3>2, <3>3
  <2> QED BY <2>1, <2>2
<1>12. ASSUME NEW l \in DOMAIN p, NEW k \in Keys, p[l].buf.msgs[k] # NoMsg
       PROVE  \E j \in DOMAIN q : q[j].buf.msgs[k] # NoMsg
  <2> DEFINE j == IF l <= f THEN l ELSE l + 1
  <2>1. j \in DOMAIN q /\ q[j] = r[l]
    BY <1>9, <1>10
  <2>2. CASE l # i
    BY <1>7, <1>12, <2>1, <2>2
  <2>3. CASE l = i /\ k \in lower
    BY <1>5, <1>7, <1>12, <2>1, <2>3 DEF buf
  <2>4. CASE l = i /\ k \in upper
    <3>1. f + 1 \in DOMAIN q /\ q[f + 1] = NewPivot(NID_NIL, b1, key)
      BY <1>9, <1>10
    <3>2. b1.msgs[k] # NoMsg
      BY <1>5, <1>12, <2>4 DEF buf
    <3> QED BY <3>1, <3>2 DEF NewPivot
  <2>5. l = i => k \in lower \cup upper
    BY <1>3, <1>12 DEF Present, buf
  <2> QED BY <2>2, <2>3, <2>4, <2>5
<1> QED BY <1>9, <1>10, <1>11, <1>12 DEF q

\* splitNode: the pivots are cut into two nonempty parts.
LEMMA SplitNodeResult ==
    ASSUME NEW p \in Seq(Pivot), Len(p) > 1
    PROVE  /\ Middle(p) \in 1..(Len(p) - 1)
           /\ Lower(p) \in Seq(Pivot) /\ Upper(p) \in Seq(Pivot)
           /\ Lower(p) # <<>> /\ Upper(p) # <<>>
           /\ DOMAIN Lower(p) = 1..Middle(p)
           /\ DOMAIN Upper(p) = 1..(Len(p) - Middle(p))
           /\ \A j \in 1..Middle(p) : Lower(p)[j] = p[j]
           /\ \A j \in 1..(Len(p) - Middle(p)) : Upper(p)[j] = p[Middle(p) + j]
<1> DEFINE m == Middle(p)
<1>1. /\ Len(p) \in Nat /\ DOMAIN p = 1..Len(p)
      /\ \A j \in 1..Len(p) : p[j] \in Pivot
  BY PivotsSeq
<1>2. m \in 1..(Len(p) - 1)
  BY <1>1 DEF Middle
<1> HIDE DEF m
<1>3. /\ Lower(p) \in Seq(Pivot) /\ Len(Lower(p)) = m
      /\ \A j \in 1..m : Lower(p)[j] = p[j]
  <2>1. 1 \in Int /\ m \in Int /\ \A j \in 1..m : p[j] \in Pivot
    BY <1>1, <1>2
  <2>2. /\ SubSeq(p, 1, m) \in Seq(Pivot)
        /\ Len(SubSeq(p, 1, m)) = IF 1 <= m THEN m - 1 + 1 ELSE 0
        /\ \A j \in 1..(m - 1 + 1) : SubSeq(p, 1, m)[j] = p[1 + j - 1]
    BY <2>1, SubSeqProperties
  <2> QED BY <1>2, <2>2 DEF Lower, m
<1>4. /\ Upper(p) \in Seq(Pivot) /\ Len(Upper(p)) = Len(p) - m
      /\ \A j \in 1..(Len(p) - m) : Upper(p)[j] = p[m + j]
  <2>1. m + 1 \in Int /\ Len(p) \in Int /\ \A j \in (m + 1)..Len(p) : p[j] \in Pivot
    BY <1>1, <1>2
  <2> DEFINE u == SubSeq(p, m + 1, Len(p))
  <2>2. /\ u \in Seq(Pivot)
        /\ Len(u) = IF m + 1 <= Len(p) THEN Len(p) - (m + 1) + 1 ELSE 0
        /\ \A j \in 1..(Len(p) - (m + 1) + 1) : u[j] = p[(m + 1) + j - 1]
    BY <2>1, SubSeqProperties
  <2>3. u = Upper(p)
    BY DEF Upper, m
  <2> HIDE DEF u
  <2>4. Len(u) = Len(p) - m
    BY <1>1, <1>2, <2>2
  <2>5. ASSUME NEW j \in 1..(Len(p) - m) PROVE u[j] = p[m + j]
    <3>1. j \in 1..(Len(p) - (m + 1) + 1) /\ (m + 1) + j - 1 = m + j
      BY <1>1, <1>2
    <3> QED BY <2>2, <3>1
  <2> QED BY <2>2, <2>3, <2>4, <2>5
<1>5. DOMAIN Lower(p) = 1..m /\ DOMAIN Upper(p) = 1..(Len(p) - m)
  BY <1>3, <1>4, PivotsSeq
<1>6. Lower(p) # <<>> /\ Upper(p) # <<>>
  BY <1>1, <1>2, <1>3, <1>4, EmptySeq
<1> QED BY <1>2, <1>3, <1>4, <1>5, <1>6 DEF m

\* A sequence without its last element.
LEMMA FrontLast ==
    ASSUME NEW S, NEW s \in Seq(S), s # <<>>
    PROVE  /\ Len(s) \in Nat \ {0} /\ DOMAIN s = 1..Len(s)
           /\ Len(s) \in DOMAIN s /\ 1 \in DOMAIN s
           /\ Last(s) \in S
           /\ Front(s) \in Seq(S) /\ Len(Front(s)) = Len(s) - 1
           /\ DOMAIN Front(s) = 1..(Len(s) - 1)
           /\ \A n \in 1..(Len(s) - 1) : Front(s)[n] = s[n]
<1>1. Len(s) \in Nat \ {0} /\ DOMAIN s = 1..Len(s)
  BY EmptySeq, LenProperties
<1>2. Len(s) \in DOMAIN s /\ 1 \in DOMAIN s
  BY <1>1
<1>3. Last(s) \in S
  BY <1>2, ElementOfSeq DEF Last
<1>4. Len(s) - 1 \in 0..Len(s)
  BY <1>1
<1>5. \A n \in 1..(Len(s) - 1) : s[n] \in S
  BY <1>1, ElementOfSeq
<1>6. /\ Front(s) \in Seq(S) /\ Len(Front(s)) = Len(s) - 1
      /\ \A n \in 1..(Len(s) - 1) : Front(s)[n] = s[n]
  BY <1>1, <1>4, <1>5, SubSeqProperties DEF Front
<1>7. DOMAIN Front(s) = 1..(Len(s) - 1)
  BY <1>6, LenProperties
<1> QED BY <1>1, <1>2, <1>3, <1>6, <1>7

(***************************************************************************)
(* The steps of BufferTree.                                                *)
(***************************************************************************)

\* What a step of thread u leaves alone.
Frame(u) ==
    /\ \A t \in Threads \ {u} :
        /\ pc'[t] = pc[t] /\ cur'[t] = cur[t] /\ idx'[t] = idx[t]
        /\ base'[t] = base[t] /\ stack'[t] = stack[t] /\ path'[t] = path[t]
        /\ split'[t] = split[t] /\ rd'[t] = rd[t] /\ wr'[t] = wr[t]
        /\ made'[t] = made[t]
        /\ mutexLockPath' = t <=> mutexLockPath = t
    /\ nodeCount' \in Nat /\ nodeCount <= nodeCount'
    /\ pc[u] \notin Splitting => nodeCount' = nodeCount
    /\ Known \subseteq Known'
    /\ \A o \in Live :
        /\ isLeaf'[o] = isLeaf[o]
        /\ height'[o] = height[o]
        /\ \/ SameShape(pivots[o], pivots'[o])
           \/ o \in Known /\ o \in wr[u]
           \/ o \notin Known /\ pc[u] \in Splitting
    /\ root' = root \/ root \in wr[u]

\* A step acquires only locks that are free.
LockStep(u) ==
    \A o \in Objs :
        /\ o \in rd'[u] => o \in rd[u] \/ CanRead(o)
        /\ o \in wr'[u] => o \in wr[u] \/ CanWrite(o)

\* A splitting thread has the root locked exclusively, so there is only one.
LEMMA OnePath ==
    ASSUME Protocol, NEW u \in Threads, NEW t \in Threads,
           pc[u] \in OnPath, pc[t] \in OnPath
    PROVE  t = u
<1>1. ASSUME NEW v \in Threads, pc[v] \in OnPath PROVE root \in wr[v]
  <2>1. /\ path[v] \in Seq(Objs) /\ path[v] # <<>> /\ path[v][1] = root
        /\ wr[v] = PathSet(v) \cup split[v]
    BY <1>1 DEF Protocol, TypeOK, CallsTypeOK, ThreadInv, PathInv, HoldsPath
  <2>2. 1 \in DOMAIN path[v]
    BY <2>1, EmptySeq, LenProperties
  <2> QED BY <2>1, <2>2 DEF PathSet
<1> QED BY <1>1 DEF Protocol, Exclusion

\* Node objects of the same shape have equally many pivots.
LEMMA SameLength ==
    ASSUME NEW p \in Seq(Pivot), NEW q \in Seq(Pivot), SameShape(p, q)
    PROVE  Len(q) = Len(p) /\ (q = <<>> <=> p = <<>>)
<1>1. DOMAIN p = DOMAIN q
  BY DEF SameShape
<1>2. /\ Len(p) \in Nat /\ DOMAIN p = 1..Len(p)
      /\ Len(q) \in Nat /\ DOMAIN q = 1..Len(q)
  BY PivotsSeq
<1>3. Len(q) = Len(p)
  <2>1. CASE Len(p) < Len(q)
    <3>1. Len(q) \in 1..Len(q) /\ Len(q) \notin 1..Len(p)
      BY <1>2, <2>1
    <3> QED BY <1>1, <1>2, <3>1
  <2>2. CASE Len(q) < Len(p)
    <3>1. Len(p) \in 1..Len(p) /\ Len(p) \notin 1..Len(q)
      BY <1>2, <2>2
    <3> QED BY <1>1, <1>2, <3>1
  <2>3. Len(p) \in Nat /\ Len(q) \in Nat
    BY <1>2
  <2> QED BY <2>1, <2>2, <2>3
<1>4. (p = <<>> <=> Len(p) = 0) /\ (q = <<>> <=> Len(q) = 0)
  <2>1. Len(<<>>) = 0
    BY EmptySeq
  <2>2. (p # <<>> => Len(p) # 0) /\ (q # <<>> => Len(q) # 0)
    BY PivotsSeq
  <2> QED BY <2>1, <2>2
<1> QED BY <1>3, <1>4

\* The part of another thread survives: everything it mentions is under a lock
\* of that thread, so u does not hold it exclusively, or never changes.  The
\* nodes it is making are not locked, but only a splitting thread touches such
\* nodes.
LEMMA OthersKeep ==
    ASSUME Protocol, NEW u \in Threads, NEW t \in Threads \ {u}, Frame(u),
           pivots' \in [Objs -> Seq(Pivot)]
    PROVE  ThreadInv(t)'
<1>1. ThreadInv(t) /\ TypeOK /\ Tree
  BY DEF Protocol
<1>2. /\ pc'[t] = pc[t] /\ cur'[t] = cur[t] /\ idx'[t] = idx[t]
      /\ base'[t] = base[t] /\ stack'[t] = stack[t] /\ path'[t] = path[t]
      /\ split'[t] = split[t] /\ rd'[t] = rd[t] /\ wr'[t] = wr[t]
      /\ made'[t] = made[t]
      /\ mutexLockPath' = t <=> mutexLockPath = t
  BY DEF Frame
<1>3. /\ Known \subseteq Known' /\ Known \subseteq Live
      /\ root \in Live /\ root \in Known /\ nodeCount \in Nat
      /\ \A o \in Live : isLeaf'[o] = isLeaf[o] /\ height'[o] = height[o]
  BY <1>1 DEF Protocol, Naming, TypeOK, NodesTypeOK, Objs, Known, Frame
<1>4. \A o \in Known : o \in rd[t] \cup wr[t] =>
        /\ o \notin wr[u]
        /\ SameShape(pivots[o], pivots'[o])
  BY <1>3 DEF Protocol, Exclusion, Frame
<1>5. root \in rd[t] \cup wr[t] => root' = root
  BY <1>3, <1>4 DEF Frame
<1>6. Places(t)'
  BY <1>1, <1>2, <1>3 DEF ThreadInv, Places
<1>7. AtWork(t)'
  <2> SUFFICES ASSUME pc[t] \in {"pushDown", "pushBuf", "moving", "clearing",
                                 "getDown"}
               PROVE  idx[t] \in DOMAIN pivots'[cur[t]] /\ ~isLeaf'[cur[t]]
    BY <1>2 DEF AtWork
  <2>1. cur[t] \in rd[t] /\ cur[t] \in Known
    BY <1>1 DEF ThreadInv, HoldsRead, HoldsChild, Places
  <2> QED BY <1>1, <1>3, <1>4, <2>1 DEF ThreadInv, AtWork, SameShape
<1>8. HoldsCur(t)' /\ HoldsRead(t)' /\ HoldsNone(t)'
  BY <1>1, <1>2, <1>3 DEF ThreadInv, HoldsCur, HoldsRead, HoldsNone, Places
<1>9. HoldsChild(t)'
  <2> SUFFICES ASSUME pc[t] \in {"pushBuf", "moving", "clearing"}
               PROVE  HoldsChild(t)'
    BY <1>2 DEF HoldsChild
  <2> DEFINE c == pivots[cur[t]][idx[t]].child + 1
  <2>1. /\ cur[t] \in rd[t] /\ cur[t] \in Known /\ ~isLeaf[cur[t]]
        /\ idx[t] \in DOMAIN pivots[cur[t]]
    BY <1>1 DEF ThreadInv, HoldsChild, AtWork, Places
  <2>2. pivots'[cur[t]][idx[t]].child + 1 = c
    BY <1>4, <2>1 DEF SameShape
  <2>3. c \in Live
    <3>1. pivots[cur[t]][idx[t]].child \in 1..(nodeCount - 1)
      BY <1>1, <1>3, <2>1 DEF Tree, TreeNode
    <3> QED BY <1>3, <3>1 DEF Live
  <2>4. /\ rd[t] = IF isLeaf[c] THEN {cur[t]} ELSE {cur[t], c}
        /\ wr[t] = IF isLeaf[c] THEN {c} ELSE {}
        /\ pc[t] = "moving" => ~isLeaf[c]
    BY <1>1 DEF ThreadInv, HoldsChild
  <2>5. isLeaf'[c] = isLeaf[c]
    BY <1>3, <2>3
  <2> HIDE DEF c
  <2> QED BY <1>2, <2>2, <2>4, <2>5 DEF HoldsChild
<1>10. HoldsPath(t)' /\ HoldsMutex(t)'
  BY <1>1, <1>2 DEF ThreadInv, HoldsPath, HoldsMutex, PathSet
<1>11. PathInv(t)'
  <2>1. /\ \A n \in DOMAIN path[t] : path[t][n] \in Known'
        /\ pc[t] \notin {"lpRoot"} \cup OnPath => path[t] = <<>>
        /\ pc[t] \notin Splitting => split[t] = {}
        /\ pc[t] = "lpRoot" => Len(path[t]) = 1
    BY <1>1, <1>3 DEF ThreadInv, PathInv
  <2>2. ASSUME pc[t] \in OnPath
        PROVE  /\ path[t] # <<>>
               /\ path[t][1] = root'
               /\ \A n \in DOMAIN path[t] :
                    height'[path[t][n]] + n = height'[root'] + 1
               /\ \A n \in DOMAIN path[t] : n + 1 \in DOMAIN path[t] =>
                    \E i \in DOMAIN pivots'[path[t][n]] :
                        pivots'[path[t][n]][i].child + 1 = path[t][n + 1]
               /\ pc[t] = "lpDown" => ~isLeaf'[Last(path[t])]
               /\ pc[t] = "lpClear" =>
                    /\ Len(path[t]) > 1
                    /\ idx[t] \in DOMAIN pivots'[Last(Front(path[t]))]
    <3>1. /\ path[t] # <<>> /\ path[t][1] = root
          /\ \A n \in DOMAIN path[t] : path[t][n] \in Known
          /\ \A n \in DOMAIN path[t] : height[path[t][n]] + n = height[root] + 1
          /\ \A n \in DOMAIN path[t] : n + 1 \in DOMAIN path[t] =>
                \E i \in DOMAIN pivots[path[t][n]] :
                    pivots[path[t][n]][i].child + 1 = path[t][n + 1]
          /\ pc[t] = "lpDown" => ~isLeaf[Last(path[t])]
      BY <1>1, <2>2 DEF ThreadInv, PathInv
    <3>2. \A n \in DOMAIN path[t] : path[t][n] \in wr[t]
      BY <1>1, <2>2 DEF ThreadInv, HoldsPath, PathSet
    <3>3. path[t] \in Seq(Objs)
      BY <1>1 DEF TypeOK, CallsTypeOK
    <3>4. 1 \in DOMAIN path[t] /\ Len(path[t]) \in DOMAIN path[t]
      BY <3>1, <3>3, EmptySeq, LenProperties
    <3>5. root' = root
      BY <1>5, <3>1, <3>2, <3>4
    <3>6. \A n \in DOMAIN path[t] : SameShape(pivots[path[t][n]], pivots'[path[t][n]])
      BY <1>4, <3>1, <3>2
    <3>7. \A n \in DOMAIN path[t] :
            height'[path[t][n]] + n = height'[root'] + 1
      BY <1>3, <3>1, <3>5
    <3>8. ASSUME NEW n \in DOMAIN path[t], n + 1 \in DOMAIN path[t]
          PROVE  \E i \in DOMAIN pivots'[path[t][n]] :
                    pivots'[path[t][n]][i].child + 1 = path[t][n + 1]
      <4> DEFINE a == path[t][n]
                 z == path[t][n + 1]
      <4>1. (\E i \in DOMAIN pivots[a] : pivots[a][i].child + 1 = z)
            /\ SameShape(pivots[a], pivots'[a])
        BY <3>1, <3>6, <3>8
      <4> HIDE DEF a, z
      <4>2. \E i \in DOMAIN pivots'[a] : pivots'[a][i].child + 1 = z
        BY ONLY <4>1 DEF SameShape
      <4> QED BY <4>2 DEF a, z
    <3>9. pc[t] = "lpDown" => ~isLeaf'[Last(path[t])]
      BY <1>3, <3>1, <3>4 DEF Last
    <3>10. ASSUME pc[t] = "lpClear"
           PROVE  /\ Len(path[t]) > 1
                  /\ idx[t] \in DOMAIN pivots'[Last(Front(path[t]))]
      <4> DEFINE n == Len(path[t]) - 1
      <4>1. Len(path[t]) > 1 /\ idx[t] \in DOMAIN pivots[Last(Front(path[t]))]
        BY <1>1, <3>10 DEF ThreadInv, PathInv
      <4>2. n \in DOMAIN path[t] /\ Last(Front(path[t])) = path[t][n]
        <5> DEFINE s == path[t]
        <5>1. s \in Seq(Objs) /\ s # <<>> /\ Len(s) > 1
          BY <3>1, <3>3, <4>1
        <5> HIDE DEF s
        <5>2. /\ Len(s) \in Nat /\ DOMAIN s = 1..Len(s)
              /\ Len(Front(s)) = Len(s) - 1
              /\ \A l \in 1..(Len(s) - 1) : Front(s)[l] = s[l]
          BY <5>1, FrontLast
        <5>3. Len(s) - 1 \in 1..(Len(s) - 1) /\ Len(s) - 1 \in DOMAIN s
          BY <5>1, <5>2
        <5> QED BY <5>2, <5>3 DEF Last, s
      <4> DEFINE o == path[t][n]
      <4>3. SameShape(pivots[o], pivots'[o])
        BY <3>6, <4>2
      <4> HIDE DEF n, o
      <4>4. Last(Front(path[t])) = o
        BY <4>2 DEF o
      <4> QED BY <4>1, <4>3, <4>4 DEF SameShape
    <3> QED BY <3>1, <3>5, <3>7, <3>8, <3>9, <3>10
  <2> QED BY <1>2, <2>1, <2>2 DEF PathInv, OnPath, Splitting
<1>12. WriterAtRoot(t)'
  <2> SUFFICES ASSUME pc[t] = "insert" PROVE cur[t] = root'
    BY <1>2 DEF WriterAtRoot
  <2>1. cur[t] = root /\ cur[t] \in rd[t] \cup wr[t]
    BY <1>1 DEF ThreadInv, WriterAtRoot, HoldsCur
  <2> QED BY <1>5, <2>1
<1>13. MadeInv(t)'
  <2>1. CASE pc[t] \notin Filling
    BY <1>1, <1>2, <2>1 DEF ThreadInv, MadeInv, Filling
  <2>2. CASE pc[t] \in Filling
    <3>1. pc[t] \in OnPath /\ pc[u] \notin Splitting
      BY <2>2, OnePath DEF OnPath, Splitting
    <3>2. nodeCount' = nodeCount /\ MadeInv(t)
      BY <1>1, <3>1 DEF ThreadInv, Frame
    <3>3. ASSUME NEW n \in DOMAIN made[t]
          PROVE  /\ made[t][n] \in Live /\ made[t][n] \notin Known
                 /\ SameShape(pivots[made[t][n]], pivots'[made[t][n]])
                 /\ pivots'[made[t][n]] = <<>> <=> pivots[made[t][n]] = <<>>
      <4> DEFINE o == made[t][n]
      <4>1. o \in Objs
        BY <1>1, ElementOfSeq DEF TypeOK, CallsTypeOK
      <4>2. o \in {nodeCount - 1, nodeCount}
        BY <2>2, <3>2 DEF MadeInv, Filling
      <4>3. o \in Live /\ o \notin Known
        BY <1>3, <4>1, <4>2 DEF Live, Objs, Known, Unlinked
      <4> HIDE DEF o
      <4>4. SameShape(pivots[o], pivots'[o])
        BY <3>1, <4>3 DEF Frame
      <4>5. pivots[o] \in Seq(Pivot) /\ pivots'[o] \in Seq(Pivot)
        BY <1>1, <4>1 DEF TypeOK, NodesTypeOK
      <4>6. pivots'[o] = <<>> <=> pivots[o] = <<>>
        BY <4>4, <4>5, SameLength
      <4>7. /\ o \in Live /\ o \notin Known
            /\ SameShape(pivots[o], pivots'[o])
            /\ (pivots'[o] = <<>> <=> pivots[o] = <<>>)
        BY <4>3, <4>4, <4>6
      <4> QED BY <4>7, Zenon DEF o
    <3>4. /\ 1 \in DOMAIN made[t]
          /\ pc[t] \in {"spFirst", "spSecond", "grow"} => 2 \in DOMAIN made[t]
      BY <2>2, <3>2 DEF MadeInv, Filling
    <3>5. path[t] \in Seq(Objs) /\ path[t] # <<>>
      BY <1>1, <3>1 DEF TypeOK, CallsTypeOK, ThreadInv, PathInv
    <3>6. Last(path[t]) \in Known /\ Last(path[t]) \in wr[t]
      BY <1>1, <3>1, <3>5, FrontLast DEF ThreadInv, PathInv, HoldsPath, PathSet, Last
    <3>7. Len(pivots'[Last(path[t])]) = Len(pivots[Last(path[t])])
      <4>1. SameShape(pivots[Last(path[t])], pivots'[Last(path[t])])
        BY <1>4, <3>6
      <4>2. /\ pivots[Last(path[t])] \in Seq(Pivot)
            /\ pivots'[Last(path[t])] \in Seq(Pivot)
        BY <1>1, <3>5, FrontLast DEF TypeOK, NodesTypeOK
      <4> QED BY <4>1, <4>2, SameLength
    <3>8. root' = root
      BY <1>1, <1>5, <2>2, <3>1, <3>5, FrontLast DEF ThreadInv, PathInv, HoldsPath, PathSet
    <3>9. height'[Last(path[t])] = height[Last(path[t])] /\ height'[root'] = height[root]
      BY <1>3, <3>6, <3>8
    <3>10. /\ height'[made[t][1]] = height[made[t][1]]
           /\ (pivots'[made[t][1]] = <<>> <=> pivots[made[t][1]] = <<>>)
           /\ SameShape(pivots[made[t][1]], pivots'[made[t][1]])
      BY <1>3, <3>3, <3>4
    <3>11. pc[t] \in {"spFirst", "spSecond", "grow"} =>
             /\ height'[made[t][2]] = height[made[t][2]]
             /\ (pivots'[made[t][2]] = <<>> <=> pivots[made[t][2]] = <<>>)
      BY <1>3, <3>3, <3>4
    <3>12. \A i \in DOMAIN pivots'[made[t][1]] :
                pivots'[made[t][1]][i].leftKey # EmptyKey
      BY <2>2, <3>2, <3>10 DEF MadeInv, SameShape
    <3>13. MadeInv(t)
      BY <3>2
    <3>14. nodeCount' = nodeCount
      BY <3>2
    <3> QED BY <1>2, <2>2, <3>7, <3>8, <3>9, <3>10, <3>11, <3>12, <3>13, <3>14 DEF MadeInv
  <2> QED BY <2>1, <2>2
<1> QED BY <1>6, <1>7, <1>8, <1>9, <1>10, <1>11, <1>12, <1>13 DEF ThreadInv

\* The parts of the invariant put together after a step of thread u.
LEMMA Assemble ==
    ASSUME Protocol, NEW u \in Threads, Frame(u), LockStep(u),
           TypeOK', Naming', Tree', ThreadInv(u)'
    PROVE  Protocol'
<1>1. Exclusion'
  <2> SUFFICES ASSUME NEW t \in Threads, NEW v \in Threads, t # v,
                      NEW o \in wr'[t], o \in rd'[v] \cup wr'[v]
               PROVE  FALSE
    BY DEF Exclusion
  <2>1. o \in Objs
    BY DEF TypeOK, LocksTypeOK
  <2>2. Exclusion
    BY DEF Protocol
  <2>3. \A x \in Threads \ {u} : rd'[x] = rd[x] /\ wr'[x] = wr[x]
    BY DEF Frame
  <2>4. CASE t # u /\ v # u
    BY <2>2, <2>3, <2>4 DEF Exclusion
  <2>5. CASE t = u
    BY <2>1, <2>2, <2>3, <2>5 DEF Exclusion, LockStep, CanWrite
  <2>6. CASE v = u
    BY <2>1, <2>2, <2>3, <2>6 DEF Exclusion, LockStep, CanRead, CanWrite
  <2> QED BY <2>4, <2>5, <2>6
<1>2. pivots' \in [Objs -> Seq(Pivot)]
  BY DEF TypeOK, NodesTypeOK
<1>3. \A t \in Threads : ThreadInv(t)'
  BY <1>2, OthersKeep
<1> QED BY <1>1, <1>3 DEF Protocol

-----------------------------------------------------------------------------
\* Consequences of the types that many steps need.
LEMMA Basics ==
    ASSUME TypeOK
    PROVE  /\ nodeCount \in Nat /\ nodeCount \in Objs /\ Live \subseteq Objs
           /\ root \in Live /\ root \in Objs /\ 1 \in Live /\ 1 \in Objs
           /\ 1 \in Keys /\ AnyRequest \in [op : Ops, key : Keys, value : Values]
           /\ MaxOps \in Nat /\ Known \subseteq Live
<1>1. nodeCount \in Nat /\ nodeCount \in Objs /\ root \in Live
  BY DEF TypeOK, NodesTypeOK, Objs
<1>2. Live \subseteq Objs /\ 1 \in Live
  BY <1>1, MaxNodesAssumption DEF Live, Objs
<1>3. AnyRequest \in Requests
  BY RequestsAssumption DEF AnyRequest
<1> QED BY <1>1, <1>2, <1>3, RequestsAssumption, OptionsAssumption, KeySets DEF Known

\* The tree leads to the root, and to the first node if it is the root no more.
LEMMA KnownNodes ==
    ASSUME Protocol
    PROVE  root \in Known /\ 1 \in Known
<1>1. root \in Known /\ TypeOK
  BY DEF Protocol, Naming
<1>2. nodeCount \in Nat /\ 1 \in Live /\ root \in Live
  BY <1>1, Basics
<1>3. ASSUME NEW t \in Threads, NEW n \in DOMAIN made[t], made[t][n] = 1
      PROVE  FALSE
  <2>1. MadeInv(t)
    BY DEF Protocol, ThreadInv
  <2>2. pc[t] \in Filling
    BY <1>3, <2>1 DEF MadeInv
  <2>3. CASE made[t] = <<nodeCount>>
    <3>1. nodeCount = 1 /\ root = 1
      BY <1>2, <1>3, <2>3 DEF Live
    <3> QED BY <1>1, <1>3, <3>1 DEF Known, Unlinked
  <2>4. CASE made[t] = <<nodeCount - 1, nodeCount>>
    <3>1. nodeCount \in {1, 2} /\ root \in {1, 2}
      BY <1>2, <1>3, <2>4 DEF Live
    <3>2. \E l \in DOMAIN made[t] : made[t][l] = root
      BY <1>2, <1>3, <2>4, <3>1 DEF Live
    <3> QED BY <1>1, <3>2 DEF Known, Unlinked
  <2> QED BY <2>1, <2>2, <2>3, <2>4 DEF MadeInv, Filling
<1> QED BY <1>1, <1>2, <1>3 DEF Known, Unlinked

\* A step that leaves the nodes alone keeps the tree.
LEMMA CalmNodes ==
    ASSUME Protocol, UNCHANGED <<nodeVars, made>>
    PROVE  NodesTypeOK' /\ Naming' /\ Tree' /\ Live' = Live /\ Known' = Known
<1>1. Live' = Live /\ Known' = Known
  BY DEF Live, Known, Unlinked, nodeVars
<1>2. NodesTypeOK' /\ Naming'
  BY <1>1 DEF Protocol, TypeOK, NodesTypeOK, Naming, nodeVars
<1>3. Tree'
  BY <1>1 DEF Protocol, Tree, TreeNode, nodeVars
<1> QED BY <1>1, <1>2, <1>3

\* Such a step also satisfies what Frame says about nodes, for any thread.
LEMMA CalmFrame ==
    ASSUME Protocol, UNCHANGED <<nodeVars, made>>
    PROVE  /\ nodeCount' \in Nat /\ nodeCount <= nodeCount' /\ root' = root
           /\ nodeCount' = nodeCount /\ Known \subseteq Known'
           /\ \A o \in Live : /\ isLeaf'[o] = isLeaf[o]
                              /\ height'[o] = height[o]
                              /\ SameShape(pivots[o], pivots'[o])
<1>1. nodeCount \in Nat
  BY Basics DEF Protocol
<1> QED BY <1>1, CalmNodes DEF nodeVars, SameShape

\* Outside lockPath and splitNode a thread has no path and no mutex.
LEMMA NoPath ==
    ASSUME NEW u \in Threads, ThreadInv(u),
           pc[u] \notin {"lpRoot"} \cup OnPath
    PROVE  path[u] = <<>> /\ split[u] = {} /\ made[u] = <<>> /\ mutexLockPath # u
BY DEF ThreadInv, PathInv, MadeInv, HoldsMutex, OnPath, Splitting, Filling

\* What a step must establish for its own thread, by the kind of control
\* point it leads to: one at which the thread holds nothing,
LEMMA ToRest ==
    ASSUME NEW u \in Threads,
           pc'[u] \in {"idle", "incRef", "decRef", "writeLock", "relock",
                       "lockPath", "getLock"},
           Places(u)', rd'[u] = {}, wr'[u] = {},
           path'[u] = <<>>, split'[u] = {}, made'[u] = <<>>, mutexLockPath' # u
    PROVE  ThreadInv(u)'
<1>1. AtWork(u)' /\ HoldsCur(u)' /\ HoldsRead(u)' /\ HoldsChild(u)' /\ HoldsPath(u)'
  BY DEF AtWork, HoldsCur, HoldsRead, HoldsChild, HoldsPath, OnPath, Splitting, Filling
<1>2. HoldsNone(u)' /\ HoldsMutex(u)' /\ PathInv(u)' /\ MadeInv(u)' /\ WriterAtRoot(u)'
  BY DEF HoldsNone, HoldsMutex, PathInv, MadeInv, WriterAtRoot, OnPath, Splitting, Filling
<1> QED BY <1>1, <1>2 DEF ThreadInv

\* one at which it holds the node at work as optionalLock does,
LEMMA ToPush ==
    ASSUME NEW u \in Threads,
           pc'[u] \in {"insert", "push"},
           pc'[u] = "insert" => cur'[u] = root',
           Places(u)',
           rd'[u] = IF isLeaf'[cur'[u]] THEN {} ELSE {cur'[u]},
           wr'[u] = IF isLeaf'[cur'[u]] THEN {cur'[u]} ELSE {},
           path'[u] = <<>>, split'[u] = {}, made'[u] = <<>>, mutexLockPath' # u
    PROVE  ThreadInv(u)'
<1>1. AtWork(u)' /\ HoldsRead(u)' /\ HoldsChild(u)' /\ HoldsPath(u)' /\ HoldsNone(u)'
  BY DEF AtWork, HoldsRead, HoldsChild, HoldsPath, HoldsNone, OnPath, Splitting, Filling
<1>2. HoldsMutex(u)' /\ PathInv(u)' /\ MadeInv(u)' /\ WriterAtRoot(u)' /\ HoldsCur(u)'
  BY DEF HoldsCur, HoldsMutex, PathInv, MadeInv, WriterAtRoot, OnPath, Splitting, Filling
<1> QED BY <1>1, <1>2 DEF ThreadInv

\* one at which it has read-locked the node at work,
LEMMA ToRead ==
    ASSUME NEW u \in Threads,
           pc'[u] \in {"pushDown", "getLook", "getDown"},
           pc'[u] # "getLook" => /\ idx'[u] \in DOMAIN pivots'[cur'[u]]
                                 /\ ~isLeaf'[cur'[u]],
           Places(u)', rd'[u] = {cur'[u]}, wr'[u] = {},
           path'[u] = <<>>, split'[u] = {}, made'[u] = <<>>, mutexLockPath' # u
    PROVE  ThreadInv(u)'
<1>1. AtWork(u)' /\ HoldsRead(u)' /\ HoldsChild(u)' /\ HoldsPath(u)' /\ HoldsNone(u)'
  BY DEF AtWork, HoldsRead, HoldsChild, HoldsPath, HoldsNone, OnPath, Splitting, Filling
<1>2. HoldsMutex(u)' /\ PathInv(u)' /\ MadeInv(u)' /\ WriterAtRoot(u)' /\ HoldsCur(u)'
  BY DEF HoldsCur, HoldsMutex, PathInv, MadeInv, WriterAtRoot, OnPath, Splitting, Filling
<1> QED BY <1>1, <1>2 DEF ThreadInv

\* one at which it has locked the child too,
LEMMA ToChild ==
    ASSUME NEW u \in Threads,
           pc'[u] \in {"pushBuf", "moving", "clearing"},
           idx'[u] \in DOMAIN pivots'[cur'[u]], ~isLeaf'[cur'[u]],
           LET c == pivots'[cur'[u]][idx'[u]].child + 1
           IN  /\ rd'[u] = IF isLeaf'[c] THEN {cur'[u]} ELSE {cur'[u], c}
               /\ wr'[u] = IF isLeaf'[c] THEN {c} ELSE {}
               /\ pc'[u] = "moving" => ~isLeaf'[c],
           Places(u)',
           path'[u] = <<>>, split'[u] = {}, made'[u] = <<>>, mutexLockPath' # u
    PROVE  ThreadInv(u)'
<1>1. AtWork(u)' /\ HoldsRead(u)' /\ HoldsCur(u)' /\ HoldsPath(u)' /\ HoldsNone(u)'
  BY DEF AtWork, HoldsRead, HoldsCur, HoldsPath, HoldsNone, OnPath, Splitting, Filling
<1>2. HoldsMutex(u)' /\ PathInv(u)' /\ MadeInv(u)' /\ WriterAtRoot(u)'
  BY DEF HoldsMutex, PathInv, MadeInv, WriterAtRoot, OnPath, Splitting, Filling
<1>3. HoldsChild(u)'
  BY DEF HoldsChild
<1> QED BY <1>1, <1>2, <1>3 DEF ThreadInv

\* and one at which it has locked a path.
LEMMA ToPath ==
    ASSUME NEW u \in Threads,
           pc'[u] \in OnPath,
           mutexLockPath' = u <=> pc'[u] \in {"lpDown", "lpClear"},
           pc'[u] \notin Splitting => split'[u] = {},
           rd'[u] = {}, wr'[u] = PathSet(u)' \cup split'[u],
           Places(u)', MadeInv(u)',
           \A n \in DOMAIN path'[u] : path'[u][n] \in Known',
           path'[u] # <<>>, path'[u][1] = root',
           \A n \in DOMAIN path'[u] :
                height'[path'[u][n]] + n = height'[root'] + 1,
           \A n \in DOMAIN path'[u] : n + 1 \in DOMAIN path'[u] =>
                \E i \in DOMAIN pivots'[path'[u][n]] :
                    pivots'[path'[u][n]][i].child + 1 = path'[u][n + 1],
           pc'[u] = "lpDown" => ~isLeaf'[Last(path'[u])],
           pc'[u] = "lpClear" =>
                /\ Len(path'[u]) > 1
                /\ idx'[u] \in DOMAIN pivots'[Last(Front(path'[u]))]
    PROVE  ThreadInv(u)'
<1>1. AtWork(u)' /\ HoldsRead(u)' /\ HoldsCur(u)' /\ HoldsChild(u)' /\ HoldsNone(u)'
  BY DEF AtWork, HoldsRead, HoldsCur, HoldsChild, HoldsNone, OnPath, Splitting, Filling
<1>2. HoldsMutex(u)' /\ HoldsPath(u)' /\ WriterAtRoot(u)'
  BY DEF HoldsMutex, HoldsPath, WriterAtRoot, OnPath, Splitting, Filling
<1>3. PathInv(u)'
  BY DEF PathInv, OnPath, Splitting, Filling
<1> QED BY <1>1, <1>2, <1>3 DEF ThreadInv

\* The point at which it waits for the root's lock.
LEMMA ToRoot ==
    ASSUME NEW u \in Threads,
           pc'[u] = "lpRoot", mutexLockPath' = u,
           rd'[u] = {}, wr'[u] = {}, split'[u] = {}, made'[u] = <<>>,
           Places(u)', path'[u] = <<root>>, root \in Known'
    PROVE  ThreadInv(u)'
<1>1. AtWork(u)' /\ HoldsRead(u)' /\ HoldsCur(u)' /\ HoldsChild(u)' /\ HoldsNone(u)'
  BY DEF AtWork, HoldsRead, HoldsCur, HoldsChild, HoldsNone
<1>2. HoldsMutex(u)' /\ HoldsPath(u)' /\ WriterAtRoot(u)'
  BY DEF HoldsMutex, HoldsPath, WriterAtRoot, OnPath, Splitting, Filling
<1>3. PathInv(u)' /\ MadeInv(u)'
  BY DEF PathInv, MadeInv, OnPath, Splitting, Filling
<1> QED BY <1>1, <1>2, <1>3 DEF ThreadInv

-----------------------------------------------------------------------------
\* Facts about the nodes a step refers to.

\* The pivots of a node are well typed, and a node in use has one for every key.
LEMMA NodeFacts ==
    ASSUME TypeOK, Tree, NEW o \in Live
    PROVE  /\ o \in Objs /\ pivots[o] \in Seq(Pivot)
           /\ height[o] \in Nat /\ isLeaf[o] \in BOOLEAN
           /\ o \in Known =>
                /\ pivots[o] # <<>>
                /\ \A k \in Keys : FindPivot(pivots[o], k) \in DOMAIN pivots[o]
<1>1. /\ o \in Objs /\ pivots[o] \in Seq(Pivot) /\ height[o] \in Nat
      /\ isLeaf[o] \in BOOLEAN
  BY Basics DEF TypeOK, NodesTypeOK
<1>2. o \in Known => pivots[o] # <<>>
  BY DEF Tree, TreeNode
<1> QED BY <1>1, <1>2, FindPivotIn, KeySets

\* A link leads to a node in use, one level down.
LEMMA ChildFacts ==
    ASSUME TypeOK, Naming, Tree, NEW o \in Live, NEW i \in DOMAIN pivots[o],
           pivots[o][i].child # NID_NIL \/ ~isLeaf[o]
    PROVE  /\ ~isLeaf[o] /\ pivots[o][i].child # NID_NIL
           /\ pivots[o][i].child \in 1..(nodeCount - 1)
           /\ Child(o, i) = pivots[o][i].child + 1
           /\ Child(o, i) \in Live
           /\ o \in Known => Child(o, i) \in Known
           /\ height[Child(o, i)] + 1 = height[o]
           /\ Child(o, i) # o
<1>1. ~isLeaf[o]
  BY DEF Tree, TreeNode
<1>2. /\ pivots[o][i].child \in 1..(nodeCount - 1)
      /\ height[pivots[o][i].child + 1] + 1 = height[o]
      /\ o \in Known => pivots[o][i].child + 1 \in Known
  BY <1>1 DEF Tree, TreeNode
<1>3. Child(o, i) = pivots[o][i].child + 1
  BY <1>2 DEF Child, Naming
<1>4. Child(o, i) \in Live /\ pivots[o][i].child # NID_NIL
  <2>1. nodeCount \in Nat
    BY Basics
  <2> QED BY <1>2, <1>3, <2>1 DEF Live, NID_NIL
<1>5. height[o] \in Nat /\ height[Child(o, i)] \in Nat
  BY <1>4, NodeFacts
<1>6. height[Child(o, i)] + 1 = height[o]
  BY <1>2, <1>3
<1>7. Child(o, i) # o
  BY <1>5, <1>6
<1> QED BY <1>1, <1>2, <1>3, <1>4, <1>6, <1>7

\* A buffer that is too large is a buffer of the node, and not empty.
LEMMA OverfullFacts ==
    ASSUME TypeOK, Tree, NEW o \in Live, Overfull(o) # {}
    PROVE  LET i == Smallest(Overfull(o))
           IN  /\ i \in DOMAIN pivots[o]
               /\ Present(pivots[o][i].buf.msgs) # {}
<1> DEFINE i == Smallest(Overfull(o))
<1>1. Overfull(o) \subseteq DOMAIN pivots[o] /\ DOMAIN pivots[o] \subseteq Nat
  BY NodeFacts, PivotsSeq DEF Overfull
<1>2. i \in Overfull(o)
  BY <1>1, SmallestIn
<1> HIDE DEF i
<1>3. i \in DOMAIN pivots[o] /\ pivots[o][i].buf.size \in Int
  BY <1>1, <1>2, NodeFacts, PivotsSeq
<1>4. pivots[o][i].buf.size # 0
  BY <1>2, <1>3, OptionsAssumption DEF Overfull, BufSize
<1>5. Tight(pivots[o][i].buf)
  BY <1>3 DEF Tree, TreeNode
<1> QED BY <1>3, <1>4, <1>5 DEF Tight, i

\* Of the nodes of the tree only the root has the nid of the root.
LEMMA RootNid ==
    ASSUME TypeOK, Naming, NEW o \in Known, nid[root] = nid[o]
    PROVE  o = root
<1>1. nodeCount \in Nat /\ root \in Live /\ o \in Live
  BY Basics
<1>2. root \in Int /\ o \in Int /\ root >= 1
  BY <1>1 DEF Live
<1>3. nid[root] = (IF root = 1 THEN 1 ELSE root - 1) /\ nid[o] = (IF o = 1 THEN 1 ELSE o - 1)
  BY <1>1 DEF Naming
<1>4. CASE root = 1
  BY <1>4 DEF Naming
<1>5. CASE root # 1
  <2>1. root # 2
    BY DEF Naming
  <2>2. nid[root] = root - 1 /\ root - 1 # 1
    BY <1>2, <1>3, <1>5, <2>1
  <2>3. o # 1
    BY <1>3, <2>2
  <2>4. o - 1 = root - 1
    BY <1>3, <2>2, <2>3
  <2> QED BY <1>2, <2>4
<1> QED BY <1>4, <1>5

-----------------------------------------------------------------------------
\* Steps that change messages, but no links.

\* What such a step must keep: the shape of the pivots, and Tight.
BufferStep ==
    /\ UNCHANGED <<isLeaf, nid, nodeMap, nodeCount, root, height, made>>
    /\ pivots' \in [Objs -> Seq(Pivot)]
    /\ \A o \in Live :
        /\ SameShape(pivots[o], pivots'[o])
        /\ \A i \in DOMAIN pivots[o] : Tight(pivots'[o][i].buf)

\* A step that changes messages only keeps the tree and what Frame says about
\* nodes.
LEMMA BufferNodes ==
    ASSUME Protocol, BufferStep
    PROVE  /\ NodesTypeOK' /\ Naming' /\ Tree' /\ Live' = Live /\ Known' = Known
           /\ nodeCount' \in Nat /\ nodeCount <= nodeCount' /\ root' = root
           /\ nodeCount' = nodeCount /\ Known \subseteq Known'
           /\ \A o \in Live : /\ isLeaf'[o] = isLeaf[o]
                              /\ height'[o] = height[o]
                              /\ SameShape(pivots[o], pivots'[o])
<1>1. nodeCount \in Nat /\ TypeOK /\ Naming /\ Tree
  BY Basics DEF Protocol
<1>2. /\ UNCHANGED <<isLeaf, nid, nodeMap, nodeCount, root, height>>
      /\ Live' = Live /\ Known' = Known
  BY DEF BufferStep, Live, Known, Unlinked
<1>3. NodesTypeOK' /\ Naming'
  BY <1>1, <1>2 DEF TypeOK, NodesTypeOK, Naming, BufferStep
<1>4. ASSUME NEW o \in Live PROVE TreeNode(o)'
  <2>1. TreeNode(o) /\ SameShape(pivots[o], pivots'[o])
    BY <1>1 DEF Tree, BufferStep
  <2>2. pivots[o] \in Seq(Pivot) /\ pivots'[o] \in Seq(Pivot)
    BY <1>1, NodeFacts, Basics DEF BufferStep
  <2>3. pivots'[o] = <<>> <=> pivots[o] = <<>>
    BY <2>1, <2>2, SameLength
  <2>4. \A i \in DOMAIN pivots'[o] :
          /\ i \in DOMAIN pivots[o]
          /\ pivots'[o][i].child = pivots[o][i].child
          /\ pivots'[o][i].leftKey = pivots[o][i].leftKey
          /\ Tight(pivots'[o][i].buf)
    BY <2>1 DEF BufferStep, SameShape
  <2> QED BY <1>2, <2>1, <2>3, <2>4 DEF TreeNode
<1>5. Tree'
  BY <1>2, <1>4 DEF Tree
<1> QED BY <1>1, <1>2, <1>3, <1>5 DEF BufferStep

\* A step that changes the messages of one node.
LEMMA OneNodeStep ==
    ASSUME Protocol, NEW c \in Live, NEW q \in Seq(Pivot), SameShape(pivots[c], q),
           \A j \in DOMAIN pivots[c] : Tight(q[j].buf),
           pivots' = [pivots EXCEPT ![c] = q],
           UNCHANGED <<isLeaf, nid, nodeMap, nodeCount, root, height, made>>
    PROVE  BufferStep
<1>1. c \in Objs /\ pivots \in [Objs -> Seq(Pivot)] /\ Live \subseteq Objs
  BY Basics DEF Protocol, TypeOK, NodesTypeOK
<1>2. pivots' \in [Objs -> Seq(Pivot)]
  BY <1>1
<1>3. pivots'[c] = q /\ \A n \in Objs \ {c} : pivots'[n] = pivots[n]
  BY <1>1
<1>4. ASSUME NEW n \in Live
      PROVE  /\ SameShape(pivots[n], pivots'[n])
             /\ \A j \in DOMAIN pivots[n] : Tight(pivots'[n][j].buf)
  <2>1. CASE n = c
    BY <1>3, <2>1
  <2>2. CASE n # c
    <3>1. pivots'[n] = pivots[n]
      BY <1>1, <1>3, <2>2
    <3> QED BY <3>1 DEF SameShape, Protocol, Tree, TreeNode
  <2> QED BY <2>1, <2>2
<1> QED BY <1>2, <1>4 DEF BufferStep

\* A new buffer is tight, and a buffer.
LEMMA EmptyBufFacts == EmptyBuf \in MsgBuf /\ Tight(EmptyBuf)
BY DEF EmptyBuf, MsgBuf, Tight

\* Node::pushDownLocked copies messages from a node to another.
LEMMA CopyStep ==
    ASSUME Protocol, NEW o \in Live, NEW i \in DOMAIN pivots[o], NEW c \in Live,
           NEW K \in SUBSET Present(pivots[o][i].buf.msgs), Copy(o, i, c, K),
           UNCHANGED <<isLeaf, nid, nodeMap, nodeCount, root, height, made>>
    PROVE  BufferStep
<1> DEFINE msgs == pivots[o][i].buf.msgs
           q == PushInto(pivots[c], msgs, K)
<1>1. /\ o \in Objs /\ c \in Objs /\ pivots \in [Objs -> Seq(Pivot)]
      /\ pivots[o] \in Seq(Pivot) /\ pivots[c] \in Seq(Pivot)
  BY Basics DEF Protocol, TypeOK, NodesTypeOK
<1>2. msgs \in [Keys -> Messages \cup {NoMsg}] /\ K \in SUBSET Keys /\ K \subseteq Present(msgs)
  BY <1>1, PivotsSeq DEF Present
<1>3. pivots' = [pivots EXCEPT ![c] = q]
  BY <1>1 DEF Copy
<1>4. /\ q \in Seq(Pivot) /\ SameShape(pivots[c], q)
      /\ \A j \in DOMAIN pivots[c] : q[j].buf =
            InsertAll(pivots[c][j].buf, msgs, Routed(pivots[c], K, j))
  <2> HIDE DEF msgs
  <2>1. q \in Seq(Pivot) /\ SameShape(pivots[c], q)
    BY <1>1, <1>2, PushIntoResult
  <2>2. \A j \in DOMAIN pivots[c] :
            q[j].buf = InsertAll(pivots[c][j].buf, msgs, Routed(pivots[c], K, j))
    BY <1>1, <1>2, PushIntoResult, SMTT(30)
  <2> QED BY <2>1, <2>2
<1>5. \A n \in Live : \A j \in DOMAIN pivots[n] : Tight(pivots[n][j].buf)
  BY DEF Protocol, Tree, TreeNode
<1>6. \A j \in DOMAIN pivots[c] : Tight(q[j].buf)
  <2> SUFFICES ASSUME NEW j \in DOMAIN pivots[c] PROVE Tight(q[j].buf)
    OBVIOUS
  <2>1. pivots[c][j].buf \in MsgBuf /\ Tight(pivots[c][j].buf)
    BY <1>1, <1>5, PivotsSeq
  <2>2. Routed(pivots[c], K, j) \in SUBSET Present(msgs)
    BY <1>2 DEF Routed
  <2> QED BY <1>2, <1>4, <2>1, <2>2, InsertAllTight
<1> HIDE DEF q
<1> QED BY <1>1, <1>3, <1>4, <1>6, OneNodeStep

\* buf->clear() empties one buffer.
LEMMA ClearStep ==
    ASSUME Protocol, NEW o \in Live, NEW i \in DOMAIN pivots[o], Clear(o, i),
           UNCHANGED <<isLeaf, nid, nodeMap, nodeCount, root, height, made>>
    PROVE  BufferStep
<1> DEFINE q == WithBuf(pivots[o], i, EmptyBuf)
<1>1. /\ o \in Objs /\ pivots \in [Objs -> Seq(Pivot)] /\ pivots[o] \in Seq(Pivot)
  BY Basics DEF Protocol, TypeOK, NodesTypeOK
<1>2. pivots' = [pivots EXCEPT ![o] = q]
  BY <1>1 DEF Clear
<1>3. EmptyBuf \in MsgBuf /\ Tight(EmptyBuf)
  BY EmptyBufFacts
<1>4. /\ q \in Seq(Pivot) /\ SameShape(pivots[o], q)
      /\ \A j \in DOMAIN pivots[o] :
            q[j].buf = IF j = i THEN EmptyBuf ELSE pivots[o][j].buf
  BY <1>1, <1>3, WithBufResult
<1>5. \A j \in DOMAIN pivots[o] : Tight(q[j].buf)
  BY <1>3, <1>4 DEF Protocol, Tree, TreeNode
<1> HIDE DEF q
<1> QED BY <1>1, <1>2, <1>4, <1>5, OneNodeStep

-----------------------------------------------------------------------------
\* Steps that change links.

\* Nodes are only added, and keep their level.
Grows ==
    /\ nodeCount' \in Nat /\ nodeCount <= nodeCount'
    /\ Known \subseteq Known'
    /\ \A n \in Live : height'[n] = height[n]

\* A node was part of the tree before, or no node is left in the making.
JoinsFrom(n) == n \in Known \/ Known' = Live'

\* A node m whose pivots come from node n, in order, or are new links that are
\* as they should be, is a proper node of the tree.
LEMMA TreeNodeFrom ==
    ASSUME TypeOK, Tree, Grows, NEW n \in Live, NEW m,
           m \in Known' => JoinsFrom(n) /\ pivots'[m] # <<>>,
           isLeaf'[m] = isLeaf[n], height'[m] = height[n],
           \A j \in DOMAIN pivots'[m] :
              \/ \E l \in DOMAIN pivots[n] :
                    /\ pivots'[m][j].child = pivots[n][l].child
                    /\ pivots'[m][j].leftKey = pivots[n][l].leftKey
                    /\ Tight(pivots'[m][j].buf)
                    /\ j > 1 => l > 1
              \/ /\ pivots'[m][j].leftKey # EmptyKey
                 /\ Tight(pivots'[m][j].buf)
                 /\ isLeaf[n] => pivots'[m][j].child = NID_NIL
                 /\ ~isLeaf[n] =>
                        /\ pivots'[m][j].child \in 1..(nodeCount' - 1)
                        /\ m \in Known' => pivots'[m][j].child + 1 \in Known'
                        /\ height'[pivots'[m][j].child + 1] + 1 = height[n]
    PROVE  TreeNode(m)'
<1>1. TreeNode(n) /\ nodeCount \in Nat /\ nodeCount' \in Nat /\ nodeCount <= nodeCount'
  BY Basics DEF Tree, Grows
<1>2. ASSUME NEW j \in DOMAIN pivots'[m]
      PROVE  /\ j > 1 => pivots'[m][j].leftKey # EmptyKey
             /\ Tight(pivots'[m][j].buf)
             /\ isLeaf[n] => pivots'[m][j].child = NID_NIL
             /\ ~isLeaf[n] =>
                    /\ pivots'[m][j].child \in 1..(nodeCount' - 1)
                    /\ m \in Known' => pivots'[m][j].child + 1 \in Known'
                    /\ height'[pivots'[m][j].child + 1] + 1 = height[n]
  <2>1. ASSUME NEW l \in DOMAIN pivots[n],
               pivots'[m][j].child = pivots[n][l].child,
               pivots'[m][j].leftKey = pivots[n][l].leftKey,
               Tight(pivots'[m][j].buf), j > 1 => l > 1
        PROVE  /\ j > 1 => pivots'[m][j].leftKey # EmptyKey
               /\ Tight(pivots'[m][j].buf)
               /\ isLeaf[n] => pivots'[m][j].child = NID_NIL
               /\ ~isLeaf[n] =>
                    /\ pivots'[m][j].child \in 1..(nodeCount' - 1)
                    /\ m \in Known' => pivots'[m][j].child + 1 \in Known'
                    /\ height'[pivots'[m][j].child + 1] + 1 = height[n]
    <3>1. ASSUME ~isLeaf[n]
          PROVE  /\ pivots[n][l].child \in 1..(nodeCount' - 1)
                 /\ m \in Known' => pivots[n][l].child + 1 \in Known'
                 /\ height'[pivots[n][l].child + 1] + 1 = height[n]
      <4>1. /\ pivots[n][l].child \in 1..(nodeCount - 1)
            /\ n \in Known => pivots[n][l].child + 1 \in Known
            /\ height[pivots[n][l].child + 1] + 1 = height[n]
        BY <1>1, <3>1 DEF TreeNode
      <4>2. pivots[n][l].child + 1 \in Live /\ pivots[n][l].child + 1 \in Live'
        BY <1>1, <4>1 DEF Live
      <4>3. m \in Known' => pivots[n][l].child + 1 \in Known'
        BY <4>1, <4>2 DEF Grows, JoinsFrom
      <4> QED BY <1>1, <4>1, <4>2, <4>3 DEF Grows
    <3> QED BY <1>1, <2>1, <3>1 DEF TreeNode
  <2> QED BY <2>1
<1>3. isLeaf'[m] <=> height'[m] = 0
  BY <1>1 DEF TreeNode
<1> QED BY <1>2, <1>3 DEF TreeNode

\* A node the step does not touch.
LEMMA TreeNodeKept ==
    ASSUME TypeOK, Tree, Grows, NEW n \in Live,
           pivots'[n] = pivots[n], isLeaf'[n] = isLeaf[n],
           n \in Known' => JoinsFrom(n),
           n \in Known' /\ n \notin Known => pivots[n] # <<>>
    PROVE  TreeNode(n)'
<1>1. /\ TreeNode(n) /\ height'[n] = height[n]
      /\ n \in Known' => pivots'[n] # <<>>
  BY DEF Tree, TreeNode, Grows
<1>2. \A j \in DOMAIN pivots'[n] : Tight(pivots'[n][j].buf)
  BY <1>1 DEF TreeNode
<1> QED BY <1>1, <1>2, TreeNodeFrom

\* What a thread knows of the path it has locked.
LEMMA PathFacts ==
    ASSUME Protocol, NEW u \in Threads, pc[u] \in OnPath
    PROVE  LET s == path[u]
           IN  /\ s \in Seq(Objs) /\ s # <<>> /\ s[1] = root
               /\ Len(s) \in Nat \ {0} /\ DOMAIN s = 1..Len(s)
               /\ Last(s) \in Known /\ Last(s) \in Live /\ Last(s) = s[Len(s)]
               /\ rd[u] = {} /\ wr[u] = PathSet(u) \cup split[u]
               /\ \A n \in 1..Len(s) :
                    s[n] \in Known /\ s[n] \in Live /\ s[n] \in wr[u]
               /\ \A n \in 1..Len(s) : height[s[n]] + n = height[root] + 1
               /\ \A n \in 1..Len(s) : height[s[n]] \in Nat
               /\ height[root] \in Nat
               /\ \A n \in 1..Len(s) : n + 1 \in 1..Len(s) =>
                    \E i \in DOMAIN pivots[s[n]] : pivots[s[n]][i].child + 1 = s[n + 1]
               /\ \A n, l \in 1..Len(s) : s[n] = s[l] => n = l
<1> DEFINE s == path[u]
<1>1. TypeOK /\ ThreadInv(u) /\ Tree
  BY DEF Protocol
<1>2. s \in Seq(Objs) /\ s # <<>> /\ s[1] = root
  BY <1>1 DEF TypeOK, CallsTypeOK, ThreadInv, PathInv
<1>3. Len(s) \in Nat \ {0} /\ DOMAIN s = 1..Len(s) /\ Last(s) = s[Len(s)] /\ Len(s) \in 1..Len(s)
  BY <1>2, FrontLast DEF Last
<1>4. rd[u] = {} /\ wr[u] = PathSet(u) \cup split[u]
  BY <1>1 DEF ThreadInv, HoldsPath
<1>5. \A n \in 1..Len(s) : s[n] \in Known /\ s[n] \in Live /\ s[n] \in wr[u]
  BY <1>1, <1>3, <1>4, Basics DEF ThreadInv, PathInv, PathSet
<1>6. \A n \in 1..Len(s) : height[s[n]] + n = height[root] + 1
  BY <1>1, <1>3 DEF ThreadInv, PathInv
<1>7. height[root] \in Nat /\ \A n \in 1..Len(s) : height[s[n]] \in Nat
  BY <1>1, <1>5, NodeFacts, Basics
<1>8. \A n \in 1..Len(s) : n + 1 \in 1..Len(s) =>
        \E i \in DOMAIN pivots[s[n]] : pivots[s[n]][i].child + 1 = s[n + 1]
  BY <1>1, <1>3 DEF ThreadInv, PathInv
<1>9. \A n, l \in 1..Len(s) : s[n] = s[l] => n = l
  <2> SUFFICES ASSUME NEW n \in 1..Len(s), NEW l \in 1..Len(s), s[n] = s[l] PROVE n = l
    OBVIOUS
  <2>1. height[s[n]] + n = height[s[n]] + l /\ height[s[n]] \in Nat
    BY <1>6, <1>7
  <2> HIDE DEF s
  <2> QED BY <1>3, <2>1
<1> QED BY <1>2, <1>3, <1>4, <1>5, <1>6, <1>7, <1>8, <1>9

\* Only the thread inside splitNode has nodes in the making.
LEMMA KnownIs ==
    ASSUME Protocol, NEW u \in Threads, pc[u] \in OnPath,
           \A t \in Threads \ {u} : made'[t] = made[t]
    PROVE  /\ Known = Live \ {made[u][n] : n \in DOMAIN made[u]}
           /\ Known' = Live' \ {made'[u][n] : n \in DOMAIN made'[u]}
<1>1. ASSUME NEW t \in Threads \ {u} PROVE made[t] = <<>> /\ made'[t] = <<>>
  <2>1. pc[t] \notin Filling
    BY OnePath DEF OnPath, Splitting
  <2> QED BY <2>1 DEF Protocol, ThreadInv, MadeInv
<1>2. \A t \in Threads \ {u} :
            /\ {made[t][n] : n \in DOMAIN made[t]} = {}
            /\ {made'[t][n] : n \in DOMAIN made'[t]} = {}
  <2>1. \A n \in DOMAIN <<>> : FALSE
    OBVIOUS
  <2> QED BY <1>1, <2>1
<1>3. Unlinked = {made[u][n] : n \in DOMAIN made[u]}
  <2> DEFINE M(t) == {made[t][n] : n \in DOMAIN made[t]}
  <2>1. \A t \in Threads \ {u} : M(t) = {}
    BY <1>2
  <2>2. Unlinked = UNION {M(t) : t \in Threads}
    BY DEF Unlinked
  <2> HIDE DEF M
  <2>3. UNION {M(t) : t \in Threads} = M(u)
    BY <2>1
  <2> QED BY <2>2, <2>3 DEF M
<1>4. Unlinked' = {made'[u][n] : n \in DOMAIN made'[u]}
  <2> DEFINE M(t) == {made'[t][n] : n \in DOMAIN made'[t]}
  <2>1. \A t \in Threads \ {u} : M(t) = {}
    BY <1>2
  <2>2. Unlinked' = UNION {M(t) : t \in Threads}
    BY DEF Unlinked
  <2> HIDE DEF M
  <2>3. UNION {M(t) : t \in Threads} = M(u)
    BY <2>1
  <2> QED BY <2>2, <2>3 DEF M
<1> QED BY <1>3, <1>4 DEF Known

-----------------------------------------------------------------------------
\* Actions that start and end a call, and locks.

\* Decrementing a positive count leaves natural numbers.
LEMMA OneLess ==
    ASSUME NEW S, NEW f \in [S -> Nat], NEW x, f[x] > 0
    PROVE  [f EXCEPT ![x] = @ - 1] \in [S -> Nat]
<1>1. ASSUME NEW y \in S
      PROVE  [f EXCEPT ![x] = @ - 1][y] \in Nat
  <2>1. CASE y = x
    BY <2>1
  <2>2. CASE y # x
    BY <2>2
  <2> QED BY <2>1, <2>2
<1> QED BY <1>1

\* A call starts at the root.
LEMMA BeginInv ==
    ASSUME Protocol, NEW u \in Threads, Begin(u)
    PROVE  Protocol'
<1>1. TypeOK /\ ThreadInv(u)
  BY DEF Protocol
<1>2. UNCHANGED <<nodeVars, made>>
  BY DEF Begin, nodeVars, threadVars
<1>3. NodesTypeOK' /\ Naming' /\ Tree' /\ Live' = Live /\ Known' = Known
  BY <1>2, CalmNodes
<1>4. TypeOK'
  <2>1. MarksTypeOK'
    BY <1>1, Basics, RequestsAssumption, OptionsAssumption DEF TypeOK, MarksTypeOK, CallsTypeOK, Begin, At, Goto, nodeVars, threadVars
  <2>2. LocksTypeOK'
    BY <1>1, Basics DEF TypeOK, LocksTypeOK, CallsTypeOK, Begin, At, Goto, nodeVars, threadVars
  <2>3. CallsTypeOK'
    BY <1>1, Basics, RequestsAssumption, OptionsAssumption DEF TypeOK, CallsTypeOK, PC, Begin, At, Goto, nodeVars, threadVars
  <2> QED BY <1>3, <2>1, <2>2, <2>3 DEF TypeOK
<1>5. Frame(u)
  BY <1>1, <1>2, CalmFrame DEF TypeOK, LocksTypeOK, CallsTypeOK, Frame, Begin, At, Goto, nodeVars, threadVars
<1>6. LockStep(u)
  BY <1>1 DEF TypeOK, LocksTypeOK, CallsTypeOK, LockStep, Begin, At, Goto, nodeVars, threadVars
<1>7. ThreadInv(u)'
  <2>1. path[u] = <<>> /\ split[u] = {} /\ made[u] = <<>> /\ mutexLockPath # u
    BY <1>1, NoPath DEF Begin, At, OnPath, Splitting, Filling
  <2>2. /\ pc'[u] \in {"incRef"}
        /\ rd'[u] = {} /\ wr'[u] = {}
        /\ path'[u] = <<>> /\ split'[u] = {} /\ made'[u] = <<>> /\ mutexLockPath' # u
    BY <1>1, <2>1 DEF TypeOK, LocksTypeOK, CallsTypeOK, ThreadInv, HoldsNone, HoldsCur, HoldsRead, Begin, At, Goto, nodeVars, threadVars
  <2>3. Places(u)'
    BY <1>1, <1>3, KnownNodes DEF TypeOK, CallsTypeOK, ThreadInv, Places, Begin, At, Goto, nodeVars, threadVars
  <2> QED BY <2>2, <2>3, ToRest
<1> QED BY <1>3, <1>4, <1>5, <1>6, <1>7, Assemble

\* The reference count is not part of the lock protocol.
LEMMA IncRefInv ==
    ASSUME Protocol, NEW u \in Threads, IncRef(u)
    PROVE  Protocol'
<1>1. TypeOK /\ ThreadInv(u)
  BY DEF Protocol
<1>2. UNCHANGED <<nodeVars, made>>
  BY DEF IncRef, nodeVars, threadVars
<1>3. NodesTypeOK' /\ Naming' /\ Tree' /\ Live' = Live /\ Known' = Known
  BY <1>2, CalmNodes
<1>4. TypeOK'
  <2>1. MarksTypeOK'
    <3>1. refcnt \in [Objs -> Nat] /\ root \in Objs /\ base[u] \in Objs
      BY <1>1, Basics DEF TypeOK, MarksTypeOK, CallsTypeOK
    <3>2. \E o \in Objs : refcnt' = [refcnt EXCEPT ![o] = @ + 1]
      BY <3>1 DEF IncRef
    <3>3. refcnt' \in [Objs -> Nat]
      BY <3>1, <3>2
    <3>4. UNCHANGED <<dirty, newest, failed, opsLeft>>
      BY DEF IncRef
    <3> QED BY <1>1, <3>3, <3>4 DEF TypeOK, MarksTypeOK
  <2>2. LocksTypeOK'
    BY <1>1, Basics DEF TypeOK, LocksTypeOK, CallsTypeOK, IncRef, At, Goto, nodeVars, threadVars
  <2>3. CallsTypeOK'
    BY <1>1, Basics DEF TypeOK, CallsTypeOK, PC, IncRef, At, Goto, nodeVars, threadVars
  <2> QED BY <1>3, <2>1, <2>2, <2>3 DEF TypeOK
<1>5. Frame(u)
  BY <1>1, <1>2, CalmFrame DEF TypeOK, LocksTypeOK, CallsTypeOK, Frame, IncRef, At, Goto, nodeVars, threadVars
<1>6. LockStep(u)
  BY <1>1 DEF TypeOK, LocksTypeOK, CallsTypeOK, LockStep, IncRef, At, Goto, nodeVars, threadVars
<1>7. ThreadInv(u)'
  <2>1. path[u] = <<>> /\ split[u] = {} /\ made[u] = <<>> /\ mutexLockPath # u
    BY <1>1, NoPath DEF IncRef, At, OnPath, Splitting, Filling
  <2>2. /\ pc'[u] \in {"getLock", "writeLock"}
        /\ rd'[u] = {} /\ wr'[u] = {}
        /\ path'[u] = <<>> /\ split'[u] = {} /\ made'[u] = <<>> /\ mutexLockPath' # u
    BY <1>1, <2>1 DEF TypeOK, LocksTypeOK, CallsTypeOK, ThreadInv, HoldsNone, HoldsCur, HoldsRead, IncRef, At, Goto, nodeVars, threadVars
  <2>3. Places(u)'
    BY <1>1, <1>3, KnownNodes DEF TypeOK, CallsTypeOK, ThreadInv, Places, IncRef, At, Goto, nodeVars, threadVars
  <2> QED BY <2>2, <2>3, ToRest
<1> QED BY <1>3, <1>4, <1>5, <1>6, <1>7, Assemble

\* Node::get locks the node it starts at.
LEMMA GetLockInv ==
    ASSUME Protocol, NEW u \in Threads, GetLock(u)
    PROVE  Protocol'
<1>1. TypeOK /\ ThreadInv(u)
  BY DEF Protocol
<1>2. UNCHANGED <<nodeVars, made>>
  BY DEF GetLock, ReadLock, nodeVars, threadVars
<1>3. NodesTypeOK' /\ Naming' /\ Tree' /\ Live' = Live /\ Known' = Known
  BY <1>2, CalmNodes
<1>4. TypeOK'
  <2>1. MarksTypeOK'
    BY <1>1, Basics DEF TypeOK, MarksTypeOK, CallsTypeOK, GetLock, ReadLock, At, Goto, nodeVars, threadVars
  <2>2. LocksTypeOK'
    BY <1>1, Basics DEF TypeOK, LocksTypeOK, CallsTypeOK, GetLock, ReadLock, At, Goto, nodeVars, threadVars
  <2>3. CallsTypeOK'
    BY <1>1, Basics DEF TypeOK, CallsTypeOK, PC, GetLock, ReadLock, At, Goto, nodeVars, threadVars
  <2> QED BY <1>3, <2>1, <2>2, <2>3 DEF TypeOK
<1>5. Frame(u)
  BY <1>1, <1>2, CalmFrame DEF TypeOK, LocksTypeOK, CallsTypeOK, Frame, GetLock, ReadLock, At, Goto, nodeVars, threadVars
<1>6. LockStep(u)
  BY <1>1 DEF TypeOK, LocksTypeOK, CallsTypeOK, LockStep, GetLock, ReadLock, At, Goto, nodeVars, threadVars
<1>7. ThreadInv(u)'
  <2>1. path[u] = <<>> /\ split[u] = {} /\ made[u] = <<>> /\ mutexLockPath # u
    BY <1>1, NoPath DEF GetLock, At, OnPath, Splitting, Filling
  <2>2. /\ pc'[u] = "getLook" /\ rd'[u] = {cur'[u]} /\ wr'[u] = {}
        /\ path'[u] = <<>> /\ split'[u] = {} /\ made'[u] = <<>> /\ mutexLockPath' # u
    BY <1>1, <2>1 DEF TypeOK, LocksTypeOK, CallsTypeOK, ThreadInv, HoldsNone, HoldsRead, GetLock, ReadLock, At, Goto, nodeVars, threadVars
  <2>3. Places(u)'
    BY <1>1, <1>3, KnownNodes DEF TypeOK, CallsTypeOK, ThreadInv, Places, GetLock, ReadLock, At, Goto, nodeVars, threadVars
  <2> QED BY <2>2, <2>3, ToRead
<1> QED BY <1>3, <1>4, <1>5, <1>6, <1>7, Assemble

\* Protocol speaks of the nodes, the locks and the control state only.
LEMMA StillInv ==
    ASSUME Protocol, UNCHANGED <<nodeVars, rd, wr, mutexLockPath, pc, threadVars>>,
           TypeOK'
    PROVE  Protocol'
<1>1. Naming' /\ Tree' /\ Live' = Live /\ Known' = Known
  BY CalmNodes DEF threadVars
<1>2. Exclusion'
  BY DEF Protocol, Exclusion
<1>3. ASSUME NEW t \in Threads PROVE ThreadInv(t)'
  <2>1. ThreadInv(t)
    BY DEF Protocol
  <2>2. Places(t)' /\ AtWork(t)' /\ HoldsCur(t)' /\ HoldsRead(t)'
    BY <1>1, <2>1 DEF ThreadInv, Places, AtWork, HoldsCur, HoldsRead, nodeVars,
         threadVars
  <2>3. HoldsChild(t)'
    BY <2>1 DEF ThreadInv, HoldsChild, nodeVars, threadVars
  <2>4. HoldsPath(t)' /\ HoldsNone(t)' /\ HoldsMutex(t)' /\ WriterAtRoot(t)'
    BY <2>1 DEF ThreadInv, HoldsPath, PathSet, HoldsNone, HoldsMutex,
         WriterAtRoot, nodeVars, threadVars
  <2>5. PathInv(t)'
    BY <1>1, <2>1 DEF ThreadInv, PathInv, nodeVars, threadVars
  <2>6. MadeInv(t)'
    BY <2>1 DEF ThreadInv, MadeInv, nodeVars, threadVars
  <2> QED BY <2>2, <2>3, <2>4, <2>5, <2>6 DEF ThreadInv
<1> QED BY <1>1, <1>2, <1>3 DEF Protocol

\* A failed assertion changes nothing but failed.
LEMMA AbortInv ==
    ASSUME Protocol, NEW name \in {"splitBuf", "decRef"}, Abort(name)
    PROVE  Protocol'
<1>1. UNCHANGED <<nodeVars, rd, wr, mutexLockPath, pc, threadVars>>
  BY DEF Abort
<1>2. TypeOK'
  <2>1. NodesTypeOK'
    BY <1>1, CalmNodes DEF threadVars
  <2> QED BY <2>1 DEF Protocol, TypeOK, MarksTypeOK, LocksTypeOK, CallsTypeOK, Abort, threadVars
<1> QED BY <1>1, <1>2, StillInv

\* Whatever is released, lpKey holds keys or Freed.
LEMMA ReleasedKeys ==
    ASSUME TypeOK, NEW u \in Threads, \E S : ReleaseKeys(u, S)
    PROVE  lpKey' \in [Threads -> Keys \cup {Freed}]
BY DEF TypeOK, CallsTypeOK, ReleaseKeys

\* The key a path is locked for reads as some key.
LEMMA PathKeysAreKeys ==
    ASSUME TypeOK, NEW u \in Threads
    PROVE  PathKeys(u) \subseteq Keys
BY DEF TypeOK, CallsTypeOK, PathKeys

\* The call returns.
LEMMA DecRefInv ==
    ASSUME Protocol, NEW u \in Threads, DecRef(u)
    PROVE  Protocol'
<1>0. SUFFICES ASSUME refcnt[base[u]] > 0 PROVE Protocol'
  BY AbortInv DEF DecRef
<1>1. TypeOK /\ ThreadInv(u)
  BY DEF Protocol
<1>2. UNCHANGED <<nodeVars, made>>
  BY <1>0 DEF DecRef, nodeVars, threadVars
<1>3. NodesTypeOK' /\ Naming' /\ Tree' /\ Live' = Live /\ Known' = Known
  BY <1>2, CalmNodes
<1>4. TypeOK'
  <2>1. MarksTypeOK'
    <3>1. refcnt \in [Objs -> Nat]
      BY <1>1 DEF TypeOK, MarksTypeOK
    <3>2. refcnt' = [refcnt EXCEPT ![base[u]] = @ - 1]
      BY <1>0 DEF DecRef
    <3>3. refcnt' \in [Objs -> Nat]
      BY <1>0, <3>1, <3>2, OneLess
    <3>4. UNCHANGED <<dirty, newest, failed, opsLeft>>
      BY <1>0 DEF DecRef
    <3> QED BY <1>1, <3>3, <3>4 DEF TypeOK, MarksTypeOK
  <2>2. LocksTypeOK'
    BY <1>0, <1>1, Basics DEF TypeOK, LocksTypeOK, CallsTypeOK, DecRef, At, Goto, nodeVars, threadVars
  <2>3. CallsTypeOK'
    <3>1. pc' \in [Threads -> PC]
      BY <1>0, <1>1 DEF TypeOK, CallsTypeOK, PC, DecRef, Goto
    <3>4. req' \in [Threads -> [op : Ops, key : Keys, value : Values]]
      BY <1>0, <1>1, Basics DEF TypeOK, CallsTypeOK, DecRef
    <3>2. base' \in [Threads -> Objs] /\ cur' \in [Threads -> Objs] /\ lpKey' \in [Threads -> Keys \cup {Freed}]
      BY <1>0, <1>1, Basics DEF TypeOK, CallsTypeOK, DecRef
    <3>3. idx' \in [Threads -> Nat]
      <4>1. idx' = [idx EXCEPT ![u] = 0] /\ idx \in [Threads -> Nat]
        BY <1>0, <1>1 DEF TypeOK, CallsTypeOK, DecRef
      <4> QED BY <4>1
    <3>5. ret' \in [Threads -> Values \cup {NoMsg}]
      BY <1>0, <1>1 DEF TypeOK, CallsTypeOK, DecRef
    <3> QED BY <1>0, <1>1, <3>1, <3>2, <3>3, <3>4, <3>5 DEF TypeOK, CallsTypeOK, DecRef
  <2> QED BY <1>3, <2>1, <2>2, <2>3 DEF TypeOK
<1>5. Frame(u)
  BY <1>0, <1>1, <1>2, CalmFrame DEF TypeOK, LocksTypeOK, CallsTypeOK, Frame, DecRef, At, Goto, nodeVars, threadVars
<1>6. LockStep(u)
  BY <1>0, <1>1 DEF TypeOK, LocksTypeOK, CallsTypeOK, LockStep, DecRef, At, Goto, nodeVars, threadVars
<1>7. ThreadInv(u)'
  <2>1. path[u] = <<>> /\ split[u] = {} /\ made[u] = <<>> /\ mutexLockPath # u
    BY <1>1, NoPath DEF DecRef, At, OnPath, Splitting, Filling
  <2>2. /\ pc'[u] = "idle" /\ rd'[u] = {} /\ wr'[u] = {}
        /\ path'[u] = <<>> /\ split'[u] = {} /\ made'[u] = <<>> /\ mutexLockPath' # u
    BY <1>0, <1>1, <2>1 DEF TypeOK, CallsTypeOK, ThreadInv, HoldsNone, DecRef, At, Goto
  <2>3. Places(u)'
    BY <1>0, <1>1, <1>3, KnownNodes DEF TypeOK, CallsTypeOK, ThreadInv, Places, DecRef
  <2> QED BY <2>2, <2>3, ToRest
<1> QED BY <1>3, <1>4, <1>5, <1>6, <1>7, Assemble

\* Node::write reaches the root, or tries again.
LEMMA WriteAtRootInv ==
    ASSUME Protocol, NEW u \in Threads, WriteAtRoot(u)
    PROVE  Protocol'
<1>1. TypeOK /\ ThreadInv(u)
  BY DEF Protocol
<1>2. UNCHANGED <<nodeVars, made>>
  BY DEF WriteAtRoot, OptionalLock, ReadLock, WriteLock, nodeVars, threadVars
<1>3. NodesTypeOK' /\ Naming' /\ Tree' /\ Live' = Live /\ Known' = Known
  BY <1>2, CalmNodes
<1>4. TypeOK'
  <2>1. MarksTypeOK'
    BY <1>1, Basics DEF TypeOK, MarksTypeOK, CallsTypeOK, WriteAtRoot, OptionalLock, ReadLock, WriteLock, At, Goto, nodeVars, threadVars
  <2>2. LocksTypeOK'
    <3>1. cur[u] \in Objs
      BY <1>1 DEF TypeOK, CallsTypeOK
    <3>2. rd' \in [Threads -> SUBSET Objs] /\ wr' \in [Threads -> SUBSET Objs]
      BY <1>1, <3>1 DEF TypeOK, LocksTypeOK, WriteAtRoot, OptionalLock, ReadLock, WriteLock
    <3> QED BY <1>1, <3>2 DEF TypeOK, LocksTypeOK, WriteAtRoot
  <2>3. CallsTypeOK'
    BY <1>1, Basics DEF TypeOK, CallsTypeOK, PC, WriteAtRoot, OptionalLock, ReadLock, WriteLock, At, Goto, nodeVars, threadVars
  <2> QED BY <1>3, <2>1, <2>2, <2>3 DEF TypeOK
<1>5. Frame(u)
  BY <1>1, <1>2, CalmFrame DEF TypeOK, LocksTypeOK, CallsTypeOK, Frame, WriteAtRoot, OptionalLock, ReadLock, WriteLock, At, Goto, nodeVars, threadVars
<1>6. LockStep(u)
  BY <1>1 DEF TypeOK, LocksTypeOK, CallsTypeOK, LockStep, CanLock, WriteAtRoot,
       OptionalLock, ReadLock, WriteLock
<1>7. ThreadInv(u)'
  <2>1. path[u] = <<>> /\ split[u] = {} /\ made[u] = <<>> /\ mutexLockPath # u
    BY <1>1, NoPath DEF WriteAtRoot, At, OnPath, Splitting, Filling
  <2>2. /\ path'[u] = <<>> /\ split'[u] = {} /\ made'[u] = <<>> /\ mutexLockPath' # u
        /\ rd[u] = {} /\ wr[u] = {}
    BY <1>1, <2>1 DEF ThreadInv, HoldsNone, WriteAtRoot, At
  <2>3. Places(u)'
    BY <1>1, <1>3, KnownNodes DEF TypeOK, CallsTypeOK, ThreadInv, Places, WriteAtRoot
  <2>4. CASE nid[root] = nid[cur[u]]
    <3>1. cur[u] \in Known /\ Naming
      BY <1>1 DEF Protocol, ThreadInv, Places
    <3>2. cur[u] = root
      BY <1>1, <2>4, <3>1, RootNid
    <3>3. pc'[u] = "insert" /\ cur'[u] = root' /\ cur'[u] = cur[u]
      BY <1>1, <1>2, <2>4, <3>2 DEF TypeOK, CallsTypeOK, WriteAtRoot, Goto, nodeVars
    <3>4. /\ rd'[u] = (IF isLeaf'[cur'[u]] THEN {} ELSE {cur'[u]})
          /\ wr'[u] = (IF isLeaf'[cur'[u]] THEN {cur'[u]} ELSE {})
      BY <1>1, <1>2, <2>2, <2>4, <3>3 DEF TypeOK, LocksTypeOK, WriteAtRoot,
           OptionalLock, ReadLock, WriteLock, nodeVars
    <3> QED BY <2>2, <2>3, <3>3, <3>4, ToPush
  <2>5. CASE nid[root] # nid[cur[u]]
    <3>1. pc'[u] = "writeLock" /\ rd'[u] = {} /\ wr'[u] = {}
      BY <2>2, <2>5 DEF WriteAtRoot, At
    <3> QED BY <2>2, <2>3, <3>1, ToRest
  <2> QED BY <2>4, <2>5
<1> QED BY <1>3, <1>4, <1>5, <1>6, <1>7, Assemble

\* pushDownOrSplit returns to its caller.
LEMMA PushReturnInv ==
    ASSUME Protocol, NEW u \in Threads, PushReturn(u)
    PROVE  Protocol'
<1>1. TypeOK /\ ThreadInv(u)
  BY DEF Protocol
<1>2. UNCHANGED <<nodeVars, made>>
  BY DEF PushReturn, Unlock, nodeVars, threadVars
<1>3. NodesTypeOK' /\ Naming' /\ Tree' /\ Live' = Live /\ Known' = Known
  BY <1>2, CalmNodes
<1>4. TypeOK'
  <2>1. MarksTypeOK'
    BY <1>1, Basics DEF TypeOK, MarksTypeOK, CallsTypeOK, PushReturn, Unlock, At, Goto, nodeVars, threadVars
  <2>2. LocksTypeOK'
    BY <1>1, Basics DEF TypeOK, LocksTypeOK, CallsTypeOK, PushReturn, Unlock, At, Goto, nodeVars, threadVars
  <2>3. CallsTypeOK'
    <3>1. cur[u] \in Objs /\ stack[u] \in Seq(Objs)
      BY <1>1 DEF TypeOK, CallsTypeOK
    <3>2. stack[u] # <<>> => Last(stack[u]) \in Objs /\ Front(stack[u]) \in Seq(Objs)
      BY <3>1, FrontLast
    <3>3. cur' \in [Threads -> Objs] /\ stack' \in [Threads -> Seq(Objs)]
      <4>1. cur \in [Threads -> Objs] /\ stack \in [Threads -> Seq(Objs)]
        BY <1>1 DEF TypeOK, CallsTypeOK
      <4>2. \/ cur' = cur /\ stack' = stack
            \/ /\ stack[u] # <<>>
               /\ cur' = [cur EXCEPT ![u] = Last(stack[u])]
               /\ stack' = [stack EXCEPT ![u] = Front(@)]
        BY DEF PushReturn
      <4>3. CASE cur' = cur /\ stack' = stack
        BY <4>1, <4>3
      <4>4. CASE /\ stack[u] # <<>>
                 /\ cur' = [cur EXCEPT ![u] = Last(stack[u])]
                 /\ stack' = [stack EXCEPT ![u] = Front(@)]
        BY <3>2, <4>1, <4>4
      <4> QED BY <4>2, <4>3, <4>4
    <3>4. pc' \in [Threads -> PC]
      BY <1>1 DEF TypeOK, CallsTypeOK, PC, PushReturn, Goto
    <3> QED BY <1>1, <3>3, <3>4 DEF TypeOK, CallsTypeOK, PushReturn
  <2> QED BY <1>3, <2>1, <2>2, <2>3 DEF TypeOK
<1>5. Frame(u)
  BY <1>1, <1>2, CalmFrame DEF TypeOK, LocksTypeOK, CallsTypeOK, Frame, PushReturn, Unlock, At, Goto, nodeVars, threadVars
<1>6. LockStep(u)
  BY <1>1 DEF TypeOK, LocksTypeOK, CallsTypeOK, LockStep, PushReturn, Unlock, At, Goto, nodeVars, threadVars
<1>7. ThreadInv(u)'
  <2>1. path[u] = <<>> /\ split[u] = {} /\ made[u] = <<>> /\ mutexLockPath # u
    BY <1>1, NoPath DEF PushReturn, At, OnPath, Splitting, Filling
  <2>2. /\ pc'[u] \in {"decRef", "relock"} /\ rd'[u] = {} /\ wr'[u] = {}
        /\ path'[u] = <<>> /\ split'[u] = {} /\ made'[u] = <<>> /\ mutexLockPath' # u
    BY <1>1, <2>1 DEF TypeOK, LocksTypeOK, CallsTypeOK, ThreadInv, HoldsCur, PushReturn, Unlock, At, Goto
  <2>3. Places(u)'
    <3>1. CASE stack[u] = <<>>
      BY <1>1, <1>3, <3>1 DEF ThreadInv, Places, PushReturn
    <3>2. CASE stack[u] # <<>>
      <4>1. stack[u] \in Seq(Objs)
        BY <1>1 DEF TypeOK, CallsTypeOK
      <4>2. cur'[u] = Last(stack[u]) /\ stack'[u] = Front(stack[u]) /\ base'[u] = base[u]
        BY <1>1, <3>2 DEF TypeOK, CallsTypeOK, PushReturn
      <4>3. /\ Len(stack[u]) \in DOMAIN stack[u] /\ DOMAIN stack[u] = 1..Len(stack[u])
            /\ DOMAIN Front(stack[u]) = 1..(Len(stack[u]) - 1)
            /\ \A n \in 1..(Len(stack[u]) - 1) : Front(stack[u])[n] = stack[u][n]
        BY <3>2, <4>1, FrontLast
      <4>4. Last(stack[u]) \in Known
        BY <1>1, <4>3 DEF ThreadInv, Places, Last
      <4>5. \A n \in DOMAIN Front(stack[u]) : Front(stack[u])[n] \in Known
        BY <1>1, <4>3 DEF ThreadInv, Places
      <4> QED BY <1>1, <1>3, <4>2, <4>4, <4>5 DEF ThreadInv, Places
    <3> QED BY <3>1, <3>2
  <2> QED BY <2>2, <2>3, ToRest
<1> QED BY <1>3, <1>4, <1>5, <1>6, <1>7, Assemble

\* A suspended activation takes its lock again.
LEMMA RelockInv ==
    ASSUME Protocol, NEW u \in Threads, Relock(u)
    PROVE  Protocol'
<1>1. TypeOK /\ ThreadInv(u)
  BY DEF Protocol
<1>2. UNCHANGED <<nodeVars, made>>
  BY DEF Relock, OptionalLock, ReadLock, WriteLock, nodeVars, threadVars
<1>3. NodesTypeOK' /\ Naming' /\ Tree' /\ Live' = Live /\ Known' = Known
  BY <1>2, CalmNodes
<1>4. TypeOK'
  <2>1. MarksTypeOK'
    BY <1>1, Basics DEF TypeOK, MarksTypeOK, CallsTypeOK, Relock, OptionalLock, ReadLock, WriteLock, At, Goto, nodeVars, threadVars
  <2>2. LocksTypeOK'
    <3>1. cur[u] \in Objs
      BY <1>1 DEF TypeOK, CallsTypeOK
    <3>2. rd' \in [Threads -> SUBSET Objs] /\ wr' \in [Threads -> SUBSET Objs]
      BY <1>1, <3>1 DEF TypeOK, LocksTypeOK, Relock, OptionalLock, ReadLock, WriteLock
    <3> QED BY <1>1, <3>2 DEF TypeOK, LocksTypeOK, Relock
  <2>3. CallsTypeOK'
    BY <1>1, Basics DEF TypeOK, CallsTypeOK, PC, Relock, OptionalLock, ReadLock, WriteLock, At, Goto, nodeVars, threadVars
  <2> QED BY <1>3, <2>1, <2>2, <2>3 DEF TypeOK
<1>5. Frame(u)
  BY <1>1, <1>2, CalmFrame DEF TypeOK, LocksTypeOK, CallsTypeOK, Frame, Relock, OptionalLock, ReadLock, WriteLock, At, Goto, nodeVars, threadVars
<1>6. LockStep(u)
  BY <1>1 DEF TypeOK, LocksTypeOK, CallsTypeOK, LockStep, Relock, OptionalLock, ReadLock, WriteLock, At, Goto, nodeVars, threadVars
<1>7. ThreadInv(u)'
  <2>1. path[u] = <<>> /\ split[u] = {} /\ made[u] = <<>> /\ mutexLockPath # u
    BY <1>1, NoPath DEF Relock, At, OnPath, Splitting, Filling
  <2>2. /\ pc'[u] = "push" /\ cur'[u] = cur[u] /\ isLeaf' = isLeaf
        /\ path'[u] = <<>> /\ split'[u] = {} /\ made'[u] = <<>> /\ mutexLockPath' # u
        /\ rd[u] = {} /\ wr[u] = {}
    BY <1>1, <2>1 DEF TypeOK, CallsTypeOK, ThreadInv, HoldsNone, Relock, At, Goto, nodeVars, threadVars
  <2>3. Places(u)'
    BY <1>1, <1>3 DEF ThreadInv, Places, Relock, threadVars
  <2>4. /\ rd'[u] = (IF isLeaf'[cur'[u]] THEN {} ELSE {cur'[u]})
        /\ wr'[u] = (IF isLeaf'[cur'[u]] THEN {cur'[u]} ELSE {})
    BY <1>1, <2>2 DEF TypeOK, LocksTypeOK, Relock, OptionalLock, ReadLock, WriteLock
  <2> QED BY <2>2, <2>3, <2>4, ToPush
<1> QED BY <1>3, <1>4, <1>5, <1>6, <1>7, Assemble

\* pushDownOrSplit picks a buffer whose pivot has a child.
LEMMA ChoosePushDownInv ==
    ASSUME Protocol, NEW u \in Threads, ChoosePushDown(u)
    PROVE  Protocol'
<1>1. TypeOK /\ ThreadInv(u)
  BY DEF Protocol
<1> DEFINE i == Smallest(Overfull(cur[u]))
<1>2. i \in DOMAIN pivots[cur[u]] /\ i \in Nat
  <2>1. cur[u] \in Live /\ Tree /\ Overfull(cur[u]) # {}
    BY <1>1, Basics DEF Protocol, ThreadInv, Places, ChoosePushDown
  <2> QED BY <1>1, <2>1, OverfullFacts, NodeFacts, PivotsSeq
<1>3. UNCHANGED <<nodeVars, made>>
  BY DEF ChoosePushDown, nodeVars, threadVars
<1>4. NodesTypeOK' /\ Naming' /\ Tree' /\ Live' = Live /\ Known' = Known
  BY <1>3, CalmNodes
<1>5. TypeOK'
  <2>1. MarksTypeOK'
    BY <1>1, Basics, <1>2 DEF TypeOK, MarksTypeOK, CallsTypeOK, ChoosePushDown, At, Goto, nodeVars, threadVars
  <2>2. LocksTypeOK'
    BY <1>1, Basics, <1>2 DEF TypeOK, LocksTypeOK, CallsTypeOK, ChoosePushDown, At, Goto, nodeVars, threadVars
  <2>3. CallsTypeOK'
    BY <1>1, Basics, <1>2 DEF TypeOK, CallsTypeOK, PC, ChoosePushDown, At, Goto, nodeVars, threadVars
  <2> QED BY <1>4, <2>1, <2>2, <2>3 DEF TypeOK
<1>6. Frame(u)
  BY <1>1, <1>3, CalmFrame DEF TypeOK, LocksTypeOK, CallsTypeOK, Frame, ChoosePushDown, At, Goto, nodeVars, threadVars
<1>7. LockStep(u)
  BY <1>1 DEF TypeOK, LocksTypeOK, CallsTypeOK, LockStep, ChoosePushDown, At, Goto, nodeVars, threadVars
<1>8. ThreadInv(u)'
  <2>1. path[u] = <<>> /\ split[u] = {} /\ made[u] = <<>> /\ mutexLockPath # u
    BY <1>1, NoPath DEF ChoosePushDown, At, OnPath, Splitting, Filling
  <2>2. /\ i \in DOMAIN pivots[cur[u]] /\ ~isLeaf[cur[u]]
    BY <1>1, <1>2, Basics, ChildFacts DEF Protocol, ThreadInv, Places, ChoosePushDown
  <2>3. /\ pc'[u] = "pushDown" /\ cur'[u] = cur[u] /\ idx'[u] = i
        /\ path'[u] = <<>> /\ split'[u] = {} /\ made'[u] = <<>> /\ mutexLockPath' # u
    BY <1>1, <2>1 DEF TypeOK, CallsTypeOK, ChoosePushDown, Goto
  <2>4. rd'[u] = {cur'[u]} /\ wr'[u] = {}
    BY <1>1, <2>2, <2>3 DEF ThreadInv, HoldsCur, ChoosePushDown, At
  <2>5. Places(u)'
    BY <1>1, <1>4 DEF ThreadInv, Places, ChoosePushDown
  <2>6. idx'[u] \in DOMAIN pivots'[cur'[u]] /\ ~isLeaf'[cur'[u]]
    BY <1>3, <2>2, <2>3 DEF nodeVars
  <2> QED BY <2>3, <2>4, <2>5, <2>6, ToRead
<1> QED BY <1>4, <1>5, <1>6, <1>7, <1>8, Assemble

\* Node::pushDown locks the child.
LEMMA PushDownInv ==
    ASSUME Protocol, NEW u \in Threads, PushDown(u)
    PROVE  Protocol'
<1>1. TypeOK /\ ThreadInv(u)
  BY DEF Protocol
<1>2. LET c == Child(cur[u], idx[u])
      IN  /\ cur[u] \in Live /\ ~isLeaf[cur[u]] /\ idx[u] \in DOMAIN pivots[cur[u]]
          /\ rd[u] = {cur[u]} /\ wr[u] = {}
          /\ c = pivots[cur[u]][idx[u]].child + 1 /\ c \in Known /\ c # cur[u]
  <2>1. /\ cur[u] \in Known /\ cur[u] \in Live
        /\ ~isLeaf[cur[u]] /\ idx[u] \in DOMAIN pivots[cur[u]]
        /\ rd[u] = {cur[u]} /\ wr[u] = {}
    BY <1>1, Basics DEF ThreadInv, Places, AtWork, HoldsRead, PushDown, At
  <2> QED BY <1>1, <2>1, ChildFacts DEF Protocol
<1>3. UNCHANGED <<nodeVars, made>>
  BY DEF PushDown, OptionalLock, ReadLock, WriteLock, nodeVars, threadVars
<1>4. NodesTypeOK' /\ Naming' /\ Tree' /\ Live' = Live /\ Known' = Known
  BY <1>3, CalmNodes
<1>5. TypeOK'
  <2>1. MarksTypeOK'
    BY <1>1, Basics DEF TypeOK, MarksTypeOK, CallsTypeOK, PushDown, OptionalLock, ReadLock, WriteLock, At, Goto, nodeVars, threadVars
  <2>2. LocksTypeOK'
    <3>1. Child(cur[u], idx[u]) \in Objs
      BY <1>1, <1>2, Basics
    <3>2. rd' \in [Threads -> SUBSET Objs] /\ wr' \in [Threads -> SUBSET Objs]
      BY <1>1, <3>1 DEF TypeOK, LocksTypeOK, PushDown, OptionalLock, ReadLock, WriteLock
    <3> QED BY <1>1, <3>2 DEF TypeOK, LocksTypeOK, PushDown
  <2>3. CallsTypeOK'
    BY <1>1, Basics DEF TypeOK, CallsTypeOK, PC, PushDown, OptionalLock, ReadLock, WriteLock, At, Goto, nodeVars, threadVars
  <2> QED BY <1>4, <2>1, <2>2, <2>3 DEF TypeOK
<1>6. Frame(u)
  BY <1>1, <1>3, CalmFrame DEF TypeOK, LocksTypeOK, CallsTypeOK, Frame, PushDown, OptionalLock, ReadLock, WriteLock, At, Goto, nodeVars, threadVars
<1>7. LockStep(u)
  BY <1>1 DEF TypeOK, LocksTypeOK, CallsTypeOK, LockStep, PushDown, OptionalLock, ReadLock, WriteLock, At, Goto, nodeVars, threadVars
<1>8. ThreadInv(u)'
  <2> DEFINE c == Child(cur[u], idx[u])
  <2>1. path[u] = <<>> /\ split[u] = {} /\ made[u] = <<>> /\ mutexLockPath # u
    BY <1>1, NoPath DEF PushDown, At, OnPath, Splitting, Filling
  <2>2. /\ pc'[u] = "pushBuf" /\ cur'[u] = cur[u] /\ idx'[u] = idx[u]
        /\ isLeaf' = isLeaf /\ pivots' = pivots
        /\ path'[u] = <<>> /\ split'[u] = {} /\ made'[u] = <<>> /\ mutexLockPath' # u
    BY <1>1, <2>1 DEF TypeOK, CallsTypeOK, PushDown, Goto, nodeVars, threadVars
  <2>3. Places(u)'
    BY <1>1, <1>4 DEF ThreadInv, Places, PushDown, threadVars
  <2>4. OptionalLock(u, c) /\ rd[u] = {cur[u]} /\ wr[u] = {}
    BY <1>2 DEF PushDown
  <2>5. c = pivots'[cur'[u]][idx'[u]].child + 1
    BY <1>2, <2>2
  <2>6. idx'[u] \in DOMAIN pivots'[cur'[u]] /\ ~isLeaf'[cur'[u]]
    BY <1>2, <2>2
  <2> HIDE DEF c
  <2>7. rd'[u] = IF isLeaf'[c] THEN {cur'[u]} ELSE {cur'[u], c}
    BY <1>1, <2>2, <2>4 DEF TypeOK, LocksTypeOK, OptionalLock, ReadLock, WriteLock
  <2>8. wr'[u] = IF isLeaf'[c] THEN {c} ELSE {}
    BY <1>1, <2>2, <2>4 DEF TypeOK, LocksTypeOK, OptionalLock, ReadLock, WriteLock
  <2>9. pc'[u] \in {"pushBuf", "moving", "clearing"} /\ (pc'[u] = "moving" => ~isLeaf'[c])
    BY <2>2
  <2> QED BY <2>2, <2>3, <2>5, <2>6, <2>7, <2>8, <2>9, ToChild
<1> QED BY <1>4, <1>5, <1>6, <1>7, <1>8, Assemble

\* BufferTree::lockPath reads root_.
LEMMA LockPathInv ==
    ASSUME Protocol, NEW u \in Threads, LockPath(u)
    PROVE  Protocol'
<1>1. TypeOK /\ ThreadInv(u)
  BY DEF Protocol
<1>2. UNCHANGED <<nodeVars, made>>
  BY DEF LockPath, nodeVars, threadVars
<1>3. NodesTypeOK' /\ Naming' /\ Tree' /\ Live' = Live /\ Known' = Known
  BY <1>2, CalmNodes
<1>4. TypeOK'
  <2>1. MarksTypeOK'
    <3>1. root \in Objs /\ refcnt \in [Objs -> Nat]
      BY <1>1, Basics DEF TypeOK, MarksTypeOK
    <3>2. refcnt' = [refcnt EXCEPT ![root] = refcnt[root] + 1]
      BY DEF LockPath
    <3>3. refcnt' \in [Objs -> Nat]
      BY <3>1, <3>2
    <3>4. UNCHANGED <<dirty, newest, failed, opsLeft>>
      BY DEF LockPath
    <3> QED BY <1>1, <3>3, <3>4 DEF TypeOK, MarksTypeOK
  <2>2. LocksTypeOK'
    BY <1>1, Basics DEF TypeOK, LocksTypeOK, CallsTypeOK, LockPath, At, Goto, nodeVars, threadVars
  <2>3. CallsTypeOK'
    BY <1>1, Basics DEF TypeOK, CallsTypeOK, PC, LockPath, At, Goto, nodeVars, threadVars
  <2> QED BY <1>3, <2>1, <2>2, <2>3 DEF TypeOK
<1>5. Frame(u)
  BY <1>1, <1>2, CalmFrame, ThreadsAssumption DEF TypeOK, LocksTypeOK, CallsTypeOK, Frame, LockPath, At, Goto, nodeVars, threadVars
<1>6. LockStep(u)
  BY <1>1 DEF TypeOK, LocksTypeOK, CallsTypeOK, LockStep, LockPath, At, Goto, nodeVars, threadVars
<1>7. ThreadInv(u)'
  <2>1. path[u] = <<>> /\ split[u] = {} /\ made[u] = <<>> /\ mutexLockPath # u
    BY <1>1, NoPath DEF LockPath, At, OnPath, Splitting, Filling
  <2>2. /\ pc'[u] = "lpRoot" /\ path'[u] = <<root>> /\ split'[u] = {} /\ mutexLockPath' = u
        /\ made'[u] = <<>>
        /\ rd'[u] = {} /\ wr'[u] = {}
    BY <1>1, <2>1 DEF TypeOK, CallsTypeOK, ThreadInv, HoldsNone, LockPath, At, Goto
  <2>3. Places(u)'
    BY <1>1, <1>3 DEF ThreadInv, Places, LockPath
  <2>4. root \in Known'
    BY <1>3, KnownNodes
  <2> QED BY <2>2, <2>3, <2>4, ToRoot
<1> QED BY <1>3, <1>4, <1>5, <1>6, <1>7, Assemble

\* BufferTree::lockPath finds another root and gives up.
LEMMA LockPathStaleInv ==
    ASSUME Protocol, NEW u \in Threads, LockPathStale(u)
    PROVE  Protocol'
<1>0. SUFFICES ASSUME refcnt[path[u][1]] > 0 PROVE Protocol'
  BY AbortInv DEF LockPathStale
<1>1. TypeOK /\ ThreadInv(u)
  BY DEF Protocol
<1>2. UNCHANGED <<nodeVars, made>>
  BY <1>0 DEF LockPathStale, nodeVars, threadVars
<1>3. NodesTypeOK' /\ Naming' /\ Tree' /\ Live' = Live /\ Known' = Known
  BY <1>2, CalmNodes
<1>4. TypeOK'
  <2>1. MarksTypeOK'
    <3>1. refcnt \in [Objs -> Nat]
      BY <1>1 DEF TypeOK, MarksTypeOK
    <3>2. refcnt' = [refcnt EXCEPT ![path[u][1]] = @ - 1]
      BY <1>0 DEF LockPathStale
    <3>3. refcnt' \in [Objs -> Nat]
      BY <1>0, <3>1, <3>2, OneLess
    <3>4. UNCHANGED <<dirty, newest, failed, opsLeft>>
      BY <1>0 DEF LockPathStale
    <3> QED BY <1>1, <3>3, <3>4 DEF TypeOK, MarksTypeOK
  <2>2. LocksTypeOK'
    BY <1>0, <1>1, Basics DEF TypeOK, LocksTypeOK, CallsTypeOK, LockPathStale, At, Goto, nodeVars, threadVars
  <2>3. CallsTypeOK'
    <3>1. path' \in [Threads -> Seq(Objs)]
      <4>1. path' = [path EXCEPT ![u] = <<>>] /\ path \in [Threads -> Seq(Objs)]
        BY <1>0, <1>1 DEF TypeOK, CallsTypeOK, LockPathStale
      <4> QED BY <4>1
    <3>2. pc' \in [Threads -> PC]
      BY <1>0, <1>1 DEF TypeOK, CallsTypeOK, PC, LockPathStale, Goto
    <3> QED BY <1>0, <1>1, <3>1, <3>2 DEF TypeOK, CallsTypeOK, LockPathStale
  <2> QED BY <1>3, <2>1, <2>2, <2>3 DEF TypeOK
<1>5. Frame(u)
  <2>1. mutexLockPath = u /\ mutexLockPath' = NoThread
    BY <1>0, <1>1 DEF ThreadInv, HoldsMutex, LockPathStale, At
  <2> QED BY <1>0, <1>1, <1>2, <2>1, CalmFrame, ThreadsAssumption
          DEF TypeOK, LocksTypeOK, CallsTypeOK, Frame, LockPathStale, Goto
<1>6. LockStep(u)
  BY <1>0, <1>1 DEF TypeOK, LocksTypeOK, CallsTypeOK, LockStep, LockPathStale, At, Goto, nodeVars, threadVars
<1>7. ThreadInv(u)'
  <2>1. /\ pc'[u] = "relock" /\ path'[u] = <<>> /\ split'[u] = {} /\ made'[u] = <<>> /\ mutexLockPath' # u
        /\ rd'[u] = {} /\ wr'[u] = {}
    BY <1>0, <1>1, ThreadsAssumption DEF TypeOK, CallsTypeOK, ThreadInv, HoldsNone, PathInv, MadeInv, Filling, Splitting, LockPathStale, At, Goto
  <2>2. Places(u)'
    BY <1>0, <1>1, <1>3 DEF ThreadInv, Places, LockPathStale
  <2> QED BY <2>1, <2>2, ToRest
<1> QED BY <1>3, <1>4, <1>5, <1>6, <1>7, Assemble

\* BufferTree::lockPath locks the root.
LEMMA LockPathRootInv ==
    ASSUME Protocol, NEW u \in Threads, LockPathRoot(u)
    PROVE  Protocol'
<1>1. TypeOK /\ ThreadInv(u)
  BY DEF Protocol
<1>2. UNCHANGED <<nodeVars, made>>
  BY DEF LockPathRoot, WriteLock, Advance, nodeVars, threadVars
<1>3. NodesTypeOK' /\ Naming' /\ Tree' /\ Live' = Live /\ Known' = Known
  BY <1>2, CalmNodes
<1>4. TypeOK'
  <2>1. MarksTypeOK'
    BY <1>1, Basics DEF TypeOK, MarksTypeOK, CallsTypeOK, LockPathRoot, WriteLock, Advance, At, Goto, nodeVars, threadVars
  <2>2. LocksTypeOK'
    <3>1. path[u][1] \in Objs
      BY <1>1, Basics DEF LockPathRoot
    <3> QED BY <1>1, <3>1 DEF TypeOK, LocksTypeOK, LockPathRoot, WriteLock, Advance
  <2>3. CallsTypeOK'
    BY <1>1, Basics DEF TypeOK, CallsTypeOK, PC, LockPathRoot, WriteLock, Advance, At, Goto, nodeVars, threadVars
  <2> QED BY <1>3, <2>1, <2>2, <2>3 DEF TypeOK
<1>5. Frame(u)
  <2>1. mutexLockPath = u /\ mutexLockPath' \in {u, NoThread}
    BY <1>1 DEF ThreadInv, HoldsMutex, LockPathRoot, Advance, At
  <2> QED BY <1>1, <1>2, <2>1, CalmFrame, ThreadsAssumption
          DEF TypeOK, LocksTypeOK, CallsTypeOK, Frame, LockPathRoot, WriteLock, Advance, Goto, threadVars
<1>6. LockStep(u)
  BY <1>1 DEF TypeOK, LocksTypeOK, CallsTypeOK, LockStep, LockPathRoot, WriteLock, Advance, At, Goto, nodeVars, threadVars
<1>7. ThreadInv(u)'
  <2>1. /\ path[u] \in Seq(Objs) /\ Len(path[u]) = 1 /\ split[u] = {}
        /\ rd[u] = {} /\ wr[u] = {} /\ mutexLockPath = u
    BY <1>1 DEF TypeOK, CallsTypeOK, ThreadInv, PathInv, HoldsNone, HoldsMutex,
         LockPathRoot, At, Splitting, Filling
  <2>2. path[u] # <<>> /\ DOMAIN path[u] = {1} /\ path[u][1] = root /\ Last(path[u]) = root
    BY <2>1 DEF LockPathRoot, Last
  <2>3. PathSet(u) = {root}
    BY <2>2 DEF PathSet
  <2>4. /\ path' = path /\ split' = split /\ rd' = rd
        /\ wr'[u] = {root}
    BY <1>1, <2>1, <2>2 DEF TypeOK, LocksTypeOK, LockPathRoot, WriteLock, threadVars
  <2>5. wr'[u] = PathSet(u)' \cup split'[u]
    BY <2>1, <2>3, <2>4 DEF PathSet
  <2>6. Places(u)'
    BY <1>1, <1>3 DEF ThreadInv, Places, LockPathRoot, threadVars
  <2>7. /\ pc'[u] \in {"lpDown", "split"}
        /\ mutexLockPath' = u <=> pc'[u] \in {"lpDown", "lpClear"}
        /\ pc'[u] = "lpDown" => \E key \in Keys : HasChildFor(root, key)
    BY <1>1, <2>1, <2>2, ThreadsAssumption, PathKeysAreKeys DEF TypeOK, CallsTypeOK, LockPathRoot, Advance, Goto
  <2>8. pc'[u] = "lpDown" => ~isLeaf[root]
    <3>1. root \in Live /\ root \in Known /\ Naming /\ Tree
      BY <1>1, Basics, KnownNodes DEF Protocol
    <3> QED BY <1>1, <2>7, <3>1, ChildFacts, NodeFacts DEF HasChildFor
  <2>9. height[root] \in Nat /\ root \in Known
    BY <1>1, Basics, KnownNodes, NodeFacts DEF Protocol
  <2>10. /\ root' = root /\ height' = height /\ isLeaf' = isLeaf /\ pivots' = pivots
    BY <1>2 DEF nodeVars
  <2>11. \A n \in DOMAIN path'[u] : height'[path'[u][n]] + n = height'[root'] + 1
    BY <2>2, <2>4, <2>9, <2>10
  <2>12. \A n \in DOMAIN path'[u] : ~ (n + 1 \in DOMAIN path'[u])
    BY <2>2, <2>4
  <2>13. \A n \in DOMAIN path'[u] : path'[u][n] \in Known'
    BY <1>3, <2>2, <2>4, <2>9
  <2>14. /\ path'[u] # <<>> /\ path'[u][1] = root' /\ rd'[u] = {}
         /\ pc'[u] \notin Splitting => split'[u] = {}
         /\ pc'[u] = "lpDown" => ~isLeaf'[Last(path'[u])]
         /\ pc'[u] \in OnPath /\ pc'[u] # "lpClear"
    BY <2>1, <2>2, <2>4, <2>7, <2>8, <2>10 DEF OnPath, Splitting
  <2>15. MadeInv(u)'
    <3>1. made'[u] = <<>>
      BY <1>1, <1>2 DEF ThreadInv, MadeInv, Filling, LockPathRoot, At
    <3> QED BY <2>7, <3>1 DEF MadeInv, Filling
  <2> QED BY <2>5, <2>6, <2>7, <2>11, <2>12, <2>13, <2>14, <2>15, ToPath
<1> QED BY <1>3, <1>4, <1>5, <1>6, <1>7, Assemble

\* splitNode unlocks the path.
LEMMA SplitNodeDoneInv ==
    ASSUME Protocol, NEW u \in Threads, SplitNodeDone(u)
    PROVE  Protocol'
<1>1. TypeOK /\ ThreadInv(u)
  BY DEF Protocol
<1>2. UNCHANGED <<nodeVars, made>>
  BY DEF SplitNodeDone, FinishSplit, Unlock, nodeVars, threadVars
<1>3. NodesTypeOK' /\ Naming' /\ Tree' /\ Live' = Live /\ Known' = Known
  BY <1>2, CalmNodes
<1>4. TypeOK'
  <2>1. MarksTypeOK'
    BY <1>1, Basics DEF TypeOK, MarksTypeOK, CallsTypeOK, SplitNodeDone, FinishSplit, Unlock, At, Goto, nodeVars, threadVars
  <2>2. LocksTypeOK'
    BY <1>1, Basics DEF TypeOK, LocksTypeOK, CallsTypeOK, SplitNodeDone, FinishSplit, Unlock, At, Goto, nodeVars, threadVars
  <2>3. CallsTypeOK'
    BY <1>1, Basics DEF TypeOK, CallsTypeOK, PC, SplitNodeDone, FinishSplit, Unlock, At, Goto, nodeVars, threadVars
  <2> QED BY <1>3, <2>1, <2>2, <2>3 DEF TypeOK
<1>5. Frame(u)
  BY <1>1, <1>2, CalmFrame DEF TypeOK, LocksTypeOK, CallsTypeOK, Frame, SplitNodeDone, FinishSplit, Unlock, At, Goto, nodeVars, threadVars
<1>6. LockStep(u)
  BY <1>1 DEF TypeOK, LocksTypeOK, CallsTypeOK, LockStep, SplitNodeDone, FinishSplit, Unlock, At, Goto, nodeVars, threadVars
<1>7. ThreadInv(u)'
  <2>1. /\ rd[u] = {} /\ wr[u] = PathSet(u) \cup split[u] /\ mutexLockPath # u
        /\ made[u] = <<>>
    BY <1>1 DEF ThreadInv, HoldsPath, HoldsMutex, MadeInv, OnPath, Splitting, Filling, SplitNodeDone, At
  <2>2. rd'[u] = {} /\ wr'[u] = {}
    BY <1>1, <2>1 DEF TypeOK, LocksTypeOK, SplitNodeDone, FinishSplit, Unlock
  <2>3. pc'[u] = "relock" /\ path'[u] = <<>> /\ split'[u] = {} /\ made'[u] = <<>> /\ mutexLockPath' # u
    BY <1>1, <2>1 DEF TypeOK, CallsTypeOK, SplitNodeDone, FinishSplit, Goto
  <2>4. Places(u)'
    BY <1>1, <1>3 DEF ThreadInv, Places, SplitNodeDone
  <2> QED BY <2>2, <2>3, <2>4, ToRest
<1> QED BY <1>3, <1>4, <1>5, <1>6, <1>7, Assemble

\* Node::get answers, or finds the child.
LEMMA GetLookInv ==
    ASSUME Protocol, NEW u \in Threads, GetLook(u)
    PROVE  Protocol'
<1>1. TypeOK /\ ThreadInv(u)
  BY DEF Protocol
<1> DEFINE i == FindPivot(pivots[cur[u]], req[u].key)
<1>2. i \in DOMAIN pivots[cur[u]] /\ i \in Nat
  <2>1. cur[u] \in Known /\ cur[u] \in Live /\ Tree /\ req[u].key \in Keys
    BY <1>1, Basics DEF Protocol, ThreadInv, Places, TypeOK, CallsTypeOK
  <2> QED BY <1>1, <2>1, NodeFacts, PivotsSeq
<1>3. UNCHANGED <<nodeVars, made>>
  BY DEF GetLook, Unlock, nodeVars, threadVars
<1>4. NodesTypeOK' /\ Naming' /\ Tree' /\ Live' = Live /\ Known' = Known
  BY <1>3, CalmNodes
<1>5. TypeOK'
  <2>1. MarksTypeOK'
    BY <1>1, Basics, <1>2 DEF TypeOK, MarksTypeOK, CallsTypeOK, GetLook, Unlock, At, Goto, nodeVars, threadVars
  <2>2. LocksTypeOK'
    <3>1. Unlock(u, {cur[u]}) \/ UNCHANGED <<rd, wr>>
      BY DEF GetLook
    <3>2. UNCHANGED mutexLockPath
      BY DEF GetLook
    <3> QED BY <1>1, <3>1, <3>2 DEF TypeOK, LocksTypeOK, Unlock
  <2>3. CallsTypeOK'
    <3>1. pc' \in [Threads -> PC]
      BY <1>1 DEF TypeOK, CallsTypeOK, PC, GetLook, Goto
    <3>2. idx' = idx \/ idx' = [idx EXCEPT ![u] = i]
      BY DEF GetLook
    <3>3. idx' \in [Threads -> Nat]
      BY <1>1, <1>2, <3>2 DEF TypeOK, CallsTypeOK
    <3>4. ret' = ret \/ \E m : ret' = [ret EXCEPT ![u] = IF m \in Values THEN m ELSE NoMsg]
      BY DEF GetLook
    <3>5. ret' \in [Threads -> Values \cup {NoMsg}]
      BY <1>1, <3>4 DEF TypeOK, CallsTypeOK
    <3>6. UNCHANGED <<req, base, cur, stack, lpKey, path, split, made, todo>>
      BY DEF GetLook
    <3> QED BY <1>1, <3>1, <3>3, <3>5, <3>6 DEF TypeOK, CallsTypeOK
  <2> QED BY <1>4, <2>1, <2>2, <2>3 DEF TypeOK
<1>6. Frame(u)
  <2>1. \A t \in Threads \ {u} : pc'[t] = pc[t] /\ idx'[t] = idx[t]
    BY <1>1 DEF TypeOK, CallsTypeOK, GetLook, Goto
  <2>2. \A t \in Threads \ {u} : rd'[t] = rd[t] /\ wr'[t] = wr[t]
    BY <1>1 DEF TypeOK, LocksTypeOK, GetLook, Unlock
  <2>3. UNCHANGED <<cur, base, stack, path, split, made, mutexLockPath>>
    BY DEF GetLook
  <2> QED BY <1>3, <2>1, <2>2, <2>3, CalmFrame DEF Frame
<1>7. LockStep(u)
  <2>1. rd'[u] \subseteq rd[u] /\ wr'[u] \subseteq wr[u]
    BY <1>1 DEF TypeOK, LocksTypeOK, GetLook, Unlock
  <2> QED BY <2>1 DEF LockStep
<1>8. ThreadInv(u)'
  <2>1. path[u] = <<>> /\ split[u] = {} /\ made[u] = <<>> /\ mutexLockPath # u
    BY <1>1, NoPath DEF GetLook, At, OnPath, Splitting, Filling
  <2>2. rd[u] = {cur[u]} /\ wr[u] = {} /\ cur'[u] = cur[u]
    BY <1>1 DEF ThreadInv, HoldsRead, GetLook, At
  <2>3. path'[u] = <<>> /\ split'[u] = {} /\ made'[u] = <<>> /\ mutexLockPath' # u
    BY <2>1 DEF GetLook
  <2>4. Places(u)'
    BY <1>1, <1>4 DEF ThreadInv, Places, GetLook
  <2>5. CASE pc'[u] = "decRef" /\ Unlock(u, {cur[u]})
    <3>1. rd'[u] = {} /\ wr'[u] = {}
      BY <1>1, <2>2, <2>5 DEF TypeOK, LocksTypeOK, Unlock
    <3> QED BY <2>3, <2>4, <2>5, <3>1, ToRest
  <2>6. CASE /\ pc'[u] = "getDown" /\ rd' = rd /\ wr' = wr
             /\ idx'[u] = i /\ pivots[cur[u]][i].child # NID_NIL
    <3>1. i \in DOMAIN pivots[cur[u]] /\ ~isLeaf[cur[u]]
      BY <1>1, <1>2, <2>6, Basics, ChildFacts DEF Protocol, ThreadInv, Places
    <3>2. idx'[u] \in DOMAIN pivots'[cur'[u]] /\ ~isLeaf'[cur'[u]]
      BY <1>3, <2>2, <2>6, <3>1 DEF nodeVars
    <3> QED BY <2>2, <2>3, <2>4, <2>6, <3>2, ToRead
  <2>7. \/ pc'[u] = "decRef" /\ Unlock(u, {cur[u]})
        \/ /\ pc'[u] = "getDown" /\ rd' = rd /\ wr' = wr
           /\ idx'[u] = i /\ pivots[cur[u]][i].child # NID_NIL
    BY <1>1 DEF TypeOK, CallsTypeOK, GetLook, Goto
  <2> QED BY <2>5, <2>6, <2>7
<1> QED BY <1>4, <1>5, <1>6, <1>7, <1>8, Assemble

\* Node::get moves to the child.
LEMMA GetDownInv ==
    ASSUME Protocol, NEW u \in Threads, GetDown(u)
    PROVE  Protocol'
<1>1. TypeOK /\ ThreadInv(u)
  BY DEF Protocol
<1>2. LET c == Child(cur[u], idx[u])
      IN  /\ cur[u] \in Live /\ ~isLeaf[cur[u]] /\ idx[u] \in DOMAIN pivots[cur[u]]
          /\ rd[u] = {cur[u]} /\ wr[u] = {}
          /\ c = pivots[cur[u]][idx[u]].child + 1 /\ c \in Known /\ c # cur[u]
  <2>1. /\ cur[u] \in Known /\ cur[u] \in Live
        /\ ~isLeaf[cur[u]] /\ idx[u] \in DOMAIN pivots[cur[u]]
        /\ rd[u] = {cur[u]} /\ wr[u] = {}
    BY <1>1, Basics DEF ThreadInv, Places, AtWork, HoldsRead, GetDown, At
  <2> QED BY <1>1, <2>1, ChildFacts DEF Protocol
<1>3. UNCHANGED <<nodeVars, made>>
  BY DEF GetDown, nodeVars, threadVars
<1>4. NodesTypeOK' /\ Naming' /\ Tree' /\ Live' = Live /\ Known' = Known
  BY <1>3, CalmNodes
<1>5. TypeOK'
  <2>1. MarksTypeOK'
    BY <1>1, Basics, <1>2 DEF TypeOK, MarksTypeOK, CallsTypeOK, GetDown, At, Goto, nodeVars, threadVars
  <2>2. LocksTypeOK'
    BY <1>1, Basics, <1>2 DEF TypeOK, LocksTypeOK, CallsTypeOK, GetDown, At, Goto, nodeVars, threadVars
  <2>3. CallsTypeOK'
    BY <1>1, Basics, <1>2 DEF TypeOK, CallsTypeOK, PC, GetDown, At, Goto, nodeVars, threadVars
  <2> QED BY <1>4, <2>1, <2>2, <2>3 DEF TypeOK
<1>6. Frame(u)
  BY <1>1, <1>3, CalmFrame DEF TypeOK, LocksTypeOK, CallsTypeOK, Frame, GetDown, At, Goto, nodeVars, threadVars
<1>7. LockStep(u)
  BY <1>1 DEF TypeOK, LocksTypeOK, CallsTypeOK, LockStep, GetDown, At, Goto, nodeVars, threadVars
<1>8. ThreadInv(u)'
  <2>1. path[u] = <<>> /\ split[u] = {} /\ made[u] = <<>> /\ mutexLockPath # u
    BY <1>1, NoPath DEF GetDown, At, OnPath, Splitting, Filling
  <2>2. /\ pc'[u] = "getLook" /\ cur'[u] = Child(cur[u], idx[u])
        /\ path'[u] = <<>> /\ split'[u] = {} /\ made'[u] = <<>> /\ mutexLockPath' # u
    BY <1>1, <2>1 DEF TypeOK, CallsTypeOK, GetDown, Goto
  <2>3. rd'[u] = {cur'[u]} /\ wr'[u] = {}
    BY <1>1, <1>2, <2>2 DEF TypeOK, LocksTypeOK, GetDown
  <2>4. Places(u)'
    BY <1>1, <1>4, <1>2, <2>2 DEF ThreadInv, Places, GetDown
  <2> QED BY <2>2, <2>3, <2>4, ToRead
<1> QED BY <1>4, <1>5, <1>6, <1>7, <1>8, Assemble

\* The write-back thread clears a dirty flag, which no thread relies on.
LEMMA WriteBackInv ==
    ASSUME Protocol, NEW o \in Live, WriteBack(o)
    PROVE  Protocol'
<1>1. UNCHANGED <<nodeVars, rd, wr, mutexLockPath, pc, threadVars>>
  BY DEF WriteBack
<1>2. TypeOK'
  <2>1. NodesTypeOK'
    BY <1>1, CalmNodes DEF threadVars
  <2>2. MarksTypeOK'
    BY DEF Protocol, TypeOK, MarksTypeOK, WriteBack
  <2> QED BY <1>1, <2>1, <2>2 DEF Protocol, TypeOK, LocksTypeOK, CallsTypeOK, threadVars
<1> QED BY <1>1, <1>2, StillInv

-----------------------------------------------------------------------------
\* Actions that change messages.

\* Node::write inserts its message at the root.
LEMMA InsertAtRootInv ==
    ASSUME Protocol, NEW u \in Threads, InsertAtRoot(u)
    PROVE  Protocol'
<1> DEFINE o == cur[u]
           k == req[u].key
           i == FindPivot(pivots[o], k)
           m == IF req[u].op = "put" THEN req[u].value ELSE Del
<1>1. TypeOK /\ ThreadInv(u) /\ Tree
  BY DEF Protocol
<1>2. /\ o \in Live /\ o \in Objs /\ k \in Keys /\ m \in Messages
      /\ pivots[o] \in Seq(Pivot) /\ i \in DOMAIN pivots[o]
  <2>1. /\ o \in Live /\ o \in Known
        /\ req[u] \in [op : Ops, key : Keys, value : Values]
    BY <1>1, Basics DEF ThreadInv, Places, TypeOK, CallsTypeOK
  <2>2. k \in Keys /\ m \in Messages
    BY <2>1 DEF Messages
  <2> QED BY <1>1, <2>1, <2>2, NodeFacts
<1>3. /\ pivots' = [pivots EXCEPT ![o] = InsertMsg(pivots[o], i, k, m)]
      /\ newest' = [newest EXCEPT ![k] = m]
      /\ dirty' = [dirty EXCEPT ![o] = TRUE]
      /\ pc' = [pc EXCEPT ![u] = "push"]
      /\ UNCHANGED <<isLeaf, nid, nodeMap, nodeCount, root, height, refcnt,
                     rd, wr, mutexLockPath, req, base, cur, idx, stack, path,
                     split, made, todo, ret, failed, opsLeft>>
  BY <1>1 DEF InsertAtRoot, Goto, TypeOK, NodesTypeOK
<1>13. lpKey' \in [Threads -> Keys \cup {Freed}]
  <2>1. \E S : ReleaseKeys(u, S)
    BY DEF InsertAtRoot
  <2> QED BY <1>1, <2>1, ReleasedKeys
<1>4. pc[u] = "insert"
  BY DEF InsertAtRoot, At
<1>5. LET q == InsertMsg(pivots[o], i, k, m)
      IN  /\ q \in Seq(Pivot) /\ SameShape(pivots[o], q)
          /\ \A j \in DOMAIN pivots[o] : Tight(q[j].buf)
  <2> DEFINE q == InsertMsg(pivots[o], i, k, m)
  <2> HIDE DEF k, i, m
  <2>1. /\ q \in Seq(Pivot) /\ SameShape(pivots[o], q)
        /\ \A j \in DOMAIN pivots[o] : j # i => q[j] = pivots[o][j]
        /\ q[i].buf.msgs[k] = m
    BY <1>2, InsertMsgResult
  <2>2. m # NoMsg
    BY <1>2, ValuesAssumption DEF Messages, Del, NoMsg
  <2>3. Tight(q[i].buf)
    BY <1>2, <2>1, <2>2 DEF Tight, Present
  <2>4. \A j \in DOMAIN pivots[o] : Tight(pivots[o][j].buf)
    BY <1>1, <1>2 DEF Tree, TreeNode
  <2> HIDE DEF q
  <2>5. \A j \in DOMAIN pivots[o] : Tight(q[j].buf)
    BY <2>1, <2>3, <2>4
  <2> QED BY <2>1, <2>5 DEF q
<1> HIDE DEF o, k, i, m
<1>6. BufferStep
  <2>1. pivots' \in [Objs -> Seq(Pivot)]
    BY <1>1, <1>2, <1>3, <1>5 DEF TypeOK, NodesTypeOK
  <2>2. ASSUME NEW n \in Live
        PROVE  /\ SameShape(pivots[n], pivots'[n])
               /\ \A j \in DOMAIN pivots[n] : Tight(pivots'[n][j].buf)
    <3>1. CASE n = o
      BY <1>1, <1>2, <1>3, <1>5, <3>1 DEF TypeOK, NodesTypeOK
    <3>2. CASE n # o
      <4>1. pivots'[n] = pivots[n]
        BY <1>1, <1>2, <1>3, <3>2, Basics DEF TypeOK, NodesTypeOK
      <4> QED BY <1>1, <4>1 DEF Tree, TreeNode, SameShape
    <3> QED BY <3>1, <3>2
  <2> QED BY <1>3, <2>1, <2>2 DEF BufferStep
<1>7. /\ NodesTypeOK' /\ Naming' /\ Tree' /\ Live' = Live /\ Known' = Known
  BY <1>6, BufferNodes
<1>8. TypeOK'
  <2>1. MarksTypeOK'
    BY <1>1, <1>2, <1>3 DEF TypeOK, MarksTypeOK
  <2>2. LocksTypeOK' /\ CallsTypeOK'
    BY <1>1, <1>3, <1>13 DEF TypeOK, LocksTypeOK, CallsTypeOK, PC
  <2> QED BY <1>7, <2>1, <2>2 DEF TypeOK
<1>9. Frame(u)
  BY <1>1, <1>3, <1>6, BufferNodes DEF TypeOK, CallsTypeOK, Frame
<1>10. LockStep(u)
  BY <1>3 DEF LockStep
<1>11. ThreadInv(u)'
  <2>1. path[u] = <<>> /\ split[u] = {} /\ made[u] = <<>> /\ mutexLockPath # u
    BY <1>1, <1>4, NoPath DEF OnPath, Splitting, Filling
  <2>2. /\ pc'[u] = "push" /\ cur'[u] = cur[u] /\ isLeaf' = isLeaf
        /\ path'[u] = <<>> /\ split'[u] = {} /\ made'[u] = <<>> /\ mutexLockPath' # u
    BY <1>1, <1>3, <2>1 DEF TypeOK, CallsTypeOK
  <2>3. Places(u)'
    BY <1>1, <1>3, <1>7 DEF ThreadInv, Places
  <2>4. /\ rd'[u] = (IF isLeaf'[cur'[u]] THEN {} ELSE {cur'[u]})
        /\ wr'[u] = (IF isLeaf'[cur'[u]] THEN {cur'[u]} ELSE {})
    BY <1>1, <1>3, <1>4, <2>2 DEF ThreadInv, HoldsCur
  <2> QED BY <2>2, <2>3, <2>4, ToPush
<1> QED BY <1>7, <1>8, <1>9, <1>10, <1>11, Assemble

\* What a thread that pushes a buffer down has locked.
LEMMA PushFacts ==
    ASSUME Protocol, NEW u \in Threads, pc[u] \in {"pushBuf", "moving", "clearing"}
    PROVE  LET c == Child(cur[u], idx[u])
           IN  /\ cur[u] \in Known /\ cur[u] \in Live /\ ~isLeaf[cur[u]]
               /\ idx[u] \in DOMAIN pivots[cur[u]]
               /\ c = pivots[cur[u]][idx[u]].child + 1
               /\ c \in Known /\ c \in Live /\ c # cur[u]
               /\ rd[u] = (IF isLeaf[c] THEN {cur[u]} ELSE {cur[u], c})
               /\ wr[u] = (IF isLeaf[c] THEN {c} ELSE {})
               /\ path[u] = <<>> /\ split[u] = {} /\ made[u] = <<>>
               /\ mutexLockPath # u
<1>1. TypeOK /\ ThreadInv(u) /\ Tree /\ Naming
  BY DEF Protocol
<1>2. /\ cur[u] \in Known /\ cur[u] \in Live /\ ~isLeaf[cur[u]]
      /\ idx[u] \in DOMAIN pivots[cur[u]]
  BY <1>1, Basics DEF ThreadInv, Places, AtWork
<1>3. LET c == Child(cur[u], idx[u])
      IN  /\ c = pivots[cur[u]][idx[u]].child + 1
          /\ c \in Known /\ c \in Live /\ c # cur[u]
  BY <1>1, <1>2, ChildFacts
<1>4. path[u] = <<>> /\ split[u] = {} /\ made[u] = <<>> /\ mutexLockPath # u
  BY <1>1, NoPath DEF OnPath, Splitting, Filling
<1>5. LET c == Child(cur[u], idx[u])
      IN  /\ rd[u] = (IF isLeaf[c] THEN {cur[u]} ELSE {cur[u], c})
          /\ wr[u] = (IF isLeaf[c] THEN {c} ELSE {})
  BY <1>1, <1>3 DEF ThreadInv, HoldsChild
<1> QED BY <1>2, <1>3, <1>4, <1>5

\* The thread goes on with pushDownOrSplit on the child.
LEMMA EnterChildInv ==
    ASSUME Protocol, NEW u \in Threads, pc[u] \in {"pushBuf", "clearing"},
           BufferStep, MarksTypeOK', EnterChild(u, Child(cur[u], idx[u])),
           UNCHANGED <<mutexLockPath, req, base, idx, lpKey, path, split, todo,
                       ret>>
    PROVE  Protocol'
<1> DEFINE c == Child(cur[u], idx[u])
<1>1. TypeOK /\ ThreadInv(u) /\ UNCHANGED made
  BY DEF Protocol, BufferStep
<1>2. /\ cur[u] \in Known /\ cur[u] \in Objs /\ c \in Known /\ c \in Objs
      /\ c # cur[u]
      /\ rd[u] = (IF isLeaf[c] THEN {cur[u]} ELSE {cur[u], c})
      /\ wr[u] = (IF isLeaf[c] THEN {c} ELSE {})
      /\ path[u] = <<>> /\ split[u] = {} /\ made[u] = <<>> /\ mutexLockPath # u
  BY <1>1, PushFacts, Basics
<1>3. /\ NodesTypeOK' /\ Naming' /\ Tree' /\ Live' = Live /\ Known' = Known
      /\ isLeaf' = isLeaf
  BY BufferNodes DEF BufferStep
<1>4. /\ rd' = [rd EXCEPT ![u] = @ \ {cur[u]}]
      /\ wr' = [wr EXCEPT ![u] = @ \ {cur[u]}]
      /\ stack' = [stack EXCEPT ![u] = Append(@, cur[u])]
      /\ cur' = [cur EXCEPT ![u] = c]
      /\ pc' = [pc EXCEPT ![u] = "push"]
  BY DEF EnterChild, Unlock, Goto
<1> HIDE DEF c
<1>5. TypeOK'
  <2>1. LocksTypeOK'
    BY <1>1, <1>4 DEF TypeOK, LocksTypeOK
  <2>2. stack' \in [Threads -> Seq(Objs)]
    <3>1. stack \in [Threads -> Seq(Objs)]
      BY <1>1 DEF TypeOK, CallsTypeOK
    <3>2. Append(stack[u], cur[u]) \in Seq(Objs)
      BY <1>2, <3>1
    <3> QED BY <1>4, <3>1, <3>2
  <2>3. cur' \in [Threads -> Objs] /\ pc' \in [Threads -> PC]
    BY <1>1, <1>2, <1>4 DEF TypeOK, CallsTypeOK, PC
  <2>4. CallsTypeOK'
    BY <1>1, <2>2, <2>3 DEF TypeOK, CallsTypeOK
  <2> QED BY <1>3, <2>1, <2>4 DEF TypeOK
<1>6. Frame(u)
  BY <1>1, <1>4, BufferNodes DEF TypeOK, LocksTypeOK, CallsTypeOK, Frame
<1>7. LockStep(u)
  BY <1>1, <1>4 DEF TypeOK, LocksTypeOK, LockStep
<1>8. ThreadInv(u)'
  <2>1. /\ pc'[u] = "push" /\ cur'[u] = c /\ base'[u] = base[u]
        /\ stack'[u] = Append(stack[u], cur[u])
        /\ path'[u] = <<>> /\ split'[u] = {} /\ made'[u] = <<>>
        /\ mutexLockPath' # u
    BY <1>1, <1>2, <1>4 DEF TypeOK, CallsTypeOK
  <2>2. /\ rd'[u] = (IF isLeaf'[cur'[u]] THEN {} ELSE {cur'[u]})
        /\ wr'[u] = (IF isLeaf'[cur'[u]] THEN {cur'[u]} ELSE {})
    <3>1. rd'[u] = rd[u] \ {cur[u]} /\ wr'[u] = wr[u] \ {cur[u]}
      BY <1>1, <1>4 DEF TypeOK, LocksTypeOK
    <3> QED BY <1>2, <1>3, <2>1, <3>1
  <2>3. Places(u)'
    <3>1. stack[u] \in Seq(Objs) /\ \A n \in DOMAIN stack[u] : stack[u][n] \in Known
      BY <1>1 DEF TypeOK, CallsTypeOK, ThreadInv, Places
    <3>2. \A n \in DOMAIN Append(stack[u], cur[u]) : Append(stack[u], cur[u])[n] \in Known
      BY <1>2, <3>1, AppendProperties
    <3>3. base[u] \in Known
      BY <1>1 DEF ThreadInv, Places
    <3> QED BY <1>2, <1>3, <2>1, <3>2, <3>3 DEF Places
  <2> QED BY <2>1, <2>2, <2>3, ToPush
<1> QED BY <1>3, <1>5, <1>6, <1>7, <1>8, Assemble

\* The messages are copied while the thread keeps its locks.
LEMMA MovingInv ==
    ASSUME Protocol, NEW u \in Threads, pc[u] \in {"pushBuf", "moving"},
           BufferStep, MarksTypeOK',
           NEW l \in {"moving", "clearing"}, pc' = [pc EXCEPT ![u] = l],
           l = "moving" => ~isLeaf[Child(cur[u], idx[u])],
           todo' \in [Threads -> SUBSET Keys],
           lpKey' \in [Threads -> Keys \cup {Freed}],
           UNCHANGED <<mutexLockPath, rd, wr, req, base, cur, idx, stack, path,
                       split, ret>>
    PROVE  Protocol'
<1> DEFINE c == Child(cur[u], idx[u])
<1>1. TypeOK /\ ThreadInv(u) /\ UNCHANGED made
  BY DEF Protocol, BufferStep
<1>2. /\ cur[u] \in Live /\ ~isLeaf[cur[u]] /\ idx[u] \in DOMAIN pivots[cur[u]]
      /\ c = pivots[cur[u]][idx[u]].child + 1
      /\ rd[u] = (IF isLeaf[c] THEN {cur[u]} ELSE {cur[u], c})
      /\ wr[u] = (IF isLeaf[c] THEN {c} ELSE {})
      /\ path[u] = <<>> /\ split[u] = {} /\ made[u] = <<>> /\ mutexLockPath # u
  BY PushFacts
<1>3. /\ NodesTypeOK' /\ Naming' /\ Tree' /\ Live' = Live /\ Known' = Known
      /\ isLeaf' = isLeaf
  BY BufferNodes DEF BufferStep
<1>4. TypeOK'
  <2>1. pc' \in [Threads -> PC]
    BY <1>1 DEF TypeOK, CallsTypeOK, PC
  <2> QED BY <1>1, <1>3, <2>1 DEF TypeOK, LocksTypeOK, CallsTypeOK
<1>5. Frame(u)
  BY <1>1, BufferNodes DEF TypeOK, CallsTypeOK, Frame
<1>6. LockStep(u)
  BY DEF LockStep
<1>7. ThreadInv(u)'
  <2>1. /\ pc'[u] = l /\ path'[u] = <<>> /\ split'[u] = {} /\ made'[u] = <<>>
        /\ mutexLockPath' # u
    BY <1>1, <1>2 DEF TypeOK, CallsTypeOK
  <2>2. /\ DOMAIN pivots'[cur[u]] = DOMAIN pivots[cur[u]]
        /\ pivots'[cur[u]][idx[u]].child = pivots[cur[u]][idx[u]].child
    BY <1>2 DEF BufferStep, SameShape
  <2>3. Places(u)'
    BY <1>1, <1>3 DEF ThreadInv, Places
  <2> QED BY <1>2, <1>3, <2>1, <2>2, <2>3, ToChild
<1> QED BY <1>3, <1>4, <1>5, <1>6, <1>7, Assemble

\* A step that leaves all pivots alone is a BufferStep.
LEMMA IdleBufferStep ==
    ASSUME Protocol, UNCHANGED <<nodeVars, made>>
    PROVE  BufferStep
<1>1. \A n \in Live : \A j \in DOMAIN pivots[n] : Tight(pivots[n][j].buf)
  BY DEF Protocol, Tree, TreeNode
<1> QED BY <1>1 DEF Protocol, TypeOK, NodesTypeOK, BufferStep, SameShape, nodeVars

\* Node::pushDownLocked starts: nothing to move, a leaf, or an inner node.
LEMMA PushDownLockedInv ==
    ASSUME Protocol, NEW u \in Threads, PushDownLocked(u)
    PROVE  Protocol'
<1> DEFINE o == cur[u]
           i == idx[u]
           c == Child(o, i)
           K == Present(pivots[o][i].buf.msgs)
<1>1. TypeOK /\ pc[u] = "pushBuf"
  BY DEF Protocol, PushDownLocked, At
<1>2. o \in Live /\ i \in DOMAIN pivots[o] /\ c \in Live /\ c # o
  BY <1>1, PushFacts
<1>3. UNCHANGED <<isLeaf, nid, nodeMap, nodeCount, root, height, refcnt,
                  mutexLockPath, req, base, idx, path, split, made, ret, newest,
                  failed, opsLeft>>
  BY DEF PushDownLocked
<1>4. CASE UNCHANGED <<pivots, dirty, lpKey, todo>> /\ EnterChild(u, c)
  <2>1. BufferStep /\ MarksTypeOK'
    BY <1>1, <1>3, <1>4, IdleBufferStep DEF TypeOK, MarksTypeOK, nodeVars
  <2> QED BY <1>1, <1>3, <1>4, <2>1, EnterChildInv
<1>5. CASE /\ Copy(o, i, c, K) /\ SetDirty({o, c})
           /\ ReleaseKeys(u, Replaced(c, K))
           /\ Goto(u, "clearing") /\ UNCHANGED <<rd, wr, stack, cur, todo>>
  <2>1. MarksTypeOK'
    BY <1>1, <1>3, <1>5 DEF TypeOK, MarksTypeOK, SetDirty
  <2>2. BufferStep
    BY <1>2, <1>3, <1>5, CopyStep
  <2>3. lpKey' \in [Threads -> Keys \cup {Freed}]
    BY <1>1, <1>5, ReleasedKeys
  <2>4. todo' \in [Threads -> SUBSET Keys]
    BY <1>1, <1>5 DEF TypeOK, CallsTypeOK
  <2> QED BY <1>1, <1>3, <1>5, <2>1, <2>2, <2>3, <2>4, MovingInv DEF Goto
<1>6. CASE /\ ~isLeaf[c] /\ Goto(u, "moving") /\ todo' = [todo EXCEPT ![u] = K]
           /\ UNCHANGED <<pivots, dirty, rd, wr, stack, cur, lpKey>>
  <2>1. BufferStep /\ MarksTypeOK'
    BY <1>1, <1>3, <1>6, IdleBufferStep DEF TypeOK, MarksTypeOK, nodeVars
  <2>2. lpKey' \in [Threads -> Keys \cup {Freed}]
    BY <1>1, <1>6 DEF TypeOK, CallsTypeOK
  <2>3. todo' \in [Threads -> SUBSET Keys]
    BY <1>1, <1>6 DEF TypeOK, CallsTypeOK, Present
  <2> QED BY <1>1, <1>3, <1>6, <2>1, <2>2, <2>3, MovingInv DEF Goto
<1> QED BY <1>4, <1>5, <1>6 DEF PushDownLocked

\* What is still to be copied are messages of the buffer.
LEMMA MoveMsgInv ==
    ASSUME Protocol, NEW u \in Threads, CopyInv(u), MoveMsg(u)
    PROVE  Protocol'
<1> DEFINE o == cur[u]
           i == idx[u]
           c == Child(o, i)
           k == Smallest(todo[u])
<1>1. /\ TypeOK /\ ThreadInv(u) /\ pc[u] = "moving"
      /\ todo[u] # {} /\ todo[u] \subseteq Present(pivots[o][i].buf.msgs)
  BY DEF Protocol, MoveMsg, At, CopyInv
<1>2. /\ o \in Live /\ i \in DOMAIN pivots[o] /\ c \in Live /\ c # o /\ ~isLeaf[c]
  BY <1>1, PushFacts DEF ThreadInv, HoldsChild
<1>3. UNCHANGED <<isLeaf, nid, nodeMap, nodeCount, root, height, refcnt, rd,
                  wr, mutexLockPath, req, base, cur, idx, stack, lpKey, path,
                  split, made, ret, newest, failed, opsLeft>>
  BY DEF MoveMsg
<1>4. {k} \in SUBSET Present(pivots[o][i].buf.msgs)
  <2>1. todo[u] \in SUBSET Nat
    BY <1>1, KeySets DEF Present
  <2> QED BY <1>1, <2>1, SmallestIn
<1>5. BufferStep
  <2>1. Copy(o, i, c, {k})
    BY DEF MoveMsg
  <2> HIDE DEF k
  <2> QED BY <1>2, <1>3, <1>4, <2>1, CopyStep
<1>6. /\ lpKey' \in [Threads -> Keys \cup {Freed}]
      /\ todo' \in [Threads -> SUBSET Keys]
  BY <1>1, <1>3 DEF TypeOK, CallsTypeOK, MoveMsg
<1>7. CASE SetDirty({o, c}) /\ Goto(u, "clearing")
  <2>1. MarksTypeOK'
    BY <1>1, <1>3, <1>7 DEF TypeOK, MarksTypeOK, SetDirty
  <2> QED BY <1>1, <1>3, <1>5, <1>6, <1>7, <2>1, MovingInv DEF Goto
<1>8. CASE UNCHANGED <<dirty, pc>>
  <2>1. MarksTypeOK'
    BY <1>1, <1>3, <1>8 DEF TypeOK, MarksTypeOK
  <2>2. pc' = [pc EXCEPT ![u] = "moving"]
    BY <1>1, <1>8 DEF TypeOK, CallsTypeOK
  <2> QED BY <1>1, <1>2, <1>3, <1>5, <1>6, <2>1, <2>2, MovingInv
<1> QED BY <1>7, <1>8 DEF MoveMsg

\* Node::pushDownLocked clears the buffer and goes on.
LEMMA ClearBufInv ==
    ASSUME Protocol, NEW u \in Threads, ClearBuf(u)
    PROVE  Protocol'
<1>1. TypeOK /\ pc[u] = "clearing"
  BY DEF Protocol, ClearBuf, At
<1>2. UNCHANGED <<isLeaf, nid, nodeMap, nodeCount, root, height, refcnt, dirty,
                  mutexLockPath, req, base, idx, lpKey, path, split, made,
                  todo, ret, newest, failed, opsLeft>>
  BY DEF ClearBuf
<1>3. MarksTypeOK'
  BY <1>1, <1>2 DEF TypeOK, MarksTypeOK
<1>4. BufferStep
  <2>1. cur[u] \in Live /\ idx[u] \in DOMAIN pivots[cur[u]]
    BY <1>1, PushFacts
  <2> QED BY <1>2, <2>1, ClearStep DEF ClearBuf
<1> QED BY <1>1, <1>2, <1>3, <1>4, EnterChildInv DEF ClearBuf

\* lockPath goes on to a child or leaves the mutex and starts to split.
LEMMA AdvanceTo ==
    ASSUME TypeOK, NEW u \in Threads, NEW c, Advance(u, c)
    PROVE  /\ pc' = [pc EXCEPT ![u] = pc'[u]] /\ pc'[u] \in {"lpDown", "split"}
           /\ mutexLockPath = u =>
                /\ mutexLockPath' \in {u, NoThread}
                /\ mutexLockPath' = u <=> pc'[u] = "lpDown"
           /\ pc'[u] = "lpDown" => \E k \in Keys : HasChildFor(c, k)
BY ThreadsAssumption, PathKeysAreKeys DEF TypeOK, CallsTypeOK, Advance, Goto

\* Node::lockPath locks the next node of the path and empties the buffer on
\* the way into it.
LEMMA LockPathDownInv ==
    ASSUME Protocol, NEW u \in Threads, LockPathDown(u)
    PROVE  Protocol'
<1>0. PICK key \in Keys : LockChild(u, FindPivot(pivots[Last(path[u])], key))
  BY PathKeysAreKeys DEF Protocol, LockPathDown
<1> DEFINE s == path[u]
           o == Last(s)
           i == FindPivot(pivots[o], key)
           c == Child(o, i)
           K == Present(pivots[o][i].buf.msgs)
<1>1. TypeOK /\ ThreadInv(u) /\ Tree /\ Naming /\ pc[u] = "lpDown"
  BY DEF Protocol, LockPathDown, At
<1>2. /\ s \in Seq(Objs) /\ s # <<>> /\ s[1] = root
      /\ Len(s) \in Nat \ {0} /\ DOMAIN s = 1..Len(s)
      /\ o \in Live /\ o \in Known /\ o = s[Len(s)]
      /\ rd[u] = {} /\ wr[u] = PathSet(u) \cup split[u]
      /\ \A n \in 1..Len(s) : s[n] \in Live /\ s[n] \in Known
      /\ \A n \in 1..Len(s) : height[s[n]] + n = height[root] + 1
      /\ height[root] \in Nat
      /\ \A n \in 1..Len(s) : n + 1 \in 1..Len(s) =>
            \E j \in DOMAIN pivots[s[n]] : pivots[s[n]][j].child + 1 = s[n + 1]
  BY <1>1, PathFacts DEF OnPath
<1>3. height[o] + Len(s) = height[root] + 1
  BY <1>2
<1>4. ~isLeaf[o] /\ split[u] = {} /\ made[u] = <<>> /\ mutexLockPath = u
  BY <1>1 DEF ThreadInv, PathInv, MadeInv, HoldsMutex, TypeOK, CallsTypeOK,
          Splitting, Filling
<1>5. i \in DOMAIN pivots[o]
  BY <1>1, <1>2, <1>4, NodeFacts
<1>6. /\ c = pivots[o][i].child + 1 /\ c \in Live /\ c \in Objs /\ c # o
      /\ c \in Known
      /\ height[c] + 1 = height[o] /\ height[c] \in Nat
  BY <1>1, <1>2, <1>4, <1>5, ChildFacts, NodeFacts
<1>7. /\ CanWrite(c) /\ wr' = [wr EXCEPT ![u] = @ \cup {c}] /\ rd' = rd
      /\ path' = [path EXCEPT ![u] = Append(@, c)]
      /\ idx' = [idx EXCEPT ![u] = i]
      /\ IF K = {} THEN Advance(u, c)
         ELSE Goto(u, "lpClear") /\ UNCHANGED mutexLockPath
      /\ UNCHANGED <<isLeaf, nid, nodeMap, nodeCount, root, height, refcnt,
                     req, base, cur, stack, split, made, todo, ret, newest,
                     failed, opsLeft>>
  BY <1>0 DEF LockPathDown, LockChild, WriteLock
<1>8. dirty' \in [Objs -> BOOLEAN]
  BY <1>0, <1>1 DEF TypeOK, MarksTypeOK, LockChild, SetDirty
<1>17. lpKey' \in [Threads -> Keys \cup {Freed}]
  <2>1. \E S : ReleaseKeys(u, S)
    BY <1>0 DEF LockChild
  <2> QED BY <1>1, <2>1, ReleasedKeys
<1>9. BufferStep
  <2>1. Copy(o, i, c, K)
    BY <1>0 DEF LockChild
  <2>2. K \in SUBSET K
    OBVIOUS
  <2> HIDE DEF o, i, c
  <2> QED BY <1>2, <1>5, <1>6, <1>7, <2>1, <2>2, CopyStep
<1>10. NodesTypeOK' /\ Naming' /\ Tree' /\ Live' = Live /\ Known' = Known
  BY <1>9, BufferNodes
<1>11. /\ pc' = [pc EXCEPT ![u] = pc'[u]]
       /\ pc'[u] \in {"lpDown", "lpClear", "split"}
       /\ mutexLockPath' \in {u, NoThread}
       /\ mutexLockPath' = u <=> pc'[u] \in {"lpDown", "lpClear"}
       /\ pc'[u] = "lpDown" => \E k \in Keys : HasChildFor(c, k)
  <2>1. CASE Advance(u, c)
    BY <1>1, <1>4, <2>1, AdvanceTo
  <2>2. CASE Goto(u, "lpClear") /\ UNCHANGED mutexLockPath
    BY <1>1, <1>4, <2>2 DEF TypeOK, CallsTypeOK, Goto
  <2> QED BY <1>7, <2>1, <2>2
<1>12. pc'[u] = "lpDown" => ~isLeaf[c]
  BY <1>1, <1>4, <1>6, <1>11, NodeFacts, ChildFacts DEF HasChildFor
<1> HIDE DEF s, o, i, c
<1>13. TypeOK'
  <2>1. MarksTypeOK'
    BY <1>1, <1>7, <1>8 DEF TypeOK, MarksTypeOK
  <2>2. LocksTypeOK'
    BY <1>1, <1>6, <1>7, <1>11 DEF TypeOK, LocksTypeOK
  <2>3. path' \in [Threads -> Seq(Objs)]
    <3>1. path \in [Threads -> Seq(Objs)]
      BY <1>1 DEF TypeOK, CallsTypeOK
    <3>2. Append(path[u], c) \in Seq(Objs)
      BY <1>6, <3>1
    <3> QED BY <1>7, <3>1, <3>2
  <2>4. pc' \in [Threads -> PC]
    BY <1>1, <1>11 DEF TypeOK, CallsTypeOK, PC
  <2>5. i \in Nat
    BY <1>2, <1>5, NodeFacts, PivotsSeq, <1>1
  <2>6. CallsTypeOK'
    BY <1>1, <1>7, <1>17, <2>3, <2>4, <2>5 DEF TypeOK, CallsTypeOK
  <2> QED BY <1>10, <2>1, <2>2, <2>6 DEF TypeOK
<1>14. Frame(u)
  BY <1>1, <1>4, <1>7, <1>9, <1>11, BufferNodes, ThreadsAssumption, SMTT(30)
     DEF TypeOK, LocksTypeOK, CallsTypeOK, Frame
<1>15. LockStep(u)
  BY <1>1, <1>7 DEF TypeOK, LocksTypeOK, LockStep
<1>16. ThreadInv(u)'
  <2> DEFINE z == Append(s, c)
  <2>0. Len(s) \in Nat
    BY <1>2
  <2>1. path'[u] = z /\ split'[u] = {} /\ rd'[u] = {} /\ wr'[u] = wr[u] \cup {c}
    BY <1>1, <1>2, <1>4, <1>7 DEF TypeOK, CallsTypeOK, LocksTypeOK, s
  <2>2. /\ z # <<>> /\ DOMAIN z = 1..(Len(s) + 1) /\ Len(z) = Len(s) + 1
        /\ z[Len(s) + 1] = c /\ \A n \in 1..Len(s) : z[n] = s[n]
    <3>1. s \in Seq(Objs) /\ c \in Objs
      BY <1>2, <1>6
    <3> QED BY <3>1, AppendProperties
  <2>3. Last(z) = c /\ z[1] = root
    BY <1>2, <2>2 DEF Last
  <2> HIDE DEF z
  <2>4. PathSet(u)' = PathSet(u) \cup {c}
    <3>1. PathSet(u) = {s[n] : n \in 1..Len(s)}
      BY <1>2 DEF PathSet, s
    <3>2. PathSet(u)' = {z[n] : n \in 1..(Len(s) + 1)}
      BY <2>1, <2>2 DEF PathSet
    <3>3. \A n \in 1..(Len(s) + 1) : n = Len(s) + 1 \/ n \in 1..Len(s)
      BY <2>0
    <3>4. \A n \in 1..Len(s) : n \in 1..(Len(s) + 1)
      BY <2>0
    <3>5. Len(s) + 1 \in 1..(Len(s) + 1)
      BY <2>0
    <3> QED BY <2>2, <3>1, <3>2, <3>3, <3>4, <3>5
  <2>5. wr'[u] = PathSet(u)' \cup split'[u]
    BY <1>2, <1>4, <2>1, <2>4
  <2>6. Places(u)'
    BY <1>1, <1>7, <1>10 DEF ThreadInv, Places
  <2>7. ASSUME NEW n \in 1..(Len(s) + 1)
        PROVE  z[n] \in Known' /\ height[z[n]] + n = height[root] + 1
    <3>1. CASE n \in 1..Len(s)
      BY <1>2, <1>10, <2>2, <3>1
    <3>2. CASE n = Len(s) + 1
      <4>1. z[n] = c
        BY <2>2, <3>2
      <4>2. height[c] \in Nat /\ height[c] + 1 = height[o]
        BY <1>6
      <4>3. height[c] + (Len(s) + 1) = height[root] + 1
        BY <1>3, <2>0, <4>2
      <4> QED BY <1>6, <1>10, <3>2, <4>1, <4>3
    <3> QED BY <2>0, <3>1, <3>2
  <2>8. ASSUME NEW n \in 1..(Len(s) + 1), n + 1 \in 1..(Len(s) + 1)
        PROVE  \E j \in DOMAIN pivots'[z[n]] : pivots'[z[n]][j].child + 1 = z[n + 1]
    <3>0. n \in 1..Len(s)
      BY <2>0, <2>8
    <3>1. n \in 1..Len(s) /\ z[n] = s[n] /\ s[n] \in Live
      BY <1>2, <2>2, <3>0
    <3>2. SameShape(pivots[s[n]], pivots'[s[n]])
      BY <1>9, <3>1 DEF BufferStep
    <3>3. CASE n + 1 \in 1..Len(s)
      <4>1. PICK j \in DOMAIN pivots[s[n]] : pivots[s[n]][j].child + 1 = s[n + 1]
        BY <1>2, <3>1, <3>3
      <4>2. z[n + 1] = s[n + 1]
        BY <2>2, <3>3
      <4> QED BY <3>1, <3>2, <4>1, <4>2 DEF SameShape
    <3>4. CASE n = Len(s)
      <4>1. s[n] = o /\ z[n + 1] = c
        BY <1>2, <2>2, <3>4
      <4> QED BY <1>5, <1>6, <3>1, <3>2, <4>1 DEF SameShape
    <3>5. n + 1 \in 1..Len(s) \/ n = Len(s)
      BY <2>0, <3>0
    <3> QED BY <3>3, <3>4, <3>5
  <2>9. height' = height /\ root' = root /\ isLeaf' = isLeaf
    BY <1>7
  <2>10. /\ \A n \in DOMAIN path'[u] : path'[u][n] \in Known'
         /\ \A n \in DOMAIN path'[u] : height'[path'[u][n]] + n = height'[root'] + 1
    BY <2>1, <2>2, <2>7, <2>9
  <2>11. \A n \in DOMAIN path'[u] : n + 1 \in DOMAIN path'[u] =>
            \E j \in DOMAIN pivots'[path'[u][n]] :
                pivots'[path'[u][n]][j].child + 1 = path'[u][n + 1]
    BY <2>1, <2>2, <2>8
  <2>12. /\ path'[u] # <<>> /\ path'[u][1] = root'
         /\ pc'[u] = "lpDown" => ~isLeaf'[Last(path'[u])]
    BY <1>12, <2>1, <2>2, <2>3, <2>9
  <2>13. /\ Len(path'[u]) > 1
         /\ idx'[u] \in DOMAIN pivots'[Last(Front(path'[u]))]
    <3>1. idx'[u] = i
      BY <1>1, <1>7 DEF TypeOK, CallsTypeOK
    <3>2. Last(Front(z)) = o
      <4>1. z \in Seq(Objs) /\ z # <<>>
        BY <1>13, <2>1, <2>2 DEF TypeOK, CallsTypeOK
      <4>2. Len(Front(z)) = Len(s) /\ \A n \in 1..Len(s) : Front(z)[n] = z[n]
        BY <2>0, <2>2, <4>1, FrontLast
      <4>3. Len(s) \in 1..Len(s)
        BY <1>2
      <4> QED BY <1>2, <2>2, <4>2, <4>3 DEF Last
    <3>3. SameShape(pivots[o], pivots'[o])
      BY <1>2, <1>9 DEF BufferStep
    <3>4. Len(z) > 1
      BY <1>2, <2>2
    <3> QED BY <1>5, <2>1, <3>1, <3>2, <3>3, <3>4 DEF SameShape
  <2>14. MadeInv(u)'
    <3>1. made'[u] = <<>> /\ pc'[u] \notin Filling
      BY <1>4, <1>7, <1>11 DEF Filling
    <3> QED BY <3>1 DEF MadeInv, Filling
  <2>15. pc'[u] \in OnPath
    BY <1>11 DEF OnPath, Splitting
  <2> HIDE DEF z
  <2> QED BY <1>11, <2>1, <2>5, <2>6, <2>10, <2>11, <2>12, <2>13, <2>14, <2>15, ToPath
<1> QED BY <1>10, <1>13, <1>14, <1>15, <1>16, Assemble

\* It clears the buffer on the way and goes on.
LEMMA LockPathClearInv ==
    ASSUME Protocol, NEW u \in Threads, LockPathClear(u)
    PROVE  Protocol'
<1> DEFINE s == path[u]
           o == Last(Front(s))
           c == Last(s)
<1>1. TypeOK /\ ThreadInv(u) /\ Tree /\ Naming /\ pc[u] = "lpClear"
  BY DEF Protocol, LockPathClear, At
<1>2. /\ s \in Seq(Objs) /\ s # <<>> /\ s[1] = root
      /\ Len(s) \in Nat \ {0} /\ DOMAIN s = 1..Len(s)
      /\ c \in Live /\ c \in Known
      /\ rd[u] = {} /\ wr[u] = PathSet(u) \cup split[u]
      /\ \A n \in 1..Len(s) : s[n] \in Live /\ s[n] \in Known
      /\ \A n \in 1..Len(s) : height[s[n]] + n = height[root] + 1
      /\ \A n \in 1..Len(s) : n + 1 \in 1..Len(s) =>
            \E j \in DOMAIN pivots[s[n]] : pivots[s[n]][j].child + 1 = s[n + 1]
  BY <1>1, PathFacts DEF OnPath
<1>3. /\ Len(s) > 1 /\ idx[u] \in DOMAIN pivots[o]
      /\ split[u] = {} /\ made[u] = <<>> /\ mutexLockPath = u
  BY <1>1 DEF ThreadInv, PathInv, MadeInv, HoldsMutex, TypeOK, CallsTypeOK,
          Splitting, Filling
<1>4. o \in Live
  <2>1. Len(Front(s)) = Len(s) - 1 /\ \A n \in 1..(Len(s) - 1) : Front(s)[n] = s[n]
    BY <1>2, FrontLast
  <2>2. Len(s) - 1 \in 1..(Len(s) - 1) /\ Len(s) - 1 \in 1..Len(s)
    BY <1>2, <1>3
  <2> QED BY <1>2, <2>1, <2>2 DEF Last
<1>5. /\ Clear(o, idx[u]) /\ Advance(u, c)
      /\ UNCHANGED <<isLeaf, nid, nodeMap, nodeCount, root, height, refcnt,
                     dirty, rd, wr, threadVars, newest, failed, opsLeft>>
      /\ UNCHANGED <<req, base, cur, idx, stack, lpKey, path, split, made, todo, ret>>
  BY DEF LockPathClear, threadVars
<1>6. BufferStep
  BY <1>3, <1>4, <1>5, ClearStep
<1>7. NodesTypeOK' /\ Naming' /\ Tree' /\ Live' = Live /\ Known' = Known
  BY <1>6, BufferNodes
<1>8. /\ pc' = [pc EXCEPT ![u] = pc'[u]] /\ pc'[u] \in {"lpDown", "split"}
      /\ mutexLockPath' \in {u, NoThread}
      /\ mutexLockPath' = u <=> pc'[u] = "lpDown"
      /\ pc'[u] = "lpDown" => \E k \in Keys : HasChildFor(c, k)
  BY <1>1, <1>3, <1>5, AdvanceTo
<1>9. pc'[u] = "lpDown" => ~isLeaf[c]
  <2>1. \A k \in Keys : FindPivot(pivots[c], k) \in DOMAIN pivots[c]
    BY <1>1, <1>2, NodeFacts
  <2> QED BY <1>1, <1>2, <1>8, <2>1, ChildFacts DEF HasChildFor
<1> HIDE DEF s, o, c
<1>10. TypeOK'
  <2>1. MarksTypeOK'
    BY <1>1, <1>5 DEF TypeOK, MarksTypeOK
  <2>2. LocksTypeOK'
    BY <1>1, <1>5, <1>8 DEF TypeOK, LocksTypeOK
  <2>3. pc' \in [Threads -> PC]
    BY <1>1, <1>8 DEF TypeOK, CallsTypeOK, PC
  <2>4. CallsTypeOK'
    BY <1>1, <1>5, <2>3 DEF TypeOK, CallsTypeOK
  <2> QED BY <1>7, <2>1, <2>2, <2>4 DEF TypeOK
<1>11. Frame(u)
  BY <1>1, <1>3, <1>5, <1>6, <1>8, BufferNodes, ThreadsAssumption
     DEF TypeOK, CallsTypeOK, Frame
<1>12. LockStep(u)
  BY <1>5 DEF LockStep
<1>13. ThreadInv(u)'
  <2>1. /\ path'[u] = s /\ split'[u] = {} /\ rd'[u] = {}
        /\ wr'[u] = PathSet(u)' \cup split'[u]
    BY <1>2, <1>3, <1>5 DEF s, PathSet
  <2>2. Places(u)'
    BY <1>1, <1>5, <1>7 DEF ThreadInv, Places
  <2>3. MadeInv(u)'
    <3>1. made'[u] = <<>> /\ pc'[u] \notin Filling
      BY <1>3, <1>5, <1>8 DEF Filling
    <3> QED BY <3>1 DEF MadeInv, Filling
  <2>4. height' = height /\ root' = root /\ isLeaf' = isLeaf
    BY <1>5
  <2>5. /\ \A n \in DOMAIN path'[u] : path'[u][n] \in Known'
        /\ path'[u] # <<>> /\ path'[u][1] = root'
        /\ \A n \in DOMAIN path'[u] : height'[path'[u][n]] + n = height'[root'] + 1
    BY <1>2, <1>7, <2>1, <2>4
  <2>6. ASSUME NEW n \in DOMAIN path'[u], n + 1 \in DOMAIN path'[u]
        PROVE  \E j \in DOMAIN pivots'[path'[u][n]] :
                   pivots'[path'[u][n]][j].child + 1 = path'[u][n + 1]
    <3>1. n \in 1..Len(s) /\ n + 1 \in 1..Len(s) /\ s[n] \in Live
      BY <1>2, <2>1, <2>6
    <3>2. PICK j \in DOMAIN pivots[s[n]] : pivots[s[n]][j].child + 1 = s[n + 1]
      BY <1>2, <3>1
    <3>3. SameShape(pivots[s[n]], pivots'[s[n]])
      BY <1>6, <3>1 DEF BufferStep
    <3>4. j \in DOMAIN pivots'[s[n]] /\ pivots'[s[n]][j].child + 1 = s[n + 1]
      BY <3>2, <3>3 DEF SameShape
    <3> QED BY <2>1, <3>4
  <2>7. pc'[u] = "lpDown" => ~isLeaf'[Last(path'[u])]
    BY <1>9, <2>1, <2>4 DEF c, s
  <2>8. pc'[u] \in OnPath /\ pc'[u] # "lpClear"
    BY <1>8 DEF OnPath, Splitting
  <2> QED BY <1>8, <2>1, <2>2, <2>3, <2>5, <2>6, <2>7, <2>8, ToPath
<1> QED BY <1>7, <1>10, <1>11, <1>12, <1>13, Assemble

-----------------------------------------------------------------------------
\* Actions that change links.

\* Node::splitBuf adds a pivot to a leaf, which it has locked exclusively.
LEMMA SplitBufInv ==
    ASSUME Protocol, NEW u \in Threads, SplitBuf(u)
    PROVE  Protocol'
<1> DEFINE o == cur[u]
           i == Smallest(Overfull(o))
           q == SplitPivots(pivots[o], i)
           k == Smallest(Present(pivots[o][i].buf.msgs))
<1>1. TypeOK /\ ThreadInv(u) /\ Tree /\ Naming /\ pc[u] = "push"
  BY DEF Protocol, SplitBuf, At
<1>2. CASE Abort("splitBuf")
  BY <1>2, AbortInv
<1>3. CASE /\ pivots' = [pivots EXCEPT ![o] = q]
           /\ dirty' = [dirty EXCEPT ![o] = TRUE]
           /\ lpKey' = [lpKey EXCEPT ![u] = k]
           /\ Unlock(u, {o})
           /\ Goto(u, "lockPath")
           /\ UNCHANGED <<isLeaf, nid, nodeMap, nodeCount, root, height,
                          refcnt, mutexLockPath, req, base, cur, idx, stack,
                          path, split, made, todo, ret, newest, failed,
                          opsLeft>>
  <2>1. o \in Live /\ o \in Known /\ o \in Objs /\ pivots[o] \in Seq(Pivot)
    BY <1>1, Basics, NodeFacts DEF ThreadInv, Places
  <2>2. i \in DOMAIN pivots[o] /\ Present(pivots[o][i].buf.msgs) # {}
    BY <1>1, <2>1, OverfullFacts DEF SplitBuf
  <2>3. isLeaf[o]
    BY <1>1, <2>1, <2>2, ChildFacts DEF SplitBuf
  <2>4. rd[u] = {} /\ wr[u] = {o}
    BY <1>1, <2>3 DEF ThreadInv, HoldsCur
  <2>5. k \in Keys
    <3>1. Present(pivots[o][i].buf.msgs) \in SUBSET Keys
      BY DEF Present
    <3> QED BY <2>2, <3>1, KeySets, SmallestIn
  <2>6. /\ q \in Seq(Pivot) /\ q # <<>>
        /\ \A j \in DOMAIN q :
             \/ /\ q[j].child = NID_NIL /\ q[j].leftKey # EmptyKey
                /\ Tight(q[j].buf)
             \/ \E l \in DOMAIN pivots[o] :
                  /\ q[j].child = pivots[o][l].child
                  /\ q[j].leftKey = pivots[o][l].leftKey
                  /\ Tight(pivots[o][l].buf) => Tight(q[j].buf)
                  /\ j > 1 => l > 1
    <3> HIDE DEF o, i
    <3> QED BY <2>1, <2>2, SplitPivotsResult
  <2>7. \A l \in DOMAIN pivots[o] : Tight(pivots[o][l].buf)
    BY <1>1, <2>1 DEF Tree, TreeNode
  <2> HIDE DEF o, q, k
  <2>8. pivots'[o] = q /\ (\A n \in Objs \ {o} : pivots'[n] = pivots[n])
    BY <1>1, <1>3, <2>1 DEF TypeOK, NodesTypeOK
  <2>9. /\ nodeCount \in Nat /\ Grows /\ Live' = Live /\ Known' = Known
        /\ nodeCount' = nodeCount
    BY <1>1, <1>3, Basics DEF Grows, Live, Known, Unlinked
  <2>10. NodesTypeOK' /\ Naming'
    <3>1. pivots' \in [Objs -> Seq(Pivot)]
      BY <1>1, <1>3, <2>6 DEF TypeOK, NodesTypeOK
    <3> QED BY <1>1, <1>3, <2>9, <3>1 DEF TypeOK, NodesTypeOK, Naming
  <2>11. Tree'
    <3> SUFFICES ASSUME NEW n \in Live PROVE TreeNode(n)'
      BY <2>9 DEF Tree
    <3>1. CASE n = o
      <4>1. /\ pivots'[n] = q /\ pivots'[n] # <<>> /\ isLeaf[n]
            /\ isLeaf'[n] = isLeaf[n] /\ height'[n] = height[n]
        BY <1>3, <2>3, <2>6, <2>8, <3>1
      <4>2. \A j \in DOMAIN q :
             \/ /\ q[j].child = NID_NIL /\ q[j].leftKey # EmptyKey
                /\ Tight(q[j].buf)
             \/ \E l \in DOMAIN pivots[n] :
                  /\ q[j].child = pivots[n][l].child
                  /\ q[j].leftKey = pivots[n][l].leftKey
                  /\ Tight(q[j].buf)
                  /\ j > 1 => l > 1
        BY <2>6, <2>7, <3>1
      <4>3. n \in Known' => JoinsFrom(n) /\ pivots'[n] # <<>>
        BY <2>9, <4>1 DEF JoinsFrom
      <4> QED BY <1>1, <2>9, <4>1, <4>2, <4>3, TreeNodeFrom
    <3>2. CASE n # o
      <4>1. pivots'[n] = pivots[n] /\ isLeaf'[n] = isLeaf[n]
        BY <1>1, <1>3, <2>8, <3>2, Basics
      <4>2. n \in Known' => JoinsFrom(n) /\ n \in Known
        BY <2>9 DEF JoinsFrom
      <4> QED BY <1>1, <2>9, <4>1, <4>2, TreeNodeKept
    <3> QED BY <3>1, <3>2
  <2>12. TypeOK'
    <3>1. MarksTypeOK'
      BY <1>1, <1>3 DEF TypeOK, MarksTypeOK
    <3>2. LocksTypeOK'
      BY <1>1, <1>3 DEF TypeOK, LocksTypeOK, Unlock
    <3>3. CallsTypeOK'
      BY <1>1, <1>3, <2>5 DEF TypeOK, CallsTypeOK, PC, Goto
    <3> QED BY <2>10, <3>1, <3>2, <3>3 DEF TypeOK
  <2>13. Frame(u)
    <3>1. \A n \in Live : \/ SameShape(pivots[n], pivots'[n])
                          \/ n \in Known /\ n \in wr[u]
      BY <1>1, <2>1, <2>4, <2>8, Basics DEF SameShape
    <3>2. /\ Known \subseteq Known' /\ root' = root /\ isLeaf' = isLeaf
          /\ height' = height /\ made' = made
          /\ nodeCount' \in Nat /\ nodeCount <= nodeCount'
      BY <1>3, <2>9
    <3>3. \A t \in Threads \ {u} :
            /\ pc'[t] = pc[t] /\ cur'[t] = cur[t] /\ idx'[t] = idx[t]
            /\ base'[t] = base[t] /\ stack'[t] = stack[t] /\ path'[t] = path[t]
            /\ split'[t] = split[t] /\ rd'[t] = rd[t] /\ wr'[t] = wr[t]
            /\ made'[t] = made[t]
            /\ (mutexLockPath' = t <=> mutexLockPath = t)
      BY <1>1, <1>3 DEF TypeOK, LocksTypeOK, CallsTypeOK, Unlock, Goto
    <3> QED BY <2>9, <3>1, <3>2, <3>3 DEF Frame
  <2>14. LockStep(u)
    BY <1>1, <1>3 DEF TypeOK, LocksTypeOK, LockStep, Unlock
  <2>15. ThreadInv(u)'
    <3>1. path[u] = <<>> /\ split[u] = {} /\ made[u] = <<>> /\ mutexLockPath # u
      BY <1>1, NoPath DEF OnPath, Splitting, Filling
    <3>2. /\ pc'[u] = "lockPath" /\ rd'[u] = {} /\ wr'[u] = {}
          /\ path'[u] = <<>> /\ split'[u] = {} /\ made'[u] = <<>>
          /\ mutexLockPath' # u
      BY <1>1, <1>3, <2>4, <3>1 DEF TypeOK, LocksTypeOK, CallsTypeOK, Unlock, Goto
    <3>3. Places(u)'
      BY <1>1, <1>3, <2>9 DEF ThreadInv, Places
    <3> QED BY <3>2, <3>3, ToRest
  <2> QED BY <2>10, <2>11, <2>12, <2>13, <2>14, <2>15, Assemble
<1>4. \/ Abort("splitBuf")
      \/ /\ pivots' = [pivots EXCEPT ![o] = q]
         /\ dirty' = [dirty EXCEPT ![o] = TRUE]
         /\ lpKey' = [lpKey EXCEPT ![u] = k]
         /\ Unlock(u, {o})
         /\ Goto(u, "lockPath")
         /\ UNCHANGED <<isLeaf, nid, nodeMap, nodeCount, root, height,
                        refcnt, mutexLockPath, req, base, cur, idx, stack,
                        path, split, made, todo, ret, newest, failed,
                        opsLeft>>
  BY <1>1 DEF SplitBuf, TypeOK, NodesTypeOK
<1> QED BY <1>2, <1>3, <1>4

\* What a split of node o hands out: two nonempty halves of its pivots, the
\* upper one without an empty left key.
LEMMA HalvesFacts ==
    ASSUME TypeOK, Tree, NEW o \in Live, Len(pivots[o]) > 1
    PROVE  LET p == pivots[o]
           IN  /\ p \in Seq(Pivot)
               /\ Lower(p) \in Seq(Pivot) /\ Upper(p) \in Seq(Pivot)
               /\ Lower(p) # <<>> /\ Upper(p) # <<>>
               /\ \A j \in DOMAIN Lower(p) :
                    j \in DOMAIN p /\ Lower(p)[j] = p[j] /\ Tight(p[j].buf)
               /\ \A j \in DOMAIN Upper(p) : \E l \in DOMAIN p :
                    /\ l > 1 /\ Upper(p)[j] = p[l] /\ Tight(p[l].buf)
                    /\ p[l].leftKey # EmptyKey
<1> DEFINE p == pivots[o]
           m == Middle(p)
<1>1. p \in Seq(Pivot) /\ Len(p) \in Nat /\ DOMAIN p = 1..Len(p) /\ Len(p) > 1
  <2>1. p \in Seq(Pivot)
    BY NodeFacts
  <2>2. Len(p) \in Nat /\ DOMAIN p = 1..Len(p)
    BY <2>1, PivotsSeq
  <2> QED BY <2>1, <2>2
<1>2. \A l \in DOMAIN p : /\ Tight(p[l].buf)
                          /\ l > 1 => p[l].leftKey # EmptyKey
                          /\ p[l].leftKey \in Keys \cup {EmptyKey}
  BY <1>1, PivotsSeq DEF Tree, TreeNode
<1> HIDE DEF p
<1>3. /\ m \in 1..(Len(p) - 1)
      /\ Lower(p) \in Seq(Pivot) /\ Upper(p) \in Seq(Pivot)
      /\ Lower(p) # <<>> /\ Upper(p) # <<>>
      /\ DOMAIN Lower(p) = 1..m
      /\ DOMAIN Upper(p) = 1..(Len(p) - m)
      /\ \A j \in 1..m : Lower(p)[j] = p[j]
      /\ \A j \in 1..(Len(p) - m) : Upper(p)[j] = p[m + j]
  BY <1>1, SplitNodeResult
<1> HIDE DEF m
<1>4. \A j \in DOMAIN Lower(p) : j \in DOMAIN p /\ Lower(p)[j] = p[j] /\ Tight(p[j].buf)
  <2>1. \A j \in 1..m : j \in 1..Len(p)
    BY <1>1, <1>3
  <2> QED BY <1>1, <1>2, <1>3, <2>1
<1>5. \A j \in DOMAIN Upper(p) : \E l \in DOMAIN p :
            /\ l > 1 /\ Upper(p)[j] = p[l] /\ Tight(p[l].buf)
            /\ p[l].leftKey # EmptyKey
  <2>1. \A j \in 1..(Len(p) - m) : m + j \in 1..Len(p) /\ m + j > 1
    BY <1>1, <1>3
  <2> QED BY <1>1, <1>2, <1>3, <2>1
<1> QED BY <1>1, <1>3, <1>4, <1>5 DEF p, m

\* The parent after a split: its own pivots, in order, and the new link.
LEMMA ParentFacts ==
    ASSUME NEW p \in Seq(Pivot), p # <<>>, NEW child \in 0..MaxNodes, NEW key \in Keys,
           \A j \in DOMAIN p : Tight(p[j].buf)
    PROVE  LET q == AddPivot(p, child, EmptyBuf, key)
           IN  /\ q \in Seq(Pivot) /\ q # <<>>
               /\ \A j \in DOMAIN q :
                    \/ \E l \in DOMAIN p :
                        q[j] = p[l] /\ Tight(q[j].buf) /\ (j > 1 => l > 1)
                    \/ /\ q[j].child = child /\ q[j].leftKey = key
                       /\ Tight(q[j].buf)
<1> DEFINE q == AddPivot(p, child, EmptyBuf, key)
           i == FindPivot(p, key)
<1>1. Len(p) \in Nat /\ DOMAIN p = 1..Len(p)
  BY PivotsSeq
<1>2. /\ q \in Seq(Pivot) /\ Len(q) = Len(p) + 1 /\ i \in 1..Len(p)
      /\ \A j \in 1..Len(q) :
            q[j] = IF j <= i THEN p[j]
                   ELSE IF j = i + 1 THEN NewPivot(child, EmptyBuf, key)
                   ELSE p[j - 1]
  BY EmptyBufFacts, AddPivotResult
<1> HIDE DEF q, i
<1>3. q # <<>> /\ DOMAIN q = 1..(Len(p) + 1)
  BY <1>1, <1>2, PivotsSeq
<1>4. ASSUME NEW j \in DOMAIN q
      PROVE  \/ \E l \in DOMAIN p : q[j] = p[l] /\ Tight(q[j].buf) /\ (j > 1 => l > 1)
             \/ q[j].child = child /\ q[j].leftKey = key /\ Tight(q[j].buf)
  <2>1. j \in 1..Len(q) /\ j \in Nat
    BY <1>1, <1>2, <1>3
  <2>2. CASE j <= i
    <3>1. j \in DOMAIN p /\ q[j] = p[j]
      BY <1>1, <1>2, <2>1, <2>2
    <3> QED BY <3>1
  <2>3. CASE j = i + 1
    <3>1. q[j] = NewPivot(child, EmptyBuf, key)
      BY <1>2, <2>1, <2>3
    <3> QED BY <3>1, EmptyBufFacts DEF NewPivot
  <2>4. CASE j > i + 1
    <3>1. j - 1 \in DOMAIN p /\ j - 1 > 1
      BY <1>1, <1>2, <2>1, <2>4
    <3>2. q[j] = p[j - 1]
      BY <1>1, <1>2, <2>1, <2>4
    <3> QED BY <3>1, <3>2
  <2>5. j <= i \/ j = i + 1 \/ j > i + 1
    BY <1>1, <1>2, <2>1
  <2> QED BY <2>2, <2>3, <2>4, <2>5
<1> QED BY <1>2, <1>3, <1>4 DEF q

\* What the thread inside splitNode knows of the nodes it has made.
LEMMA MadeFacts ==
    ASSUME Protocol, NEW u \in Threads, pc[u] \in Filling
    PROVE  /\ \A t \in Threads \ {u} : made[t] = <<>>
           /\ pc[u] \in {"spFill", "spCut", "spLink", "spRoot"} =>
                /\ made[u] = <<nodeCount>> /\ made[u][1] = nodeCount
                /\ nodeCount >= 2 /\ nodeCount \in Live
                /\ Known = Live \ {nodeCount}
           /\ pc[u] \in {"spFirst", "spSecond", "grow"} =>
                /\ made[u] = <<nodeCount - 1, nodeCount>>
                /\ made[u][1] = nodeCount - 1 /\ made[u][2] = nodeCount
                /\ nodeCount >= 3 /\ nodeCount \in Live /\ nodeCount - 1 \in Live
                /\ Known = Live \ {nodeCount - 1, nodeCount}
<1>1. TypeOK /\ ThreadInv(u) /\ root \in Known /\ pc[u] \in OnPath
  BY DEF Protocol, Naming, OnPath, Splitting
<1>2. nodeCount \in Nat /\ root \in Live
  BY <1>1, Basics
<1>3. ASSUME NEW t \in Threads \ {u} PROVE made[t] = <<>>
  <2>1. pc[t] \notin Filling
    BY OnePath DEF OnPath, Splitting
  <2> QED BY <2>1 DEF Protocol, ThreadInv, MadeInv
<1>4. Known = Live \ {made[u][n] : n \in DOMAIN made[u]}
  <2>1. \A t \in Threads \ {u} : {made[t][n] : n \in DOMAIN made[t]} = {}
    <3>1. \A n \in DOMAIN <<>> : FALSE
      OBVIOUS
    <3> QED BY <1>3, <3>1
  <2> DEFINE M(t) == {made[t][n] : n \in DOMAIN made[t]}
  <2>2. \A t \in Threads \ {u} : M(t) = {}
    BY <2>1
  <2>3. Unlinked = UNION {M(t) : t \in Threads}
    BY DEF Unlinked
  <2> HIDE DEF M
  <2>4. UNION {M(t) : t \in Threads} = M(u)
    BY <2>2
  <2> QED BY <2>3, <2>4 DEF M, Known
<1>5. CASE pc[u] \in {"spFill", "spCut", "spLink", "spRoot"}
  <2>1. made[u] = <<nodeCount>>
    BY <1>1, <1>5 DEF ThreadInv, MadeInv
  <2>2. Known = Live \ {nodeCount}
    BY <1>4, <2>1
  <2>3. nodeCount >= 2 /\ nodeCount \in Live
    BY <1>1, <1>2, <2>2 DEF Live
  <2> QED BY <1>3, <1>5, <2>1, <2>2, <2>3
<1>6. CASE pc[u] \in {"spFirst", "spSecond", "grow"}
  <2>1. made[u] = <<nodeCount - 1, nodeCount>>
    BY <1>1, <1>6 DEF ThreadInv, MadeInv
  <2>2. Known = Live \ {nodeCount - 1, nodeCount}
    BY <1>4, <2>1
  <2>3. nodeCount >= 3 /\ nodeCount \in Live /\ nodeCount - 1 \in Live
    BY <1>1, <1>2, <2>2 DEF Live
  <2> QED BY <1>3, <1>6, <2>1, <2>2, <2>3
<1> QED BY <1>3, <1>5, <1>6 DEF Filling

\* The node at work is the last one of the path, and the root if the path is
\* no longer.
LEMMA SplitFacts ==
    ASSUME Protocol, NEW u \in Threads, pc[u] \in Splitting
    PROVE  LET o == Last(path[u])
           IN  /\ TypeOK /\ ThreadInv(u) /\ Tree /\ Naming /\ MadeInv(u)
               /\ pc[u] \in OnPath /\ mutexLockPath # u
               /\ path[u] \in Seq(Objs) /\ path[u] # <<>>
               /\ o \in Known /\ o \in Live /\ o \in Objs /\ o \in wr[u]
               /\ pivots[o] \in Seq(Pivot) /\ height[o] \in Nat
               /\ isLeaf[o] \in BOOLEAN
               /\ Len(path[u]) = 1 => o = root
               /\ nodeCount \in Nat
<1>1. TypeOK /\ ThreadInv(u) /\ Tree /\ Naming /\ pc[u] \in OnPath
  BY DEF Protocol, OnPath
<1>2. MadeInv(u) /\ mutexLockPath # u
  BY <1>1 DEF ThreadInv, HoldsMutex, Splitting, Filling
<1>3. LET s == path[u]
      IN  /\ s \in Seq(Objs) /\ s # <<>> /\ s[1] = root
          /\ Len(s) \in Nat \ {0} /\ Last(s) = s[Len(s)]
          /\ Last(s) \in Known /\ Last(s) \in Live
          /\ \A n \in 1..Len(s) : s[n] \in wr[u]
  BY <1>1, PathFacts
<1>4. Last(path[u]) \in wr[u]
  BY <1>3
<1> QED BY <1>1, <1>2, <1>3, <1>4, NodeFacts, Basics

\* A step of splitNode that keeps the path and the locks.
LEMMA SplitStep ==
    ASSUME Protocol, NEW u \in Threads, pc[u] \in Splitting,
           NEW l \in Splitting, pc' = [pc EXCEPT ![u] = l],
           NEW m \in Seq(Objs), made' = [made EXCEPT ![u] = m],
           UNCHANGED <<root, refcnt, rd, wr, mutexLockPath, req, base, cur, idx,
                       stack, lpKey, path, split, todo, ret, newest, failed,
                       opsLeft>>,
           dirty' \in [Objs -> BOOLEAN],
           NodesTypeOK', Naming', Tree', Known \subseteq Known', Grows,
           \A n \in Live :
             /\ isLeaf'[n] = isLeaf[n] /\ height'[n] = height[n]
             /\ \/ n = Last(path[u]) \/ n \notin Known
                \/ SameShape(pivots[n], pivots'[n]),
           MadeInv(u)'
    PROVE  Protocol'
<1> DEFINE s == path[u]
           o == Last(s)
<1>1. /\ TypeOK /\ ThreadInv(u) /\ pc[u] \in OnPath /\ mutexLockPath # u
      /\ o \in Known /\ o \in wr[u]
  BY SplitFacts
<1>2. l \in PC /\ l \in OnPath /\ l \notin {"lpDown", "lpClear"}
  BY DEF PC, OnPath, Splitting, Filling
<1>3. TypeOK'
  <2>1. MarksTypeOK' /\ LocksTypeOK'
    BY <1>1 DEF TypeOK, MarksTypeOK, LocksTypeOK
  <2>2. pc' \in [Threads -> PC] /\ made' \in [Threads -> Seq(Objs)]
    BY <1>1, <1>2 DEF TypeOK, CallsTypeOK
  <2>3. CallsTypeOK'
    BY <1>1, <2>2 DEF TypeOK, CallsTypeOK
  <2> QED BY <2>1, <2>3 DEF TypeOK
<1>4. Frame(u)
  <2>1. \A t \in Threads \ {u} : pc'[t] = pc[t] /\ made'[t] = made[t]
    BY <1>1 DEF TypeOK, CallsTypeOK
  <2> QED BY <1>1, <2>1 DEF Frame, Grows
<1>5. LockStep(u)
  BY DEF LockStep
<1>6. ThreadInv(u)'
  <2>1. /\ DOMAIN s = 1..Len(s) /\ Len(s) \in Nat \ {0} /\ s # <<>> /\ s[1] = root
        /\ rd[u] = {} /\ wr[u] = PathSet(u) \cup split[u] /\ o = s[Len(s)]
        /\ \A n \in 1..Len(s) : s[n] \in Known /\ s[n] \in Live
        /\ \A n \in 1..Len(s) : height[s[n]] + n = height[root] + 1
        /\ \A n \in 1..Len(s) : n + 1 \in 1..Len(s) =>
              \E i \in DOMAIN pivots[s[n]] : pivots[s[n]][i].child + 1 = s[n + 1]
        /\ \A n, j \in 1..Len(s) : s[n] = s[j] => n = j
    BY <1>1, PathFacts
  <2>2. /\ pc'[u] = l /\ path'[u] = s /\ rd'[u] = {}
        /\ wr'[u] = PathSet(u)' \cup split'[u] /\ root' = root
    BY <1>1, <2>1 DEF TypeOK, CallsTypeOK, PathSet
  <2>3. Places(u)'
    BY <1>1 DEF ThreadInv, Places
  <2>4. root \in Live
    BY <1>1, Basics
  <2> HIDE DEF s
  <2>5. ASSUME NEW n \in 1..Len(s), n + 1 \in 1..Len(s)
        PROVE  \E i \in DOMAIN pivots'[s[n]] : pivots'[s[n]][i].child + 1 = s[n + 1]
    <3>1. s[n] # o /\ s[n] \in Live /\ s[n] \in Known
      BY <2>1, <2>5
    <3>2. SameShape(pivots[s[n]], pivots'[s[n]])
      BY <3>1 DEF s
    <3>3. PICK i \in DOMAIN pivots[s[n]] : pivots[s[n]][i].child + 1 = s[n + 1]
      BY <2>1, <2>5
    <3> QED BY <3>2, <3>3 DEF SameShape
  <2>6. /\ \A n \in DOMAIN path'[u] : path'[u][n] \in Known'
        /\ path'[u] # <<>> /\ path'[u][1] = root'
        /\ \A n \in DOMAIN path'[u] : height'[path'[u][n]] + n = height'[root'] + 1
    BY <2>1, <2>2, <2>4
  <2>7. \A n \in DOMAIN path'[u] : n + 1 \in DOMAIN path'[u] =>
            \E i \in DOMAIN pivots'[path'[u][n]] :
                pivots'[path'[u][n]][i].child + 1 = path'[u][n + 1]
    BY <2>1, <2>2, <2>5
  <2>8. mutexLockPath' # u
    BY <1>1
  <2> QED BY <1>2, <2>2, <2>3, <2>6, <2>7, <2>8, ToPath
<1> QED BY <1>3, <1>4, <1>5, <1>6, Assemble

\* BufferTree::createNode: the tree does not lead to the new node.
LEMMA CreateNodeFacts ==
    ASSUME Protocol, NEW leaf \in BOOLEAN, NEW h \in Nat, leaf <=> h = 0,
           CreateNode(leaf, h), root' = root, Known' = Known
    PROVE  /\ NodesTypeOK' /\ Naming' /\ Tree' /\ Grows
           /\ nodeCount' = nodeCount + 1 /\ nodeCount' \in Objs
           /\ isLeaf'[nodeCount'] = leaf /\ height'[nodeCount'] = h
           /\ pivots'[nodeCount'] = <<>>
           /\ \A n \in Live : /\ n # nodeCount' /\ pivots'[n] = pivots[n]
                              /\ isLeaf'[n] = isLeaf[n]
                              /\ height'[n] = height[n]
<1> DEFINE new == nodeCount + 1
<1>1. TypeOK /\ Tree /\ Naming
  BY DEF Protocol
<1>2. /\ new <= MaxNodes
      /\ isLeaf' = [isLeaf EXCEPT ![new] = leaf]
      /\ nid' = [nid EXCEPT ![new] = nodeCount]
      /\ nodeMap' = [nodeMap EXCEPT ![nodeCount] = new]
      /\ nodeCount' = new
      /\ height' = [height EXCEPT ![new] = h]
      /\ pivots' = [pivots EXCEPT ![new] = <<>>]
  BY DEF CreateNode
<1>3. /\ nodeCount \in Nat /\ nodeCount >= 1 /\ nodeCount \in 0..MaxNodes
      /\ new \in Objs /\ new \in 0..MaxNodes /\ Live \subseteq Objs
      /\ \A n \in Live : n # new /\ n \in Nat
  <2>1. nodeCount \in Nat /\ Live \subseteq Objs /\ nodeCount \in Objs
    BY <1>1, Basics
  <2> QED BY <1>2, <2>1, MaxNodesAssumption DEF Objs, Live
<1>4. Live' = Live \cup {new}
  BY <1>2, <1>3 DEF Live
<1>5. /\ \A n \in Live : /\ pivots'[n] = pivots[n] /\ isLeaf'[n] = isLeaf[n]
                         /\ height'[n] = height[n] /\ nid'[n] = nid[n]
      /\ pivots'[new] = <<>> /\ isLeaf'[new] = leaf /\ height'[new] = h
      /\ nid'[new] = nodeCount
  BY <1>1, <1>2, <1>3 DEF TypeOK, NodesTypeOK
<1>6. Grows
  BY <1>2, <1>3, <1>5 DEF Grows
<1>7. NodesTypeOK'
  <2>1. pivots' \in [Objs -> Seq(Pivot)]
    <3>1. <<>> \in Seq(Pivot)
      OBVIOUS
    <3> QED BY <1>1, <1>2, <3>1 DEF TypeOK, NodesTypeOK
  <2>2. isLeaf' \in [Objs -> BOOLEAN] /\ height' \in [Objs -> Nat]
    BY <1>1, <1>2 DEF TypeOK, NodesTypeOK
  <2>3. nid' \in [Objs -> 0..MaxNodes] /\ nodeMap' \in [0..MaxNodes -> 0..MaxNodes]
    <3> HIDE DEF new
    <3> QED BY <1>1, <1>2, <1>3 DEF TypeOK, NodesTypeOK
  <2>4. nodeCount' \in Objs /\ root' \in Live'
    BY <1>1, <1>2, <1>3, <1>4, Basics
  <2> QED BY <2>1, <2>2, <2>3, <2>4 DEF NodesTypeOK
<1>8. Naming'
  <2>1. \A n \in Live' : nid'[n] = IF n = 1 THEN 1 ELSE n - 1
    BY <1>1, <1>3, <1>4, <1>5 DEF Naming
  <2>2. ASSUME NEW n \in 1..(nodeCount' - 1) PROVE nodeMap'[n] = n + 1
    <3>1. n \in 1..nodeCount /\ nodeMap \in [0..MaxNodes -> 0..MaxNodes]
      BY <1>1, <1>2, <1>3 DEF TypeOK, NodesTypeOK
    <3>2. n \in 0..MaxNodes
      BY <1>3, <3>1, MaxNodesAssumption
    <3>3. CASE n = nodeCount
      BY <1>2, <1>3, <3>1, <3>3
    <3>4. CASE n \in 1..(nodeCount - 1)
      <4>1. n # nodeCount /\ nodeMap[n] = n + 1
        BY <1>1, <1>3, <3>4 DEF Naming
      <4> QED BY <1>2, <3>1, <3>2, <4>1
    <3> QED BY <1>3, <3>1, <3>3, <3>4
  <2>3. root' \in Known' /\ root' # 2 /\ (root' = 1 => Known' = {1})
    BY <1>1 DEF Naming
  <2> QED BY <2>1, <2>2, <2>3 DEF Naming
<1>9. Tree'
  <2> SUFFICES ASSUME NEW n \in Live' PROVE TreeNode(n)'
    BY DEF Tree
  <2>1. CASE n = new
    <3>1. n \notin Known'
      BY <1>1, <1>3, <2>1 DEF Known
    <3>2. DOMAIN pivots'[n] = {}
      BY <1>5, <2>1
    <3> QED BY <1>5, <2>1, <3>1, <3>2 DEF TreeNode
  <2>2. CASE n \in Live
    <3>1. n \in Known' => JoinsFrom(n) /\ n \in Known
      BY <1>1 DEF JoinsFrom
    <3> QED BY <1>1, <1>5, <1>6, <2>2, <3>1, TreeNodeKept
  <2> QED BY <1>4, <2>1, <2>2
<1> QED BY <1>2, <1>3, <1>5, <1>6, <1>7, <1>8, <1>9

\* One node is given other pivots.
LEMMA GiveNodes ==
    ASSUME Protocol, NEW o \in Live, NEW p \in Seq(Pivot),
           pivots' = [pivots EXCEPT ![o] = p],
           UNCHANGED <<isLeaf, nid, nodeMap, nodeCount, height>>,
           Known \subseteq Known',
           root' \in Known', root' # 2, root' = 1 => Known' = {1},
           Known' = Known \/ Known' = Live',
           \A n \in Live \ {o} : n \notin Known /\ n \in Known' => pivots[n] # <<>>,
           TreeNode(o)'
    PROVE  /\ NodesTypeOK' /\ Naming' /\ Tree' /\ Grows /\ Live' = Live
           /\ pivots'[o] = p
           /\ \A n \in Live : /\ isLeaf'[n] = isLeaf[n] /\ height'[n] = height[n]
                              /\ n # o => pivots'[n] = pivots[n]
<1>1. TypeOK /\ Tree /\ Naming
  BY DEF Protocol
<1>2. nodeCount \in Nat /\ Live \subseteq Objs /\ Live' = Live
  BY <1>1, Basics DEF Live
<1>3. /\ pivots'[o] = p
      /\ \A n \in Live : /\ isLeaf'[n] = isLeaf[n] /\ height'[n] = height[n]
                         /\ n # o => pivots'[n] = pivots[n]
  BY <1>1, <1>2 DEF TypeOK, NodesTypeOK
<1>4. Grows
  BY <1>2, <1>3 DEF Grows
<1>5. NodesTypeOK'
  <2>1. root' \in Live'
    BY <1>2 DEF Known
  <2>2. pivots' \in [Objs -> Seq(Pivot)]
    BY <1>1 DEF TypeOK, NodesTypeOK
  <2> QED BY <1>1, <2>1, <2>2 DEF TypeOK, NodesTypeOK
<1>6. Naming'
  BY <1>1, <1>2 DEF Naming
<1>7. Tree'
  <2> SUFFICES ASSUME NEW n \in Live PROVE TreeNode(n)'
    BY <1>2 DEF Tree
  <2>1. CASE n # o
    <3>1. n \in Known' => JoinsFrom(n)
      BY DEF JoinsFrom
    <3> QED BY <1>1, <1>3, <1>4, <2>1, <3>1, TreeNodeKept
  <2> QED BY <2>1
<1> QED BY <1>2, <1>3, <1>4, <1>5, <1>6, <1>7

\* Node::splitNode makes a sibling for a node with too many pivots.
LEMMA CreateSiblingInv ==
    ASSUME Protocol, NEW u \in Threads, CreateSibling(u)
    PROVE  Protocol'
<1> DEFINE o == Last(path[u])
<1>1. pc[u] = "split" /\ pc[u] \in Splitting /\ pc[u] \in OnPath
  BY DEF CreateSibling, At, Splitting, OnPath
<1>2. /\ TypeOK /\ ThreadInv(u) /\ Tree /\ MadeInv(u) /\ nodeCount \in Nat
      /\ o \in Known /\ o \in Live /\ pivots[o] \in Seq(Pivot)
      /\ height[o] \in Nat /\ isLeaf[o] \in BOOLEAN
  BY <1>1, SplitFacts
<1>3. Len(pivots[o]) > 1
  BY <1>2, PivotsSeq, OptionsAssumption DEF CreateSibling
<1>4. /\ CreateNode(isLeaf[o], height[o])
      /\ made' = [made EXCEPT ![u] = <<nodeCount + 1>>]
      /\ pc' = [pc EXCEPT ![u] = "spFill"]
      /\ UNCHANGED <<root, refcnt, dirty, rd, wr, mutexLockPath, req, base, cur,
                     idx, stack, lpKey, path, split, todo, ret, newest, failed,
                     opsLeft>>
  BY DEF CreateSibling, Goto
<1> HIDE DEF o
<1>5. made[u] = <<>> /\ made'[u] = <<nodeCount + 1>> /\ nodeCount' = nodeCount + 1
  BY <1>1, <1>2, <1>4 DEF MadeInv, Filling, TypeOK, CallsTypeOK, CreateNode
<1>6. Known' = Known
  <2>1. \A t \in Threads \ {u} : made'[t] = made[t]
    BY <1>2, <1>4 DEF TypeOK, CallsTypeOK
  <2>2. /\ Known = Live \ {made[u][n] : n \in DOMAIN made[u]}
        /\ Known' = Live' \ {made'[u][n] : n \in DOMAIN made'[u]}
    BY <1>1, <2>1, KnownIs
  <2>3. Known = Live /\ Known' = Live' \ {nodeCount + 1}
    BY <1>5, <2>2
  <2> QED BY <1>2, <1>5, <2>3 DEF Live
<1>7. isLeaf[o] <=> height[o] = 0
  BY <1>2 DEF Tree, TreeNode
<1>8. /\ NodesTypeOK' /\ Naming' /\ Tree' /\ Grows
      /\ nodeCount' \in Objs /\ height'[nodeCount'] = height[o]
      /\ pivots'[nodeCount'] = <<>>
      /\ \A n \in Live : /\ n # nodeCount' /\ pivots'[n] = pivots[n]
                         /\ isLeaf'[n] = isLeaf[n]
                         /\ height'[n] = height[n]
  BY <1>2, <1>4, <1>6, <1>7, CreateNodeFacts
<1>9. MadeInv(u)'
  <2>1. /\ pc'[u] = "spFill" /\ made'[u] = <<nodeCount'>> /\ made'[u][1] = nodeCount'
        /\ Last(path'[u]) = o
    BY <1>2, <1>4, <1>5 DEF TypeOK, CallsTypeOK, o
  <2>2. height'[o] = height[o] /\ Len(pivots'[o]) > 1
    BY <1>2, <1>3, <1>8
  <2>3. DOMAIN pivots'[nodeCount'] = {}
    BY <1>8
  <2> QED BY <1>8, <2>1, <2>2, <2>3 DEF MadeInv, Filling
<1>10. <<nodeCount + 1>> \in Seq(Objs) /\ dirty' \in [Objs -> BOOLEAN]
  BY <1>2, <1>4, <1>5, <1>8 DEF TypeOK, MarksTypeOK
<1>11. \A n \in Live : SameShape(pivots[n], pivots'[n])
  BY <1>8 DEF SameShape
<1>12. "spFill" \in Splitting
  BY DEF Splitting, Filling
<1> QED BY <1>1, <1>4, <1>6, <1>8, <1>9, <1>10, <1>11, <1>12, SplitStep

\* The new node has the level of the split one, and its upper pivots.
LEMMA FillSiblingInv ==
    ASSUME Protocol, NEW u \in Threads, FillSibling(u)
    PROVE  Protocol'
<1> SUFFICES ASSUME NEW o, o = Last(path[u]), NEW a, a = nodeCount
             PROVE  Protocol'
  OBVIOUS
<1> DEFINE q == Upper(pivots[o])
<1>1. pc[u] = "spFill" /\ pc[u] \in Splitting /\ pc[u] \in Filling
  BY DEF FillSibling, At, Splitting, Filling
<1>2. /\ TypeOK /\ ThreadInv(u) /\ Tree /\ Naming /\ MadeInv(u) /\ nodeCount \in Nat
      /\ o \in Known /\ o \in Live /\ pivots[o] \in Seq(Pivot)
      /\ height[o] \in Nat /\ isLeaf[o] \in BOOLEAN
  BY <1>1, SplitFacts
<1>3. made[u] = <<a>> /\ made[u][1] = a /\ a \in Live /\ a \notin Known /\ a # o
  BY <1>1, <1>2, MadeFacts
<1>4. Len(pivots[o]) > 1 /\ height[a] = height[o]
  BY <1>1, <1>3, <1>2 DEF MadeInv, Filling
<1>5. /\ q \in Seq(Pivot) /\ q # <<>>
      /\ \A j \in DOMAIN q : \E l \in DOMAIN pivots[o] :
            /\ l > 1 /\ q[j] = pivots[o][l] /\ Tight(pivots[o][l].buf)
            /\ pivots[o][l].leftKey # EmptyKey
  BY <1>2, <1>4, HalvesFacts
<1>6. /\ GivePivots(a, q) /\ pc' = [pc EXCEPT ![u] = "spCut"]
      /\ UNCHANGED <<path, split, made>>
  BY <1>3 DEF FillSibling, Goto
<1> HIDE DEF q
<1>7. /\ pivots' = [pivots EXCEPT ![a] = q] /\ SetDirty({a})
      /\ UNCHANGED <<isLeaf, nid, nodeMap, nodeCount, root, height, refcnt, rd,
                     wr, mutexLockPath, req, base, cur, idx, stack, lpKey, todo,
                     ret, newest, failed, opsLeft>>
      /\ Known' = Known /\ Live' = Live
  BY <1>6 DEF GivePivots, Known, Live, Unlinked
<1>8. a \in Objs /\ pivots'[a] = q
  BY <1>2, <1>3, <1>7, Basics DEF TypeOK, NodesTypeOK
<1>9. TreeNode(a)'
  <2>1. isLeaf'[a] = isLeaf[o] /\ height'[a] = height[o]
    <3>1. (isLeaf[a] <=> height[a] = 0) /\ (isLeaf[o] <=> height[o] = 0)
      BY <1>2, <1>3 DEF Tree, TreeNode
    <3>2. isLeaf[a] \in BOOLEAN
      BY <1>2, <1>8 DEF TypeOK, NodesTypeOK
    <3> QED BY <1>2, <1>4, <1>7, <3>1, <3>2
  <2>2. \A j \in DOMAIN pivots'[a] : \E l \in DOMAIN pivots[o] :
            /\ pivots'[a][j] = pivots[o][l] /\ Tight(pivots'[a][j].buf)
            /\ l > 1
    BY <1>5, <1>8
  <2>3. a \notin Known'
    BY <1>3, <1>7
  <2>4. Grows
    BY <1>2, <1>7 DEF Grows
  <2> QED BY <1>2, <2>1, <2>2, <2>3, <2>4, TreeNodeFrom
<1>10. /\ NodesTypeOK' /\ Naming' /\ Tree' /\ Grows
       /\ \A n \in Live : /\ isLeaf'[n] = isLeaf[n] /\ height'[n] = height[n]
                          /\ n # a => pivots'[n] = pivots[n]
  <2>1. root' \in Known' /\ root' # 2 /\ (root' = 1 => Known' = {1})
    BY <1>2, <1>7 DEF Naming
  <2> QED BY <1>3, <1>5, <1>7, <1>9, <2>1, GiveNodes
<1>11. MadeInv(u)'
  <2>1. /\ pc'[u] = "spCut" /\ made'[u] = <<nodeCount'>> /\ made'[u][1] = a
        /\ Last(path'[u]) = o
    BY <1>2, <1>3, <1>6, <1>7 DEF TypeOK, CallsTypeOK
  <2>2. height'[a] = height'[o] /\ Len(pivots'[o]) > 1
    BY <1>2, <1>3, <1>4, <1>7, <1>10
  <2>3. \A j \in DOMAIN pivots'[a] : pivots'[a][j].leftKey # EmptyKey
    BY <1>5, <1>8
  <2> QED BY <1>5, <1>8, <2>1, <2>2, <2>3 DEF MadeInv, Filling
<1>12. /\ made' = [made EXCEPT ![u] = made[u]] /\ made[u] \in Seq(Objs)
       /\ dirty' \in [Objs -> BOOLEAN] /\ "spCut" \in Splitting
  BY <1>2, <1>6, <1>7 DEF TypeOK, CallsTypeOK, MarksTypeOK, SetDirty, Splitting, Filling
<1>13. \A n \in Live : n \notin Known \/ SameShape(pivots[n], pivots'[n])
  BY <1>3, <1>10 DEF SameShape
<1> QED BY <1>1, <1>6, <1>7, <1>10, <1>11, <1>12, <1>13, SplitStep

\* The split node keeps the lower pivots.
LEMMA CutNodeInv ==
    ASSUME Protocol, NEW u \in Threads, CutNode(u)
    PROVE  Protocol'
<1> SUFFICES ASSUME NEW o, o = Last(path[u]), NEW a, a = nodeCount
             PROVE  Protocol'
  OBVIOUS
<1> DEFINE q == Lower(pivots[o])
           l == IF Len(path[u]) = 1 THEN "spRoot" ELSE "spLink"
<1>1. pc[u] = "spCut" /\ pc[u] \in Splitting /\ pc[u] \in Filling
  BY DEF CutNode, At, Splitting, Filling
<1>2. /\ TypeOK /\ ThreadInv(u) /\ Tree /\ Naming /\ MadeInv(u) /\ nodeCount \in Nat
      /\ o \in Known /\ o \in Live /\ pivots[o] \in Seq(Pivot)
      /\ height[o] \in Nat /\ isLeaf[o] \in BOOLEAN
      /\ path[u] \in Seq(Objs) /\ path[u] # <<>>
  BY <1>1, SplitFacts
<1>3. made[u] = <<a>> /\ made[u][1] = a /\ a \in Live /\ a \notin Known /\ a # o
  BY <1>1, <1>2, MadeFacts
<1>4. /\ Len(pivots[o]) > 1 /\ height[a] = height[o] /\ pivots[a] # <<>>
      /\ \A i \in DOMAIN pivots[a] : pivots[a][i].leftKey # EmptyKey
  BY <1>1, <1>2, <1>3 DEF MadeInv, Filling
<1>5. /\ q \in Seq(Pivot) /\ q # <<>>
      /\ \A j \in DOMAIN q :
            j \in DOMAIN pivots[o] /\ q[j] = pivots[o][j] /\ Tight(pivots[o][j].buf)
  BY <1>2, <1>4, HalvesFacts
<1>6. /\ GivePivots(o, q) /\ pc' = [pc EXCEPT ![u] = l]
      /\ UNCHANGED <<path, split, made>>
  BY DEF CutNode, Goto
<1>7. /\ l \in {"spRoot", "spLink"}
      /\ l = "spLink" => Len(path[u]) > 1
      /\ l = "spRoot" => Len(path[u]) = 1
  <2>1. Len(path[u]) \in Nat \ {0}
    BY <1>2, FrontLast
  <2>2. CASE Len(path[u]) = 1
    <3>1. l = "spRoot" /\ Len(path[u]) = 1
      BY <2>2
    <3> HIDE DEF l
    <3> QED BY <3>1
  <2>3. CASE Len(path[u]) # 1
    <3>1. l = "spLink"
      BY <2>3
    <3>2. Len(path[u]) > 1
      <4>1. \A n \in Nat \ {0} : n # 1 => n > 1
        OBVIOUS
      <4> QED BY <2>1, <2>3, <4>1
    <3> HIDE DEF l
    <3> QED BY <3>1, <3>2
  <2> QED BY <2>2, <2>3
<1> HIDE DEF q, l
<1>8. /\ pivots' = [pivots EXCEPT ![o] = q] /\ SetDirty({o})
      /\ UNCHANGED <<isLeaf, nid, nodeMap, nodeCount, root, height, refcnt, rd,
                     wr, mutexLockPath, req, base, cur, idx, stack, lpKey, todo,
                     ret, newest, failed, opsLeft>>
      /\ Known' = Known /\ Live' = Live
  BY <1>6 DEF GivePivots, Known, Live, Unlinked
<1>9. o \in Objs /\ pivots'[o] = q
  BY <1>2, <1>8, Basics DEF TypeOK, NodesTypeOK
<1>10. TreeNode(o)'
  <2>1. isLeaf'[o] = isLeaf[o] /\ height'[o] = height[o] /\ Grows
    BY <1>2, <1>8 DEF Grows
  <2>2. \A j \in DOMAIN pivots'[o] :
            /\ j \in DOMAIN pivots[o] /\ pivots'[o][j] = pivots[o][j]
            /\ Tight(pivots'[o][j].buf)
    BY <1>5, <1>9
  <2>3. JoinsFrom(o) /\ pivots'[o] # <<>>
    BY <1>2, <1>5, <1>9 DEF JoinsFrom
  <2> QED BY <1>2, <2>1, <2>2, <2>3, TreeNodeFrom
<1>11. /\ NodesTypeOK' /\ Naming' /\ Tree' /\ Grows
       /\ \A n \in Live : /\ isLeaf'[n] = isLeaf[n] /\ height'[n] = height[n]
                          /\ n # o => pivots'[n] = pivots[n]
  <2>1. root' \in Known' /\ root' # 2 /\ (root' = 1 => Known' = {1})
    BY <1>2, <1>8 DEF Naming
  <2> QED BY <1>2, <1>5, <1>8, <1>10, <2>1, GiveNodes
<1>12. MadeInv(u)'
  <2>1. /\ pc'[u] = l /\ made'[u] = <<nodeCount'>> /\ made'[u][1] = a
        /\ path'[u] = path[u] /\ Last(path'[u]) = o
    BY <1>2, <1>3, <1>6, <1>8 DEF TypeOK, CallsTypeOK
  <2>2. height'[a] = height'[o] /\ pivots'[a] = pivots[a]
    BY <1>2, <1>3, <1>4, <1>11
  <2> QED BY <1>4, <1>7, <2>1, <2>2 DEF MadeInv, Filling
<1>13. /\ made' = [made EXCEPT ![u] = made[u]] /\ made[u] \in Seq(Objs)
       /\ dirty' \in [Objs -> BOOLEAN] /\ l \in Splitting
  BY <1>2, <1>6, <1>7, <1>8 DEF TypeOK, CallsTypeOK, MarksTypeOK, SetDirty, Splitting, Filling
<1>14. \A n \in Live : n = Last(path[u]) \/ SameShape(pivots[n], pivots'[n])
  BY <1>11 DEF SameShape
<1> QED BY <1>1, <1>6, <1>8, <1>11, <1>12, <1>13, <1>14, SplitStep

\* middleKey is a key.
LEMMA MiddleKeyFacts ==
    ASSUME Protocol, NEW u \in Threads, pc[u] \in {"spLink", "spSecond"}
    PROVE  MiddleKey(u) \in Keys /\ MiddleKey(u) # EmptyKey
<1>1. pc[u] \in Filling /\ pc[u] \in Splitting
  BY DEF Filling, Splitting
<1> SUFFICES ASSUME NEW a, a = made[u][1]
             PROVE  MiddleKey(u) \in Keys /\ MiddleKey(u) # EmptyKey
  OBVIOUS
<1>2. TypeOK /\ MadeInv(u) /\ nodeCount \in Nat
  BY <1>1, SplitFacts
<1>3. a \in Objs
  BY <1>1, <1>2, MadeFacts, Basics
<1>4. pivots[a] \in Seq(Pivot) /\ pivots[a] # <<>>
  BY <1>2, <1>3 DEF MadeInv, Filling, TypeOK, NodesTypeOK
<1>5. 1 \in DOMAIN pivots[a] /\ pivots[a][1].leftKey \in Keys \cup {EmptyKey}
  BY <1>4, PivotsSeq
<1>6. pivots[a][1].leftKey # EmptyKey
  BY <1>1, <1>2, <1>5 DEF MadeInv
<1> QED BY <1>5, <1>6 DEF MiddleKey

\* Node::splitNode below the root: the parent gets a link to the new node,
\* which is part of the tree from then on.
LEMMA AddToParentInv ==
    ASSUME Protocol, NEW u \in Threads, AddToParent(u)
    PROVE  Protocol'
<1>0. SUFFICES ASSUME NEW s, s = path[u], NEW L, L = Len(s),
                       NEW o, o = s[L], NEW r, r = s[L - 1],
                       NEW a, a = nodeCount, NEW k, k = MiddleKey(u)
                PROVE  Protocol'
  OBVIOUS
<1> DEFINE q == AddPivot(pivots[r], nid[a], EmptyBuf, k)
<1>1. pc[u] = "spLink" /\ pc[u] \in Splitting /\ pc[u] \in Filling /\ pc[u] \in OnPath
  BY <1>0 DEF AddToParent, At, Splitting, Filling, OnPath
<1>2. /\ TypeOK /\ ThreadInv(u) /\ Tree /\ Naming /\ MadeInv(u) /\ nodeCount \in Nat
      /\ mutexLockPath # u
  BY <1>0, <1>1, SplitFacts
<1>3. /\ s \in Seq(Objs) /\ s # <<>> /\ s[1] = root
      /\ L \in Nat \ {0} /\ DOMAIN s = 1..L /\ Last(s) = o
      /\ rd[u] = {} /\ wr[u] = PathSet(u) \cup split[u]
      /\ \A n \in 1..L : s[n] \in Known /\ s[n] \in Live /\ s[n] \in wr[u]
      /\ \A n \in 1..L : height[s[n]] + n = height[root] + 1
      /\ \A n \in 1..L : height[s[n]] \in Nat
      /\ height[root] \in Nat
      /\ \A n \in 1..L : n + 1 \in 1..L =>
            \E i \in DOMAIN pivots[s[n]] : pivots[s[n]][i].child + 1 = s[n + 1]
      /\ \A n, l \in 1..L : s[n] = s[l] => n = l
  BY <1>0, <1>1, PathFacts
<1>4. L > 1
  BY <1>0, <1>1, <1>2 DEF MadeInv
<1>5. /\ Front(s) \in Seq(Objs) /\ Len(Front(s)) = L - 1 /\ DOMAIN Front(s) = 1..(L - 1)
      /\ \A n \in 1..(L - 1) : Front(s)[n] = s[n]
      /\ Last(Front(s)) = r /\ Front(s) # <<>>
  <2>1. /\ Front(s) \in Seq(Objs) /\ Len(Front(s)) = L - 1 /\ DOMAIN Front(s) = 1..(L - 1)
        /\ \A n \in 1..(L - 1) : Front(s)[n] = s[n]
    BY <1>0, <1>3, FrontLast
  <2>2. L - 1 \in 1..(L - 1)
    BY <1>0, <1>3, <1>4
  <2>3. Last(Front(s)) = r
    BY <1>0, <2>1, <2>2 DEF Last
  <2>4. Front(s) # <<>>
    BY <1>0, <2>1, <2>2
  <2> QED BY <1>0, <2>1, <2>3, <2>4
<1>6. L \in 1..L /\ L - 1 \in 1..L /\ L - 1 # L /\ 1 \in 1..L
  BY <1>0, <1>3, <1>4
<1>7. /\ o \in Known /\ r \in Known /\ o \in Live /\ r \in Live /\ o # r
      /\ o \in wr[u] /\ r \in wr[u] /\ r \in Objs /\ o \in Objs
      /\ height[r] = height[o] + 1 /\ height[o] \in Nat
  <2>1. /\ o \in Known /\ r \in Known /\ o \in Live /\ r \in Live /\ o # r
        /\ o \in wr[u] /\ r \in wr[u]
    BY <1>0, <1>3, <1>6
  <2>2. height[o] + L = height[root] + 1 /\ height[r] + (L - 1) = height[root] + 1
    BY <1>0, <1>3, <1>6
  <2>3. height[o] \in Nat /\ height[r] \in Nat
    BY <1>0, <1>3, <1>6
  <2>4. L \in Nat /\ height[root] \in Nat
    BY <1>0, <1>3
  <2>5. height[r] = height[o] + 1
    BY ONLY <2>2, <2>3, <2>4
  <2> QED BY <1>0, <1>2, <2>1, <2>3, <2>5, Basics
<1>8. root # 1 /\ root # 2 /\ root \in Known
  <2>1. root = s[1] /\ (s[1] = o \/ s[1] # o) /\ s[1] \in Known
    BY <1>0, <1>3, <1>6
  <2>2. ~(\A n \in Known : n = 1)
    BY <1>0, <1>7
  <2>3. root = 1 => Known = {1}
    BY <1>0, <1>2 DEF Naming
  <2> QED BY <1>0, <1>2, <2>1, <2>2, <2>3 DEF Naming
<1>9. /\ made[u] = <<a>> /\ made[u][1] = a /\ a \in Live /\ a \notin Known
      /\ a >= 2 /\ Known = Live \ {a}
  BY <1>0, <1>1, MadeFacts
<1>10. height[a] = height[o] /\ pivots[a] # <<>>
  BY <1>0, <1>1, <1>2, <1>3, <1>9 DEF MadeInv, Filling
<1>11. nid[a] = a - 1 /\ nid[a] \in 0..MaxNodes /\ nid[a] \in 1..(nodeCount - 1)
  <2>1. a # 1
    BY <1>0, <1>2, <1>9
  <2>2. nid[a] = a - 1
    BY <1>0, <1>2, <1>9, <2>1 DEF Naming
  <2>3. nodeCount \in 1..MaxNodes
    BY <1>0, <1>2, Basics DEF Objs
  <2> QED BY <1>0, <1>2, <1>9, <2>2, <2>3, MaxNodesAssumption
<1>12. k \in Keys /\ k # EmptyKey
  BY <1>0, <1>1, MiddleKeyFacts
<1>13. /\ q \in Seq(Pivot) /\ q # <<>>
       /\ \A j \in DOMAIN q :
            \/ \E l \in DOMAIN pivots[r] :
                q[j] = pivots[r][l] /\ Tight(q[j].buf) /\ (j > 1 => l > 1)
            \/ q[j].child = nid[a] /\ q[j].leftKey = k /\ Tight(q[j].buf)
  <2>1. /\ pivots[r] \in Seq(Pivot) /\ pivots[r] # <<>>
        /\ \A j \in DOMAIN pivots[r] : Tight(pivots[r][j].buf)
    BY <1>0, <1>2, <1>7, NodeFacts DEF Tree, TreeNode
  <2> QED BY <1>0, <1>11, <1>12, <2>1, ParentFacts
<1>14. /\ GivePivots(r, q)
       /\ path' = [path EXCEPT ![u] = Front(s)]
       /\ split' = [split EXCEPT ![u] = split[u] \cup {o}]
       /\ made' = [made EXCEPT ![u] = <<>>]
       /\ pc' = [pc EXCEPT ![u] = "split"]
  BY <1>0, <1>3, <1>5, <1>9 DEF AddToParent, Goto
<1> HIDE DEF q
<1>15. /\ pivots' = [pivots EXCEPT ![r] = q] /\ SetDirty({r})
       /\ UNCHANGED <<isLeaf, nid, nodeMap, nodeCount, root, height, refcnt, rd,
                      wr, mutexLockPath, req, base, cur, idx, stack, lpKey, todo,
                      ret, newest, failed, opsLeft>>
       /\ Live' = Live /\ nodeCount' = nodeCount
  BY <1>0, <1>14 DEF GivePivots, Live
<1>16. /\ \A t \in Threads \ {u} : /\ made'[t] = made[t] /\ pc'[t] = pc[t]
                                   /\ path'[t] = path[t] /\ split'[t] = split[t]
       /\ made'[u] = <<>> /\ pc'[u] = "split" /\ path'[u] = Front(s)
       /\ split'[u] = split[u] \cup {o}
  BY <1>0, <1>2, <1>14 DEF TypeOK, CallsTypeOK
<1>17. Known' = Live' /\ Known \subseteq Known'
  <2>1. Known' = Live' \ {made'[u][n] : n \in DOMAIN made'[u]}
    BY <1>0, <1>1, <1>16, KnownIs
  <2>2. DOMAIN made'[u] = {}
    BY <1>0, <1>16
  <2> QED BY <1>0, <1>9, <1>15, <2>1, <2>2
<1>18. pivots'[r] = q
  BY <1>0, <1>2, <1>7, <1>15 DEF TypeOK, NodesTypeOK
<1>19. TreeNode(r)'
  <2>1. ~isLeaf[r]
    <3>1. height[r] # 0
      BY <1>0, <1>7
    <3> QED BY <1>0, <1>2, <1>7, <3>1 DEF Tree, TreeNode
  <2>2. Grows /\ isLeaf'[r] = isLeaf[r] /\ height'[r] = height[r]
    BY <1>0, <1>2, <1>15, <1>17 DEF Grows
  <2>3. /\ nid[a] \in 1..(nodeCount' - 1) /\ nid[a] + 1 \in Known'
        /\ height'[nid[a] + 1] + 1 = height[r]
    <3>1. nid[a] + 1 = a
      BY <1>0, <1>2, <1>9, <1>11
    <3> QED BY <1>0, <1>7, <1>9, <1>10, <1>11, <1>15, <1>17, <3>1
  <2>4. \A j \in DOMAIN pivots'[r] :
          \/ \E l \in DOMAIN pivots[r] :
                /\ pivots'[r][j].child = pivots[r][l].child
                /\ pivots'[r][j].leftKey = pivots[r][l].leftKey
                /\ Tight(pivots'[r][j].buf)
                /\ j > 1 => l > 1
          \/ /\ pivots'[r][j].child = nid[a] /\ pivots'[r][j].leftKey # EmptyKey
             /\ Tight(pivots'[r][j].buf)
    BY <1>0, <1>12, <1>13, <1>18
  <2>5. JoinsFrom(r) /\ pivots'[r] # <<>>
    BY <1>0, <1>13, <1>17, <1>18 DEF JoinsFrom
  <2>6. \A j \in DOMAIN pivots'[r] :
          \/ \E l \in DOMAIN pivots[r] :
                /\ pivots'[r][j].child = pivots[r][l].child
                /\ pivots'[r][j].leftKey = pivots[r][l].leftKey
                /\ Tight(pivots'[r][j].buf)
                /\ j > 1 => l > 1
          \/ /\ pivots'[r][j].leftKey # EmptyKey
             /\ Tight(pivots'[r][j].buf)
             /\ isLeaf[r] => pivots'[r][j].child = NID_NIL
             /\ ~isLeaf[r] =>
                    /\ pivots'[r][j].child \in 1..(nodeCount' - 1)
                    /\ r \in Known' => pivots'[r][j].child + 1 \in Known'
                    /\ height'[pivots'[r][j].child + 1] + 1 = height[r]
    <3> TAKE j \in DOMAIN pivots'[r]
    <3>1. CASE \E l \in DOMAIN pivots[r] :
                  /\ pivots'[r][j].child = pivots[r][l].child
                  /\ pivots'[r][j].leftKey = pivots[r][l].leftKey
                  /\ Tight(pivots'[r][j].buf)
                  /\ j > 1 => l > 1
      BY <1>0, <3>1
    <3>2. CASE /\ pivots'[r][j].child = nid[a] /\ pivots'[r][j].leftKey # EmptyKey
               /\ Tight(pivots'[r][j].buf)
      BY <1>0, <2>1, <2>3, <3>2
    <3> QED BY <1>0, <2>4, <3>1, <3>2
  <2>7. /\ TypeOK /\ Tree /\ r \in Live
        /\ r \in Known' => JoinsFrom(r) /\ pivots'[r] # <<>>
    BY <1>0, <1>2, <1>7, <2>5
  <2> QED BY <2>2, <2>6, <2>7, TreeNodeFrom
<1>20. /\ NodesTypeOK' /\ Naming' /\ Tree' /\ Grows
       /\ \A n \in Live : /\ isLeaf'[n] = isLeaf[n] /\ height'[n] = height[n]
                          /\ n # r => pivots'[n] = pivots[n]
  <2>1. root' \in Known' /\ root' # 2 /\ root' # 1
    BY <1>0, <1>8, <1>15, <1>17
  <2>2. \A n \in Live \ {r} : n \notin Known => pivots[n] # <<>>
    BY <1>0, <1>9, <1>10
  <2> QED BY <1>7, <1>13, <1>15, <1>17, <1>19, <2>1, <2>2, GiveNodes
<1>21. TypeOK'
  <2>1. MarksTypeOK'
    BY <1>0, <1>2, <1>15 DEF TypeOK, MarksTypeOK, SetDirty
  <2>2. LocksTypeOK'
    BY <1>0, <1>2, <1>15 DEF TypeOK, LocksTypeOK
  <2>3. path' \in [Threads -> Seq(Objs)] /\ split' \in [Threads -> SUBSET Objs]
    BY <1>0, <1>2, <1>5, <1>7, <1>14 DEF TypeOK, CallsTypeOK
  <2>4. made' \in [Threads -> Seq(Objs)]
    <3>1. <<>> \in Seq(Objs)
      OBVIOUS
    <3> QED BY <1>0, <1>2, <1>14, <3>1 DEF TypeOK, CallsTypeOK
  <2>5. pc' \in [Threads -> PC]
    BY <1>0, <1>2, <1>14 DEF TypeOK, CallsTypeOK, PC
  <2>6. CallsTypeOK'
    BY <1>0, <1>2, <1>15, <2>3, <2>4, <2>5 DEF TypeOK, CallsTypeOK
  <2> QED BY <1>0, <1>20, <2>1, <2>2, <2>6 DEF TypeOK
<1>22. Frame(u)
  <2>1. \A n \in Live : \/ SameShape(pivots[n], pivots'[n])
                        \/ n \in Known /\ n \in wr[u]
    BY <1>0, <1>7, <1>20 DEF SameShape
  <2> QED BY <1>0, <1>15, <1>16, <1>17, <1>20, <2>1 DEF Frame, Grows
<1>23. LockStep(u)
  BY <1>0, <1>15 DEF LockStep
<1>24. ThreadInv(u)'
  <2> SUFFICES ASSUME NEW z, z = Front(s)
               PROVE  ThreadInv(u)'
    OBVIOUS
  <2>1. /\ path'[u] = z /\ split'[u] = split[u] \cup {o} /\ rd'[u] = {} /\ wr'[u] = wr[u]
        /\ pc'[u] = "split" /\ mutexLockPath' # u /\ made'[u] = <<>>
    BY <1>0, <1>2, <1>3, <1>15, <1>16
  <2>2. wr'[u] = PathSet(u)' \cup split'[u]
    <3>1. PathSet(u) = {s[n] : n \in 1..L}
      BY <1>0, <1>3 DEF PathSet
    <3>2. PathSet(u)' = {s[n] : n \in 1..(L - 1)}
      BY <1>0, <1>5, <2>1 DEF PathSet
    <3>3. \A n \in 1..L : n = L \/ n \in 1..(L - 1)
      BY <1>0, <1>3
    <3>4. \A n \in 1..(L - 1) : n \in 1..L
      BY <1>0, <1>3
    <3> QED BY <1>0, <1>3, <1>6, <2>1, <3>1, <3>2, <3>3, <3>4
  <2>3. Places(u)'
    BY <1>0, <1>2, <1>15, <1>17 DEF ThreadInv, Places
  <2>4. ASSUME NEW n \in 1..(L - 1)
        PROVE  /\ n \in 1..L /\ z[n] = s[n] /\ s[n] \in Live /\ s[n] \in Known'
               /\ height'[z[n]] + n = height'[root'] + 1
    <3>1. n \in 1..L /\ z[n] = s[n]
      BY <1>0, <1>3, <1>5
    <3>2. s[n] \in Live /\ s[n] \in Known /\ height[s[n]] + n = height[root] + 1
      BY <1>0, <1>3, <3>1
    <3> QED BY <1>0, <1>15, <1>17, <3>1, <3>2
  <2>5. ASSUME NEW n \in 1..(L - 1), n + 1 \in 1..(L - 1)
        PROVE  \E i \in DOMAIN pivots'[z[n]] : pivots'[z[n]][i].child + 1 = z[n + 1]
    <3> DEFINE x == s[n]
               y == s[n + 1]
    <3>1. n \in Nat /\ L \in Nat /\ L > 1
      BY <1>0, <1>3, <1>4
    <3>2. n \in 1..L /\ n + 1 \in 1..L /\ n # L - 1
      BY <1>0, <2>5, <3>1
    <3>3. z[n] = x /\ z[n + 1] = y
      BY <1>0, <1>5, <2>5
    <3>4. x # r /\ x \in Live
      BY <1>0, <1>3, <1>6, <3>2
    <3>5. \E i \in DOMAIN pivots[x] : pivots[x][i].child + 1 = y
      BY <1>0, <1>3, <3>2
    <3>6. pivots'[x] = pivots[x]
      BY <1>0, <1>20, <3>4
    <3> HIDE DEF x, y
    <3> QED BY <1>0, <3>3, <3>5, <3>6
  <2>6. z # <<>> /\ z[1] = root /\ DOMAIN z = 1..(L - 1)
    <3>1. 1 \in 1..(L - 1)
      BY <1>0, <1>3, <1>4
    <3> QED BY <1>0, <1>3, <1>5, <3>1
  <2>7. /\ \A n \in DOMAIN path'[u] : path'[u][n] \in Known'
        /\ \A n \in DOMAIN path'[u] : height'[path'[u][n]] + n = height'[root'] + 1
    BY <1>0, <2>1, <2>4, <2>6
  <2>8. \A n \in DOMAIN path'[u] : n + 1 \in DOMAIN path'[u] =>
            \E i \in DOMAIN pivots'[path'[u][n]] :
                pivots'[path'[u][n]][i].child + 1 = path'[u][n + 1]
    BY <1>0, <2>1, <2>5, <2>6
  <2>9. path'[u] # <<>> /\ path'[u][1] = root'
    BY <1>0, <1>15, <2>1, <2>6
  <2>10. MadeInv(u)'
    BY <1>0, <2>1 DEF MadeInv, Filling
  <2>11. /\ pc'[u] \in OnPath /\ pc'[u] \in Splitting
         /\ pc'[u] \notin {"lpDown", "lpClear"}
    BY <1>0, <2>1 DEF OnPath, Splitting
  <2> QED BY <1>0, <2>1, <2>2, <2>3, <2>7, <2>8, <2>9, <2>10, <2>11, ToPath
<1> QED BY <1>0, <1>20, <1>21, <1>22, <1>23, <1>24, Assemble

\* The root has been split: a node is made that becomes the new root.
LEMMA CreateRootInv ==
    ASSUME Protocol, NEW u \in Threads, CreateRoot(u)
    PROVE  Protocol'
<1> SUFFICES ASSUME NEW o, o = Last(path[u]), NEW a, a = nodeCount
             PROVE  Protocol'
  OBVIOUS
<1>1. pc[u] = "spRoot" /\ pc[u] \in Splitting /\ pc[u] \in Filling /\ pc[u] \in OnPath
  BY DEF CreateRoot, At, Splitting, Filling, OnPath
<1>2. /\ TypeOK /\ ThreadInv(u) /\ Tree /\ MadeInv(u) /\ a \in Nat
      /\ o \in Known /\ o \in Live /\ height[o] \in Nat
      /\ Len(path[u]) = 1 => o = root
  BY <1>1, SplitFacts
<1>3. /\ made[u] = <<a>> /\ made[u][1] = a /\ a \in Live /\ a \in Objs
      /\ a \notin Known /\ a # o
  BY <1>1, <1>2, MadeFacts, Basics
<1>4. /\ Len(path[u]) = 1 /\ o = root /\ height[a] = height[o] /\ pivots[a] # <<>>
      /\ \A i \in DOMAIN pivots[a] : pivots[a][i].leftKey # EmptyKey
  BY <1>1, <1>2, <1>3 DEF MadeInv, Filling
<1>5. /\ CreateNode(FALSE, height[o] + 1)
      /\ made' = [made EXCEPT ![u] = <<a, a + 1>>]
      /\ pc' = [pc EXCEPT ![u] = "spFirst"]
      /\ UNCHANGED <<root, refcnt, dirty, rd, wr, mutexLockPath, req, base, cur,
                     idx, stack, lpKey, path, split, todo, ret, newest, failed,
                     opsLeft>>
  BY <1>3 DEF CreateRoot, Goto
<1>6. made'[u] = <<a, a + 1>> /\ nodeCount' = a + 1
  BY <1>2, <1>5 DEF TypeOK, CallsTypeOK, CreateNode
<1>7. Known' = Known
  <2>1. \A t \in Threads \ {u} : made'[t] = made[t]
    BY <1>2, <1>5 DEF TypeOK, CallsTypeOK
  <2>2. /\ Known = Live \ {made[u][n] : n \in DOMAIN made[u]}
        /\ Known' = Live' \ {made'[u][n] : n \in DOMAIN made'[u]}
    BY <1>1, <2>1, KnownIs
  <2>3. {made'[u][n] : n \in DOMAIN made'[u]} = {a, a + 1}
    BY <1>6
  <2>4. {made[u][n] : n \in DOMAIN made[u]} = {a}
    BY <1>3
  <2>5. Live' = Live \cup {a + 1} /\ a + 1 \notin Live
    BY <1>2, <1>6 DEF Live
  <2> QED BY <1>2, <2>2, <2>3, <2>4, <2>5
<1>8. /\ NodesTypeOK' /\ Naming' /\ Tree' /\ Grows
      /\ nodeCount' \in Objs /\ height'[nodeCount'] = height[o] + 1
      /\ pivots'[nodeCount'] = <<>>
      /\ \A n \in Live : /\ n # nodeCount' /\ pivots'[n] = pivots[n]
                         /\ isLeaf'[n] = isLeaf[n]
                         /\ height'[n] = height[n]
  <2>1. height[o] + 1 \in Nat /\ (FALSE <=> height[o] + 1 = 0)
    BY <1>2
  <2> QED BY <1>5, <1>7, <2>1, CreateNodeFacts
<1>9. MadeInv(u)'
  <2>0. made'[u] = <<nodeCount' - 1, nodeCount'>>
    <3>1. nodeCount' - 1 = a
      BY <1>2, <1>6
    <3> QED BY <1>6, <3>1
  <2>1. /\ pc'[u] = "spFirst" /\ made'[u][1] = a /\ made'[u][2] = nodeCount'
        /\ path'[u] = path[u] /\ Last(path'[u]) = o /\ root' = o
    BY <1>2, <1>4, <1>5, <1>6 DEF TypeOK, CallsTypeOK
  <2>2. /\ height'[o] = height[o] /\ height'[a] = height'[o]
        /\ pivots'[a] = pivots[a] /\ height'[nodeCount'] = height'[o] + 1
    BY <1>2, <1>3, <1>4, <1>8
  <2> QED BY <1>4, <1>8, <2>0, <2>1, <2>2 DEF MadeInv, Filling
<1>10. <<a, a + 1>> \in Seq(Objs) /\ dirty' \in [Objs -> BOOLEAN]
  BY <1>2, <1>3, <1>5, <1>6, <1>8 DEF TypeOK, MarksTypeOK
<1>11. \A n \in Live : SameShape(pivots[n], pivots'[n])
  BY <1>8 DEF SameShape
<1>12. "spFirst" \in Splitting
  BY DEF Splitting, Filling
<1> QED BY <1>1, <1>5, <1>7, <1>8, <1>9, <1>10, <1>11, <1>12, SplitStep

\* What is known of the new root until growUp.
LEMMA TopFacts ==
    ASSUME Protocol, NEW u \in Threads, pc[u] \in {"spFirst", "spSecond", "grow"}
    PROVE  LET a == nodeCount - 1
               b == nodeCount
               o == Last(path[u])
           IN  /\ pc[u] \in Splitting /\ pc[u] \in Filling /\ pc[u] \in OnPath
               /\ made[u] = <<a, b>> /\ made[u][1] = a /\ made[u][2] = b
               /\ a \in Live /\ b \in Live /\ a \in Objs /\ b \in Objs
               /\ a \notin Known /\ b \notin Known /\ a # b
               /\ b \in Nat /\ a \in Nat /\ a >= 2 /\ Known = Live \ {a, b}
               /\ Len(path[u]) = 1 /\ o = root /\ o \in Known /\ o \in Live
               /\ height[a] = height[o] /\ height[b] = height[o] + 1
               /\ height[o] \in Nat /\ ~isLeaf[b]
               /\ pivots[a] # <<>> /\ (pivots[b] = <<>> <=> pc[u] = "spFirst")
               /\ \A i \in DOMAIN pivots[a] : pivots[a][i].leftKey # EmptyKey
<1> SUFFICES ASSUME NEW o, o = Last(path[u]), NEW b, b = nodeCount,
                    NEW a, a = nodeCount - 1
             PROVE  /\ pc[u] \in Splitting /\ pc[u] \in Filling /\ pc[u] \in OnPath
                    /\ made[u] = <<a, b>> /\ made[u][1] = a /\ made[u][2] = b
                    /\ a \in Live /\ b \in Live /\ a \in Objs /\ b \in Objs
                    /\ a \notin Known /\ b \notin Known /\ a # b
                    /\ b \in Nat /\ a \in Nat /\ a >= 2 /\ Known = Live \ {a, b}
                    /\ Len(path[u]) = 1 /\ o = root /\ o \in Known /\ o \in Live
                    /\ height[a] = height[o] /\ height[b] = height[o] + 1
                    /\ height[o] \in Nat /\ ~isLeaf[b]
                    /\ pivots[a] # <<>> /\ (pivots[b] = <<>> <=> pc[u] = "spFirst")
                    /\ \A i \in DOMAIN pivots[a] : pivots[a][i].leftKey # EmptyKey
  OBVIOUS
<1>1. pc[u] \in Splitting /\ pc[u] \in Filling /\ pc[u] \in OnPath
  BY DEF Splitting, Filling, OnPath
<1>2. /\ TypeOK /\ Tree /\ MadeInv(u) /\ b \in Nat
      /\ o \in Known /\ o \in Live /\ height[o] \in Nat
      /\ Len(path[u]) = 1 => o = root
  BY <1>1, SplitFacts
<1>3. /\ made[u] = <<a, b>> /\ made[u][1] = a /\ made[u][2] = b
      /\ b >= 3 /\ b \in Live /\ a \in Live /\ Known = Live \ {a, b}
  BY <1>1, MadeFacts
<1>4. a \in Nat /\ a >= 2 /\ a # b /\ a \in Objs /\ b \in Objs
  BY <1>2, <1>3, Basics
<1>5. /\ height[a] = height[o] /\ pivots[a] # <<>>
      /\ \A i \in DOMAIN pivots[a] : pivots[a][i].leftKey # EmptyKey
  BY <1>1, <1>2, <1>3 DEF MadeInv, Filling
<1>6. /\ Len(path[u]) = 1 /\ height[b] = height[root] + 1
      /\ (pivots[b] = <<>> <=> pc[u] = "spFirst")
  BY <1>1, <1>2, <1>3 DEF MadeInv, Filling
<1>7. ~isLeaf[b]
  <2>1. TreeNode(b) /\ height[b] # 0
    BY <1>2, <1>3, <1>6 DEF Tree
  <2> QED BY <2>1 DEF TreeNode
<1> QED BY <1>1, <1>2, <1>3, <1>4, <1>5, <1>6, <1>7

\* The new root gets a link to the old one.  If that is the first node, its nid
\* names the node made beside it as well, and the link leads there.
LEMMA AddFirstPivotInv ==
    ASSUME Protocol, NEW u \in Threads, AddFirstPivot(u)
    PROVE  Protocol'
<1> SUFFICES ASSUME NEW o, o = Last(path[u]), NEW b, b = nodeCount,
                    NEW a, a = nodeCount - 1
             PROVE  Protocol'
  OBVIOUS
<1> DEFINE q == <<NewPivot(nid[o], EmptyBuf, EmptyKey)>>
<1>1. pc[u] = "spFirst"
  BY DEF AddFirstPivot, At
<1>2. /\ pc[u] \in Splitting /\ pc[u] \in Filling /\ pc[u] \in OnPath
      /\ made[u] = <<a, b>> /\ made[u][1] = a /\ made[u][2] = b
      /\ a \in Live /\ b \in Live /\ a \in Objs /\ b \in Objs
      /\ a \notin Known /\ b \notin Known /\ a # b
      /\ b \in Nat /\ a \in Nat /\ a >= 2 /\ Known = Live \ {a, b}
      /\ Len(path[u]) = 1 /\ o = root /\ o \in Known /\ o \in Live
      /\ height[a] = height[o] /\ height[b] = height[o] + 1
      /\ height[o] \in Nat /\ ~isLeaf[b] /\ pivots[a] # <<>>
      /\ \A i \in DOMAIN pivots[a] : pivots[a][i].leftKey # EmptyKey
  BY <1>1, TopFacts
<1>3. TypeOK /\ Tree /\ Naming /\ MadeInv(u)
  BY <1>2, SplitFacts
<1>4. /\ nid[o] \in 1..(b - 1) /\ nid[o] \in 0..MaxNodes
      /\ height[nid[o] + 1] = height[o]
  <2>1. nid[o] \in 0..MaxNodes
    BY <1>2, <1>3, Basics DEF TypeOK, NodesTypeOK
  <2>2. CASE o = 1
    <3>1. Known = {1} /\ nid[o] = 1
      BY <1>2, <1>3, <2>2 DEF Naming
    <3>2. 2 \in Live /\ 2 \notin Known
      <4>1. b \in Nat /\ b - 1 >= 2
        BY <1>2
      <4>2. 2 \in 1..b
        BY ONLY <4>1
      <4> QED BY <3>1, <4>2 DEF Live
    <3>3. a = 2 /\ b = 3
      BY <1>2, <3>2
    <3> QED BY <1>2, <2>1, <3>1, <3>3
  <2>3. CASE o # 1
    <3>1. nid[o] = o - 1 /\ o \in 1..b
      BY <1>2, <1>3, <2>3 DEF Naming, Live
    <3>2. o - 1 \in 1..(b - 1) /\ (o - 1) + 1 = o
      BY <1>2, <2>3, <3>1
    <3> QED BY <2>1, <3>1, <3>2
  <2> QED BY <2>2, <2>3
<1>5. /\ q \in Seq(Pivot) /\ q # <<>> /\ DOMAIN q = {1}
      /\ q[1].child = nid[o] /\ Tight(q[1].buf)
  <2>1. NewPivot(nid[o], EmptyBuf, EmptyKey) \in Pivot
    BY <1>4, EmptyBufFacts DEF NewPivot, Pivot
  <2> QED BY <2>1, EmptyBufFacts DEF NewPivot
<1>6. /\ GivePivots(b, q) /\ pc' = [pc EXCEPT ![u] = "spSecond"]
      /\ UNCHANGED <<path, split, made>>
  BY <1>2 DEF AddFirstPivot, Goto
<1> HIDE DEF q
<1>7. /\ pivots' = [pivots EXCEPT ![b] = q] /\ SetDirty({b})
      /\ UNCHANGED <<isLeaf, nid, nodeMap, nodeCount, root, height, refcnt, rd,
                     wr, mutexLockPath, req, base, cur, idx, stack, lpKey, todo,
                     ret, newest, failed, opsLeft>>
      /\ Known' = Known /\ Live' = Live
  BY <1>6 DEF GivePivots, Known, Live, Unlinked
<1>8. pivots'[b] = q
  BY <1>2, <1>3, <1>7 DEF TypeOK, NodesTypeOK
<1>9. TreeNode(b)'
  <2>1. isLeaf'[b] <=> height'[b] = 0
    BY <1>2, <1>7
  <2>2. b \notin Known' /\ ~isLeaf'[b] /\ nodeCount' = b
    BY <1>2, <1>7
  <2>3. ASSUME NEW j \in DOMAIN pivots'[b]
        PROVE  /\ ~ (j > 1) /\ Tight(pivots'[b][j].buf)
               /\ pivots'[b][j].child \in 1..(b - 1)
               /\ height'[pivots'[b][j].child + 1] + 1 = height'[b]
    <3>1. j = 1
      BY <1>5, <1>8, <2>3
    <3> QED BY <1>2, <1>4, <1>5, <1>7, <1>8, <3>1
  <2> QED BY <2>1, <2>2, <2>3 DEF TreeNode
<1>10. /\ NodesTypeOK' /\ Naming' /\ Tree' /\ Grows
       /\ \A n \in Live : /\ isLeaf'[n] = isLeaf[n] /\ height'[n] = height[n]
                          /\ n # b => pivots'[n] = pivots[n]
  <2>1. root' \in Known' /\ root' # 2 /\ (root' = 1 => Known' = {1})
    BY <1>3, <1>7 DEF Naming
  <2> QED BY <1>2, <1>5, <1>7, <1>9, <2>1, GiveNodes
<1>11. MadeInv(u)'
  <2>1. /\ pc'[u] = "spSecond" /\ made'[u] = <<nodeCount' - 1, nodeCount'>>
        /\ made'[u][1] = a /\ made'[u][2] = b
        /\ path'[u] = path[u] /\ Last(path'[u]) = o /\ root' = o
    BY <1>2, <1>3, <1>6, <1>7 DEF TypeOK, CallsTypeOK
  <2>2. /\ height'[a] = height'[o] /\ pivots'[a] = pivots[a]
        /\ height'[b] = height'[o] + 1
    BY <1>2, <1>10
  <2>3. pivots'[b] # <<>>
    BY <1>5, <1>8
  <2> QED BY <1>2, <2>1, <2>2, <2>3 DEF MadeInv, Filling
<1>12. /\ made' = [made EXCEPT ![u] = made[u]] /\ made[u] \in Seq(Objs)
       /\ dirty' \in [Objs -> BOOLEAN] /\ "spSecond" \in Splitting
  BY <1>3, <1>6, <1>7 DEF TypeOK, CallsTypeOK, MarksTypeOK, SetDirty, Splitting, Filling
<1>13. \A n \in Live : n \notin Known \/ SameShape(pivots[n], pivots'[n])
  BY <1>2, <1>10 DEF SameShape
<1> QED BY <1>2, <1>6, <1>7, <1>10, <1>11, <1>12, <1>13, SplitStep

\* It gets a link to the node made beside the old root.
LEMMA AddSecondPivotInv ==
    ASSUME Protocol, NEW u \in Threads, AddSecondPivot(u)
    PROVE  Protocol'
<1> SUFFICES ASSUME NEW o, o = Last(path[u]), NEW b, b = nodeCount,
                    NEW a, a = nodeCount - 1, NEW k, k = MiddleKey(u)
             PROVE  Protocol'
  OBVIOUS
<1> DEFINE q == AddPivot(pivots[b], nid[a], EmptyBuf, k)
<1>1. pc[u] = "spSecond"
  BY DEF AddSecondPivot, At
<1>2. /\ pc[u] \in Splitting /\ pc[u] \in Filling /\ pc[u] \in OnPath
      /\ made[u] = <<a, b>> /\ made[u][1] = a /\ made[u][2] = b
      /\ a \in Live /\ b \in Live /\ a \in Objs /\ b \in Objs
      /\ a \notin Known /\ b \notin Known /\ a # b
      /\ b \in Nat /\ a \in Nat /\ a >= 2 /\ Known = Live \ {a, b}
      /\ Len(path[u]) = 1 /\ o = root /\ o \in Known /\ o \in Live
      /\ height[a] = height[o] /\ height[b] = height[o] + 1
      /\ height[o] \in Nat /\ ~isLeaf[b] /\ pivots[a] # <<>> /\ pivots[b] # <<>>
      /\ \A i \in DOMAIN pivots[a] : pivots[a][i].leftKey # EmptyKey
  BY <1>1, TopFacts
<1>3. TypeOK /\ Tree /\ Naming /\ MadeInv(u)
  BY <1>2, SplitFacts
<1>4. /\ nid[a] \in 1..(b - 1) /\ nid[a] \in 0..MaxNodes /\ nid[a] + 1 = a
  <2>1. nid[a] \in 0..MaxNodes
    BY <1>2, <1>3 DEF TypeOK, NodesTypeOK
  <2>2. nid[a] = a - 1
    BY <1>2, <1>3 DEF Naming
  <2> QED BY <1>2, <2>1, <2>2
<1>5. k \in Keys /\ k # EmptyKey
  BY <1>1, MiddleKeyFacts
<1>6. /\ q \in Seq(Pivot) /\ q # <<>>
      /\ \A j \in DOMAIN q :
            \/ \E l \in DOMAIN pivots[b] :
                q[j] = pivots[b][l] /\ Tight(q[j].buf) /\ (j > 1 => l > 1)
            \/ q[j].child = nid[a] /\ q[j].leftKey = k /\ Tight(q[j].buf)
  <2>1. /\ pivots[b] \in Seq(Pivot)
        /\ \A j \in DOMAIN pivots[b] : Tight(pivots[b][j].buf)
    BY <1>2, <1>3, NodeFacts DEF Tree, TreeNode
  <2>2. pivots[b] # <<>> /\ nid[a] \in 0..MaxNodes /\ k \in Keys
    BY <1>2, <1>4, <1>5
  <2> HIDE DEF q
  <2>3. ASSUME NEW p, p = AddPivot(pivots[b], nid[a], EmptyBuf, k)
        PROVE  /\ p \in Seq(Pivot) /\ p # <<>>
               /\ \A j \in DOMAIN p :
                    \/ \E l \in DOMAIN pivots[b] :
                        p[j] = pivots[b][l] /\ Tight(p[j].buf) /\ (j > 1 => l > 1)
                    \/ p[j].child = nid[a] /\ p[j].leftKey = k /\ Tight(p[j].buf)
    BY <2>1, <2>2, <2>3, ParentFacts
  <2> QED BY <2>3 DEF q
<1>7. /\ GivePivots(b, q) /\ pc' = [pc EXCEPT ![u] = "grow"]
      /\ UNCHANGED <<path, split, made>>
  BY <1>2 DEF AddSecondPivot, Goto
<1> HIDE DEF q
<1>8. /\ pivots' = [pivots EXCEPT ![b] = q] /\ SetDirty({b})
      /\ UNCHANGED <<isLeaf, nid, nodeMap, nodeCount, root, height, refcnt, rd,
                     wr, mutexLockPath, req, base, cur, idx, stack, lpKey, todo,
                     ret, newest, failed, opsLeft>>
      /\ Known' = Known /\ Live' = Live
  BY <1>7 DEF GivePivots, Known, Live, Unlinked
<1>9. pivots'[b] = q
  BY <1>2, <1>3, <1>8 DEF TypeOK, NodesTypeOK
<1>10. TreeNode(b)'
  <2>1. Grows /\ isLeaf'[b] = isLeaf[b] /\ height'[b] = height[b] /\ b \notin Known'
    BY <1>2, <1>8 DEF Grows
  <2>2. /\ nid[a] \in 1..(nodeCount' - 1)
        /\ height'[nid[a] + 1] + 1 = height[b]
    BY <1>2, <1>4, <1>8
  <2>3. \A j \in DOMAIN pivots'[b] :
          \/ \E l \in DOMAIN pivots[b] :
                /\ pivots'[b][j].child = pivots[b][l].child
                /\ pivots'[b][j].leftKey = pivots[b][l].leftKey
                /\ Tight(pivots'[b][j].buf)
                /\ j > 1 => l > 1
          \/ /\ pivots'[b][j].child = nid[a] /\ pivots'[b][j].leftKey # EmptyKey
             /\ Tight(pivots'[b][j].buf)
    BY <1>5, <1>6, <1>9
  <2> QED BY <1>2, <1>3, <2>1, <2>2, <2>3, TreeNodeFrom
<1>11. /\ NodesTypeOK' /\ Naming' /\ Tree' /\ Grows
       /\ \A n \in Live : /\ isLeaf'[n] = isLeaf[n] /\ height'[n] = height[n]
                          /\ n # b => pivots'[n] = pivots[n]
  <2>1. root' \in Known' /\ root' # 2 /\ (root' = 1 => Known' = {1})
    BY <1>3, <1>8 DEF Naming
  <2> QED BY <1>2, <1>6, <1>8, <1>10, <2>1, GiveNodes
<1>12. MadeInv(u)'
  <2>1. /\ pc'[u] = "grow" /\ made'[u] = <<nodeCount' - 1, nodeCount'>>
        /\ made'[u][1] = a /\ made'[u][2] = b
        /\ path'[u] = path[u] /\ Last(path'[u]) = o /\ root' = o
    BY <1>2, <1>3, <1>7, <1>8 DEF TypeOK, CallsTypeOK
  <2>2. /\ height'[a] = height'[o] /\ pivots'[a] = pivots[a]
        /\ height'[b] = height'[o] + 1
    BY <1>2, <1>11
  <2>3. pivots'[b] # <<>>
    BY <1>6, <1>9
  <2> QED BY <1>2, <2>1, <2>2, <2>3 DEF MadeInv, Filling
<1>13. /\ made' = [made EXCEPT ![u] = made[u]] /\ made[u] \in Seq(Objs)
       /\ dirty' \in [Objs -> BOOLEAN] /\ "grow" \in Splitting
  BY <1>3, <1>7, <1>8 DEF TypeOK, CallsTypeOK, MarksTypeOK, SetDirty, Splitting, Filling
<1>14. \A n \in Live : n \notin Known \/ SameShape(pivots[n], pivots'[n])
  BY <1>2, <1>11 DEF SameShape
<1> QED BY <1>2, <1>7, <1>8, <1>11, <1>12, <1>13, <1>14, SplitStep

\* BufferTree::growUp: the tree begins at the new root.
LEMMA GrowUpInv ==
    ASSUME Protocol, NEW u \in Threads, GrowUp(u)
    PROVE  Protocol'
<1> SUFFICES ASSUME NEW o, o = Last(path[u]), NEW b, b = nodeCount,
                    NEW a, a = nodeCount - 1
             PROVE  Protocol'
  OBVIOUS
<1>0. SUFFICES ASSUME refcnt[root] > 0 PROVE Protocol'
  BY AbortInv DEF GrowUp
<1>1. pc[u] = "grow"
  BY DEF GrowUp, At
<1>2. /\ pc[u] \in Splitting /\ pc[u] \in OnPath
      /\ made[u][2] = b /\ a \in Live /\ b \in Live
      /\ b \in Nat /\ a \in Nat /\ a >= 2 /\ Known = Live \ {a, b}
      /\ o = root /\ o \in Live /\ pivots[a] # <<>> /\ pivots[b] # <<>>
  BY <1>1, TopFacts
<1>3. TypeOK /\ ThreadInv(u) /\ Tree /\ Naming /\ o \in wr[u] /\ mutexLockPath # u
  BY <1>2, SplitFacts
<1>4. rd[u] = {} /\ wr[u] = PathSet(u) \cup split[u]
  BY <1>2, PathFacts
<1>5. /\ refcnt' = [refcnt EXCEPT ![root] = @ - 1]
      /\ root' = b
      /\ made' = [made EXCEPT ![u] = <<>>]
      /\ rd' = [rd EXCEPT ![u] = @ \ (PathSet(u) \cup split[u])]
      /\ wr' = [wr EXCEPT ![u] = @ \ (PathSet(u) \cup split[u])]
      /\ path' = [path EXCEPT ![u] = <<>>]
      /\ split' = [split EXCEPT ![u] = {}]
      /\ pc' = [pc EXCEPT ![u] = "relock"]
      /\ UNCHANGED <<pivots, isLeaf, nid, nodeMap, nodeCount, height, dirty,
                     mutexLockPath, req, base, cur, idx, stack, lpKey, todo, ret,
                     newest, failed, opsLeft>>
      /\ Live' = Live
  BY <1>0, <1>2 DEF GrowUp, FinishSplit, Unlock, Goto, Live
<1>6. Known' = Live' /\ Known \subseteq Known'
  <2>1. made'[u] = <<>> /\ \A t \in Threads \ {u} : made'[t] = made[t]
    BY <1>3, <1>5 DEF TypeOK, CallsTypeOK
  <2>2. Known' = Live' \ {made'[u][n] : n \in DOMAIN made'[u]}
    BY <1>2, <2>1, KnownIs
  <2>3. DOMAIN made'[u] = {}
    BY <2>1
  <2> QED BY <1>2, <1>5, <2>2, <2>3
<1>7. NodesTypeOK'
  BY <1>2, <1>3, <1>5 DEF TypeOK, NodesTypeOK
<1>8. Naming'
  <2>1. root' \in Known' /\ root' # 2 /\ root' # 1
    BY <1>2, <1>5, <1>6
  <2> QED BY <1>3, <1>5, <2>1 DEF Naming
<1>9. Grows
  BY <1>2, <1>5, <1>6 DEF Grows
<1>10. Tree'
  <2> SUFFICES ASSUME NEW n \in Live PROVE TreeNode(n)'
    BY <1>5 DEF Tree
  <2>1. n \notin Known => pivots[n] # <<>>
    BY <1>2
  <2>2. JoinsFrom(n)
    BY <1>6 DEF JoinsFrom
  <2> QED BY <1>3, <1>5, <1>9, <2>1, <2>2, TreeNodeKept
<1>11. TypeOK'
  <2>1. MarksTypeOK'
    <3>1. refcnt' \in [Objs -> Nat]
      BY <1>0, <1>3, <1>5, OneLess DEF TypeOK, MarksTypeOK
    <3> QED BY <1>3, <1>5, <3>1 DEF TypeOK, MarksTypeOK
  <2>2. LocksTypeOK'
    BY <1>3, <1>5 DEF TypeOK, LocksTypeOK
  <2>3. path' \in [Threads -> Seq(Objs)] /\ made' \in [Threads -> Seq(Objs)]
    <3>1. <<>> \in Seq(Objs)
      OBVIOUS
    <3> QED BY <1>3, <1>5, <3>1 DEF TypeOK, CallsTypeOK
  <2>4. pc' \in [Threads -> PC] /\ split' \in [Threads -> SUBSET Objs]
    BY <1>3, <1>5 DEF TypeOK, CallsTypeOK, PC
  <2>5. CallsTypeOK'
    BY <1>3, <1>5, <2>3, <2>4 DEF TypeOK, CallsTypeOK
  <2> QED BY <1>7, <2>1, <2>2, <2>5 DEF TypeOK
<1>12. Frame(u)
  <2>1. \A n \in Live : SameShape(pivots[n], pivots'[n])
    BY <1>5 DEF SameShape
  <2>2. \A t \in Threads \ {u} :
            /\ pc'[t] = pc[t] /\ made'[t] = made[t] /\ path'[t] = path[t]
            /\ split'[t] = split[t] /\ rd'[t] = rd[t] /\ wr'[t] = wr[t]
    BY <1>3, <1>5 DEF TypeOK, LocksTypeOK, CallsTypeOK
  <2> QED BY <1>2, <1>3, <1>5, <1>6, <2>1, <2>2 DEF Frame
<1>13. LockStep(u)
  BY <1>3, <1>5 DEF TypeOK, LocksTypeOK, LockStep
<1>14. ThreadInv(u)'
  <2>1. /\ pc'[u] = "relock" /\ rd'[u] = {} /\ wr'[u] = {} /\ made'[u] = <<>>
        /\ path'[u] = <<>> /\ split'[u] = {} /\ mutexLockPath' # u
    BY <1>3, <1>4, <1>5 DEF TypeOK, LocksTypeOK, CallsTypeOK
  <2>2. Places(u)'
    BY <1>3, <1>5, <1>6 DEF ThreadInv, Places
  <2> QED BY <2>1, <2>2, ToRest
<1> QED BY <1>8, <1>10, <1>11, <1>12, <1>13, <1>14, Assemble

-----------------------------------------------------------------------------
\* The lock protocol is inductive, given what Copies says of a push-down.
LEMMA InitInv == Init => Protocol
<1> SUFFICES ASSUME Init PROVE Protocol
  OBVIOUS
<1> USE DEF Init
<1>1. 1 \in Objs /\ 1 \in 0..MaxNodes /\ Live = {1}
  BY MaxNodesAssumption DEF Objs, Live
<1>0. Unlinked = {} /\ Known = {1}
  <2>1. \A t \in Threads : made[t] = <<>>
    OBVIOUS
  <2>2. \A n \in DOMAIN <<>> : FALSE
    OBVIOUS
  <2>3. Unlinked = {}
    BY <2>1, <2>2 DEF Unlinked
  <2> QED BY <1>1, <2>3 DEF Known
<1>2. NewPivot(NID_NIL, EmptyBuf, EmptyKey) \in Pivot
  BY EmptyBufFacts, MaxNodesAssumption DEF NewPivot, Pivot, NID_NIL
<1>3. NodesTypeOK
  BY <1>1, <1>2, MaxNodesAssumption DEF NodesTypeOK, NID_NIL
<1>4. MarksTypeOK /\ LocksTypeOK
  BY OptionsAssumption DEF MarksTypeOK, LocksTypeOK
<1>5. CallsTypeOK
  BY <1>1, RequestsAssumption, KeySets DEF CallsTypeOK, PC, AnyRequest
<1>6. TypeOK
  BY <1>3, <1>4, <1>5 DEF TypeOK
<1>7. Naming
  BY <1>0, <1>1 DEF Naming
<1>8. Tree
  <2>1. pivots[1] = <<NewPivot(NID_NIL, EmptyBuf, EmptyKey)>> /\ isLeaf[1] /\ height[1] = 0
    BY <1>1
  <2> QED BY <1>1, <2>1, EmptyBufFacts DEF Tree, TreeNode, NewPivot
<1>9. Exclusion
  BY DEF Exclusion
<1>10. ASSUME NEW t \in Threads PROVE ThreadInv(t)
  BY <1>0, <1>1, ThreadsAssumption DEF ThreadInv, Places, AtWork, HoldsCur,
     HoldsRead, HoldsChild, HoldsPath, HoldsNone, HoldsMutex, PathInv, MadeInv,
     WriterAtRoot, OnPath, Splitting, Filling
<1> QED BY <1>6, <1>7, <1>8, <1>9, <1>10 DEF Protocol

\* Every step of a client thread, of the write-back thread and every stuttering
\* step preserves it.
LEMMA NextInv == Inv /\ [Next]_vars => Protocol'
<1> SUFFICES ASSUME Protocol, Copies, [Next]_vars PROVE Protocol'
  BY DEF Inv
<1>1. ASSUME NEW u \in Threads, Begin(u) \/ Step(u) PROVE Protocol'
  <2>1. CASE Begin(u) \/ IncRef(u) \/ DecRef(u) \/ WriteAtRoot(u) \/ InsertAtRoot(u)
    BY <2>1, BeginInv, IncRefInv, DecRefInv, WriteAtRootInv, InsertAtRootInv
  <2>2. CASE PushReturn(u) \/ Relock(u) \/ ChoosePushDown(u) \/ PushDown(u)
             \/ PushDownLocked(u) \/ MoveMsg(u) \/ ClearBuf(u) \/ SplitBuf(u)
    <3>1. CopyInv(u)
      BY DEF Copies
    <3> QED BY <2>2, <3>1, PushReturnInv, RelockInv, ChoosePushDownInv,
               PushDownInv, PushDownLockedInv, MoveMsgInv, ClearBufInv, SplitBufInv
  <2>3. CASE LockPath(u) \/ LockPathRoot(u) \/ LockPathStale(u) \/ LockPathDown(u)
             \/ LockPathClear(u) \/ SplitNodeDone(u)
    BY <2>3, LockPathInv, LockPathRootInv, LockPathStaleInv, LockPathDownInv,
       LockPathClearInv, SplitNodeDoneInv
  <2>4. CASE CreateSibling(u) \/ FillSibling(u) \/ CutNode(u) \/ AddToParent(u)
    BY <2>4, CreateSiblingInv, FillSiblingInv, CutNodeInv, AddToParentInv
  <2>5. CASE CreateRoot(u) \/ AddFirstPivot(u) \/ AddSecondPivot(u) \/ GrowUp(u)
    BY <2>5, CreateRootInv, AddFirstPivotInv, AddSecondPivotInv, GrowUpInv
  <2>6. CASE GetLock(u) \/ GetLook(u) \/ GetDown(u)
    BY <2>6, GetLockInv, GetLookInv, GetDownInv
  <2> QED BY <1>1, <2>1, <2>2, <2>3, <2>4, <2>5, <2>6 DEF Step
<1>2. ASSUME NEW o \in Live, WriteBack(o) PROVE Protocol'
  BY <1>2, WriteBackInv
<1>3. ASSUME UNCHANGED vars PROVE Protocol'
  <2>1. UNCHANGED <<nodeVars, rd, wr, mutexLockPath, pc, threadVars>>
    BY <1>3 DEF vars
  <2>2. TypeOK'
    <3>1. NodesTypeOK'
      BY <2>1, CalmNodes DEF threadVars
    <3> QED BY <1>3, <3>1 DEF Protocol, TypeOK, MarksTypeOK, LocksTypeOK, CallsTypeOK,
            vars, threadVars
  <2> QED BY <2>1, <2>2, StillInv
<1> QED BY <1>1, <1>2, <1>3 DEF Next

=============================================================================
