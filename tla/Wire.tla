-------------------------------- MODULE Wire --------------------------------
(***************************************************************************)
(* The serialized form of a node: Node::serialize and Node::deserialize    *)
(* (src/src/Node.cpp), MsgBuf::serialize and MsgBuf::deserialize           *)
(* (src/src/Msg.cpp), on the numbers and strings of src/base/Buffer.h and  *)
(* src/base/coding.h.                                                      *)
(*                                                                         *)
(* A byte is a digit of base Base, a 32-bit number has IntWidth of them,   *)
(* the lowest first.  What is read is the sequence of fields deserialize   *)
(* gets from its buffer.  The Slices it then makes of them point into      *)
(* local strings; what becomes of these is not part of this module.        *)
(***************************************************************************)
EXTENDS Integers, Sequences, SequencesExt

CONSTANTS Base,      \* values of a byte, 256 in the code
          IntWidth   \* bytes of a number, 4 in the code

ASSUME WireAssumption ==
    Base \in Nat /\ Base > 3 /\ IntWidth \in Nat \ {0}

\* enum MsgType
Put == 1
Del == 2

\* Base to the power of n
pow[n \in 0..IntWidth] == IF n = 0 THEN 1 ELSE Base * pow[n - 1]

\* uint32_t
IntRange == pow[IntWidth]

\* What a node is made of, as far as it can be read back: a length read is an
\* int32_t, a number of messages or pivots a uint32_t.
Byte == 0..(Base - 1)
Strings == {s \in Seq(Byte) : Len(s) < IntRange \div 2}
Messages ==
    [type : {Put}, key : Strings, value : Strings]
      \cup [type : {Del}, key : Strings, value : {<<>>}]
MsgLists == {b \in Seq(Messages) : Len(b) < IntRange}
Pivots == [childNid : 0..(IntRange - 1), leftKey : Strings, msgs : MsgLists]
PivotLists == {q \in Seq(Pivots) : Len(q) < IntRange}

Sum(s) == FoldLeft(LAMBDA x, e : x + e, 0, s)

-----------------------------------------------------------------------------
\* Writing

\* EncodeFixed32 and appendInt32
Fixed32(x) == [i \in 1..IntWidth |-> (x \div pow[i - 1]) % Base]

\* A length and that many bytes.
String(s) == Fixed32(Len(s)) \o s

\* One message in MsgBuf::serialize.  The length written before the value is
\* the length of the key.
MsgImage(m) ==
    Fixed32(m.type) \o String(m.key)
      \o (IF m.type = Put THEN Fixed32(Len(m.key)) \o m.value ELSE <<>>)

\* MsgBuf::serialize
BufImage(msgs) ==
    Fixed32(Len(msgs)) \o FlattenSeq([i \in DOMAIN msgs |-> MsgImage(msgs[i])])

\* Node::serialize: what precedes the pivots, one turn of the loop, and all of
\* the loop.
HeadImage(isLeaf, self, pivots) ==
    <<isLeaf>> \o Fixed32(self) \o Fixed32(pivots)

PivotImage(p) == Fixed32(p.childNid) \o String(p.leftKey) \o BufImage(p.msgs)

PivotImages(pivots) ==
    FlattenSeq([i \in DOMAIN pivots |-> PivotImage(pivots[i])])

NodeImage(nd) ==
    HeadImage(nd.isLeaf, nd.self, Len(nd.pivots)) \o PivotImages(nd.pivots)

-----------------------------------------------------------------------------
\* Reading.  A reader has the bytes left, the value read last, and ok as long
\* as no assertion has failed.

Failed(r) == [r EXCEPT !.ok = FALSE]

\* retrieve(n) with the value v
Took(r, n, v) ==
    [ok |-> r.ok, rest |-> SubSeq(r.rest, n + 1, Len(r.rest)), val |-> v]

\* readInt8
ReadInt8(r) ==
    IF Len(r.rest) >= 1 THEN Took(r, 1, r.rest[1]) ELSE Failed(r)

\* readInt32 and DecodeFixed32
ReadInt32(r) ==
    IF Len(r.rest) >= IntWidth
    THEN Took(r, IntWidth, Sum([i \in 1..IntWidth |-> r.rest[i] * pow[i - 1]]))
    ELSE Failed(r)

\* readString.  The length is an int32_t: the upper half of the numbers are
\* negative, and huge as a size_t.
ReadString(r0) ==
    LET r == ReadInt32(r0)
        n == r.val
    IN  IF r.ok /\ n < IntRange \div 2 /\ Len(r.rest) >= n
        THEN Took(r, n, SubSeq(r.rest, 1, n))
        ELSE Failed(r)

\* Read(r) count times, the values in a sequence.
Repeat(Read(_), r0, count) ==
    LET Next(r) == LET s == Read(r) IN [s EXCEPT !.val = Append(r.val, s.val)]
        reads[i \in 0..count] ==
            IF i = 0 THEN [r0 EXCEPT !.val = <<>>]
            ELSE IF reads[i - 1].ok THEN Next(reads[i - 1]) ELSE reads[i - 1]
    IN  reads[count]

\* One turn of the loop of MsgBuf::deserialize.
ReadMsg(r0) ==
    LET t == ReadInt32(r0)
        k == ReadString(t)
        v == IF k.ok /\ t.val = Put THEN ReadString(k) ELSE [k EXCEPT !.val = <<>>]
    IN  IF t.ok /\ v.ok
        THEN [v EXCEPT !.val = [type |-> t.val, key |-> k.val, value |-> v.val]]
        ELSE Failed(r0)

\* MsgBuf::deserialize
ReadBuf(r0) ==
    LET c == ReadInt32(r0)
    IN  IF c.ok THEN Repeat(ReadMsg, c, c.val) ELSE c

\* One turn of the loop of Node::deserialize.
ReadPivot(r0) ==
    LET c == ReadInt32(r0)
        k == ReadString(c)
        b == ReadBuf(k)
    IN  IF c.ok /\ k.ok /\ b.ok
        THEN [b EXCEPT !.val = [childNid |-> c.val, leftKey |-> k.val,
                                msgs |-> b.val]]
        ELSE Failed(r0)

\* Node::deserialize, which asserts that there are pivots.
ReadNode(bytes) ==
    LET f == ReadInt8([ok |-> TRUE, rest |-> bytes, val |-> 0])
        s == ReadInt32(f)
        n == ReadInt32(s)
        p == Repeat(ReadPivot, n, n.val)
    IN  IF f.ok /\ s.ok /\ n.ok /\ n.val > 0 /\ p.ok
        THEN [ok |-> TRUE,
              node |-> [isLeaf |-> f.val, self |-> s.val, pivots |-> p.val]]
        ELSE [ok |-> FALSE]

-----------------------------------------------------------------------------
\* Sizes

\* Msg::size
MsgSize(m) ==
    IntWidth + Len(m.key) + (IF m.type = Put THEN Len(m.value) ELSE 0)

\* Mutant of BufSize: the bytes of the length fields are not counted.
BufSizeBare(msgs) == IntWidth + Sum([i \in DOMAIN msgs |-> MsgSize(msgs[i])])

\* MsgBuf::size after inserting each of the messages once.
BufSize(msgs) ==
    IntWidth + Sum([i \in DOMAIN msgs |-> MsgSize(msgs[i]) + 2 * IntWidth])

\* Node::writeBackSize
PivotSize(p) == IntWidth + (IntWidth + Len(p.leftKey)) + BufSize(p.msgs)

WriteBackSize(nd) ==
    1 + IntWidth + IntWidth
      + Sum([i \in DOMAIN nd.pivots |-> PivotSize(nd.pivots[i])])

=============================================================================
