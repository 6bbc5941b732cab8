------------------------------- MODULE MsgBuf -------------------------------
(***************************************************************************)
(* The message buffer of a pivot (src/src/Msg.h, src/src/Msg.cpp).         *)
(*                                                                         *)
(* A buffer is a sorted list of messages with at most one message per key, *)
(* so its contents are a function from keys to messages.  Beside it the    *)
(* buffer keeps size_, the running total MsgBuf::size() is computed from.  *)
(* size_ is a value of its own here, because insert maintains it           *)
(* incrementally and resize recomputes it.                                 *)
(*                                                                         *)
(* All keys have KeySize bytes and all values ValueSize bytes; a key is    *)
(* represented by its rank in the order of Slice::compare.                 *)
(***************************************************************************)
EXTENDS Integers, FiniteSets

CONSTANTS KeyCount,     \* number of distinct keys
          Values,       \* values a Put carries
          KeySize,      \* bytes of a key
          ValueSize     \* bytes of a value

Keys == 1..KeyCount

\* The two answers that are not a value: a Del message, and no message.
Del == "Del"
NoMsg == "NoMsg"

Messages == Values \cup {Del}

ASSUME KeyCountAssumption == KeyCount \in Nat \ {0}
ASSUME ValuesAssumption == Del \notin Values /\ NoMsg \notin Values
ASSUME SizesAssumption == KeySize \in Nat \ {0} /\ ValueSize \in Nat

MsgBuf == [msgs : [Keys -> Messages \cup {NoMsg}], size : Int]

EmptyBuf == [msgs |-> [k \in Keys |-> NoMsg], size |-> 0]

-----------------------------------------------------------------------------
\* The keys the list holds a message for.
Present(msgs) == {k \in Keys : msgs[k] # NoMsg}

Count(buf) == Cardinality(Present(buf.msgs))

\* Msg::size summed over the messages that msgs holds for the keys K.
MsgSize(msgs, K) ==
    (4 + KeySize) * Cardinality({k \in K : msgs[k] # NoMsg})
      + ValueSize * Cardinality({k \in K : msgs[k] \in Values})

\* MsgBuf::size: four bytes for the count that serialize writes first.
BufSize(buf) == 4 + buf.size

\* Mutant of InsertAll: the 8 bytes of the length fields are forgotten.
InsertAllBare(buf, msgs, K) ==
    [msgs |-> [k \in Keys |-> IF k \in K THEN msgs[k] ELSE buf.msgs[k]],
     size |-> buf.size - MsgSize(buf.msgs, K) + MsgSize(msgs, K)]

\* MsgBuf::insert of the messages that msgs holds for the keys K, each once.
\* An overwritten message gives back its own size and not the 8 bytes that
\* were added with it.
InsertAll(buf, msgs, K) ==
    [msgs |-> [k \in Keys |-> IF k \in K THEN msgs[k] ELSE buf.msgs[k]],
     size |-> buf.size - MsgSize(buf.msgs, K)
                       + MsgSize(msgs, K) + 8 * Cardinality(K)]

Insert(buf, key, msg) == InsertAll(buf, [k \in Keys |-> msg], {key})

\* The buffer that holds exactly the messages of msgs with a key in K, with
\* size_ counted afresh: what resize leaves behind, and what inserting the
\* messages into a new buffer yields.
Keep(msgs, K) ==
    [msgs |-> [k \in Keys |-> IF k \in K THEN msgs[k] ELSE NoMsg],
     size |-> MsgSize(msgs, K) + 8 * Cardinality({k \in K : msgs[k] # NoMsg})]

\* The keys of the first n messages, and the keys of the others.
FirstKeys(msgs, n) ==
    {k \in Present(msgs) :
        Cardinality({j \in Present(msgs) : j < k}) < n}

Resize(buf, n) == Keep(buf.msgs, FirstKeys(buf.msgs, n))

Smallest(S) == CHOOSE x \in S : \A y \in S : x <= y

\* Mutant of UpperKeys: the message in the middle is passed over.
UpperKeysAfterMiddle(buf) ==
    Present(buf.msgs) \ FirstKeys(buf.msgs, Count(buf) \div 2 + 1)

\* The keys from Iterator::seekToMiddle on: those the split moves away.
UpperKeys(buf) ==
    Present(buf.msgs) \ FirstKeys(buf.msgs, Count(buf) \div 2)

\* A buffer without messages has no size.
Tight(buf) == Present(buf.msgs) = {} => buf.size = 0

=============================================================================
