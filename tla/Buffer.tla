------------------------------- MODULE Buffer -------------------------------
(***************************************************************************)
(* The byte buffer nodes are serialized to and read from                   *)
(* (src/base/Buffer.h): a vector with the readable bytes between           *)
(* readerIndex_ and writerIndex_.  Indices count from 0, as in the code.   *)
(* An assertion on an argument is a guard: the caller keeps to it.         *)
(***************************************************************************)
EXTENDS Integers, Sequences

CONSTANTS Byte,            \* the values of a byte
          Zero,            \* the value resize fills the vector with
          kCheapPrepend,   \* 8 in the code
          kInitialSize,    \* 1024
          MaxSize,         \* bound: size of the vector
          MaxLen           \* bound: bytes of one call

ASSUME BufferAssumption ==
    /\ Zero \in Byte
    /\ kCheapPrepend \in Nat /\ kInitialSize \in Nat
    /\ MaxSize \in Nat /\ MaxLen \in Nat

VARIABLES bytes,    \* buffer_
          reader,   \* readerIndex_
          writer    \* writerIndex_

vars == <<bytes, reader, writer>>

size == Len(bytes)
readableBytes == writer - reader
writableBytes == size - writer
prependableBytes == reader

Data == UNION {[1..n -> Byte] : n \in 0..MaxLen}

Init ==
    /\ bytes = [i \in 1..(kCheapPrepend + kInitialSize) |-> Zero]
    /\ reader = kCheapPrepend
    /\ writer = kCheapPrepend

\* The vector s with data from index i on.
Copied(s, i, data) ==
    [k \in 1..Len(s) |->
        IF k \in (i + 1)..(i + Len(data)) THEN data[k - i] ELSE s[k]]

\* The vector s resized to n.
Resized(s, n) == [k \in 1..n |-> IF k <= Len(s) THEN s[k] ELSE Zero]

\* Mutant of MustGrow: the bytes kept free at the front are not counted.
MustGrowLate(len) == writableBytes + prependableBytes < len

\* The test of makeSpace: moving the readable bytes does not make enough room.
MustGrow(len) == writableBytes + prependableBytes < len + kCheapPrepend

\* The state makeSpace leaves, if ensureWritableBytes calls it.
Ensured(len) ==
    IF writableBytes >= len THEN [v |-> bytes, r |-> reader, w |-> writer]
    ELSE IF MustGrow(len)
    THEN [v |-> Resized(bytes, writer + len), r |-> reader, w |-> writer]
    ELSE [v |-> Copied(bytes, kCheapPrepend, SubSeq(bytes, reader + 1, writer)),
          r |-> kCheapPrepend, w |-> kCheapPrepend + readableBytes]

EnsureWritableBytes(len) ==
    /\ Len(Ensured(len).v) <= MaxSize
    /\ bytes' = Ensured(len).v
    /\ reader' = Ensured(len).r
    /\ writer' = Ensured(len).w

\* append, and appendInt8, appendInt32 and so on for the bytes of a number.
Append_(data) ==
    LET e == Ensured(Len(data))
    IN  /\ Len(e.v) <= MaxSize
        /\ bytes' = Copied(e.v, e.w, data)
        /\ reader' = e.r
        /\ writer' = e.w + Len(data)

\* Mutant of RetrieveAll: only the reader goes back.
RetrieveReader ==
    /\ reader' = kCheapPrepend
    /\ UNCHANGED <<bytes, writer>>

RetrieveAll ==
    /\ reader' = kCheapPrepend
    /\ writer' = kCheapPrepend
    /\ UNCHANGED bytes

\* retrieve, under read, readInt32, readString and updateReadIndex.
Retrieve(len) ==
    /\ len <= readableBytes
    /\ \/ /\ len < readableBytes
          /\ reader' = reader + len
          /\ UNCHANGED <<bytes, writer>>
       \/ /\ len = readableBytes
          /\ RetrieveAll

\* Layout::readFile: pread to beginWrite(), then updateWriterIndex.
Fill(data) ==
    /\ Len(data) <= writableBytes
    /\ bytes' = Copied(bytes, writer, data)
    /\ writer' = writer + Len(data)
    /\ UNCHANGED reader

\* A pread that came up short: its bytes are in the vector, the index stays.
FillFails(data) ==
    /\ Len(data) <= writableBytes
    /\ bytes' = Copied(bytes, writer, data)
    /\ UNCHANGED <<reader, writer>>

Next ==
    \/ \E len \in 0..MaxLen : EnsureWritableBytes(len) \/ Retrieve(len)
    \/ \E data \in Data : Append_(data) \/ Fill(data) \/ FillFails(data)
    \/ RetrieveAll

Spec == Init /\ [][Next]_vars

-----------------------------------------------------------------------------
\* Properties

\* The sizes are differences of unsigned indices: readableBytes, writableBytes
\* and the room kept in front of the data never pass below zero, also after
\* makeSpace has moved the data or grown the vector.
IndexOrder ==
    /\ bytes \in Seq(Byte)
    /\ reader \in Nat /\ writer \in Nat
    /\ kCheapPrepend <= reader /\ reader <= writer /\ writer <= size

\* The buffer is a queue of bytes: growing, moving and the reset to the front
\* neither lose nor repeat a byte, nor let a byte of an earlier use reappear.
Queue == INSTANCE ByteQueue WITH queue <- SubSeq(bytes, reader + 1, writer)
ImplementsQueue == Queue!Spec

=============================================================================
