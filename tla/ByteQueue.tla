----------------------------- MODULE ByteQueue ------------------------------
(***************************************************************************)
(* What the users of a Buffer rely on: bytes come out in the order in      *)
(* which they went in, and none is made up.                                *)
(***************************************************************************)
EXTENDS Integers, Sequences

CONSTANTS Byte,     \* the values of a byte
          MaxLen    \* bound: bytes of one call

VARIABLE queue

Data == UNION {[1..n -> Byte] : n \in 0..MaxLen}

Init == queue = <<>>

Put(data) == queue' = queue \o data

Take(n) == n <= Len(queue) /\ queue' = SubSeq(queue, n + 1, Len(queue))

Drop == queue' = <<>>

Next ==
    \/ \E data \in Data : Put(data)
    \/ \E n \in 0..MaxLen : Take(n)
    \/ Drop

Spec == Init /\ [][Next]_queue

=============================================================================
