------------------------------- MODULE MsgList -------------------------------
(***************************************************************************)
(* What a MsgBuf needs of its list: an ordered map from keys to messages.  *)
(* MsgBuf's operators are written over such a map; Skiplist implements it. *)
(***************************************************************************)
EXTENDS MsgBuf

VARIABLE msgs

Init == msgs = [k \in Keys |-> NoMsg]

Put(k, m) == msgs' = [msgs EXCEPT ![k] = m]

Erase(k) == msgs[k] # NoMsg /\ msgs' = [msgs EXCEPT ![k] = NoMsg]

\* Keep the first n messages.
Truncate(n) ==
    /\ n <= Cardinality(Present(msgs))
    /\ msgs' = Keep(msgs, FirstKeys(msgs, n)).msgs

Next ==
    \/ \E k \in Keys, m \in Messages : Put(k, m)
    \/ \E k \in Keys : Erase(k)
    \/ \E n \in 0..KeyCount : Truncate(n)

Spec == Init /\ [][Next]_msgs

=============================================================================
