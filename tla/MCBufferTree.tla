---------------------------- MODULE MCBufferTree -----------------------------
(***************************************************************************)
(* Instances of BufferTree for TLC.  With keys and values of one byte a    *)
(* message takes 14 bytes of a buffer, so MaxNodeMsg = 18 lets a buffer    *)
(* hold one message and the second one makes it split or go down;          *)
(* MaxNodeChildNum = 1 makes a node with two pivots split.  A handful of   *)
(* puts then grows a tree of three levels.                                 *)
(***************************************************************************)
EXTENDS BufferTreeInv, TLC

\* The calls the clients of a run make.
Puts     == [op : {"put"}, key : Keys, value : Values]
PutsGets == [op : {"put", "get"}, key : Keys, value : Values]
AllCalls == [op : Ops, key : Keys, value : Values]

\* No action tells one thread from another.  Used in the runs that check no
\* liveness.
Sym == Permutations(Threads)

=============================================================================
