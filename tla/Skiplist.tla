------------------------------ MODULE Skiplist -------------------------------
(***************************************************************************)
(* The skip list under a message buffer (src/src/Skiplist.h).              *)
(*                                                                         *)
(* The list's operations are operators on a record of its fields, because  *)
(* resize is made of clear and insert.  There is one node per key, so a    *)
(* node is named by its key.  A node has as many next pointers as its      *)
(* height when it was allocated; reading beyond them is an error for TLC.  *)
(* The random height is any height.  The mutex of the buffer makes every   *)
(* operation atomic.                                                       *)
(***************************************************************************)
EXTENDS MsgBuf, Sequences, SequencesExt, FiniteSetsExt

CONSTANT kMaxHeight    \* tallest node, 17 in the code

ASSUME HeightAssumption == kMaxHeight \in Nat \ {0}

Head_   == 0           \* head_, whose key is below all others
Null    == -1
Heights == 1..kMaxHeight
Levels  == 0..(kMaxHeight - 1)
Nodes   == Keys \cup {Head_}

\* The next_ pointers of one node.
Towers == UNION {[0..(h - 1) -> Nodes \cup {Null}] : h \in Heights}

VARIABLE list

\* next: the next_ pointers of the allocated nodes; msg: the message in each.
EmptyList ==
    [next |-> [x \in {Head_} |-> [l \in Levels |-> Null]],
     msg |-> [x \in {} |-> NoMsg], maxHeight |-> 1, count |-> 0]

-----------------------------------------------------------------------------
\* Searching

\* The nodes that level l links.
Tall(L, l) == {x \in DOMAIN L.next : l \in DOMAIN L.next[x]}

\* The last node before the key on level l, coming from node x.
Walk(L, l, x, key) ==
    LET w[y \in Tall(L, l)] ==
            LET z == L.next[y][l]
            IN  IF z # Null /\ z < key THEN w[z] ELSE y
    IN  w[x]

\* The array prev that findGreaterOrEqual fills in, level by level downwards.
Prev(L, key) ==
    LET p[l \in 0..(L.maxHeight - 1)] ==
            Walk(L, l, IF l = L.maxHeight - 1 THEN Head_ ELSE p[l + 1], key)
    IN  p

FindGreaterOrEqual(L, key) == L.next[Prev(L, key)[0]][0]

\* The search takes the same way for findLessThan.
FindLessThan(L, key) == Prev(L, key)[0]

ContainsKey(L, key) == FindGreaterOrEqual(L, key) = key

\* The nodes of level l, in order.
Level(L, l) ==
    LET v[x \in Tall(L, l) \cup {Null}] ==
            IF x = Null THEN <<>> ELSE <<x>> \o v[L.next[x][l]]
    IN  v[L.next[Head_][l]]

\* The nodes as the iterator visits them: seekToFirst, then next until NULL.
Visit(L) == Level(L, 0)

\* Iterator::prev; NULL before the first node.
PrevNode(L, key) ==
    LET x == FindLessThan(L, key) IN IF x = Head_ THEN Null ELSE x

\* Mutant of SeekToMiddle: the count is halved upwards.
SeekPastMiddle(L) ==
    LET n == (L.count + 1) \div 2
        w[i \in 0..n] == IF i = 0 THEN L.next[Head_][0] ELSE L.next[w[i - 1]][0]
    IN  w[n]

\* Iterator::seekToMiddle: count_ / 2 steps from the first node.
SeekToMiddle(L) ==
    LET n == L.count \div 2
        w[i \in 0..n] == IF i = 0 THEN L.next[Head_][0] ELSE L.next[w[i - 1]][0]
    IN  w[n]

\* Iterator::seekToLast: along each level to its end, then one level down.
SeekToLast(L) ==
    LET x == Prev(L, KeyCount + 1)[0] IN IF x = Head_ THEN Null ELSE x

-----------------------------------------------------------------------------
\* Changing the list

\* Mutant of InsertNode: maxHeight_ is not raised by a taller node.
InsertLow(L, key, m, h) ==
    LET prev == Prev(L, key)
        At(l) == IF l < L.maxHeight THEN prev[l] ELSE Head_
        linked == [x \in DOMAIN L.next \cup {key} |->
            IF x = key THEN [l \in 0..(h - 1) |-> L.next[At(l)][l]]
            ELSE [l \in DOMAIN L.next[x] |->
                    IF l < h /\ x = At(l) THEN key ELSE L.next[x][l]]]
    IN  IF ContainsKey(L, key) THEN [L EXCEPT !.msg[key] = m]
        ELSE [next |-> linked, count |-> L.count + 1, maxHeight |-> L.maxHeight,
              msg |-> [x \in DOMAIN L.msg \cup {key} |->
                            IF x = key THEN m ELSE L.msg[x]]]

\* insert with random height h.  maxHeight_ is raised although the key may be
\* there already and no node of that height be linked.
InsertNode(L, key, m, h) ==
    LET prev == Prev(L, key)
        At(l) == IF l < L.maxHeight THEN prev[l] ELSE Head_
        linked == [x \in DOMAIN L.next \cup {key} |->
            IF x = key THEN [l \in 0..(h - 1) |-> L.next[At(l)][l]]
            ELSE [l \in DOMAIN L.next[x] |->
                    IF l < h /\ x = At(l) THEN key ELSE L.next[x][l]]]
        raised == Max({L.maxHeight, h})
    IN  IF ContainsKey(L, key)
        THEN [L EXCEPT !.msg[key] = m, !.maxHeight = raised]
        ELSE [next |-> linked, count |-> L.count + 1, maxHeight |-> raised,
              msg |-> [x \in DOMAIN L.msg \cup {key} |->
                            IF x = key THEN m ELSE L.msg[x]]]

\* Mutant of EraseNode: the node is unlinked from the lowest level only.
EraseBottom(L, key) ==
    LET prev == Prev(L, key)
    IN  [next |-> [x \in DOMAIN L.next \ {key} |->
                    [l \in DOMAIN L.next[x] |->
                        IF l = 0 /\ prev[l] = x /\ L.next[x][l] = key
                        THEN L.next[key][l] ELSE L.next[x][l]]],
         msg |-> [x \in DOMAIN L.msg \ {key} |-> L.msg[x]],
         maxHeight |-> L.maxHeight, count |-> L.count - 1]

\* erase: unlink the node where it is linked, and free it.
EraseNode(L, key) ==
    LET prev == Prev(L, key)
    IN  [next |-> [x \in DOMAIN L.next \ {key} |->
                    [l \in DOMAIN L.next[x] |->
                        IF /\ l < L.maxHeight /\ prev[l] = x
                           /\ L.next[x][l] = key
                        THEN L.next[key][l] ELSE L.next[x][l]]],
         msg |-> [x \in DOMAIN L.msg \ {key} |-> L.msg[x]],
         maxHeight |-> L.maxHeight, count |-> L.count - 1]

\* clear: free count_ nodes from the first on, and reset the head.
ClearList(L) ==
    LET freed == ToSet(SubSeq(Visit(L), 1, L.count))
    IN  [EmptyList EXCEPT
            !.next = [x \in DOMAIN L.next \ freed |->
                        IF x = Head_ THEN [l \in Levels |-> Null]
                        ELSE L.next[x]],
            !.msg = [x \in DOMAIN L.msg \ freed |-> L.msg[x]]]

\* Mutant of ResizeList: the iterator is moved on before its key is taken.
ResizeLate(L, n, hs) ==
    LET keys == SubSeq(Visit(L), 2, n)
        Ins(M, i) == InsertNode(M, keys[i], L.msg[keys[i]], hs[i])
    IN  FoldLeft(Ins, ClearList(L), [i \in DOMAIN keys |-> i])

\* resize: remember the first n messages, clear, and insert them again; hs are
\* their new heights.
ResizeList(L, n, hs) ==
    LET keys == SubSeq(Visit(L), 1, n)
        Ins(M, i) == InsertNode(M, keys[i], L.msg[keys[i]], hs[i])
    IN  [FoldLeft(Ins, ClearList(L), [i \in 1..n |-> i]) EXCEPT !.count = n]

-----------------------------------------------------------------------------
Init == list = EmptyList

DoInsert(k, m, h) == list' = InsertNode(list, k, m, h)
\* erase asserts that the key is there.
Erase(k) == ContainsKey(list, k) /\ list' = EraseNode(list, k)
\* resize asserts that the list is long enough.
DoResize(n) ==
    /\ n <= list.count
    /\ \E hs \in [1..n -> Heights] : list' = ResizeList(list, n, hs)
Clear == list' = ClearList(list)

Next ==
    \/ \E k \in Keys, m \in Messages, h \in Heights : DoInsert(k, m, h)
    \/ \E k \in Keys : Erase(k)
    \/ \E n \in 0..KeyCount : DoResize(n)
    \/ Clear

Spec == Init /\ [][Next]_list

-----------------------------------------------------------------------------
\* Properties

\* Every level is in strictly ascending order and links exactly the nodes tall
\* enough for it; no level above maxHeight_ is in use; every node that is
\* allocated is linked, so nothing is leaked and nothing freed is reachable;
\* and count_ is the number of nodes.
WellFormed ==
    LET L == list
        alive == DOMAIN L.next \ {Head_}
    IN  /\ alive = DOMAIN L.msg
        /\ L.count = Cardinality(alive)
        /\ \A l \in Levels :
            /\ IsSorted(Level(L, l), LAMBDA a, b : a < b)
            /\ ToSet(Level(L, l)) = {x \in alive : l \in DOMAIN L.next[x]}
            /\ l >= L.maxHeight => Level(L, l) = <<>>

\* z is the element of S that follows x.
Follows(S, x, z) ==
    IF z = Null THEN \A y \in S : y <= x
    ELSE z \in S /\ x < z /\ \A y \in S : x < y => z <= y

\* Each pointer leads to the next node that is tall enough, and no node is
\* taller than maxHeight_: what WellFormed says, without its lists.
Good(L) ==
    LET alive == DOMAIN L.msg
    IN  /\ alive \subseteq Keys
        /\ L \in [next : [alive \cup {Head_} -> Towers], msg : [alive -> Messages],
                  maxHeight : Heights, count : {Cardinality(alive)}]
        /\ DOMAIN L.next[Head_] = Levels
        /\ \A x \in alive : DOMAIN L.next[x] \subseteq 0..(L.maxHeight - 1)
        /\ \A l \in Levels : \A x \in Tall(L, l) :
                Follows(Tall(L, l), x, L.next[x][l])

\* The inductive invariant: whatever was inserted, erased, cut off and cleared
\* before, every pointer of every level is right and count_ is exact.
Inv == Good(list)

Contents == [k \in Keys |-> IF k \in DOMAIN list.msg THEN list.msg[k] ELSE NoMsg]

\* What a search finds from the tallest level down is what the set of keys
\* says: seek, contains, prev, seekToLast, and seekToMiddle, whose node is the
\* first that a split moves away.
SearchesAgree ==
    LET S == Present(Contents)
        Least(T) == IF T = {} THEN Null ELSE Min(T)
        Greatest(T) == IF T = {} THEN Null ELSE Max(T)
        buf == [msgs |-> Contents, size |-> 0]
    IN  /\ \A k \in Keys :
            /\ FindGreaterOrEqual(list, k) = Least({x \in S : x >= k})
            /\ ContainsKey(list, k) <=> k \in S
            /\ PrevNode(list, k) = Greatest({x \in S : x < k})
        /\ SeekToLast(list) = Greatest(S)
        /\ S # {} => SeekToMiddle(list) = Min(UpperKeys(buf))

\* The skip list is the ordered map that MsgBuf takes it for.
Abstract == INSTANCE MsgList WITH msgs <- Contents
ImplementsMsgList == Abstract!Spec

=============================================================================
