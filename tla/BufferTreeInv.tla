--------------------------- MODULE BufferTreeInv ----------------------------
(***************************************************************************)
(* The inductive invariant of BufferTree.  It says, for every control      *)
(* point, exactly which locks a thread holds and what it may rely on while *)
(* it holds them.                                                          *)
(***************************************************************************)
EXTENDS BufferTree

\* The nodes of the tree and of trees that were: all but those being made.
Known == Live \ Unlinked

\* How createNode names nodes: the first node it makes gets nid 1 again, the
\* nid of the first root, and the map entry of that root with it.  Nothing
\* leads to that node before the first growUp, after which the root is a node
\* made later: no other node of the tree ever has the nid of the root.
Naming ==
    /\ \A o \in Live : nid[o] = IF o = 1 THEN 1 ELSE o - 1
    /\ \A n \in 1..(nodeCount - 1) : nodeMap[n] = n + 1
    /\ root \in Known /\ root # 2
    /\ root = 1 => Known = {1}

\* The tree is as Balanced says; a child link holds a nid in use, and an empty
\* buffer has size 0, so it is never split.
TreeNode(o) ==
    /\ isLeaf[o] <=> height[o] = 0
    /\ o \in Known => pivots[o] # <<>>
    /\ \A i \in DOMAIN pivots[o] :
        /\ i > 1 => pivots[o][i].leftKey # EmptyKey
        /\ Tight(pivots[o][i].buf)
        /\ isLeaf[o] => pivots[o][i].child = NID_NIL
        /\ ~isLeaf[o] => /\ pivots[o][i].child \in 1..(nodeCount - 1)
                         /\ o \in Known => pivots[o][i].child + 1 \in Known
                         /\ height[pivots[o][i].child + 1] + 1 = height[o]

Tree == \A o \in Live : TreeNode(o)

\* A node locked exclusively by one thread is locked by no other.
Exclusion ==
    \A t, u \in Threads : t # u => wr[t] \cap (rd[u] \cup wr[u]) = {}

\* A thread refers to nodes of the tree.
Places(t) ==
    /\ cur[t] \in Known
    /\ base[t] \in Known
    /\ \A n \in DOMAIN stack[t] : stack[t][n] \in Known

\* The pivot at work is one of the node at work, and has a child.
AtWork(t) ==
    pc[t] \in {"pushDown", "pushBuf", "moving", "clearing", "getDown"} =>
        /\ idx[t] \in DOMAIN pivots[cur[t]]
        /\ ~isLeaf[cur[t]]

\* The locks a thread holds at each control point.
HoldsCur(t) ==
    pc[t] \in {"insert", "push"} =>
        /\ rd[t] = IF isLeaf[cur[t]] THEN {} ELSE {cur[t]}
        /\ wr[t] = IF isLeaf[cur[t]] THEN {cur[t]} ELSE {}

HoldsRead(t) ==
    pc[t] \in {"pushDown", "getLook", "getDown"} =>
        rd[t] = {cur[t]} /\ wr[t] = {}

HoldsChild(t) ==
    pc[t] \in {"pushBuf", "moving", "clearing"} =>
        LET c == pivots[cur[t]][idx[t]].child + 1
        IN  /\ rd[t] = IF isLeaf[c] THEN {cur[t]} ELSE {cur[t], c}
            /\ wr[t] = IF isLeaf[c] THEN {c} ELSE {}
            /\ pc[t] = "moving" => ~isLeaf[c]

HoldsPath(t) ==
    pc[t] \in OnPath =>
        rd[t] = {} /\ wr[t] = PathSet(t) \cup split[t]

HoldsNone(t) ==
    pc[t] \in {"idle", "incRef", "decRef", "writeLock", "relock", "lockPath",
               "lpRoot", "getLock"} =>
        rd[t] = {} /\ wr[t] = {}

\* mutexLockPath_ is held from the choice of the root to the last lock.
HoldsMutex(t) == mutexLockPath = t <=> pc[t] \in {"lpRoot", "lpDown", "lpClear"}

\* The path: empty outside lockPath and splitNode, one unlocked node while
\* the root's lock is awaited, and then a branch from the root whose node n
\* is n - 1 levels below it.
PathInv(t) ==
    /\ pc[t] \notin {"lpRoot"} \cup OnPath => path[t] = <<>>
    /\ pc[t] \notin Splitting => split[t] = {}
    /\ pc[t] = "lpRoot" => Len(path[t]) = 1
    /\ \A n \in DOMAIN path[t] : path[t][n] \in Known
    /\ pc[t] \in OnPath =>
        /\ path[t] # <<>>
        /\ path[t][1] = root
        /\ \A n \in DOMAIN path[t] :
            height[path[t][n]] + n = height[root] + 1
        /\ \A n \in DOMAIN path[t] : n + 1 \in DOMAIN path[t] =>
            \E i \in DOMAIN pivots[path[t][n]] :
                pivots[path[t][n]][i].child + 1 = path[t][n + 1]
    /\ pc[t] = "lpDown" => ~isLeaf[Last(path[t])]
    /\ pc[t] = "lpClear" =>
        /\ Len(path[t]) > 1
        /\ idx[t] \in DOMAIN pivots[Last(Front(path[t]))]

\* The nodes the running splitNode has made are the last ones, and how far it
\* has come with them.
MadeInv(t) ==
    /\ pc[t] \notin Filling => made[t] = <<>>
    /\ pc[t] \in {"spFill", "spCut", "spLink", "spRoot"} =>
        made[t] = <<nodeCount>>
    /\ pc[t] \in {"spFirst", "spSecond", "grow"} =>
        made[t] = <<nodeCount - 1, nodeCount>>
    /\ pc[t] \in Filling =>
        /\ height[made[t][1]] = height[Last(path[t])]
        /\ pivots[made[t][1]] = <<>> <=> pc[t] = "spFill"
        /\ \A i \in DOMAIN pivots[made[t][1]] :
            pivots[made[t][1]][i].leftKey # EmptyKey
    /\ pc[t] \in {"spFill", "spCut"} => Len(pivots[Last(path[t])]) > 1
    /\ pc[t] = "spLink" => Len(path[t]) > 1
    /\ pc[t] \in {"spRoot", "spFirst", "spSecond", "grow"} => Len(path[t]) = 1
    /\ pc[t] \in {"spFirst", "spSecond", "grow"} =>
        /\ height[made[t][2]] = height[root] + 1
        /\ pivots[made[t][2]] = <<>> <=> pc[t] = "spFirst"

\* The root stays the root while a writer has it locked.
WriterAtRoot(t) == pc[t] = "insert" => cur[t] = root

ThreadInv(t) ==
    /\ Places(t) /\ AtWork(t)
    /\ HoldsCur(t) /\ HoldsRead(t) /\ HoldsChild(t) /\ HoldsPath(t)
    /\ HoldsNone(t) /\ HoldsMutex(t)
    /\ PathInv(t) /\ MadeInv(t) /\ WriterAtRoot(t)

\* What a thread does under its locks keeps true whatever the other threads
\* rely on under theirs.
Protocol ==
    /\ TypeOK
    /\ Naming
    /\ Tree
    /\ Exclusion
    /\ \A t \in Threads : ThreadInv(t)

-----------------------------------------------------------------------------
\* Node o has a message for key k, and some node below its level has one.
HeldIn(o, k) == \E i \in DOMAIN pivots[o] : pivots[o][i].buf.msgs[k] # NoMsg

KeptBelow(o, k) == \E p \in Live : height[p] < height[o] /\ HeldIn(p, k)

\* The buffer a thread copies from is its own until it has cleared it.
BufOwned ==
    \A t, u \in Threads :
        t # u /\ {pc[t], pc[u]} \subseteq {"moving", "clearing"} =>
            <<cur[t], idx[t]>> # <<cur[u], idx[u]>>

\* What has been copied is held further down until the buffer is cleared:
\* those who are to empty buffers of the copies copy them on first.  The new
\* node has its half of the pivots before the split node gives them up.
CopyInv(t) ==
    /\ pc[t] = "moving" =>
        /\ todo[t] # {}
        /\ todo[t] \subseteq Present(pivots[cur[t]][idx[t]].buf.msgs)
    /\ pc[t] # "moving" => todo[t] = {}
    /\ pc[t] \in {"moving", "clearing"} =>
        \A k \in Present(pivots[cur[t]][idx[t]].buf.msgs) \ todo[t] :
            KeptBelow(cur[t], k)
    /\ pc[t] = "lpClear" =>
        \A k \in Present(pivots[Last(Front(path[t]))][idx[t]].buf.msgs) :
            KeptBelow(Last(Front(path[t])), k)
    /\ pc[t] = "spCut" => pivots[made[t][1]] = Upper(pivots[Last(path[t])])

Copies == BufOwned /\ \A t \in Threads : CopyInv(t)

\* The inductive invariant.
Inv == Protocol /\ Copies

=============================================================================
