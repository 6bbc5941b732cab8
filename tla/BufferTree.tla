----------------------------- MODULE BufferTree -----------------------------
(***************************************************************************)
(* The buffer tree under concurrent put, del and get calls                 *)
(* (src/src/BufferTree.cpp, src/src/Node.cpp).                             *)
(*                                                                         *)
(* A client thread runs one call at a time.  Its control points are the    *)
(* places where the code may block on a lock or read state another thread  *)
(* may have changed; between two of them the code touches only what the    *)
(* locks it holds protect.  Consecutive lock releases are one step:        *)
(* a release can always be moved before the steps of other threads.        *)
(*                                                                         *)
(* pushDownOrSplit calls itself down the tree.  The nodes whose activation *)
(* is suspended form the thread's stack; each is locked again and examined *)
(* again when the call below it returns.                                   *)
(*                                                                         *)
(* Every node is in memory: eviction is not part of this module, and       *)
(* Cache::getNode is the map from nids to node objects.  The write-back    *)
(* thread appears as the step that clears a dirty flag.                    *)
(*                                                                         *)
(* A failed assert() ends the process: failed names the assertion and no   *)
(* step follows.                                                           *)
(***************************************************************************)
EXTENDS Node

CONSTANTS Threads,          \* client threads
          NoThread,         \* no owner
          Requests,         \* calls a client may make: [op, key, value]
          MaxNodeMsg,       \* Options::maxNodeMsg
          MaxNodeChildNum,  \* Options::maxNodeChildNum
          MaxOps,           \* bound: calls in a behaviour
          WriteBackOn       \* whether the write-back thread runs

Ops == {"put", "del", "get"}

ASSUME ThreadsAssumption == NoThread \notin Threads
ASSUME FiniteThreads == IsFiniteSet(Threads)
ASSUME RequestsAssumption ==
    /\ Requests # {}
    /\ Requests \subseteq [op : Ops, key : Keys, value : Values]
ASSUME OptionsAssumption ==
    /\ MaxNodeMsg \in Nat /\ MaxNodeMsg >= 4
    /\ MaxNodeChildNum \in Nat \ {0}
    /\ MaxOps \in Nat
    /\ WriteBackOn \in BOOLEAN

VARIABLES
    pivots,         \* pivots_ of every node object
    isLeaf,         \* isLeaf_
    nid,            \* self_
    refcnt,         \* refcnt_
    dirty,          \* dirty_
    rd, wr,         \* the nodes whose rwlock_ a thread holds shared, exclusively
    nodeMap,        \* Cache::nodes_: nid -> node object
    nodeCount,      \* nodeCount_, which is also the number of objects
    root,           \* root_
    mutexLockPath,  \* owner of mutexLockPath_
    pc,             \* control point of each thread
    req,            \* the call the thread executes
    base,           \* local variable root of BufferTree::put, del and get
    cur,            \* the node whose member function runs
    idx,            \* index of the pivot at work
    stack,          \* suspended activations of pushDownOrSplit
    lpKey,          \* key the path is locked for, or Freed
    path,           \* lockedPath
    split,          \* nodes split by the running splitNode, still locked
    made,           \* nodes it has created and not yet put into the tree
    todo,           \* keys pushDownLocked has still to copy
    ret,            \* answer of the last get
    newest,         \* history: the last message inserted for a key
    height,         \* history: levels below a node when it was created
    failed,         \* the assertion that failed
    opsLeft         \* calls that may still be made

nodeVars   == <<pivots, isLeaf, nid, nodeMap, nodeCount, root, height>>
threadVars == <<req, base, cur, idx, stack, lpKey, path, split, made, todo, ret>>
vars == <<nodeVars, refcnt, dirty, rd, wr, mutexLockPath, pc, threadVars,
          newest, failed, opsLeft>>

\* lpKey after the bytes of the key have been given back to the slab.
Freed == 0

PC == {"idle", "incRef", "writeLock", "insert", "push", "pushDown",
       "pushBuf", "moving", "clearing", "lockPath", "lpRoot", "lpDown",
       "lpClear", "split", "spFill", "spCut", "spLink", "spRoot", "spFirst",
       "spSecond", "grow", "relock", "getLock", "getLook", "getDown",
       "decRef"}

Live == 1..nodeCount

NodesTypeOK ==
    /\ pivots \in [Objs -> Seq(Pivot)]
    /\ isLeaf \in [Objs -> BOOLEAN]
    /\ nid \in [Objs -> 0..MaxNodes]
    /\ nodeMap \in [0..MaxNodes -> 0..MaxNodes]
    /\ nodeCount \in Objs
    /\ root \in Live
    /\ height \in [Objs -> Nat]

MarksTypeOK ==
    /\ refcnt \in [Objs -> Nat]
    /\ dirty \in [Objs -> BOOLEAN]
    /\ newest \in [Keys -> Messages \cup {NoMsg}]
    /\ failed \in {"none", "splitBuf", "decRef"}
    /\ opsLeft \in 0..MaxOps

LocksTypeOK ==
    /\ rd \in [Threads -> SUBSET Objs]
    /\ wr \in [Threads -> SUBSET Objs]
    /\ mutexLockPath \in Threads \cup {NoThread}

CallsTypeOK ==
    /\ pc \in [Threads -> PC]
    /\ req \in [Threads -> [op : Ops, key : Keys, value : Values]]
    /\ base \in [Threads -> Objs]
    /\ cur \in [Threads -> Objs]
    /\ idx \in [Threads -> Nat]
    /\ stack \in [Threads -> Seq(Objs)]
    /\ lpKey \in [Threads -> Keys \cup {Freed}]
    /\ path \in [Threads -> Seq(Objs)]
    /\ split \in [Threads -> SUBSET Objs]
    /\ made \in [Threads -> Seq(Objs)]
    /\ todo \in [Threads -> SUBSET Keys]
    /\ ret \in [Threads -> Values \cup {NoMsg}]

\* The type invariant.
TypeOK == NodesTypeOK /\ MarksTypeOK /\ LocksTypeOK /\ CallsTypeOK

-----------------------------------------------------------------------------
\* Locks (src/base/RWLock.cpp: pthread_rwlock with default attributes).

CanRead(o) == \A t \in Threads : o \notin wr[t]
CanWrite(o) == \A t \in Threads : o \notin rd[t] \cup wr[t]

ReadLock(t, o) ==
    CanRead(o) /\ rd' = [rd EXCEPT ![t] = @ \cup {o}] /\ UNCHANGED wr
WriteLock(t, o) ==
    CanWrite(o) /\ wr' = [wr EXCEPT ![t] = @ \cup {o}] /\ UNCHANGED rd

\* Node::optionalLock: exclusive on a leaf, shared on an inner node.
CanLock(o) == IF isLeaf[o] THEN CanWrite(o) ELSE CanRead(o)
OptionalLock(t, o) == IF isLeaf[o] THEN WriteLock(t, o) ELSE ReadLock(t, o)

\* Unlocking releases the lock in the mode the thread holds it in.
Unlock(t, S) ==
    /\ rd' = [rd EXCEPT ![t] = @ \ S]
    /\ wr' = [wr EXCEPT ![t] = @ \ S]

Last(s) == s[Len(s)]
Front(s) == SubSeq(s, 1, Len(s) - 1)

\* pushDownLocked holds the mutex of the buffer it copies from until it has
\* cleared it.
BufFree(o, i) ==
    \A t \in Threads :
        pc[t] \in {"moving", "clearing"} => <<cur[t], idx[t]>> # <<o, i>>

\* tree_->getNode(pivots_[i].childNid)
Child(o, i) == nodeMap[pivots[o][i].child]

At(t, l) == failed = "none" /\ pc[t] = l
Goto(t, l) == pc' = [pc EXCEPT ![t] = l]

\* assert(cond) failed: the process aborts.
Abort(name) ==
    /\ failed' = name
    /\ UNCHANGED <<nodeVars, refcnt, dirty, rd, wr, mutexLockPath, pc,
                   threadVars, newest, opsLeft>>

\* The leaf's messages for the keys K are replaced: MsgBuf::insert releases the
\* old ones, and with them the key another thread locks its path for, if it is
\* one of them.
ReleaseKeys(t, K) ==
    lpKey' = [u \in Threads |->
                IF /\ u # t /\ lpKey[u] \in K
                   /\ pc[u] \in {"lockPath", "lpRoot", "lpDown", "lpClear"}
                THEN Freed ELSE lpKey[u]]

-----------------------------------------------------------------------------
\* The value of req outside a call.
AnyRequest == CHOOSE r \in Requests : TRUE

(***************************************************************************)
(* BufferTree::init on an empty directory: the root is a leaf with nid 1   *)
(* and one pivot with the empty left key.                                  *)
(***************************************************************************)
Init ==
    /\ pivots = [o \in Objs |->
                    IF o = 1 THEN <<NewPivot(NID_NIL, EmptyBuf, EmptyKey)>>
                             ELSE <<>>]
    /\ isLeaf = [o \in Objs |-> o = 1]
    /\ nid = [o \in Objs |-> IF o = 1 THEN 1 ELSE NID_NIL]
    /\ refcnt = [o \in Objs |-> 0]
    /\ dirty = [o \in Objs |-> o = 1]
    /\ rd = [t \in Threads |-> {}]
    /\ wr = [t \in Threads |-> {}]
    /\ nodeMap = [n \in 0..MaxNodes |-> IF n = 1 THEN 1 ELSE 0]
    /\ nodeCount = 1
    /\ root = 1
    /\ mutexLockPath = NoThread
    /\ pc = [t \in Threads |-> "idle"]
    /\ req = [t \in Threads |-> AnyRequest]
    /\ base = [t \in Threads |-> 1]
    /\ cur = [t \in Threads |-> 1]
    /\ idx = [t \in Threads |-> 0]
    /\ stack = [t \in Threads |-> <<>>]
    /\ lpKey = [t \in Threads |-> 1]
    /\ path = [t \in Threads |-> <<>>]
    /\ split = [t \in Threads |-> {}]
    /\ made = [t \in Threads |-> <<>>]
    /\ todo = [t \in Threads |-> {}]
    /\ ret = [t \in Threads |-> NoMsg]
    /\ newest = [k \in Keys |-> NoMsg]
    /\ height = [o \in Objs |-> 0]
    /\ failed = "none"
    /\ opsLeft = MaxOps

-----------------------------------------------------------------------------
\* Entry and exit of BufferTree::put, del and get.

\* Node* root = root_;
Begin(t) ==
    /\ At(t, "idle")
    /\ opsLeft > 0
    /\ \E r \in Requests : req' = [req EXCEPT ![t] = r]
    /\ opsLeft' = opsLeft - 1
    /\ base' = [base EXCEPT ![t] = root]
    /\ cur' = [cur EXCEPT ![t] = root]
    /\ Goto(t, "incRef")
    /\ UNCHANGED <<nodeVars, refcnt, dirty, rd, wr, mutexLockPath, idx, stack,
                   lpKey, path, split, made, todo, ret, newest, failed>>

\* Mutant of IncRef: two calls count as one.
IncRefOnce(t) ==
    /\ At(t, "incRef")
    /\ LET o == IF req[t].op = "put" THEN root ELSE base[t]
       IN  refcnt' = [refcnt EXCEPT ![o] = IF @ = 0 THEN 1 ELSE @]
    /\ Goto(t, IF req[t].op = "get" THEN "getLock" ELSE "writeLock")
    /\ UNCHANGED <<nodeVars, dirty, rd, wr, mutexLockPath, threadVars, newest,
                   failed, opsLeft>>

\* put increments through root_, which it reads again; del and get increment
\* through the local variable.
IncRef(t) ==
    /\ At(t, "incRef")
    /\ LET o == IF req[t].op = "put" THEN root ELSE base[t]
       IN  refcnt' = [refcnt EXCEPT ![o] = @ + 1]
    /\ Goto(t, IF req[t].op = "get" THEN "getLock" ELSE "writeLock")
    /\ UNCHANGED <<nodeVars, dirty, rd, wr, mutexLockPath, threadVars, newest,
                   failed, opsLeft>>

\* Mutant of DecRef: the count is decremented without looking at it.
DecRefUnchecked(t) ==
    /\ At(t, "decRef")
    /\ refcnt' = [refcnt EXCEPT ![base[t]] = @ - 1]
    /\ Goto(t, "idle")
    /\ UNCHANGED <<nodeVars, dirty, rd, wr, mutexLockPath, threadVars, newest,
                   failed, opsLeft>>

\* root->decRef(); the call returns and its local variables are gone.
DecRef(t) ==
    /\ At(t, "decRef")
    /\ IF refcnt[base[t]] > 0
       THEN /\ refcnt' = [refcnt EXCEPT ![base[t]] = @ - 1]
            /\ Goto(t, "idle")
            /\ req' = [req EXCEPT ![t] = AnyRequest]
            /\ base' = [base EXCEPT ![t] = 1]
            /\ cur' = [cur EXCEPT ![t] = 1]
            /\ idx' = [idx EXCEPT ![t] = 0]
            /\ lpKey' = [lpKey EXCEPT ![t] = 1]
            /\ ret' = [ret EXCEPT ![t] = NoMsg]
            /\ UNCHANGED <<nodeVars, dirty, rd, wr, mutexLockPath, stack, path,
                           split, made, todo, newest, failed, opsLeft>>
       ELSE Abort("decRef")

-----------------------------------------------------------------------------
\* Node::write

\* Mutant of WriteAtRoot: the nid is not compared after the lock is obtained.
WriteAnywhere(t) ==
    /\ At(t, "writeLock")
    /\ OptionalLock(t, cur[t])
    /\ Goto(t, "insert")
    /\ UNCHANGED <<nodeVars, refcnt, dirty, mutexLockPath, threadVars, newest,
                   failed, opsLeft>>

\* Mutant of WriteAtRoot: the retry goes to the root the call began with.
WriteRetriesAtOldRoot(t) ==
    /\ At(t, "writeLock")
    /\ CanLock(cur[t])
    /\ IF nid[root] = nid[cur[t]]
       THEN OptionalLock(t, cur[t]) /\ Goto(t, "insert") /\ UNCHANGED cur
       ELSE cur' = [cur EXCEPT ![t] = base[t]] /\ UNCHANGED <<rd, wr, pc>>
    /\ UNCHANGED <<nodeVars, refcnt, dirty, mutexLockPath, req, base, idx,
                   stack, lpKey, path, split, made, todo, ret, newest, failed,
                   opsLeft>>

\* Lock this node; if it is no longer the root, start over at the root.
WriteAtRoot(t) ==
    /\ At(t, "writeLock")
    /\ CanLock(cur[t])
    /\ IF nid[root] = nid[cur[t]]
       THEN /\ OptionalLock(t, cur[t])
            /\ Goto(t, "insert")
            /\ UNCHANGED cur
       ELSE /\ cur' = [cur EXCEPT ![t] = root]
            /\ UNCHANGED <<rd, wr, pc>>
    /\ UNCHANGED <<nodeVars, refcnt, dirty, mutexLockPath, req, base, idx,
                   stack, lpKey, path, split, made, todo, ret, newest, failed,
                   opsLeft>>

\* insertMsg(findPivot(msg.key()), msg); setDirty(true);
InsertAtRoot(t) ==
    LET o == cur[t]
        k == req[t].key
        i == FindPivot(pivots[o], k)
        m == IF req[t].op = "put" THEN req[t].value ELSE Del
    IN  /\ At(t, "insert")
        /\ BufFree(o, i)
        /\ pivots' = [pivots EXCEPT ![o] = InsertMsg(@, i, k, m)]
        /\ dirty' = [dirty EXCEPT ![o] = TRUE]
        /\ newest' = [newest EXCEPT ![k] = m]
        /\ ReleaseKeys(t, IF isLeaf[o] /\ pivots[o][i].buf.msgs[k] # NoMsg
                          THEN {k} ELSE {})
        /\ Goto(t, "push")
        /\ UNCHANGED <<isLeaf, nid, nodeMap, nodeCount, root, height, refcnt,
                       rd, wr, mutexLockPath, req, base, cur, idx, stack, path,
                       split, made, todo, ret, failed, opsLeft>>

-----------------------------------------------------------------------------
\* Node::pushDownOrSplit on cur[t], locked as optionalLock does it.

Overfull(o) ==
    {i \in DOMAIN pivots[o] : BufSize(pivots[o][i].buf) > MaxNodeMsg}

\* Mutant of PushReturn: the outermost activation returns without unlocking.
PushReturnLocked(t) ==
    /\ At(t, "push")
    /\ Overfull(cur[t]) = {}
    /\ stack[t] = <<>>
    /\ Goto(t, "decRef")
    /\ UNCHANGED <<nodeVars, refcnt, dirty, rd, wr, mutexLockPath, threadVars,
                   newest, failed, opsLeft>>

\* No buffer is too large: unlock and return to the suspended caller, or from
\* Node::write.
PushReturn(t) ==
    /\ At(t, "push")
    /\ Overfull(cur[t]) = {}
    /\ Unlock(t, {cur[t]})
    /\ \/ /\ stack[t] = <<>>
          /\ Goto(t, "decRef")
          /\ UNCHANGED <<cur, stack>>
       \/ /\ stack[t] # <<>>
          /\ cur' = [cur EXCEPT ![t] = Last(stack[t])]
          /\ stack' = [stack EXCEPT ![t] = Front(@)]
          /\ Goto(t, "relock")
    /\ UNCHANGED <<nodeVars, refcnt, dirty, mutexLockPath, req, base, idx,
                   lpKey, path, split, made, todo, ret, newest, failed,
                   opsLeft>>

\* optionalLock(); pushDownOrSplit(); after the call below has returned
Relock(t) ==
    /\ At(t, "relock")
    /\ OptionalLock(t, cur[t])
    /\ Goto(t, "push")
    /\ UNCHANGED <<nodeVars, refcnt, dirty, mutexLockPath, threadVars, newest,
                   failed, opsLeft>>

\* The first buffer that is too large belongs to a child: it is remembered,
\* and may be empty by the time the child is locked.
ChoosePushDown(t) ==
    LET i == Smallest(Overfull(cur[t]))
    IN  /\ At(t, "push")
        /\ Overfull(cur[t]) # {}
        /\ pivots[cur[t]][i].child # NID_NIL
        /\ idx' = [idx EXCEPT ![t] = i]
        /\ Goto(t, "pushDown")
        /\ UNCHANGED <<nodeVars, refcnt, dirty, rd, wr, mutexLockPath, req,
                       base, cur, stack, lpKey, path, split, made, todo, ret,
                       newest, failed, opsLeft>>

\* Node::pushDown: lock the child, with this node still locked.
PushDown(t) ==
    LET c == Child(cur[t], idx[t])
    IN  /\ At(t, "pushDown")
        /\ OptionalLock(t, c)
        /\ Goto(t, "pushBuf")
        /\ UNCHANGED <<nodeVars, refcnt, dirty, mutexLockPath, threadVars,
                       newest, failed, opsLeft>>

\* The copying half of pushDownLocked: the messages of buffer i of node o for
\* the keys K are inserted into node c.  Node o keeps them.
Copy(o, i, c, K) ==
    pivots' = [pivots EXCEPT ![c] = PushInto(@, pivots[o][i].buf.msgs, K)]

\* The keys among K whose message at node c the copies replace.
Replaced(c, K) ==
    {k \in K : pivots[c][Route(pivots[c], k)].buf.msgs[k] # NoMsg}

SetDirty(S) == dirty' = [o \in Objs |-> dirty[o] \/ o \in S]

\* buf->clear(): the other half.
Clear(o, i) == pivots' = [pivots EXCEPT ![o] = WithBuf(@, i, EmptyBuf)]

\* parent->readUnlock(); pushDownOrSplit() on the child
EnterChild(t, c) ==
    /\ Unlock(t, {cur[t]})
    /\ stack' = [stack EXCEPT ![t] = Append(@, cur[t])]
    /\ cur' = [cur EXCEPT ![t] = c]
    /\ Goto(t, "push")

\* The buffer is locked.  Another thread may have emptied it in the meantime.
\* The messages reach a leaf, locked exclusively, in one step; an inner node
\* is shared, and they reach it one at a time.  Copies are made before the
\* flags are set, and clear() comes after.
PushDownLocked(t) ==
    LET o == cur[t]
        c == Child(o, idx[t])
        K == Present(pivots[o][idx[t]].buf.msgs)
    IN  /\ At(t, "pushBuf")
        /\ BufFree(o, idx[t])
        /\ \/ /\ K = {}
              /\ EnterChild(t, c)
              /\ UNCHANGED <<pivots, dirty, lpKey, todo>>
           \/ /\ K # {} /\ isLeaf[c]
              /\ Copy(o, idx[t], c, K)
              /\ SetDirty({o, c})
              /\ ReleaseKeys(t, Replaced(c, K))
              /\ Goto(t, "clearing")
              /\ UNCHANGED <<rd, wr, stack, cur, todo>>
           \/ /\ K # {} /\ ~isLeaf[c]
              /\ todo' = [todo EXCEPT ![t] = K]
              /\ Goto(t, "moving")
              /\ UNCHANGED <<pivots, dirty, rd, wr, stack, cur, lpKey>>
        /\ UNCHANGED <<isLeaf, nid, nodeMap, nodeCount, root, height, refcnt,
                       mutexLockPath, req, base, idx, path, split, made, ret,
                       newest, failed, opsLeft>>

\* Mutant of MoveMsg: the parent is marked and the child is forgotten.
MoveMsgUnmarked(t) ==
    LET o == cur[t]
        c == Child(o, idx[t])
        k == Smallest(todo[t])
    IN  /\ At(t, "moving")
        /\ BufFree(c, Route(pivots[c], k))
        /\ Copy(o, idx[t], c, {k})
        /\ todo' = [todo EXCEPT ![t] = @ \ {k}]
        /\ \/ /\ todo[t] = {k}
              /\ SetDirty({o})
              /\ Goto(t, "clearing")
           \/ /\ todo[t] # {k}
              /\ UNCHANGED <<dirty, pc>>
        /\ UNCHANGED <<isLeaf, nid, nodeMap, nodeCount, root, height, refcnt,
                       rd, wr, mutexLockPath, req, base, cur, idx, stack, lpKey,
                       path, split, made, ret, newest, failed, opsLeft>>

\* One message is copied to an inner node, whose buffer is locked for it
\* alone.  After the last one both flags are set.
MoveMsg(t) ==
    LET o == cur[t]
        c == Child(o, idx[t])
        k == Smallest(todo[t])
    IN  /\ At(t, "moving")
        /\ BufFree(c, Route(pivots[c], k))
        /\ Copy(o, idx[t], c, {k})
        /\ todo' = [todo EXCEPT ![t] = @ \ {k}]
        /\ \/ /\ todo[t] = {k}
              /\ SetDirty({o, c})
              /\ Goto(t, "clearing")
           \/ /\ todo[t] # {k}
              /\ UNCHANGED <<dirty, pc>>
        /\ UNCHANGED <<isLeaf, nid, nodeMap, nodeCount, root, height, refcnt,
                       rd, wr, mutexLockPath, req, base, cur, idx, stack, lpKey,
                       path, split, made, ret, newest, failed, opsLeft>>

\* The buffer is cleared and unlocked.
ClearBuf(t) ==
    /\ At(t, "clearing")
    /\ Clear(cur[t], idx[t])
    /\ EnterChild(t, Child(cur[t], idx[t]))
    /\ UNCHANGED <<isLeaf, nid, nodeMap, nodeCount, root, height, refcnt, dirty,
                   mutexLockPath, req, base, idx, lpKey, path, split, made,
                   todo, ret, newest, failed, opsLeft>>

-----------------------------------------------------------------------------
\* Node::splitBuf on the leaf cur[t].  The leaf has been locked exclusively
\* since its buffer was found too large, so the early return for a buffer
\* that has shrunk cannot be taken.

SplitBuf(t) ==
    LET o   == cur[t]
        i   == Smallest(Overfull(o))
        buf == pivots[o][i].buf
        lower == Resize(buf, Count(buf) \div 2)
        upper == Keep(buf.msgs, UpperKeys(buf))
    IN  /\ At(t, "push")
        /\ Overfull(o) # {}
        /\ pivots[o][i].child = NID_NIL
        /\ IF BufSize(lower) + BufSize(upper) >= BufSize(buf)
           THEN /\ pivots' = [pivots EXCEPT ![o] = SplitPivots(@, i)]
                /\ dirty' = [dirty EXCEPT ![o] = TRUE]
                /\ lpKey' = [lpKey EXCEPT ![t] = Smallest(Present(buf.msgs))]
                /\ Unlock(t, {o})
                /\ Goto(t, "lockPath")
                /\ UNCHANGED <<isLeaf, nid, nodeMap, nodeCount, root, height,
                               refcnt, mutexLockPath, req, base, cur, idx,
                               stack, path, split, made, todo, ret, newest,
                               failed, opsLeft>>
           ELSE Abort("splitBuf")

\* BufferTree::lockPath: Node* root = root_; root->incRef();
LockPath(t) ==
    /\ At(t, "lockPath")
    /\ mutexLockPath = NoThread
    /\ mutexLockPath' = t
    /\ path' = [path EXCEPT ![t] = <<root>>]
    /\ refcnt' = [refcnt EXCEPT ![root] = @ + 1]
    /\ Goto(t, "lpRoot")
    /\ UNCHANGED <<nodeVars, dirty, rd, wr, req, base, cur, idx, stack, lpKey,
                   split, made, todo, ret, newest, failed, opsLeft>>

\* What the bytes of the key may read as: anything once they were released.
PathKeys(t) == IF lpKey[t] = Freed THEN Keys ELSE {lpKey[t]}

\* Whether Node::lockPath goes further down from node o.
HasChildFor(o, key) ==
    pivots[o][FindPivot(pivots[o], key)].child # NID_NIL

\* Go on to the child, or leave with the path locked.
Advance(t, o) ==
    \E key \in PathKeys(t) :
    IF HasChildFor(o, key)
    THEN Goto(t, "lpDown") /\ UNCHANGED mutexLockPath
    ELSE Goto(t, "split") /\ mutexLockPath' = NoThread

\* Mutant of LockPathRoot: root_ is not read again under the lock.
LockPathAnyRoot(t) ==
    /\ At(t, "lpRoot")
    /\ WriteLock(t, path[t][1])
    /\ Advance(t, path[t][1])
    /\ UNCHANGED <<nodeVars, refcnt, dirty, threadVars, newest, failed,
                   opsLeft>>

\* root->writeLock(): the node still is the root
LockPathRoot(t) ==
    LET r == path[t][1]
    IN  /\ At(t, "lpRoot")
        /\ r = root
        /\ WriteLock(t, r)
        /\ Advance(t, r)
        /\ UNCHANGED <<nodeVars, refcnt, dirty, threadVars, newest, failed,
                       opsLeft>>

\* The tree has grown since root_ was read: unlock, decRef, and no path.
LockPathStale(t) ==
    LET r == path[t][1]
    IN  /\ At(t, "lpRoot")
        /\ CanWrite(r)
        /\ r # root
        /\ IF refcnt[r] > 0
           THEN /\ refcnt' = [refcnt EXCEPT ![r] = @ - 1]
                /\ path' = [path EXCEPT ![t] = <<>>]
                /\ mutexLockPath' = NoThread
                /\ Goto(t, "relock")
                /\ UNCHANGED <<nodeVars, dirty, rd, wr, req, base, cur, idx,
                               stack, lpKey, split, made, todo, ret, newest,
                               failed, opsLeft>>
           ELSE Abort("decRef")

\* Node::lockPath below the root, through pivot i of the last node: lock the
\* child and copy to it what the buffer on the way holds.
LockChild(t, i) ==
    LET o == Last(path[t])
        c == Child(o, i)
        K == Present(pivots[o][i].buf.msgs)
    IN  /\ WriteLock(t, c)
        /\ path' = [path EXCEPT ![t] = Append(@, c)]
        /\ idx' = [idx EXCEPT ![t] = i]
        /\ Copy(o, i, c, K)
        /\ ReleaseKeys(t, IF isLeaf[c] THEN Replaced(c, K) ELSE {})
        /\ SetDirty(IF K = {} THEN {} ELSE {o, c})
        /\ IF K = {} THEN Advance(t, c)
           ELSE Goto(t, "lpClear") /\ UNCHANGED mutexLockPath

LockPathDown(t) ==
    /\ At(t, "lpDown")
    /\ \E key \in PathKeys(t) :
        LockChild(t, FindPivot(pivots[Last(path[t])], key))
    /\ UNCHANGED <<isLeaf, nid, nodeMap, nodeCount, root, height, refcnt, req,
                   base, cur, stack, split, made, todo, ret, newest, failed,
                   opsLeft>>

\* The buffer on the way is cleared.
LockPathClear(t) ==
    /\ At(t, "lpClear")
    /\ Clear(Last(Front(path[t])), idx[t])
    /\ Advance(t, Last(path[t]))
    /\ UNCHANGED <<isLeaf, nid, nodeMap, nodeCount, root, height, refcnt, dirty,
                   rd, wr, threadVars, newest, failed, opsLeft>>

-----------------------------------------------------------------------------
\* Node::splitNode on the last node of the path.  The nodes it creates are in
\* the cache at once, where the write-back thread finds them; the tree does
\* not lead to them until addPivot of the parent or growUp.

PathSet(t) == {path[t][i] : i \in DOMAIN path[t]}

\* Mutant of FinishSplit: the nodes already split stay locked.
FinishSplitPathOnly(t) ==
    /\ Unlock(t, PathSet(t))
    /\ path' = [path EXCEPT ![t] = <<>>]
    /\ split' = [split EXCEPT ![t] = {}]
    /\ Goto(t, "relock")

\* All locks of the split are released and splitBuf returns.
FinishSplit(t) ==
    /\ Unlock(t, PathSet(t) \cup split[t])
    /\ path' = [path EXCEPT ![t] = <<>>]
    /\ split' = [split EXCEPT ![t] = {}]
    /\ Goto(t, "relock")

\* Few enough pivots: unlock the rest of the path.
SplitNodeDone(t) ==
    /\ At(t, "split")
    /\ Len(pivots[Last(path[t])]) <= MaxNodeChildNum
    /\ FinishSplit(t)
    /\ UNCHANGED <<nodeVars, refcnt, dirty, mutexLockPath, req, base, cur, idx,
                   stack, lpKey, made, todo, ret, newest, failed, opsLeft>>

\* Mutant of CreateNode: isLeaf_ is FALSE in every new node.
CreateInnerNode(leaf, h) ==
    LET new == nodeCount + 1
    IN  /\ new <= MaxNodes
        /\ isLeaf' = [isLeaf EXCEPT ![new] = FALSE]
        /\ nid' = [nid EXCEPT ![new] = nodeCount]
        /\ nodeMap' = [nodeMap EXCEPT ![nodeCount] = new]
        /\ nodeCount' = new
        /\ height' = [height EXCEPT ![new] = h]
        /\ pivots' = [pivots EXCEPT ![new] = <<>>]

\* BufferTree::createNode, which takes the next nid from nodeCount_, and the
\* assignment to isLeaf_.  The node has no pivots and is not dirty.
CreateNode(leaf, h) ==
    LET new == nodeCount + 1
    IN  /\ new <= MaxNodes
        /\ isLeaf' = [isLeaf EXCEPT ![new] = leaf]
        /\ nid' = [nid EXCEPT ![new] = nodeCount]
        /\ nodeMap' = [nodeMap EXCEPT ![nodeCount] = new]
        /\ nodeCount' = new
        /\ height' = [height EXCEPT ![new] = h]
        /\ pivots' = [pivots EXCEPT ![new] = <<>>]

\* Too many pivots: Node* node = tree_->createNode();
CreateSibling(t) ==
    LET o == Last(path[t])
    IN  /\ At(t, "split")
        /\ Len(pivots[o]) > MaxNodeChildNum
        /\ CreateNode(isLeaf[o], height[o])
        /\ made' = [made EXCEPT ![t] = <<nodeCount + 1>>]
        /\ Goto(t, "spFill")
        /\ UNCHANGED <<root, refcnt, dirty, rd, wr, mutexLockPath, req, base, cur,
                       idx, stack, lpKey, path, split, todo, ret, newest,
                       failed, opsLeft>>

\* A step of splitNode that gives node o the pivots p and sets its flag; the
\* two are one step, as a flag cleared between them is set all the same.
GivePivots(o, p) ==
    /\ pivots' = [pivots EXCEPT ![o] = p]
    /\ SetDirty({o})
    /\ UNCHANGED <<isLeaf, nid, nodeMap, nodeCount, root, height, refcnt, rd,
                   wr, mutexLockPath, req, base, cur, idx, stack, lpKey, todo,
                   ret, newest, failed, opsLeft>>

\* The upper pivots are copied to the new node, which is not locked.
FillSibling(t) ==
    /\ At(t, "spFill")
    /\ GivePivots(made[t][1], Upper(pivots[Last(path[t])]))
    /\ Goto(t, "spCut")
    /\ UNCHANGED <<path, split, made>>

\* pivots_.resize(middle)
CutNode(t) ==
    LET o == Last(path[t])
    IN  /\ At(t, "spCut")
        /\ GivePivots(o, Lower(pivots[o]))
        /\ Goto(t, IF Len(path[t]) = 1 THEN "spRoot" ELSE "spLink")
        /\ UNCHANGED <<path, split, made>>

\* middleKey, the left key the new node begins with.
MiddleKey(t) == pivots[made[t][1]][1].leftKey

\* parent->addPivot(node->nid(), NULL, middleKey); the parent is examined next.
AddToParent(t) ==
    LET parent == Last(Front(path[t]))
    IN  /\ At(t, "spLink")
        /\ GivePivots(parent, AddPivot(pivots[parent], nid[made[t][1]],
                                       EmptyBuf, MiddleKey(t)))
        /\ path' = [path EXCEPT ![t] = Front(@)]
        /\ split' = [split EXCEPT ![t] = @ \cup {Last(path[t])}]
        /\ made' = [made EXCEPT ![t] = <<>>]
        /\ Goto(t, "split")

\* The root itself was split: Node* root = tree_->createNode();
CreateRoot(t) ==
    /\ At(t, "spRoot")
    /\ CreateNode(FALSE, height[Last(path[t])] + 1)
    /\ made' = [made EXCEPT ![t] = <<made[t][1], nodeCount + 1>>]
    /\ Goto(t, "spFirst")
    /\ UNCHANGED <<root, refcnt, dirty, rd, wr, mutexLockPath, req, base, cur,
                   idx, stack, lpKey, path, split, todo, ret, newest, failed,
                   opsLeft>>

\* Mutant of AddFirstPivot: growUp is called before the second pivot is added.
AddFirstPivotGrown(t) ==
    /\ At(t, "spFirst")
    /\ pivots' = [pivots EXCEPT ![made[t][2]] =
                    <<NewPivot(nid[Last(path[t])], EmptyBuf, EmptyKey)>>]
    /\ SetDirty({made[t][2]})
    /\ root' = made[t][2]
    /\ Goto(t, "spSecond")
    /\ UNCHANGED <<isLeaf, nid, nodeMap, nodeCount, height, refcnt, rd, wr,
                   mutexLockPath, threadVars, newest, failed, opsLeft>>

\* root->addPivot(nid(), NULL, Slice()); from here on write-back may write it.
AddFirstPivot(t) ==
    /\ At(t, "spFirst")
    /\ GivePivots(made[t][2],
                  <<NewPivot(nid[Last(path[t])], EmptyBuf, EmptyKey)>>)
    /\ Goto(t, "spSecond")
    /\ UNCHANGED <<path, split, made>>

\* root->addPivot(node->nid(), NULL, middleKey); with no lock held on it.
AddSecondPivot(t) ==
    /\ At(t, "spSecond")
    /\ GivePivots(made[t][2], AddPivot(pivots[made[t][2]], nid[made[t][1]],
                                       EmptyBuf, MiddleKey(t)))
    /\ Goto(t, "grow")
    /\ UNCHANGED <<path, split, made>>

\* BufferTree::growUp; the path is unlocked.
GrowUp(t) ==
    /\ At(t, "grow")
    /\ IF refcnt[root] > 0
       THEN /\ refcnt' = [refcnt EXCEPT ![root] = @ - 1]
            /\ root' = made[t][2]
            /\ made' = [made EXCEPT ![t] = <<>>]
            /\ FinishSplit(t)
            /\ UNCHANGED <<pivots, isLeaf, nid, nodeMap, nodeCount, height,
                           dirty, mutexLockPath, req, base, cur, idx, stack,
                           lpKey, todo, ret, newest, failed, opsLeft>>
       ELSE Abort("decRef")

-----------------------------------------------------------------------------
\* Node::get

GetLock(t) ==
    /\ At(t, "getLock")
    /\ ReadLock(t, cur[t])
    /\ Goto(t, "getLook")
    /\ UNCHANGED <<nodeVars, refcnt, dirty, mutexLockPath, threadVars, newest,
                   failed, opsLeft>>

\* A message in the buffer, or the lack of a child, decides the answer.
GetLook(t) ==
    LET o == cur[t]
        i == FindPivot(pivots[o], req[t].key)
        m == pivots[o][i].buf.msgs[req[t].key]
    IN  /\ At(t, "getLook")
        /\ BufFree(o, i)
        /\ \/ /\ m # NoMsg \/ pivots[o][i].child = NID_NIL
              /\ ret' = [ret EXCEPT ![t] = IF m \in Values THEN m ELSE NoMsg]
              /\ Unlock(t, {o})
              /\ Goto(t, "decRef")
              /\ UNCHANGED idx
           \/ /\ m = NoMsg /\ pivots[o][i].child # NID_NIL
              /\ idx' = [idx EXCEPT ![t] = i]
              /\ Goto(t, "getDown")
              /\ UNCHANGED <<ret, rd, wr>>
        /\ UNCHANGED <<nodeVars, refcnt, dirty, mutexLockPath, req, base, cur,
                       stack, lpKey, path, split, made, todo, newest, failed,
                       opsLeft>>

\* The child is locked before its parent is released.
GetDown(t) ==
    LET c == Child(cur[t], idx[t])
    IN  /\ At(t, "getDown")
        /\ CanRead(c)
        /\ rd' = [rd EXCEPT ![t] = (@ \cup {c}) \ {cur[t]}]
        /\ UNCHANGED wr
        /\ cur' = [cur EXCEPT ![t] = c]
        /\ Goto(t, "getLook")
        /\ UNCHANGED <<nodeVars, refcnt, dirty, mutexLockPath, req, base, idx,
                       stack, lpKey, path, split, made, todo, ret, newest,
                       failed, opsLeft>>

-----------------------------------------------------------------------------
\* Cache::flushDirtyNodes clears the flag of a node it has written, with no
\* lock held (the writing itself is the subject of Cache).
WriteBack(o) ==
    /\ WriteBackOn
    /\ failed = "none"
    /\ dirty[o]
    /\ dirty' = [dirty EXCEPT ![o] = FALSE]
    /\ UNCHANGED <<nodeVars, refcnt, rd, wr, mutexLockPath, pc, threadVars,
                   newest, failed, opsLeft>>

Step(t) ==
    \/ IncRef(t) \/ DecRef(t)
    \/ WriteAtRoot(t) \/ InsertAtRoot(t)
    \/ PushReturn(t) \/ Relock(t) \/ ChoosePushDown(t) \/ PushDown(t)
    \/ PushDownLocked(t) \/ MoveMsg(t) \/ ClearBuf(t) \/ SplitBuf(t)
    \/ LockPath(t) \/ LockPathRoot(t) \/ LockPathStale(t) \/ LockPathDown(t)
    \/ LockPathClear(t)
    \/ SplitNodeDone(t) \/ CreateSibling(t) \/ FillSibling(t) \/ CutNode(t)
    \/ AddToParent(t) \/ CreateRoot(t) \/ AddFirstPivot(t)
    \/ AddSecondPivot(t) \/ GrowUp(t)
    \/ GetLock(t) \/ GetLook(t) \/ GetDown(t)

\* Nothing left to do: the bound on the calls is reached or the process has
\* aborted.
Stopped ==
    \/ failed # "none"
    \/ opsLeft = 0 /\ \A t \in Threads : pc[t] = "idle"

Next ==
    \/ \E t \in Threads : Begin(t) \/ Step(t)
    \/ \E o \in Live : WriteBack(o)
    \/ Stopped /\ UNCHANGED vars

Spec == Init /\ [][Next]_vars

\* A thread inside a call is scheduled again and again; no client has to make
\* a call.
FairSpec == Spec /\ \A t \in Threads : WF_vars(Step(t))

-----------------------------------------------------------------------------
\* Properties

\* A message enters the tree at the root and nowhere else ("must insert from
\* root node", Node::write), although the root may grow while the writer waits
\* for its lock: the check of the nid is made under the lock, and growUp needs
\* that lock exclusively.
WritesEnterAtRoot ==
    \A t \in Threads : pc[t] = "insert" => cur[t] = root

\* Where a thread has locked a path, and where it is inside splitNode.
Filling   == {"spFill", "spCut", "spLink", "spRoot", "spFirst", "spSecond",
             "grow"}
Splitting == {"split"} \cup Filling
OnPath    == {"lpDown", "lpClear"} \cup Splitting

\* The path a splitting thread has locked is a branch of the tree that starts
\* at the root, and the thread holds all of it exclusively, from the first
\* lock to growUp: splitNode adds the new sibling to the node that really is
\* the parent.
PathIsBranch ==
    \A t \in Threads : pc[t] \in OnPath =>
        /\ path[t][1] = root
        /\ \A n \in DOMAIN path[t] : path[t][n] \in wr[t]
        /\ \A n \in DOMAIN path[t] : n + 1 \in DOMAIN path[t] =>
                \E i \in DOMAIN pivots[path[t][n]] :
                    /\ pivots[path[t][n]][i].child # NID_NIL
                    /\ Child(path[t][n], i) = path[t][n + 1]

\* A call that has returned has released every lock it took, on whichever of
\* the paths through pushDownOrSplit, lockPath and splitNode it went.
IdleHoldsNothing ==
    \A t \in Threads : pc[t] \in {"idle", "decRef"} =>
        /\ mutexLockPath # t
        /\ rd[t] = {} /\ wr[t] = {}

\* The nodes splitNode has created and not yet put into the tree.
Unlinked == UNION {{made[t][n] : n \in DOMAIN made[t]} : t \in Threads}

\* Every child link leads one level down, and exactly the leaves, on level 0,
\* have no children: no descent loops, all descents are equally long, and the
\* assertion isLeaf_ in splitBuf holds.  The tree leads to no node that is
\* still being made, and a node of the tree has a pivot.  No pivot but the
\* first has the empty left key, so addPivot never meets its assertions for an
\* empty key.
Balanced ==
    \A o \in Live :
        /\ isLeaf[o] <=> height[o] = 0
        /\ o \notin Unlinked => pivots[o] # <<>>
        /\ \A i \in DOMAIN pivots[o] :
            /\ i > 1 => pivots[o][i].leftKey # EmptyKey
            /\ IF isLeaf[o] THEN pivots[o][i].child = NID_NIL
               ELSE /\ pivots[o][i].child # NID_NIL
                    /\ Child(o, i) \in Live
                    /\ o \notin Unlinked => Child(o, i) \notin Unlinked
                    /\ height[Child(o, i)] + 1 = height[o]

\* MsgBuf::size never falls below what the messages occupy when serialized, so
\* a buffer is split or pushed down late by no amount and size_ never wraps.
SizeCoversMessages ==
    \A o \in Live : \A i \in DOMAIN pivots[o] :
        LET buf == pivots[o][i].buf
        IN  buf.size >= MsgSize(buf.msgs, Keys) + 8 * Count(buf)

Shape(p) == [i \in DOMAIN p |-> <<p[i].child, p[i].leftKey>>]

\* A thread can come to node o: it is the root or a child, or a thread has it
\* in a local variable.
Reachable(o) ==
    \/ o = root
    \/ \E p \in Live : \E i \in DOMAIN pivots[p] :
        pivots[p][i].child # NID_NIL /\ Child(p, i) = o
    \/ \E t \in Threads :
        \/ o \in {cur[t], base[t]}
        \/ \E n \in DOMAIN stack[t] : stack[t][n] = o
        \/ \E n \in DOMAIN path[t] : path[t][n] = o

\* The links of a node change while one thread holds it exclusively.  The
\* nodes splitNode creates get theirs without a lock (Node.cpp:337, 348-349),
\* but at a time when no put, del or get can come to them.  Of the write-back
\* thread and Cache::getNode, which find every node, it says nothing.
LinksGuarded ==
    [][\A o \in Objs : Shape(pivots'[o]) # Shape(pivots[o]) =>
            \/ \E t \in Threads :
                /\ o \in wr[t]
                /\ \A u \in Threads \ {t} : o \notin rd[u] \cup wr[u]
            \/ ~Reachable(o)]_vars

Held(k) ==
    \E o \in Live : \E i \in DOMAIN pivots[o] :
        pivots[o][i].buf.msgs[k] # NoMsg

\* No push-down, buffer split, node split or new root drops the last message
\* of a key: a key that has a message in some node has one ever after.
KeysNeverVanish == [][\A k \in Keys : Held(k) => Held(k)']_vars

\* Node o gains a message or other links.
Gains(o) ==
    \/ Shape(pivots'[o]) # Shape(pivots[o])
    \/ \E i \in DOMAIN pivots[o] : \E k \in Keys :
        pivots'[o][i].buf.msgs[k] \notin {NoMsg, pivots[o][i].buf.msgs[k]}

\* A thread copies messages to node o, and has not set its flag yet.
CopyingTo(t, o) == pc[t] = "moving" /\ o = Child(cur[t], idx[t])

\* A node that gains messages or links is marked dirty after the last of them,
\* with the write-back thread clearing flags at any moment.  A node that loses
\* messages need not be: pushDownLocked marks the parent before it clears the
\* buffer (Node.cpp:306-307), and the flag may be cleared in between.
GainsAreMarked ==
    [][\A o \in Objs :
        Gains(o) \/ (\E t \in Threads : CopyingTo(t, o)) =>
            dirty'[o] \/ (\E t \in Threads : CopyingTo(t, o)')]_vars

\* Every call returns, unless an assertion fails: no set of threads waits for
\* each other's locks, and the repetitions of pushDownOrSplit end.
CallsReturn ==
    \A t \in Threads :
        pc[t] # "idle" ~> pc[t] = "idle" \/ failed # "none"

\* A get by the only client answers what the client wrote last.
GetReturnsNewest ==
    \A t \in Threads : pc[t] = "decRef" /\ req[t].op = "get" =>
        ret[t] = IF newest[req[t].key] \in Values THEN newest[req[t].key]
                 ELSE NoMsg

\* assert(buf0->size() + buf1->size() >= sz) in Node::splitBuf fails for no
\* other reason than the 8 bytes an overwritten message leaves behind in size_:
\* some buffer then counts more than its messages take.  The two halves of a
\* buffer together hold all its messages.
SplitBufFailsOnSurplus ==
    failed = "splitBuf" =>
        \E o \in Live : \E i \in DOMAIN pivots[o] :
            LET buf == pivots[o][i].buf
            IN  buf.size > MsgSize(buf.msgs, Keys) + 8 * Count(buf)

\* assert(refcnt_ > 0) in Node::decRef holds as long as the tree has not grown:
\* until then every call counts on the node it later gives back, and the path
\* locked for a split adds the count that growUp takes.
CountedUntilGrowth ==
    root = 1 =>
        /\ failed # "decRef"
        /\ refcnt[1] >= Cardinality({t \in Threads : pc[t] \notin {"idle", "incRef"}})

=============================================================================
