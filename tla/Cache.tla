-------------------------------- MODULE Cache --------------------------------
(***************************************************************************)
(* The node cache and its write-back thread (src/src/Cache.cpp) over the   *)
(* data file (src/src/Layout.cpp), from opening the database to closing it *)
(* (src/src/DBImpl.cpp).                                                   *)
(*                                                                         *)
(* The contents of a node are the set of changes applied to it; what a     *)
(* change does to pivots and buffers is the subject of BufferTree.  A      *)
(* client fetches or creates a node, changes it under the node's lock and  *)
(* sets its dirty flag in a later step, as Node::write and pushDownLocked  *)
(* do with the node they insert into; creating the first pivot is a change *)
(* too, so a node without any has no pivots.  The parent, which            *)
(* pushDownLocked marks before it clears its buffer, is in BufferTree.     *)
(* The data file has one region per nid; what a region holds for a reader  *)
(* is the first node image in it.  Layout has the bytes.                   *)
(*                                                                         *)
(* usedNodesLock_ makes getNode atomic; the write-back thread holds it     *)
(* through its scan.  The steps of a flush are not atomic: the nodes are   *)
(* serialized, each under its read lock, and written one by one, and only  *)
(* then are the dirty flags cleared, one by one.                           *)
(*                                                                         *)
(* DBImpl::init starts the write-back thread before the cache knows its    *)
(* layout and before there is a root, and ~DBImpl deletes everything       *)
(* without stopping it.                                                    *)
(***************************************************************************)
EXTENDS Integers, FiniteSets, FiniteSetsExt, Sequences, SequencesExt

CONSTANTS Clients,        \* threads that work on nodes
          MaxObjs,        \* bound: node objects a behaviour may create
          CacheLimitMem,  \* Options::cacheLimitMem
          NodeSize,       \* Node::writeBackSize of a node without changes
          MaxChanges,     \* bound: changes in a behaviour
          MaxGets,        \* bound: lookups of existing nodes
          MaxFailures     \* bound: pwrite calls that fail

Objs    == 1..MaxObjs      \* node objects, in the order of their creation
Nids    == 1..MaxObjs
Changes == 0..MaxChanges   \* 0 is the first pivot of the first root
NoObj   == 0

ASSUME BoundsAssumption ==
    /\ MaxObjs \in Nat \ {0} /\ NodeSize \in Nat \ {0}
    /\ MaxChanges \in Nat /\ MaxGets \in Nat /\ MaxFailures \in Nat
\* A node is far smaller than the cache may get (256K against 256M).
ASSUME LimitAssumption ==
    CacheLimitMem \in Nat /\ CacheLimitMem > NodeSize + MaxChanges

\* A serialized node.  No node has been written where NoImage is; a write that
\* failed half-way leaves TornImage.
Image     == [nid : Nids, data : SUBSET Changes]
NoImage   == [nid |-> 0, data |-> {}]
TornImage == [nid |-> -1, data |-> {}]

VARIABLES
    phase,      \* how far DBImpl::init has come, or that the database is closed
    running,    \* the write-back thread exists
    node,       \* every node object: self_, contents, dirty_
    created,    \* number of objects constructed
    nodeCount,  \* BufferTree::nodeCount_
    usedNodes,  \* usedNodes_, most recently used first
    nodes,      \* nodes_: nid -> list element, that is, object
    cacheSize,  \* cacheSize_
    at, held,   \* control point of each client, and the object it works on
    wpc,        \* control point of the write-back thread
    dirtyNodes, \* local variable of writeBack: nid -> object
    todo,       \* nids the loop over dirtyNodes has still to visit
    writeBuf,   \* writeBuf_: images not yet retrieved
    disk,       \* what a reader finds in the region of each nid
    changes, gets, failures,  \* how many there have been
    misread,    \* history: a lookup has read the image of another node
    broken      \* an assertion failed or a dead list element was used

cacheVars  == <<created, nodeCount, usedNodes, nodes, cacheSize>>
clientVars == <<at, held, changes, gets, misread>>
workerVars == <<wpc, dirtyNodes, todo, writeBuf, disk, failures>>
lifeVars == <<phase, running>>
vars == <<lifeVars, node, cacheVars, clientVars, workerVars, broken>>

NodeObj == [self : 0..MaxObjs, data : SUBSET Changes, dirty : BOOLEAN]

\* The type invariant.  It says that cacheSize_, an unsigned number in the
\* code, never passes below 0, although evictFromMemory subtracts the size a
\* node has grown to and getNode had added the size it had then.
CacheTypeOK ==
    /\ phase \in {"layout", "cache", "tie", "root", "pivot", "open", "closed",
                 "failed"}
    /\ running \in BOOLEAN
    /\ node \in [Objs -> NodeObj]
    /\ created \in 0..MaxObjs /\ nodeCount \in 0..MaxObjs
    /\ usedNodes \in Seq(Objs)
    /\ nodes \in [Nids -> Objs \cup {NoObj}]
    /\ cacheSize \in Nat
    /\ at \in [Clients -> {"idle", "new", "holds", "changed"}]
    /\ held \in [Clients -> Objs \cup {NoObj}]
    /\ wpc \in {"sleep", "scan", "serialize", "write", "clear"}
    /\ dirtyNodes \in [Nids -> Objs \cup {NoObj}]
    /\ todo \in SUBSET Nids
    /\ writeBuf \in Seq(Image)
    /\ disk \in [Nids -> Image \cup {NoImage, TornImage}]
    /\ changes \in 0..MaxChanges
    /\ gets \in 0..MaxGets
    /\ failures \in 0..MaxFailures
    /\ misread \in BOOLEAN /\ broken \in BOOLEAN

\* The constructors.
Init ==
    /\ phase = "layout" /\ running = FALSE
    /\ node = [o \in Objs |-> [self |-> 0, data |-> {}, dirty |-> FALSE]]
    /\ created = 0 /\ nodeCount = 0
    /\ usedNodes = <<>>
    /\ nodes = [n \in Nids |-> NoObj]
    /\ cacheSize = 0
    /\ at = [c \in Clients |-> "idle"]
    /\ held = [c \in Clients |-> NoObj]
    /\ wpc = "sleep"
    /\ dirtyNodes = [n \in Nids |-> NoObj]
    /\ todo = {}
    /\ writeBuf = <<>>
    /\ disk = [n \in Nids |-> NoImage]
    /\ changes = 0 /\ gets = 0 /\ failures = 0
    /\ misread = FALSE /\ broken = FALSE

-----------------------------------------------------------------------------
\* A call is under way or may begin.
Working == phase = "open" /\ ~broken

\* usedNodesLock_ is held by the write-back thread during its scan.
UsedNodesFree == wpc # "scan"

\* DBImpl::init, called from DB::open

\* Slab::init and Layout::init; if one fails, open answers NULL.
InitLayout ==
    /\ phase = "layout"
    /\ phase' \in {"cache", "failed"}
    /\ UNCHANGED <<running, node, cacheVars, clientVars, workerVars, broken>>

\* Cache::init starts the write-back thread.  Thread::start does not say when
\* pthread_create has failed.
InitCache ==
    /\ phase = "cache"
    /\ phase' = "tie"
    /\ running' \in BOOLEAN
    /\ UNCHANGED <<node, cacheVars, clientVars, workerVars, broken>>

\* BufferTree::init first gives the cache its layout.
Tie ==
    /\ phase = "tie"
    /\ phase' = "root"
    /\ UNCHANGED <<running, node, cacheVars, clientVars, workerVars, broken>>

Tied == phase \notin {"layout", "cache", "tie"}

\* Then it creates the first root, nid 1, ...
CreateRoot ==
    /\ phase = "root" /\ ~broken /\ UsedNodesFree
    /\ phase' = "pivot"
    /\ node' = [node EXCEPT ![1].self = 1]
    /\ created' = 1 /\ nodeCount' = 1
    /\ usedNodes' = <<1>>
    /\ nodes' = [nodes EXCEPT ![1] = 1]
    /\ cacheSize' = NodeSize
    /\ UNCHANGED <<running, clientVars, workerVars, broken>>

\* Mutant of CreateFirstPivot: the flag is set before there is a pivot.
MarkBeforePivot ==
    /\ phase = "pivot" /\ ~broken
    /\ IF node[1].dirty THEN phase' = "open" ELSE UNCHANGED phase
    /\ node' = IF node[1].dirty THEN [node EXCEPT ![1].data = {0}]
               ELSE [node EXCEPT ![1].dirty = TRUE]
    /\ UNCHANGED <<running, cacheVars, clientVars, workerVars, broken>>

\* ... and its first pivot, which marks it dirty.
CreateFirstPivot ==
    /\ phase = "pivot" /\ ~broken
    /\ phase' = "open"
    /\ node' = [node EXCEPT ![1].data = {0}, ![1].dirty = TRUE]
    /\ UNCHANGED <<running, cacheVars, clientVars, workerVars, broken>>

Open == InitLayout \/ InitCache \/ Tie \/ CreateRoot \/ CreateFirstPivot

\* ~DBImpl, when no call is under way.  The write-back thread goes on.
Close ==
    /\ phase = "open" /\ ~broken
    /\ \A c \in Clients : at[c] = "idle"
    /\ phase' = "closed"
    /\ UNCHANGED <<running, node, cacheVars, clientVars, workerVars, broken>>

-----------------------------------------------------------------------------
\* Cache::getNode

WriteBackSize(nd) == NodeSize + Cardinality(nd.data)

\* Mutant of EvictOne: the list keeps the node.
EvictFromMapOnly(c, o, nds) ==
    IF c.size >= CacheLimitMem /\ nds[o].dirty
    THEN [c EXCEPT !.map[nds[o].self] = NoObj,
                   !.size = @ - WriteBackSize(nds[o])]
    ELSE c

\* Mutant of EvictOne: the total is not looked at again within the loop.
EvictAllDirty(c, o, nds) ==
    IF nds[o].dirty
    THEN [c EXCEPT !.list = RemoveFirst(@, o),
                   !.map[nds[o].self] = NoObj,
                   !.size = @ - WriteBackSize(nds[o])]
    ELSE c

\* One turn of the loop in evictFromMemory, for list element o.
EvictOne(c, o, nds) ==
    IF c.size >= CacheLimitMem /\ nds[o].dirty
    THEN [c EXCEPT !.list = RemoveFirst(@, o),
                   !.map[nds[o].self] = NoObj,
                   !.size = @ - WriteBackSize(nds[o])]
    ELSE c

\* evictFromMemory: from the least recently used node on.
EvictFromMemory(c, nds) ==
    LET One(d, o) == EvictOne(d, o, nds)
    IN  FoldLeft(One, c, Reverse(c.list))

\* getNode from where node o has been put at the front of the list: count it,
\* evict, and enter the front of the list as node n.  When the node at the
\* front is itself evicted, itEnd no longer is the end of the list: the loop
\* runs past it unless the total is small enough by then, and what is entered
\* and returned is the next node of the list.
Enter(c, n, list, nds, next) ==
    LET o   == Head(list)
        res == EvictFromMemory(
                   [list |-> list, map |-> nodes,
                    size |-> cacheSize + WriteBackSize(nds[o])], nds)
    IN  /\ node' = nds
        /\ IF /\ ~Contains(res.list, o)
              /\ res.size >= CacheLimitMem \/ res.list = <<>>
           THEN /\ broken' = TRUE
                /\ UNCHANGED <<usedNodes, nodes, cacheSize, at, held>>
           ELSE /\ usedNodes' = res.list
                /\ nodes' = [res.map EXCEPT ![n] = Head(res.list)]
                /\ cacheSize' = res.size
                /\ at' = [at EXCEPT ![c] = next]
                /\ held' = [held EXCEPT ![c] = Head(res.list)]
                /\ UNCHANGED broken

\* BufferTree::createNode: the nid is nodeCount_, which the first root, whose
\* nid is 1, has made 1.
GetNewNode(c) ==
    LET o == created + 1
    IN  /\ Working /\ UsedNodesFree /\ at[c] = "idle"
        /\ created < MaxObjs /\ changes < MaxChanges
        /\ created' = o
        /\ nodeCount' = nodeCount + 1
        /\ Enter(c, nodeCount, <<o>> \o usedNodes,
                 [node EXCEPT ![o].self = nodeCount], "new")
        /\ UNCHANGED <<lifeVars, changes, gets, misread, workerVars>>

\* A lookup that finds the node in memory.
GetNode(c, n) ==
    LET o == nodes[n]
    IN  /\ Working /\ UsedNodesFree /\ at[c] = "idle" /\ gets < MaxGets
        /\ o # NoObj
        /\ gets' = gets + 1
        /\ IF Contains(usedNodes, o)
           THEN Enter(c, n, <<o>> \o RemoveFirst(usedNodes, o), node, "holds")
           ELSE /\ broken' = TRUE
                /\ UNCHANGED <<node, usedNodes, nodes, cacheSize, at, held>>
        /\ UNCHANGED <<lifeVars, created, nodeCount, changes, misread, workerVars>>

\* A lookup that does not: Layout::find and Node::deserialize.  There is no
\* node to read where none was written; the assertions of Buffer fail.  The nid
\* is read back too: after a failed write, which leaves its image before the
\* next one, the node found at the region of n may be another than n.
LoadNode(c, n) ==
    LET o == created + 1
    IN  /\ Working /\ UsedNodesFree /\ at[c] = "idle" /\ gets < MaxGets
        /\ nodes[n] = NoObj
        /\ n < nodeCount
        /\ created < MaxObjs
        /\ gets' = gets + 1
        /\ created' = o
        /\ misread' = (misread \/ (disk[n] \in Image /\ disk[n].nid # n))
        /\ IF disk[n] \in Image
           THEN Enter(c, n, <<o>> \o usedNodes,
                      [node EXCEPT ![o] = [self |-> disk[n].nid,
                                           data |-> disk[n].data,
                                           dirty |-> TRUE]], "holds")
           ELSE /\ broken' = TRUE
                /\ UNCHANGED <<node, usedNodes, nodes, cacheSize, at, held>>
        /\ UNCHANGED <<lifeVars, nodeCount, changes, workerVars>>

-----------------------------------------------------------------------------
\* What the tree does with a node.

\* A change, under the node's lock.
Change(c) ==
    /\ Working /\ at[c] \in {"new", "holds"} /\ changes < MaxChanges
    /\ changes' = changes + 1
    /\ node' = [node EXCEPT ![held[c]].data = @ \cup {changes + 1}]
    /\ at' = [at EXCEPT ![c] = "changed"]
    /\ UNCHANGED <<lifeVars, cacheVars, held, gets, misread, workerVars, broken>>

\* setDirty(true)
Mark(c) ==
    /\ Working /\ at[c] = "changed"
    /\ node' = [node EXCEPT ![held[c]].dirty = TRUE]
    /\ at' = [at EXCEPT ![c] = "idle"]
    /\ held' = [held EXCEPT ![c] = NoObj]
    /\ UNCHANGED <<lifeVars, cacheVars, changes, gets, misread, workerVars,
                   broken>>

\* A lookup that only reads.
Release(c) ==
    /\ Working /\ at[c] = "holds"
    /\ at' = [at EXCEPT ![c] = "idle"]
    /\ held' = [held EXCEPT ![c] = NoObj]
    /\ UNCHANGED <<lifeVars, node, cacheVars, changes, gets, misread, workerVars,
                   broken>>

-----------------------------------------------------------------------------
\* Cache::writeBack, the loop of the write-back thread

\* The thread is there and so is what it works on.
WorkerRuns == running /\ ~broken /\ phase # "closed"

\* After ~DBImpl whatever the thread does next uses deleted objects.
UseDeleted ==
    /\ running /\ ~broken /\ phase = "closed"
    /\ broken' = TRUE
    /\ UNCHANGED <<lifeVars, node, cacheVars, clientVars, workerVars>>

LockUsedNodes ==
    /\ WorkerRuns /\ wpc = "sleep"
    /\ wpc' = "scan"
    /\ UNCHANGED <<lifeVars, node, cacheVars, clientVars, dirtyNodes, todo,
                   writeBuf, disk, failures, broken>>

DirtyIn(n) == {i \in DOMAIN usedNodes : /\ node[usedNodes[i]].dirty
                                        /\ node[usedNodes[i]].self = n}

\* Collect the dirty nodes; of two with one nid the last in the list.  What
\* earlier rounds collected stays.  Then the lock is given back, and
\* Layout::write begins with an empty buffer.
Scan ==
    LET found == [n \in Nids |-> IF DirtyIn(n) = {} THEN dirtyNodes[n]
                                 ELSE usedNodes[Max(DirtyIn(n))]]
    IN  /\ WorkerRuns /\ wpc = "scan"
        /\ dirtyNodes' = found
        /\ todo' = {n \in Nids : found[n] # NoObj}
        /\ wpc' = IF todo' = {} THEN "sleep" ELSE "serialize"
        /\ writeBuf' = <<>>
        /\ UNCHANGED <<lifeVars, node, cacheVars, clientVars, disk, failures,
                       broken>>

\* Node::serialize of the node with the smallest nid left, under its read lock.
Serialize ==
    LET nd == node[dirtyNodes[Min(todo)]]
    IN  /\ WorkerRuns /\ wpc = "serialize"
        /\ writeBuf' = Append(writeBuf, [nid |-> nd.self, data |-> nd.data])
        /\ wpc' = "write"
        /\ UNCHANGED <<lifeVars, node, cacheVars, clientVars, dirtyNodes, todo,
                       disk, failures, broken>>

\* Mutant of NextNode: the second loop begins where the first has ended.
NextNodeFromEnd ==
    /\ wpc' = IF todo = {Min(todo)} THEN "clear" ELSE "serialize"
    /\ todo' = todo \ {Min(todo)}

\* On to the next node, or to the dirty flags of all of them.
NextNode ==
    IF todo = {Min(todo)}
    THEN /\ wpc' = "clear"
         /\ todo' = {n \in Nids : dirtyNodes[n] # NoObj}
    ELSE wpc' = "serialize" /\ todo' = todo \ {Min(todo)}

\* The data file after a write at the region of n that leaves image there.  An
\* image behind the first in the buffer may reach into the regions that follow.
Overwritten(n, image, reach) ==
    [m \in Nids |-> IF m = n THEN image
                   ELSE IF m \in (n + 1)..(n + reach) THEN TornImage
                   ELSE disk[m]]

\* Layout::writeFile, all of the buffer to the region of the nid
WriteFile ==
    /\ WorkerRuns /\ wpc = "write"
    /\ \E reach \in 0..(Len(writeBuf) - 1) :
        disk' = Overwritten(Min(todo), Head(writeBuf), reach)
    /\ writeBuf' = <<>>
    /\ NextNode
    /\ UNCHANGED <<lifeVars, node, cacheVars, clientVars, dirtyNodes, failures,
                   broken>>

\* pwrite fails, and nobody looks at the answer of writeFile.  The buffer is
\* not retrieved, so the next node is written behind this one's image; the
\* metadata is updated all the same, so even a region left alone may be read
\* with the wrong size.
WriteFileFails ==
    /\ WorkerRuns /\ wpc = "write" /\ failures < MaxFailures
    /\ failures' = failures + 1
    /\ \E image \in {disk[Min(todo)], TornImage, Head(writeBuf)},
          reach \in 0..(Len(writeBuf) - 1) :
        disk' = Overwritten(Min(todo), image, reach)
    /\ NextNode
    /\ UNCHANGED <<lifeVars, node, cacheVars, clientVars, dirtyNodes, writeBuf,
                   broken>>

\* Mutant of ClearDirty: a node whose flag is cleared is forgotten.
ClearAndForget ==
    LET n == Min(todo)
    IN  /\ WorkerRuns /\ wpc = "clear"
        /\ node' = [node EXCEPT ![dirtyNodes[n]].dirty = FALSE]
        /\ dirtyNodes' = [dirtyNodes EXCEPT ![n] = NoObj]
        /\ todo' = todo \ {n}
        /\ wpc' = IF todo' = {} THEN "sleep" ELSE "clear"
        /\ UNCHANGED <<lifeVars, cacheVars, clientVars, writeBuf, disk, failures,
                       broken>>

\* The second loop of flushDirtyNodes: setDirty(false)
ClearDirty ==
    LET n == Min(todo)
    IN  /\ WorkerRuns /\ wpc = "clear"
        /\ node' = [node EXCEPT ![dirtyNodes[n]].dirty = FALSE]
        /\ todo' = todo \ {n}
        /\ wpc' = IF todo' = {} THEN "sleep" ELSE "clear"
        /\ UNCHANGED <<lifeVars, cacheVars, clientVars, dirtyNodes, writeBuf,
                       disk, failures, broken>>

-----------------------------------------------------------------------------
Finish(c) == Change(c) \/ Mark(c) \/ Release(c)
WriteBack == \/ LockUsedNodes \/ Scan \/ Serialize \/ WriteFile
             \/ WriteFileFails \/ ClearDirty \/ UseDeleted

Next ==
    \/ Open \/ Close
    \/ \E c \in Clients :
        \/ GetNewNode(c) \/ Finish(c)
        \/ \E n \in Nids : GetNode(c, n) \/ LoadNode(c, n)
    \/ WriteBack
    \/ (broken \/ phase \in {"failed", "closed"} \/ ~running) /\ UNCHANGED vars

Spec == Init /\ [][Next]_vars

\* The write-back thread runs for ever once it exists, and a client that works
\* on a node comes to its end; nobody has to fetch a node or to close the
\* database.
FairSpec ==
    /\ Spec
    /\ WF_vars(WriteBack)
    /\ \A c \in Clients : WF_vars(Finish(c))

-----------------------------------------------------------------------------
\* Properties

\* The objects with a nid of their own.  The first two objects share nid 1.
OwnNid == {o \in 1..created : node[o].self > 1}

\* The objects of a nid of their own that are in memory.
Cached == {o \in OwnNid : Contains(usedNodes, o)}

Written(o) == node[o].data \subseteq disk[node[o].self].data

\* A change of a node in memory that is not in the data file is never
\* forgotten: the node is dirty, or about to be marked, or among the nodes
\* every round of the write-back thread writes.  The last case is what saves a
\* change that is made and marked after its node was serialized and before the
\* flag is cleared, one whose write failed, and one that a neighbour's write
\* has reached into.  A lookup that reads the image of another node ends this:
\* then two objects have one nid, and the thread remembers one of them.
UnwrittenIsRemembered ==
    ~misread => \A o \in Cached :
        \/ Written(o)
        \/ node[o].dirty
        \/ \E c \in Clients : at[c] = "changed" /\ held[c] = o
        \/ dirtyNodes[node[o].self] = o

\* When the clients have made their last change, the data file comes to hold
\* all changes of the nodes in memory and holds them for good, however changes,
\* scans, writes, failed writes and clearing of flags were interleaved: unless
\* the thread was never started, the database is closed, the cache broke or a
\* lookup has read the image of another node.
DiskCatchesUp ==
    running ~> [](phase = "closed" \/ broken \/ misread
                  \/ \A o \in Cached : Written(o))

\* The cache never holds two objects for one node, however lookups, creations
\* and evictions alternate, as long as no lookup has read the image of another
\* node, which only a failed write can have put in its place.
OneCopy ==
    ~misread => \A i, j \in DOMAIN usedNodes :
        (/\ node[usedNodes[i]].self = node[usedNodes[j]].self
         /\ usedNodes[i] \in OwnNid) => i = j

\* The write-back thread, which runs before tie has given the cache its layout,
\* calls the layout only afterwards; and a node it serializes has pivots,
\* which Node::serialize asserts.
FlushIsReady ==
    wpc = "serialize" /\ phase # "closed" =>
        Tied /\ node[dirtyNodes[Min(todo)]].data # {}

\* A node leaves memory only after its contents have been written: "first
\* write the dirty nodes to disk, then remove nodes from memory".
EvictedIsWritten ==
    [][\A o \in OwnNid :
        Contains(usedNodes, o) /\ ~Contains(usedNodes', o) => Written(o)]_vars

\* ~MutexLock asserts that nobody holds the mutex: the cache is not deleted
\* while the write-back thread holds usedNodesLock_.
DestroyedUnlocked == phase = "closed" => UsedNodesFree

-----------------------------------------------------------------------------
\* The inductive invariant

Listed(o) == Contains(usedNodes, o)

\* Nothing is cached before the root is created, and clients come only then.
OpeningInv ==
    /\ IF phase \in {"pivot", "open", "closed"} THEN nodeCount >= 1
       ELSE created = 0 /\ nodeCount = 0
    /\ phase # "open" => \A c \in Clients : at[c] = "idle"

\* A nodeCount_ of count has given out this nid.  It gives out nid 1 twice.
GivenNid(n, count) == n = 1 \/ n \in 1..(count - 1)

\* Objects have a nid when they have been created and are blank before.
CreatedInv ==
    /\ nodeCount <= created
    /\ \A o \in Objs :
        IF o <= created THEN broken \/ GivenNid(node[o].self, nodeCount)
        ELSE node[o] = [self |-> 0, data |-> {}, dirty |-> FALSE]

\* The list and the map hold objects that exist, the list each of them once.
ListInv ==
    /\ \A o \in Objs : Listed(o) => o <= created
    /\ \A i, j \in DOMAIN usedNodes : usedNodes[i] = usedNodes[j] => i = j
    /\ \A n \in Nids : nodes[n] <= created

\* A client works on an object, and one that was changed is not empty.
HeldInv ==
    \A c \in Clients :
        /\ at[c] # "idle" => held[c] \in 1..created
        /\ at[c] = "changed" => node[held[c]].data # {}

\* What the thread has collected: under the right nid, and never empty.
WorkerInv ==
    /\ \A n \in Nids : dirtyNodes[n] # NoObj =>
        /\ dirtyNodes[n] <= created
        /\ node[dirtyNodes[n]].self = n
        /\ node[dirtyNodes[n]].data # {}
    /\ \A n \in todo : dirtyNodes[n] # NoObj
    /\ wpc \in {"serialize", "write", "clear"} => todo # {}
    /\ wpc = "write" => writeBuf # <<>>

\* An empty node is not dirty, not serialized and not in the data file.
ContentsInv ==
    /\ \A o \in Objs : node[o].dirty => node[o].data # {}
    /\ \A i \in DOMAIN writeBuf :
        GivenNid(writeBuf[i].nid, nodeCount) /\ writeBuf[i].data # {}
    /\ \A n \in Nids : disk[n] \in Image =>
        GivenNid(disk[n].nid, nodeCount) /\ disk[n].data # {}

\* A lookup of a node that is in the list finds the object in the list.
MapInv ==
    ~misread => \A o \in OwnNid : Listed(o) => nodes[node[o].self] = o

\* Who remembers a node that is not empty.
RememberedInv ==
    ~misread => \A o \in Cached :
        \/ node[o].data = {}
        \/ node[o].dirty
        \/ \E c \in Clients : at[c] = "changed" /\ held[c] = o
        \/ dirtyNodes[node[o].self] = o

Inv ==
    /\ CacheTypeOK /\ OpeningInv /\ CreatedInv /\ ListInv /\ HeldInv
    /\ WorkerInv /\ ContentsInv /\ MapInv /\ RememberedInv

=============================================================================
