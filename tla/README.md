# A TLA+ model of BufferTreeDB

BufferTreeDB is an embedded key/value store in C++.  Writes are messages that
enter a tree at the root and travel towards the leaves in bulk; a background
thread writes changed nodes to a data file.  This project models the parts of
it that are hard to test: the tree under concurrent calls, the cache with its
write-back thread from opening to closing, the data file byte by byte, the skip
list under the message buffers, and the allocator and the byte buffer
everything is stored in.

## Inventory

| Part | Source | State | Operations | Interacts with |
|---|---|---|---|---|
| Message buffer | `src/src/Msg.*` | sorted list of messages, `size_`, mutex | insert, find, resize, clear, (de)serialize | owned by a pivot; uses the skip list |
| Skip list | `src/src/Skiplist.h` | towers of next pointers, `maxHeight_`, `count_` | insert, erase, resize, clear, iterator | allocates from the slab |
| Node | `src/src/Node.*` | pivots, leaf flag, nid, reference count, dirty flag, reader/writer lock | get, put, del, push-down, split, lockPath | recursive over the tree; calls the tree for nodes and paths |
| Buffer tree | `src/src/BufferTree.*` | `root_`, `nodeCount_`, `mutexLockPath_` | put, del, get, lockPath, growUp, createNode | the cache maps nids to nodes |
| Cache | `src/src/Cache.*` | `usedNodes_`, `nodes_`, `cacheSize_`, the write-back thread's `dirtyNodes` | getNode, eviction, writeBack | reads and clears dirty flags of nodes, calls the layout |
| Layout | `src/src/Layout.*` | data file, metadata, `writeBuf_` | init, find, write | called by the cache; serializes nodes under their read lock |
| Slab, Buffer, Slice | `src/src/Slab.*`, `src/base/` | pages and bitmaps; a byte buffer; references to bytes | alloc/free; append/read; compare/clone | used everywhere, without synchronisation of their own |
| Database object | `src/src/DBImpl.*` | owns the parts above | open, close, put, get, del | delegates |
| Thread | `src/base/Thread.*` | the started thread | start | runs the write-back loop; never joined |
| Logger, Condition, Radix | `src/base/` | | | log4z is a third-party library; the others are unused |

What is hard in this code: descents that lock hand over hand while a split
locks a whole branch from the root; a root that changes while writers wait for
it; decisions taken before a lock and used after it; recursion that releases
its locks on several ways out; a write-back thread that clears dirty flags long
after it has read the nodes; ignored write errors that shift what is written
later; a cache that accounts for sizes that change behind its back; a thread
that is started before, and runs after, what it works on; a key that is used
after its bytes were released.  `PROJECT.json` lists each of these hazards
at its line together with the properties that cover it.

## Modules

| Module | Models |
|---|---|
| `MsgBuf` | messages, the contents of a buffer and `size_`, as pure operators |
| `MsgList` | abstract specification of the list a buffer needs: an ordered map |
| `Skiplist` | the skip list; shown to implement `MsgList` |
| `Node` | the pivots of a node: findPivot, addPivot, push-down, the two splits, as pure operators |
| `BufferTree` | the tree under concurrent put, del and get |
| `BufferTreeInv` | the inductive invariant of `BufferTree` |
| `MCBufferTree` | instances of `BufferTree` for TLC |
| `Cache` | the cache, the write-back thread and the data file as one image per node, from `DB::open` to `~DBImpl` |
| `Wire` | the serialized form of nodes and messages, as pure operators on bytes |
| `Layout` | the data file, its metadata and the loop of `Layout::write`, byte by byte; with restarts |
| `MCLayout` | instances of `Layout` for TLC |
| `Allocator` | abstract specification of an allocator: blocks in use do not overlap |
| `Slab` | the slab allocator; shown to implement `Allocator` |
| `ByteQueue` | abstract specification of a queue of bytes |
| `Buffer` | the byte buffer; shown to implement `ByteQueue` |
| `BufferTreeProofs` | lemmas about the operators of `MsgBuf` and `Node`, and the proof that every step of the tree keeps the lock protocol (`Protocol`) |
| `BufferTreeSteps` | what one step does to pivots and messages, the proof that it keeps the copies of a push-down (`Copies`), and the theorems about the tree |
| `Iteration` | lemmas about numbers, division, folds, joined sequences and recursive functions that the other proofs need |
| `CacheProofs` | the theorems about the cache and the write-back thread |
| `SkiplistProofs` | the theorems about the skip list |
| `SlabProofs` | the theorems about the slab allocator |
| `BufferProofs` | the theorems about the byte buffer |
| `LayoutProofs` | that readers undo the writers of `Wire`, and the theorems about the data file |

### The tree

A thread runs one call at a time.  Its control point `pc[t]` is a place where
the code may block on a lock or read what another thread may have changed; one
action takes it from there to the next such place.

| Control point | Code |
|---|---|
| `incRef`, `decRef` | `BufferTree::put`, `del`, `get` around the call of the node |
| `writeLock`, `insert` | `Node::write` before and after `optionalLock` |
| `push`, `relock` | the body of `pushDownOrSplit`, and the lock before it repeats |
| `pushDown`, `pushBuf` | `pushDown` before the child's lock, and before the buffer's mutex |
| `moving`, `clearing` | `pushDownLocked` before the next message, and between the dirty flags and `buf->clear()` |
| `lockPath`, `lpRoot`, `lpDown` | `BufferTree::lockPath` before `mutexLockPath_`, before the root's lock, and each level of `Node::lockPath` |
| `lpClear` | `pushDownLocked`, called by `lockPath`, before `buf->clear()` |
| `split` | `splitNode` on the last node of the path |
| `spFill`, `spCut`, `spLink` | `splitNode` after `createNode`, after the new node has got its pivots, and before `addPivot` of the parent |
| `spRoot`, `spFirst`, `spSecond`, `grow` | `splitNode` of a root: before `createNode`, before the first and the second `addPivot`, and before `growUp` |
| `getLock`, `getLook`, `getDown` | `Node::get` before the lock, before the buffer's mutex, before the child's lock |

`pushDownOrSplit` calls itself down the tree; the nodes whose activation is
suspended are the thread's `stack`.  A failed `assert` ends the process: the
variable `failed` names it and nothing happens afterwards.  Two assertions can
fail, and TLC reaches both: `buf0->size() + buf1->size() >= sz` in `splitBuf`,
because each overwrite of a key leaves 8 bytes too many in `size_`, and
`refcnt_ > 0` in `decRef`, because `put` reads `root_` once for the node it
increments and once for the one it decrements.  `SplitBufFailsOnSurplus` and
`CountedUntilGrowth` say that they fail for no other reason.  All other
assertions of `Node.cpp` on this path are consequences of `Balanced`.

`splitBuf` locks the path for the key of the first message after it has
unlocked the leaf.  The key is a slice, and a put of the same key that reaches
the leaf meanwhile releases its bytes (`MsgBuf::insert`).  `ReleaseKeys` then
makes the key `Freed`, and from there on every comparison of `lockPath` may
find any key in it (`PathKeys`), on each level another one.  The locked path is
still a branch from the root and the split keeps the tree balanced, since every
split node is taken from the path: `PathIsBranch`, `Balanced` and `CallsReturn`
hold, and the first two are proved, with freed keys.

Abstractions, and why they lose nothing the properties tell apart:

- keys are ranks, values come from a small set, all keys have one size and all
  values another; `MsgSize` computes bytes from them as `Msg::size` does;
- a node is named by the order of its creation; nids are a second name, taken
  from `nodeCount_` as the code does, so that the second node object gets the
  nid of the first;
- consecutive releases of locks are one step, since a release blocks nobody;
- `pushDownLocked` copies to a leaf, which is held exclusively, in one step,
  and to an inner node, which others may read and fill, one message per step.
  The copies stay in the parent's buffer until `buf->clear()`, which comes
  after both dirty flags and is a step of its own; until then the thread has
  the mutex of the buffer (`BufFree`), and the buffer keeps its size;
- the unlocked reads of `buf->size()` in `pushDownOrSplit` are atomic reads of
  the value between two inserts;
- in `splitNode`, a change of pivots and the `setDirty(true)` behind it are one
  step: a flag that is cleared between the two is set all the same;
- `write` reads `root_` again for its retry in the step that compares nids;
- every node stays in memory and the pivots' own mutex is left out, because the
  node lock covers the same accesses in this part; `Layout::setRootNid`, which
  nobody reads again, is left out of `GrowUp`.

The nodes `splitNode` makes are in the cache at once.  The new sibling gets its
pivots without a lock (`Node.cpp:337`), and so does a new root, which is dirty
after its first pivot (348) and gets the second one afterwards (349).
`LinksGuarded` says what keeps put, del and get away from them: neither the
tree nor a local variable leads there before `addPivot` of the parent or
`growUp`.  It says nothing of the write-back thread and of
`Cache::getNode`, which find every node and read its pivots without the node's
lock (`writeBackSize` at `Cache.cpp:85`).  What write-back can make of a new
root is in `Layout`.

`GainsAreMarked` says that a node that gains messages or links is marked after
the last of them.  Of a node that loses messages no such thing is true:
`pushDownLocked` marks the parent at `Node.cpp:306` and clears its buffer at 307,
and `Cache.cpp:127` may clear the flag in between.  The emptied parent is then
unmarked, and nobody is on the way to mark it.  What saves the data file is that
`dirtyNodes` is never emptied (see `DiskCatchesUp` below): the parent was
collected, so it is written again in every round.

`KeysNeverVanish` counts every message in a node object.  The second object
takes nid 1 from the first root, so that the first one is found by nobody who
looks it up: a message there is held, but no get finds it (`get_newest`).

### The cache

The contents of a node are the set of changes made to it.  A client fetches a
node (`GetNode` in memory, `LoadNode` from the file) or creates one
(`GetNewNode`), changes it under its lock (`Change`) and sets the dirty flag in
a later step (`Mark`), the order of every change but one: that the parent of a
push-down is marked first and cleared then is in `BufferTree`.  It adds no way to
forget a node here, as the parent is dirty or collected when it is cleared.
Each fetch includes the accounting and the eviction at
the end of `getNode`, which is one step as it holds `usedNodesLock_`.  The
write-back thread takes the same lock (`LockUsedNodes`), collects dirty nodes
(`Scan`), serializes and writes them one by one (`Serialize`, `WriteFile`,
`WriteFileFails`), and then clears their flags one by one (`ClearDirty`).  What
it has once collected stays in `dirtyNodes`, as in the code.  The use of a list
element that is gone, running past the end of the list in `evictFromMemory`,
and reading a node where none was written set `broken`.  The data file keeps,
per nid, the image a reader would find: the first one in the region; what is
written behind it may reach into regions that follow (`Overwritten`), which
`Layout` shows in bytes.  One image per nid presumes that every node fits its
region; what happens to others is in `Layout` too.  Node sizes are `NodeSize` plus one per change.
A failed write leaves its image at the front of `writeBuf_`, so that the next
region gets the image of another node.  A lookup before the next round reads
that image and makes an object with the nid it finds there; the history
variable `misread` says that this has happened.

`phase` is how far `DBImpl::init` has come.  `InitCache` starts the write-back
thread, or fails to without anybody noticing; only afterwards do `Tie`,
`CreateRoot` and `CreateFirstPivot` give it something to work on.  `Close` is
`~DBImpl`: it stops nothing, so that the next step of the thread is
`UseDeleted`.

### The data file

`Wire` translates `serialize` and `deserialize` of nodes and messages into
sequences of digits of base `Base`, with numbers of `IntWidth` digits; the
length written before a value is the length of the key, as in the code.  A
reader is a record of the bytes left, the value read last and whether an
assertion of `Buffer` has failed.

`Layout` has the nodes, the file as a sequence of bytes, `metadata_` and
`writeBuf_`.  `StartWrite` begins a round with the nodes collected so far;
`SerializeHead` and `SerializePivot` append a node pivot by pivot under its
read lock, during which `ChangeBuf` may change its buffers but `Restructure`
may not change its pivots; `WriteFile` writes everything readable to the region
of the nid; `WriteFileFails` writes a part of it (one of `Cuts`) and leaves
`writeBuf_` as it is; `UpdateMetadata` enters the position in either case.
`Restart` is the end of the process at any point and a new `Layout::init`: all
but the file is lost.  The history variable `saved` keeps what was serialized
last for each nid and whether its own write went well, alone in the buffer.

`NewNode` is the sibling `splitNode` fills before it marks it.  A new root is
made in two steps, `NewRoot` and `AddSecondPivot`, and the second takes no
lock: write-back may serialize the root before it, with one pivot, or around
it, with one pivot where the node has two.  The second `push_back` moves the
first pivot to other storage, so that `serialize` may read `childNid` from
storage that was freed (`AsRead`, any of `Stray`).  The other fields hold
pointers; what is read through a stray one ends the process, at the latest in
`msgs`, and the end of the process at any point is `Restart`.

No code keeps an image inside its region.  "1 node at most 256K" is a comment
(`Options.h:19`); the options are the caller's, nobody looks at the size of a
message, `splitNode` below the root examines the leaf `findPivot` leads to,
which need not be the one that has grown, an image mixes moments, and
`Layout::write` writes what there is (`Layout.cpp:199`).  So images have any
length here, and reach into the regions that follow.  `Fits` is part of two
properties and of no action: `ReadsBack` asks of a node that its own image
fits, and of others nothing; `FileCatchesUp` asks besides that no node that does
not fit has been written over it and it has not been written again yet
(`Undisturbed`).  Without either condition TLC finds the property violated: a
node that does not fit is overwritten by its neighbour in every round and never
reads back, and it overwrites its neighbour for a time.  That the code permits
this at all is stated nowhere as wrong.

The slices `deserialize` makes of the strings it has read point into local
variables of a loop.  The model stops at the fields as they are read.

### The skip list

The operations are operators on a record of the list's fields.  Nodes have as
many next pointers as their height, so that TLC reports a read beyond them.
The random height is any height up to `kMaxHeight`.

### The slab allocator

The headers of the pages are modelled pointer by pointer, as the code links and
unlinks them by hand and reads a null `next` as "on no list".  The bitmap of a
page is the set of its chunks in use, wherever the code keeps it; `pow2[n]` is
`1 << n`.  Each call is one step.  `AllocLarge`, `AllocChunk` and `AllocFresh` are the three ways
through `allocLocked`, `AllocFails` its null result; `FreeLarge` and
`FreeChunk` are the ways through `freeLocked` for a block that is in use.  The
error returns of `freeLocked` for pointers that were never handed out are not
reached, since callers free only what they hold.  Three peculiarities of the
code are kept: `freePages` clears as many words as it should clear headers,
free runs are never joined, and a page of SMALL chunks is never given back,
because the test for its last chunk shifts by `pageSize_ - shift`.  None of
them breaks the allocator's promise; the last two cost memory.  Left out are
`clear`, the statistics, and the division of the arena into headers and pages.

### The byte buffer

`Ensured(len)` is the state `ensureWritableBytes` leaves: unchanged, grown, or
with the readable bytes moved to the front.  `append` and its variants for
numbers are `Append_`; `retrieve` and the reads built on it are `Retrieve`;
`Fill` and `FillFails` are how `Layout` reads a file into the buffer.  An
assertion about an argument is a guard.  `Zero` is what `vector::resize`
fills with.

## Runs

| Run | Instance | Checks |
|---|---|---|
| `tree_puts` | 2 threads, 3 keys, 6 puts, up to 20 nodes | `TypeOK`, `Inv`, `WritesEnterAtRoot`, `PathIsBranch`, `IdleHoldsNothing`, `Balanced`, `SizeCoversMessages`, `SplitBufFailsOnSurplus`, `CountedUntilGrowth`, `LinksGuarded`, `KeysNeverVanish` |
| `tree_calls` | 2 threads, 2 keys, 4 calls of any kind, fair | `CallsReturn` |
| `tree_dirty` | 2 threads, 2 keys, 5 puts, write-back clears flags | `GainsAreMarked` |
| `cache` | 2 clients, 5 objects, 2 changes, 2 lookups, one failing write, room for about 3 nodes, fair | `CacheTypeOK`, `Inv`, `UnwrittenIsRemembered`, `OneCopy`, `FlushIsReady`, `DiskCatchesUp` |
| `layout` | 2 nids, regions of 40 bytes, nodes of 11 to 44, new roots, 1 change, 2 failing writes, 1 restart, fair | `ReadsBack`, `SizeCoversImage`, `Inv`, `FileCatchesUp` |
| `skiplist` | 4 keys, heights up to 3 | `WellFormed`, `SearchesAgree`, `Inv`, `ImplementsMsgList` |
| `slab` | 3 pages of 16 bytes, words of 4 bits, chunks of 2, 4 and 8 bytes, blocks of 1 to 3 pages, 7 blocks in use | `ListsExact`, `PagesCovered`, `UsedIsLive`, `Inv`, `ImplementsAllocator` |
| `buffer` | 2 byte values, 2 bytes in front, vectors up to 8, calls up to 3 bytes | `IndexOrder`, `ImplementsQueue` |
| `get_newest` | 1 thread, 3 keys, puts and gets | `GetReturnsNewest`: violated |
| `evict_dirty` | 2 clients, 4 objects | `EvictedIsWritten`: violated |
| `read_assert` | 2 nids, a value shorter than its key | `ReadAssertions`: violated |
| `close_assert` | as `cache` | `DestroyedUnlocked`: violated |

The four violated properties are what an assertion, a test or a comment of the
repository says; `findings` in `PROJECT.json` explains each:

- a get may not find a key that was put: `findPivot` looks in the pivot after
  the one `pushDownLocked` moves the message to, and the second node takes the
  nid of the first root;
- eviction removes exactly the nodes whose contents have not been written;
- a value shorter than its key is serialized with too great a length, and the
  assertion of `peekString` fails when the node is read back;
- `~DBImpl` destroys `usedNodesLock_` while the write-back thread may hold it,
  and the assertion of `~MutexLock` fails.

`DiskCatchesUp` holds although the dirty flag of a node can be lost (a change
between `serialize` and `setDirty(false)`, or a failed write): the local map
`dirtyNodes` is never emptied, so every node that was dirty once is written in
every later round.  The mutant that forgets nodes once their flag is cleared
breaks it.  It is stated for nodes in memory with a nid of their own; the first
two objects share nid 1 and overwrite each other's region.  It ends, as do
`UnwrittenIsRemembered` and `OneCopy`, when a lookup has read the image of
another node: from then on two objects have one nid, `nodes_` and `dirtyNodes`
have room for one of them, and changes of the other are lost.

`ReadsBack` and `FileCatchesUp` hold for the same reason.  A failed write
leaves its bytes in front of the next node, whose image is then written second
and may spill into the regions after, as does an image that is too long; but the
nodes are visited in the order of their nids and all of them in every round, so
that a region that was spilled into is rewritten later in the same round.  The
mutant that collects the nodes afresh each round breaks it.  Both are stated for
nodes that fit and whose values are as long as their keys; for the others see
"The data file" above and `read_assert`.

`FlushIsReady` holds because the thread finds nothing dirty until
`createFirstPivot` has added the pivot and set the flag, in this order, and
because an evicted or new node is never dirty without pivots.

### Bounds

With keys and values of one byte a message takes 14 bytes of a buffer and
`MaxNodeMsg` = 18 leaves room for one: the second message splits a leaf's
buffer or goes down.  `MaxNodeChildNum` = 1 splits a node with two pivots.  Six
puts then reach three levels, push-down between inner nodes, nested
activations, path locking across three nodes, stale roots and two
generations of `growUp`; the run executes every branch of the writing code.
`MaxNodes` is large enough never to be met in a run: a thread that met it would
be stuck, and TLC would report a deadlock.  `tree_puts` and `tree_dirty` use
the symmetry of the threads, `tree_calls`, which checks liveness, does not.
`MaxOps` bounds the calls; liveness is meaningful since it asks every started
call to return.

In `slab` one size of chunk is of each type: SMALL (2 bytes, with the bitmap
in the page), EXACT (4) and BIG (8).  Seven blocks fill a SMALL page, so that
pages of every type become full and leave their list, and three pages are
enough for a run to be split, to come back in parts, and for the arena to be
exhausted.  In `cache` five objects are the first root, the node that takes
its nid, and three more, so that a dirty node can be evicted, loaded again and
changed, be a neighbour of a failed write, or be read in place of another.

In `layout` a leaf takes 11 bytes, or 24 with the messages of `MCBufs`, and an
inner node with two full buffers 44, more than a region of 40; with one of them
empty it fits.  `Cuts` writes nothing, a part of the head, or a part that
crosses the region.  `Children` and `Stray` are the nids a link of a new root
leads to and the one a stray read of `childNid` gives.  Two nids are enough: a
new node and a new root are both the second one (which of them, TLC tries), the
neighbour that an image or a failed write reaches, and the second object with
nid 1, which replaces the first in the thread's map, is a `Restructure` of
node 1.  More nids add rounds that are longer, and the proofs hold for any
number; `MaxChanges` counts changes of nodes, not new nodes or links.
In `buffer` a vector of 8 bytes is grown, and its contents moved,
several times over.

### Fairness

`BufferTree!FairSpec` assumes weak fairness of every thread's steps inside a
call: the scheduler runs it, and a lock that stays free is eventually obtained.
Weak fairness suffices for the locks since the number of calls is bounded.  No
client has to make a call.  `Cache!FairSpec` assumes that the write-back
thread, an endless loop, and a client in the middle of a change go on; nobody
has to open or close.  `Layout!FairSpec` assumes the same of the loop of
`Layout::write` and of the second link of a new root (`AddSecond`): between the
two links `splitNode` waits for nothing but mutexes that nobody keeps.

## Proofs

All theorems hold for every value of the constants that meets the named
assumptions.  Those of the tree are the assumptions of `MsgBuf`, `Node` and
`BufferTree`: at least one key, `MaxNodeMsg` at least 4, sizes natural numbers,
the sentinel values outside the sets they are added to, and, for
`CountsBeforeGrowth` alone, finitely many threads, as a process has
(`FiniteThreads`).  Those of the cache are that the bounds are natural numbers and
that the limit is larger than one node (`BoundsAssumption`, `LimitAssumption`),
and those of the skip list the ones of `MsgBuf` and a positive `kMaxHeight`.
That of the allocator, `SlabAssumption`, is that chunks are smaller than pages,
that a page divided by the bits of a word is one of the sizes of chunks
(`exactSize_`, 64 bytes in the code), and that nobody asks for 0 bytes:
`Slice::clone` returns before it would, and the other calls ask for objects.
Those of the data file are that the base of numbers is greater than 3, so that a
byte holds every type of message, and that they have a digit (in the code: 256
and 4, `WireAssumption`), that nodes, keys, values and buffers are
made of what a length or a count can state (`ContentsAssumption`), that regions,
offsets and bounds are natural numbers (`SizesAssumption`), and that there is nid
1, and nids are below the number of entries `metadata_` starts with and their
offsets below 2^32 (`NidsAssumption`), as far as the code holds.  Neither that
values and keys are equally long nor that images fit their regions is assumed;
`ReadsBack` asks both of the node read.

| Theorem | States |
|---|---|
| `LockProtocol` | `Spec => []Inv` of `BufferTree` |
| `TypesHold` | `Spec => []TypeOK` |
| `WritersAtRoot` | `Spec => []WritesEnterAtRoot` |
| `LocksReleased` | `Spec => []IdleHoldsNothing` |
| `TreeBalanced` | `Spec => []Balanced` |
| `PathsAreBranches` | `Spec => []PathIsBranch` |
| `LinksChangeGuarded` | `Spec => LinksGuarded` |
| `NoKeyVanishes` | `Spec => KeysNeverVanish` |
| `SizesCover` | `Spec => []SizeCoversMessages` |
| `SplitBufSurplus` | `Spec => []SplitBufFailsOnSurplus` |
| `ChangesAreMarked` | `Spec => GainsAreMarked` |
| `CountsBeforeGrowth` | `Spec => []CountedUntilGrowth` |
| `InvHolds` | `Spec => []Inv` of `Cache` |
| `CacheTypes` | `Spec => []CacheTypeOK` |
| `NothingForgotten` | `Spec => []UnwrittenIsRemembered` |
| `OneCopyOfANode` | `Spec => []OneCopy` |
| `FlushReady` | `Spec => []FlushIsReady` |
| `PointersFollow` | `Spec => []Inv` of `Skiplist` |
| `ListWellFormed` | `Spec => []WellFormed` |
| `SearchesRight` | `Spec => []SearchesAgree` |
| `ListIsMap` | `Spec => ImplementsMsgList` |
| `SlabInvariant` | `Spec => []Inv` of `Slab` |
| `SlabListsExact` | `Spec => []ListsExact` |
| `SlabPagesCovered` | `Spec => []PagesCovered` |
| `SlabUsedIsLive` | `Spec => []UsedIsLive` |
| `SlabImplementsAllocator` | `Spec => ImplementsAllocator` |
| `IndicesInOrder` | `Spec => []IndexOrder` of `Buffer` |
| `BufferIsQueue` | `Spec => ImplementsQueue` of `Buffer` |
| `LayoutInv` | `Spec => []Inv` of `Layout` |
| `LayoutReadsBack` | `Spec => []ReadsBack` |
| `LayoutSizeCoversImage` | `Spec => []SizeCoversImage` |

### The locks and the shape of the tree

None of the properties of the tree is inductive alone.  That the root stays the root while
a writer inserts needs that only the thread holding the root exclusively
replaces it, which needs that a splitting thread's path starts at the root,
which needs that it held the root since it compared `root_`, and so on; `Inv`
states for every control point which locks the thread holds (`HoldsCur`, ...,
`HoldsMutex`), where its path lies (`PathInv`), that exclusive locks exclude
(`Exclusion`), that links lead one level down (`Tree`), and how nids name nodes
(`Naming`: because the second object takes nid 1, the map sends nid n to object
n + 1 from then on).  A splitting thread may have made nodes nobody else knows
(`made`); `PathInv` and `Tree` say what they contain so far and that nothing
leads to them.  All this is `Protocol`.  The second half of `Inv`, `Copies`,
is about the time between copying and clearing in `pushDownLocked`: what the
thread has copied is in the child, whatever others do to the child meanwhile.

The argument is rely/guarantee.  `Frame(u)` says what a step of thread u leaves
alone: the other threads' variables, and the links of every node of the tree u
does not hold exclusively; of the nodes being made, only a splitting thread's
are changed.  Lemma `OthersKeep` shows once that such a step keeps what
every other thread relies on.  For each action it remains to show that it
keeps the tree in shape, satisfies `Frame`, and establishes u's own part of the
invariant at its next control point; `BufferTreeProofs` has one lemma per
action, after those that say what the operators on pivots preserve.

### The messages of the tree

`BufferTreeSteps` sorts the steps by what they do to pivots.  A step leaves them
alone (`Quiet`), makes a node without any (`Makes`), inserts one message
(`Inserts`), copies messages of a buffer to a child (`CopiesTo`), clears a buffer
(`Clears`), splits one (`SplitsBuffer`), or is a step of `splitNode`: it gives a
new node its half (`Fills`), cuts the old one (`Cuts`), adds a link (`Links`) or
gives a new root its first (`Begins`).  `StepKinds` derives from `Inv` that every
step of the specification is of one of these kinds, and which thread holds the
node exclusively or that no thread can come to it (`Alone`, `NotReachable`).
Every property about messages or links is then one case distinction over kinds,
not over thirty actions:

- `Copies` needs that a message once copied stays below the parent
  (`KeptBelow`), although the child may be pushed down, split and cut
  meanwhile: `Persist` shows for each kind that a key held below a level stays
  below it;
- `LinksChangeGuarded` needs `Alone`, and for the nodes being made that neither
  links nor local variables lead to them (`NotReachable`);
- `NoKeyVanishes`: a buffer that is cleared was copied, and the copies are
  below it (`Copies`); what a cut takes from a node its sibling has;
- `SizesCover`: `Covered`, which says of all buffers what `Covers` says of one,
  is inductive relative to `Inv`.  `Bytes(msgs, K)` is what the messages of K
  occupy; lemmas of the section show that it adds up over disjoint sets of
  keys, so that what a buffer counts after an insert, a move or a split can be
  compared with what it holds.  `size_` is only ever too large: an overwrite
  adds 8 bytes that are in the buffer already;
- `SplitBufSurplus`: the halves of a split have the bytes of the messages, by
  the same lemmas, so the assertion can only fail for a surplus;
- `ChangesAreMarked`: whatever gives a node messages or links marks it in the
  same step, or is one of the copies after the last of which `MoveMsg` does;
  clearing and cutting messages away are no gains;
- `CountsBeforeGrowth`: before the first `growUp` there is one node, which all
  calls count on; the invariant compares `refcnt` with the number of calls.

### The cache

`Inv` of `Cache` is inductive; the run `cache` checks it too.  Its parts say
that nothing is cached before there is a root (`OpeningInv`), which nids have
been given out and that only those are found in memory, in `writeBuf_` and in
the data file (`CreatedInv`, `ContentsInv`), that list and map hold objects that
exist and the list each of them once (`ListInv`), that the thread always has an
element left inside its loops (`WorkerInv`), that the map finds what is in the
list (`MapInv`), and who remembers a node that is not empty (`RememberedInv`).

`UnwrittenIsRemembered` is not inductive: a node whose last image was written
may be forgotten by everybody as far as it says, and be overwritten later.
`RememberedInv` replaces "not in the data file" by "not empty", which no write can
change: a node is dirty until it is collected, also one that was read from the
file, and who was once collected stays in `dirtyNodes`; only a second object for
the same nid could take its place there, and that is `misread`.  `OneCopy` needs that the map never
loses an object that is in the list, that is, that eviction removes both, and
that a nid read from the file is one that was asked for.  `FlushIsReady` needs
that an empty node is not dirty, and that nothing is collected that was not
dirty.  `CacheTypeOK` contains that `cacheSize_`, an unsigned number, does not
wrap, for which `evictFromMemory` must not subtract more than there is: the
model sets `broken` where the code would, and the proof shows that each of these
places is guarded.

The evictions of one call are a fold over the list.  The library's induction
rules take a predicate as a parameter, which the provers cannot instantiate, so
`Iteration` states induction for sets: a set that holds 0 and every successor
is `Nat` (`InductiveSet`, from the well-foundedness of < on `Nat`), and from
there the existence of the function `FoldLeft` chooses, and what each round
keeps (`FoldExists`, `UpTo`).  The same module shows that `RemoveFirst` removes
one element and keeps the order of the others.

### The skip list

`Inv` of `Skiplist` says the same as `WellFormed` pointer by pointer: on each
level, the pointer of a node leads to the least greater node that is tall
enough (`Follows`).  This form needs no list and is what one operation can be
compared with: linking a key changes what follows one node and nothing else
(`FollowsLinked`), and so does unlinking it (`FollowsUnlinked`).

What the searches and the iteration compute are functions defined by recursion
over nodes.  For each, the proof gives the result (for `Walk`, the last node
before the key; for `Level`, the nodes in ascending order), shows that it solves
the function's equation, and shows that no other solution differs from it by
looking at the greatest node at which one would (`WalkResult`, `LevelResult`).
`PrevResult` carries the result of a level to the one below, where every node
of the level above is linked too; `SearchResult` and `VisitResult` say what the
operations rely on.  Clearing yields the empty list because the first `count_`
nodes are all of them, and `resize`, a fold of `insert` over the first n keys,
is followed insert by insert (`ResizeResult`), whatever heights the nodes get
this time.

### The slab allocator

The three properties look at the headers as a whole: what a list holds, how
many headers cover a page, how many blocks lie in one.  An operation writes a
handful of words.  `Inv` says the same in terms of single words, and is
inductive:

- `HeadersInv`: every word and pointer has a value of its kind;
- `LinksInv`: a page with a free chunk, or a free run, is linked and all others
  are not; `next` and `prev` undo each other; a linked page has the type and
  leads to cells of its own list.  That every linked page is reached from a head
  is a statement about sets, so that it can be proved without counting: every
  set of pages that is not empty has one whose `prev` leads out of it;
- `PagesInv`: the extents of two headers do not meet, and together they are
  all pages;
- `BlocksInv`: a block of the callers begins where a header or a bitmap says
  that memory is in use, and what is in use belongs to one block.

`AllocPages` and `FreePages` are followed field by field, and the list
operations are three: a page is inserted behind a head, removed, or replaced
by the rest of its run (`LinkedInsert`, `LinkedRemove`, `LinkedReplace`).  Each
keeps `LinksInv`, whatever the lists look like.  What an operation does to the
pages of blocks is one change of one header; the blocks gain or lose one with it
(`BlocksGain`, `BlocksLose`), and the memory of the new one overlaps no other,
which is the step of `Allocator`.

`ListsExact` then follows by walking: from the head, `next` leads to a new page
each time, because `prev` leads back, and with `NPages` pages it has to reach
the head again (`WalkFresh`, `WalkEnds`).  The pages it has seen by then are all
of the list, because the others would be a set that `prev` does not lead out of.
`UsedIsLive` counts: the chunks in use of a page and the blocks in it are in
bijection.  That the search `FirstFit` and the powers of two satisfy their
recursive equations comes from `Iteration` (`ChainExists`).

### The byte buffer

The theorems about `Buffer` hold for every set of bytes and all sizes, under
`BufferAssumption`.  `IndexOrder` is inductive.  `EnsuredFacts` shows that
making room keeps the order of the indices and the readable bytes; one lemma
per action then shows what the action does to the readable bytes, and that is a
step of `ByteQueue` or leaves the queue alone.

### The data file

`LayoutProofs` has two halves.  The first is about `Wire`: each reader undoes
its writer and leaves what follows untouched.  For numbers, the sum of the
digits times their weights is the remainder modulo the next weight, digit by
digit (`DigitStep`, `ReadsInt32`), and the number fits.  Strings, messages,
buffers, pivots and the node then follow in the order of nesting (`ReadsString`,
`ReadsMsg`, `ReadsBuf`, `ReadsPivots`, `ReadsNode`).  A loop over a count is a
recursive function in the reader and `FlattenSeq` in the writer: `PrefixStep`
says what one more turn takes from the front, and the set of turns after which
the rest of the bytes are the images of the rest of the elements is closed under
successor (`InductiveSet`).  `ReadsBuf` and what builds on it are for messages
whose values are as long as their keys; for others it is false.  The same sums
give `LayoutSizeCoversImage`: the eight bytes `MsgBuf::insert` counts per message
cover the two lengths and the type.

The second half is about the loop.  Neither what is in `writeBuf_` nor what is in
the file is visible in `ReadsBack`, so `Inv` states both: `CurrentInv` says, for
each control point, how much of the node is in `writeBuf_`, in which form
`serialize` has read it, and that nothing precedes it when `saved` is clean;
`StoredInv` that the nodes the loop has passed have their entry in `metadata_`,
and are in the file byte by byte if they fit.  A new root may get its second pivot
at any moment of this: `pivots`, the number `serialize` has read first, is what
the image goes by (`LoopInv`), and the mutant that asks for the number again in
each turn breaks `Inv`.  A later write, even one that spills, begins at
the offset of a greater nid (`LoopInv`: the loop goes up) and cannot reach back
(`PwriteFacts`), so it cannot meet an image that fits, whatever its own length is;
a write of a smaller nid comes in a later round, in which every node once saved
is written again (`SavedInv`), so that it is no longer `Settled`.

### Only model-checked

Liveness (`CallsReturn`, `DiskCatchesUp`, `FileCatchesUp`), which the prover
does not cover, and the four violated properties, which are not theorems.

## Not modelled

- The logger, a third-party library (log4z) kept in the tree, a third of all
  lines; the radix tree, which nothing includes and which does not compile;
  `Cond`, `Thread::join`, the varints and 64-bit numbers of `coding.h`, and
  `Buffer::swap`, which nothing uses.
- Recovery, of which there is none: `findDataFile` answers no, `loadMetadata`
  and `flushMetadata` are not reached, and a restarted database is the initial
  state over an old file.
- What a slice reads after the string or block under it is gone, other than the
  key of `lockPath`: the slices of a deserialized node, and the next pointer
  `SkipList::clear` reads from a node it has freed.
- Data races on the slab, which takes no lock, and on vectors: what
  they leave is undefined, so each such access is one step of the model.  The
  exception is `serialize` of a new root, for which `Layout` has the outcomes
  (`AsRead`, `Restart`).
- Images of 4 GB and more, whose size `metadata_` cannot hold.
- More than 1024 nodes (`metadata_`) and more than 16384 (32-bit offsets):
  `Entered` and `Offset` translate the code, the instances stay below.

## Plan

Done: `MsgBuf`, `Node`, `BufferTree` with its invariant, `Cache` with opening
and closing, `Wire` and `Layout`, `Skiplist` over `MsgList`, `Slab` over
`Allocator`, `Buffer` over `ByteQueue`; the proofs of every safety property the
passing runs check, and of the refinements of `MsgList`, `Allocator` and
`ByteQueue`.

Left: composing `Skiplist` with `Slab`, which would say what `clear` reads from
nodes it has freed; and showing that the images `Cache` keeps per nid are what
`Layout` writes.
