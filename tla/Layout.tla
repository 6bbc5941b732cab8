------------------------------- MODULE Layout -------------------------------
(***************************************************************************)
(* The data file (src/src/Layout.cpp), byte by byte.  The module Cache has *)
(* it as one image per nid; this module shows how far that holds.          *)
(*                                                                         *)
(* The write-back thread hands Layout::write the nodes it has collected, a *)
(* map that only grows.  write serializes each node, pivot by pivot, under *)
(* its read lock: the pivots stay, but a thread that holds the read lock   *)
(* too may insert into a buffer between two of them, and a new root may    *)
(* get its second pivot, for which no lock is taken.  Then it writes the   *)
(* whole of writeBuf_ to the region of the nid and enters position and     *)
(* size in metadata_.  When a write fails, nobody notices: the bytes stay  *)
(* in writeBuf_ and precede the image of the next node.                    *)
(*                                                                         *)
(* Nothing keeps an image inside its region: not the limits of the tree,   *)
(* which are the caller's to set and do not bound a node's pivots below    *)
(* the root or a message, and not write.  An image that is too long, or    *)
(* follows the bytes of a failed write, reaches into the regions after its *)
(* own.                                                                    *)
(*                                                                         *)
(* A restart loses all but the file.  findDataFile answers no, so the new  *)
(* run starts with empty metadata over the bytes of the old one.           *)
(***************************************************************************)
EXTENDS Wire, FiniteSets, FiniteSetsExt

CONSTANTS Nids,          \* nids in use
          Shapes,        \* contents a node can be given under its write lock
          Bufs,          \* contents a message buffer can be given
          Region,        \* bytes between two nodes, 256K in the code
          OffsetRange,   \* uint32_t, the offsets readFile and writeFile take
          MetaInit,      \* entries metadata_ starts with, 1024 in the code
          Children,      \* bound: nids the links of a new root lead to
          Stray,         \* bound: nids storage that was freed may read as
          MaxChanges,    \* bound: changes of nodes in the tree
          MaxFailures,   \* bound: pwrite calls that fail
          Cuts,          \* bound: how many bytes such a call may write
          MaxRestarts    \* bound: restarts

\* A node with one pivot whose buffer is empty: the first root, and every
\* root when it gets its first pivot.
OneLink(isLeaf, child) ==
    [isLeaf |-> isLeaf,
     pivots |-> <<[childNid |-> child, leftKey |-> <<>>, msgs |-> <<>>]>>]

ASSUME SizesAssumption ==
    /\ Region \in Nat \ {0} /\ OffsetRange \in Nat /\ MetaInit \in Nat
    /\ Cuts \subseteq Nat
    /\ Children \subseteq Nids /\ Stray \subseteq 0..(IntRange - 1)

ASSUME ContentsAssumption ==
    /\ \A s \in Shapes : /\ s \in [isLeaf : {0, 1}, pivots : PivotLists]
                         /\ s.pivots # <<>>
    /\ Bufs \subseteq MsgLists

\* A nid has an entry in metadata_ and an offset a uint32_t can hold.
ASSUME NidsAssumption ==
    1 \in Nids /\ \A n \in Nids : /\ n \in Nat \ {0} /\ n < MetaInit /\ n < IntRange
                    /\ (n + 1) * Region <= OffsetRange

VARIABLES
    node,        \* the nodes in memory: isLeaf_, self_, pivots_; a nid not in
                 \* use has no pivots
    making,      \* those that are new roots with one pivot so far
    file,        \* the bytes of the data file
    metadata,    \* metadata_; entry i is that of nid i - 1
    writeBuf,    \* the readable bytes of writeBuf_
    dirtyNodes,  \* the nids write is called with
    todo,        \* those the loop has still to visit
    pc,          \* control point of the loop
    pivot,       \* the pivot to serialize next, 0 before the first
    pivots,      \* local variable of serialize: their number
    size,        \* local variable of write: bytes handed to writeFile
    saved,       \* for every nid the node last serialized for it, and whether
                 \* its image was written alone and without a failure
    changes, failures, restarts

loop == <<dirtyNodes, todo, pc, pivot, pivots, size>>
bounds == <<changes, failures, restarts>>
vars == <<node, making, file, metadata, writeBuf, loop, saved, bounds>>

Numbered(s, n) == [isLeaf |-> s.isLeaf, self |-> n, pivots |-> s.pivots]
NoPosition == [offset |-> 0, size |-> 0]

\* The constructors, and Layout::init on a file that is not there yet.
FirstNodes ==
    [n \in Nids |-> IF n = 1 THEN Numbered(OneLink(1, 0), 1)
                    ELSE [isLeaf |-> 1, self |-> n, pivots |-> <<>>]]
EmptyMetadata == [i \in 1..MetaInit |-> NoPosition]
NothingSaved == [n \in Nids |-> [clean |-> FALSE]]

Init ==
    /\ node = FirstNodes /\ making = {}
    /\ file = <<>>
    /\ metadata = EmptyMetadata
    /\ writeBuf = <<>>
    /\ dirtyNodes = {} /\ todo = {} /\ pc = "scan"
    /\ pivot = 0 /\ pivots = 0 /\ size = 0
    /\ saved = NothingSaved
    /\ changes = 0 /\ failures = 0 /\ restarts = 0

cur == Min(todo)

-----------------------------------------------------------------------------
\* What the tree does meanwhile

InUse == {n \in Nids : node[n].pivots # <<>>}

\* What the tree does leaves Layout alone.
LayoutStays ==
    UNCHANGED <<file, metadata, writeBuf, loop, saved, failures, restarts>>

\* splitNode makes a node and gives it the upper pivots of another one before
\* it marks it.
NewNode(n, s) ==
    /\ n \notin InUse
    /\ node' = [node EXCEPT ![n] = Numbered(s, n)]
    /\ UNCHANGED <<making, changes>> /\ LayoutStays

\* It makes a new root and adds the link to the node that was split, which
\* marks the root: from here on write-back may serialize it.
NewRoot(n, child) ==
    /\ n \notin InUse
    /\ node' = [node EXCEPT ![n] = Numbered(OneLink(0, child), n)]
    /\ making' = making \cup {n}
    /\ UNCHANGED changes /\ LayoutStays

\* Then it adds the second link, behind the first and with no lock held.
AddSecondPivot(n, child, key) ==
    /\ n \in making
    /\ node' = [node EXCEPT ![n].pivots =
                    Append(@, [childNid |-> child, leftKey |-> key, msgs |-> <<>>])]
    /\ making' = making \ {n}
    /\ UNCHANGED changes /\ LayoutStays

\* A change of the pivots, under the write lock.
Restructure(n, s) ==
    /\ n \in InUse \ making
    /\ changes < MaxChanges
    /\ ~(pc = "serialize" /\ n = cur)
    /\ changes' = changes + 1
    /\ node' = [node EXCEPT ![n] = Numbered(s, n)]
    /\ UNCHANGED making /\ LayoutStays

\* A change of one buffer, under the read lock and the mutex of the buffer.
ChangeBuf(n, i, b) ==
    /\ n \in InUse \ making
    /\ changes < MaxChanges
    /\ changes' = changes + 1
    /\ node' = [node EXCEPT ![n].pivots[i].msgs = b]
    /\ UNCHANGED making /\ LayoutStays

-----------------------------------------------------------------------------
\* Layout::write

\* Mutant of StartWrite: the thread collects the nodes afresh in each round.
StartWriteAfresh ==
    /\ pc = "scan"
    /\ \E S \in (SUBSET InUse) \ {{}} : dirtyNodes' = S
    /\ todo' = dirtyNodes'
    /\ writeBuf' = <<>>
    /\ pc' = "serialize" /\ pivot' = 0
    /\ UNCHANGED <<node, making, file, metadata, pivots, size, saved, bounds>>

\* The scan of Cache::writeBack has collected more nodes or none; write begins
\* with an empty buffer.
StartWrite ==
    /\ pc = "scan"
    /\ \E S \in (SUBSET InUse) \ {{}} : dirtyNodes \subseteq S /\ dirtyNodes' = S
    /\ todo' = dirtyNodes'
    /\ writeBuf' = <<>>
    /\ pc' = "serialize" /\ pivot' = 0
    /\ UNCHANGED <<node, making, file, metadata, pivots, size, saved, bounds>>

\* The head of the node with the smallest nid left, under its read lock.
SerializeHead ==
    LET nd == node[cur]
    IN  /\ pc = "serialize" /\ pivot = 0
        /\ writeBuf' = writeBuf \o HeadImage(nd.isLeaf, nd.self, Len(nd.pivots))
        /\ saved' = [saved EXCEPT ![cur] =
                        [clean |-> writeBuf = <<>>,
                         node  |-> [nd EXCEPT !.pivots = <<>>]]]
        /\ pivot' = 1 /\ pivots' = Len(nd.pivots)
        /\ UNCHANGED <<node, making, file, metadata, dirtyNodes, todo, pc, size,
                       bounds>>

\* The pivot as serialize reads it.  While a new root gets its second pivot the
\* first one moves to other storage, and childNid may be read from the old.
\* (Other fields read from there end the process, which Restart covers.)
AsRead(p) ==
    {p} \cup (IF cur \in making THEN {[p EXCEPT !.childNid = c] : c \in Stray} ELSE {})

\* Mutant of SerializePivot: the loop compares with pivots_.size().
SerializePivotToEnd ==
    /\ pc = "serialize" /\ pivot > 0
    /\ \E p \in AsRead(node[cur].pivots[pivot]) :
        /\ writeBuf' = writeBuf \o PivotImage(p)
        /\ saved' = [saved EXCEPT ![cur].node.pivots = Append(@, p)]
    /\ IF pivot = Len(node[cur].pivots)
       THEN pc' = "write" /\ pivot' = 0 /\ pivots' = 0
       ELSE pc' = pc /\ pivot' = pivot + 1 /\ UNCHANGED pivots
    /\ UNCHANGED <<node, making, file, metadata, dirtyNodes, todo, size, bounds>>

\* One pivot, the buffer under its mutex, and as many as there were at first.
SerializePivot ==
    /\ pc = "serialize" /\ pivot > 0
    /\ \E p \in AsRead(node[cur].pivots[pivot]) :
        /\ writeBuf' = writeBuf \o PivotImage(p)
        /\ saved' = [saved EXCEPT ![cur].node.pivots = Append(@, p)]
    /\ IF pivot = pivots
       THEN pc' = "write" /\ pivot' = 0 /\ pivots' = 0
       ELSE pc' = pc /\ pivot' = pivot + 1 /\ UNCHANGED pivots
    /\ UNCHANGED <<node, making, file, metadata, dirtyNodes, todo, size, bounds>>

\* The offset of a nid, an unsigned 32-bit number.
Offset(nid) == (nid * Region) % OffsetRange

\* pwrite: the file with data at offset o, filled up with zeros before it.
Pwrite(o, data) ==
    [i \in 1..Max({Len(file), o + Len(data)}) |->
        IF i \in (o + 1)..(o + Len(data)) THEN data[i - o]
        ELSE IF i <= Len(file) THEN file[i] ELSE 0]

\* Layout::writeFile: everything readable in writeBuf_, which is then retrieved.
WriteFile ==
    /\ pc = "write"
    /\ file' = Pwrite(Offset(cur), writeBuf)
    /\ writeBuf' = <<>>
    /\ size' = Len(writeBuf)
    /\ pc' = "metadata"
    /\ UNCHANGED <<node, making, metadata, dirtyNodes, todo, pivot, pivots, saved,
                   bounds>>

\* pwrite writes less than it should, possibly nothing.
WriteFileFails ==
    /\ pc = "write" /\ failures < MaxFailures
    /\ failures' = failures + 1
    /\ \E n \in Cuts :
        /\ n < Len(writeBuf)
        /\ file' = IF n = 0 THEN file
                   ELSE Pwrite(Offset(cur), SubSeq(writeBuf, 1, n))
    /\ saved' = [saved EXCEPT ![cur].clean = FALSE]
    /\ size' = Len(writeBuf)
    /\ pc' = "metadata"
    /\ UNCHANGED <<node, making, metadata, writeBuf, dirtyNodes, todo, pivot,
                   pivots, changes, restarts>>

\* metadata_ with position p entered for nid.  A nid equal to the number of
\* entries is written past the end: no entry changes.
Entered(nid, p) ==
    IF nid > Len(metadata) THEN Append(metadata, p)
    ELSE [metadata EXCEPT ![nid + 1] = p]

\* Mutant of UpdateMetadata: the size is taken after the write.
UpdateMetadataLate ==
    /\ pc = "metadata"
    /\ metadata' = Entered(cur, [offset |-> Offset(cur), size |-> Len(writeBuf)])
    /\ todo' = todo \ {cur}
    /\ pc' = IF todo' = {} THEN "scan" ELSE "serialize"
    /\ size' = 0
    /\ UNCHANGED <<node, making, file, writeBuf, dirtyNodes, pivot, pivots, saved,
                   bounds>>

\* The entry of the node, whether it was written or not; then the next node.
UpdateMetadata ==
    /\ pc = "metadata"
    /\ metadata' = Entered(cur, [offset |-> Offset(cur), size |-> size])
    /\ todo' = todo \ {cur}
    /\ pc' = IF todo' = {} THEN "scan" ELSE "serialize"
    /\ size' = 0
    /\ UNCHANGED <<node, making, file, writeBuf, dirtyNodes, pivot, pivots, saved,
                   bounds>>

-----------------------------------------------------------------------------
\* The process ends at any point and the database is opened again,
\* on the file as it is.
Restart ==
    /\ restarts < MaxRestarts
    /\ restarts' = restarts + 1
    /\ node' = FirstNodes /\ making' = {}
    /\ metadata' = EmptyMetadata
    /\ writeBuf' = <<>>
    /\ dirtyNodes' = {} /\ todo' = {} /\ pc' = "scan"
    /\ pivot' = 0 /\ pivots' = 0 /\ size' = 0
    /\ saved' = NothingSaved
    /\ UNCHANGED <<file, changes, failures>>

WriteStep ==
    \/ StartWrite \/ SerializeHead \/ SerializePivot
    \/ WriteFile \/ WriteFileFails \/ UpdateMetadata

\* The left keys a node can be cut at, middleKey in splitNode.
MiddleKeys ==
    UNION {{s.pivots[i].leftKey : i \in 2..Len(s.pivots)} : s \in Shapes}

AddSecond ==
    \E n \in making, c \in Children, key \in MiddleKeys : AddSecondPivot(n, c, key)

Next ==
    \/ \E n \in Nids :
        \/ \E s \in Shapes : NewNode(n, s) \/ Restructure(n, s)
        \/ \E c \in Children : NewRoot(n, c)
        \/ \E i \in DOMAIN node[n].pivots, b \in Bufs : ChangeBuf(n, i, b)
    \/ AddSecond
    \/ WriteStep
    \/ Restart

Spec == Init /\ [][Next]_vars

\* The write-back thread keeps going, and so does a thread inside splitNode,
\* which waits for nothing between the two links of a new root.
FairSpec == Spec /\ WF_vars(WriteStep) /\ WF_vars(AddSecond)

-----------------------------------------------------------------------------
\* Reading changes nothing here.

\* Layout::readFile.  A read past the end of the file leaves the buffer empty.
ReadFile(offset, len) ==
    IF offset + len <= Len(file) THEN SubSeq(file, offset + 1, offset + len)
    ELSE <<>>

\* Layout::find and Node::deserialize: the node read for nid.
Read(nid) ==
    LET p == metadata[nid + 1] IN ReadNode(ReadFile(p.offset, p.size))

-----------------------------------------------------------------------------
\* Properties

\* Values are as long as their keys.
EqualLengths(nd) ==
    \A i \in DOMAIN nd.pivots : \A j \in DOMAIN nd.pivots[i].msgs :
        LET m == nd.pivots[i].msgs[j]
        IN  m.type = Put => Len(m.value) = Len(m.key)

\* The loop has written nid without a failure and has passed it, or not yet
\* begun a new round.
Settled(nid) == nid \notin todo /\ saved[nid].clean

\* The image of a node stays inside its region.
Fits(nd) == Len(NodeImage(nd)) <= Region

\* Once write has passed a node whose own write went well, and whose own image
\* stayed inside its region, the node is read back from the file exactly as it
\* was serialized, whatever happened to other nodes: writes that failed before
\* or after it, images too long for their regions that reached into this one,
\* stale bytes of a run before the last restart.
ReadsBack ==
    \A n \in Nids :
        Settled(n) /\ Fits(saved[n].node) /\ EqualLengths(saved[n].node) =>
            Read(n) = [ok |-> TRUE, node |-> saved[n].node]

\* No image that reaches out of its region is written over that of node n
\* before node n is written again.
Undisturbed(n) ==
    n \notin todo \/ \A m \in dirtyNodes : m < n => Fits(node[m])

\* When changes, failures and restarts have ceased, the file comes to hold
\* every node that has once been collected and fits, in its latest state and
\* readable.  It holds it for good, but for the time from the write of a node
\* that does not fit to its own write in each round.
FileCatchesUp ==
    <>[](\A n \in dirtyNodes :
            EqualLengths(node[n]) /\ Fits(node[n]) /\ Undisturbed(n) =>
                Read(n) = [ok |-> TRUE, node |-> node[n]])

\* The size the cache counts a node with is no less than what is written.
SizeCoversImage ==
    \A n \in Nids : Len(NodeImage(node[n])) <= WriteBackSize(node[n])

\* The assertions of peekInt8, peekInt32 and peekString, that the buffer holds
\* as many bytes as are to be read, hold when a node is read whose write went
\* well.
ReadAssertions == \A n \in Nids : Settled(n) => Read(n).ok

-----------------------------------------------------------------------------
\* The inductive invariant

NodeRecords == [isLeaf : {0, 1}, self : Nids, pivots : PivotLists]

TypeOK ==
    /\ node \in [Nids -> NodeRecords]
    /\ making \subseteq Nids
    /\ file \in Seq(Byte) /\ writeBuf \in Seq(Byte)
    /\ metadata \in [1..MetaInit -> [offset : Nat, size : Nat]]
    /\ dirtyNodes \subseteq Nids /\ todo \subseteq dirtyNodes
    /\ pc \in {"scan", "serialize", "write", "metadata"}
    /\ pivot \in Nat /\ pivots \in Nat /\ size \in Nat
    /\ \A n \in Nids : \/ saved[n] = [clean |-> FALSE]
                       \/ saved[n] \in [clean : BOOLEAN, node : NodeRecords]
    /\ DOMAIN saved = Nids

\* A node keeps its nid, those write knows of have pivots, and a new root has
\* one.
NodesInv ==
    /\ \A n \in Nids : node[n].self = n
    /\ dirtyNodes \subseteq InUse
    /\ \A n \in making : Len(node[n].pivots) = 1

\* The loop visits the nodes in the order of their nids.
LoopInv ==
    /\ pc = "scan" <=> todo = {}
    /\ \A n \in dirtyNodes \ todo, m \in todo : n < m
    /\ pivot > 0 => /\ pc = "serialize"
                    /\ pivot <= pivots /\ pivots <= Len(node[cur].pivots)

\* A node once serialized is in every later round.
SavedInv ==
    \A n \in Nids : saved[n].clean => n \in dirtyNodes /\ saved[n].node.self = n

\* The bytes from offset o of the file on are data.
InFile(o, data) ==
    /\ o + Len(data) <= Len(file)
    /\ \A i \in 1..Len(data) : file[o + i] = data[i]

\* What has become of the node the loop is at, up to its control point.
CurrentInv ==
    LET s == saved[cur]
    IN  /\ pivot > 0 \/ pc \in {"write", "metadata"} => s # [clean |-> FALSE]
        /\ pivot > 0 => Len(s.node.pivots) = pivot - 1
        /\ pivot > 0 /\ s.clean =>
              writeBuf = HeadImage(s.node.isLeaf, cur, pivots)
                           \o PivotImages(s.node.pivots)
        /\ pc \in {"write", "metadata"} /\ s.clean => s.node.pivots # <<>>
        /\ pc = "write" /\ s.clean => writeBuf = NodeImage(s.node)
        /\ pc = "metadata" /\ s.clean =>
              /\ size = Len(NodeImage(s.node))
              /\ InFile(Offset(cur), NodeImage(s.node))

\* A node the loop has passed is in the file where its entry says.
StoredInv ==
    \A n \in Nids : Settled(n) =>
        LET image == NodeImage(saved[n].node)
        IN  /\ saved[n].node.pivots # <<>>
            /\ metadata[n + 1] = [offset |-> Offset(n), size |-> Len(image)]
            /\ Fits(saved[n].node) => InFile(Offset(n), image)

Inv == TypeOK /\ NodesInv /\ LoopInv /\ SavedInv /\ CurrentInv /\ StoredInv

=============================================================================
