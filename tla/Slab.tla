-------------------------------- MODULE Slab --------------------------------
(***************************************************************************)
(* The slab allocator (src/src/Slab.h, src/src/Slab.cpp).                  *)
(*                                                                         *)
(* The arena is a row of pages, each with a header (slab, next, prev).     *)
(* Free pages form runs on the list of free_.  A page that is cut into     *)
(* chunks of 1 << shift bytes is on the list of its slot as long as it has *)
(* a free chunk, and on no list when it is full.  The two low bits of prev *)
(* are the type of the page.  Lists are kept as the pointers they are;     *)
(* list cells are numbers: the pages, then free_, then the slots.          *)
(*                                                                         *)
(* The bitmap of a page is the set of its chunks in use, whether the code  *)
(* keeps it in the header (EXACT, BIG) or in the first chunks of the page  *)
(* (SMALL).  Callers give back only what they were given, once.            *)
(***************************************************************************)
EXTENDS Integers, FiniteSets, FiniteSetsExt

CONSTANTS PageShift,   \* log2 of pageSize_ (12 in the code)
          MinShift,    \* minShift_ (3)
          WordBits,    \* bits of a uintptr_t (64)
          NPages,      \* pages of the arena
          Sizes,       \* the sizes that are asked for
          MaxLive      \* bound: blocks in use at a time

\* 1 << n.
pow2[n \in 0..PageShift] == IF n = 0 THEN 1 ELSE 2 * pow2[n - 1]

pageSize == pow2[PageShift]
minSize == pow2[MinShift]
exactSize == pageSize \div WordBits

Shifts == MinShift..(PageShift - 1)

ASSUME SlabAssumption ==
    /\ MinShift \in Nat \ {0} /\ PageShift \in Nat /\ MinShift < PageShift
    /\ \E s \in Shifts : exactSize = pow2[s]
    /\ NPages \in Nat \ {0} /\ Sizes \subseteq Nat \ {0} /\ MaxLive \in Nat

exactShift == CHOOSE s \in Shifts : exactSize = pow2[s]

Pages == 0..(NPages - 1)
FreeCell == NPages
Slot(shift) == NPages + shift
Heads == {FreeCell} \cup {Slot(s) : s \in Shifts}
Cells == Pages \cup Heads
NULL == -1

\* The values of the word slab.
FreeRun(n)     == [kind |-> "free", n |-> n]      \* n free pages; 0: PAGE_FREE
StartOf(n)     == [kind |-> "start", n |-> n]     \* n | SLAB_PAGE_START
Busy           == [kind |-> "busy", n |-> 0]      \* SLAB_PAGE_BUSY
Map(shift, S)  == [kind |-> "map", shift |-> shift, used |-> S]

Link(cell, type) == [to |-> cell, type |-> type]

TypeOf(shift) ==
    CASE shift < exactShift -> "SMALL"
      [] shift = exactShift -> "EXACT"
      [] OTHER -> "BIG"

Chunks(shift) == 0..(pow2[PageShift - shift] - 1)

\* The chunks of a SMALL page that its bitmap takes.
Reserved(shift) ==
    IF shift < exactShift
    THEN Max({1, (pow2[PageShift - shift] \div 8) \div pow2[shift]})
    ELSE 0

VARIABLES heap,        \* the headers: slab of a page, next and prev of a cell
          live         \* the blocks in use: offset from start_ and size

vars == <<heap, live>>

\* Slab::init.
Init ==
    /\ heap = [slab |-> [p \in Pages |-> FreeRun(IF p = 0 THEN NPages ELSE 0)],
               next |-> [x \in Cells |-> CASE x = FreeCell -> 0
                                           [] x = 0 -> FreeCell
                                           [] x \in Pages \ {0} -> NULL
                                           [] OTHER -> x],
               prev |-> [x \in Cells |->
                            Link(IF x = 0 THEN FreeCell ELSE NULL, "PAGE")]]
    /\ live = {}

-----------------------------------------------------------------------------
\* Operations on the headers h

\* prev->next = page->next; page->next->prev = page->prev;
Unlink(h, p) ==
    [h EXCEPT !.next[h.prev[p].to] = h.next[p],
              !.prev[h.next[p]] = h.prev[p]]

PushFront(h, head, p, type) ==
    [h EXCEPT !.next[p] = h.next[head],
              !.next[head] = p,
              !.prev[p] = Link(head, type),
              !.prev[h.next[head]] = Link(p, type)]

\* The first run of the free list with n pages, or NULL.
FirstFit(h, n) ==
    LET cell[i \in 0..NPages] ==
            IF i = 0 THEN h.next[FreeCell] ELSE h.next[cell[i - 1]]
        fits == {i \in 0..NPages :
                    /\ \A j \in 0..i : cell[j] # FreeCell
                    /\ h.slab[cell[i]].n >= n}
    IN  IF fits = {} THEN NULL ELSE cell[Min(fits)]

\* Mutant of SplitRun: the cell after the run leads back to its old start.
SplitRunForward(h, p, n) ==
    [h EXCEPT !.slab[p + n] = FreeRun(h.slab[p].n - n),
              !.next[p + n] = h.next[p],
              !.prev[p + n] = h.prev[p],
              !.next[h.prev[p].to] = p + n]

\* The rest of a run that is longer than n takes its place on the list.
SplitRun(h, p, n) ==
    [h EXCEPT !.slab[p + n] = FreeRun(h.slab[p].n - n),
              !.next[p + n] = h.next[p],
              !.prev[p + n] = h.prev[p],
              !.next[h.prev[p].to] = p + n,
              !.prev[h.next[p]] = Link(p + n, "PAGE")]

\* allocPages, for the run p that FirstFit found.
AllocPages(h, p, n) ==
    LET g == IF h.slab[p].n > n THEN SplitRun(h, p, n) ELSE Unlink(h, p)
        taken == p..(p + n - 1)
    IN  [slab |-> [q \in Pages |->
                    CASE q = p -> StartOf(n)
                      [] q \in taken \ {p} -> Busy
                      [] OTHER -> g.slab[q]],
         next |-> [x \in Cells |-> IF x \in taken THEN NULL ELSE g.next[x]],
         prev |-> [x \in Cells |->
                    IF x \in taken THEN Link(NULL, "PAGE") ELSE g.prev[x]]]

\* freePages.  The memset clears n - 1 words, where a header has three: of the
\* further pages of a long run only the first third are marked free.
FreePages(h, p, n) ==
    LET cleared == {q \in (p + 1)..(p + n - 1) : 3 * (q - p - 1) < n - 1}
        g == IF h.next[p] # NULL THEN Unlink(h, p) ELSE h
        marked == [g EXCEPT !.slab = [q \in Pages |->
                    CASE q = p -> FreeRun(n)
                      [] q \in cleared -> FreeRun(0)
                      [] OTHER -> g.slab[q]]]
    IN  PushFront(marked, FreeCell, p, "PAGE")

-----------------------------------------------------------------------------
\* alloc

\* Mutant of PagesFor: the part of a page at the end is not counted.
PagesForWhole(size) == Max({1, size \div pageSize})

PagesFor(size) ==
    size \div pageSize + (IF size % pageSize # 0 THEN 1 ELSE 0)

\* The chunks for a size: the least power of two, from minSize_ on.
ShiftFor(size) == Min({s \in Shifts : size <= pow2[s]})

Give(at, size) == live' = live \cup {[at |-> at, size |-> size]}

\* Sizes from half a page on get pages of their own.
AllocLarge(size) ==
    LET n == PagesFor(size)
        p == FirstFit(heap, n)
    IN  /\ size >= pageSize \div 2
        /\ p # NULL
        /\ heap' = AllocPages(heap, p, n)
        /\ Give(p * pageSize, size)

\* Others get the first free chunk of the first page on the list of the slot.
\* Only pages with a free chunk are on it (ListsExact), so the loop over the
\* list ends in its first round.
AllocChunk(size) ==
    LET s == ShiftFor(size)
        p == heap.next[Slot(s)]
        c == Min(Chunks(s) \ heap.slab[p].used)
        used == heap.slab[p].used \cup {c}
        h == [heap EXCEPT !.slab[p] = Map(s, used)]
    IN  /\ size < pageSize \div 2
        /\ p # Slot(s)
        /\ heap' = IF used # Chunks(s) THEN h
                   ELSE [Unlink(h, p) EXCEPT !.next[p] = NULL,
                                             !.prev[p] = Link(NULL, TypeOf(s))]
        /\ Give(p * pageSize + c * pow2[s], size)

\* Mutant of FreshMap: (1 << n) - 1 marks the bitmap, and not the first chunk.
FreshMapBare(s) == Map(s, 0..(Reserved(s) - 1))

\* A new page: the chunks of its bitmap and the first one after them are used.
FreshMap(s) == Map(s, 0..Reserved(s))

\* The list of the slot is empty: cut a new page.
AllocFresh(size) ==
    LET s == ShiftFor(size)
        p == FirstFit(heap, 1)
    IN  /\ size < pageSize \div 2
        /\ heap.next[Slot(s)] = Slot(s)
        /\ p # NULL
        /\ heap' = [AllocPages(heap, p, 1) EXCEPT
                        !.slab[p] = FreshMap(s),
                        !.next[p] = Slot(s),
                        !.prev[p] = Link(Slot(s), TypeOf(s)),
                        !.next[Slot(s)] = p]
        /\ Give(p * pageSize + Reserved(s) * pow2[s], size)

\* No page is left: the null pointer.
AllocFails(size) ==
    /\ IF size >= pageSize \div 2 THEN FirstFit(heap, PagesFor(size)) = NULL
       ELSE heap.next[Slot(ShiftFor(size))] = Slot(ShiftFor(size))
            /\ FirstFit(heap, 1) = NULL
    /\ UNCHANGED vars

-----------------------------------------------------------------------------
\* free

PageOf(b) == b.at \div pageSize
ChunkOf(b) == (b.at % pageSize) \div pow2[heap.slab[PageOf(b)].shift]

\* Mutant of FreeLarge: the length of the run is forgotten.
FreeLargeOne(b) ==
    LET p == PageOf(b)
    IN  /\ heap.prev[p].type = "PAGE"
        /\ heap.slab[p].kind # "busy" /\ heap.slab[p].n # 0
        /\ heap' = FreePages(heap, p, 1)
        /\ live' = live \ {b}

\* A block of pages; free fails for PAGE_FREE and PAGE_BUSY.
FreeLarge(b) ==
    LET p == PageOf(b)
    IN  /\ heap.prev[p].type = "PAGE"
        /\ heap.slab[p].kind # "busy" /\ heap.slab[p].n # 0
        /\ heap' = FreePages(heap, p, heap.slab[p].n)
        /\ live' = live \ {b}

\* Mutant of Relist: a full page stays off its list.
RelistNever(h, p, s) == h

\* A full page, which is on no list, goes back to the front of its list.
Relist(h, p, s) ==
    IF h.next[p] = NULL THEN PushFront(h, Slot(s), p, TypeOf(s)) ELSE h

\* A chunk.  The last one of an EXACT or BIG page frees the page.  A SMALL page
\* is kept for good: the test for its last chunk shifts 1 by pageSize_ - shift,
\* which the processor takes modulo 32; n becomes a multiple of 64, the mask 0,
\* and the bits of the bitmap's own chunks always count as in use.
FreeChunk(b) ==
    LET p == PageOf(b)
        s == heap.slab[p].shift
        used == heap.slab[p].used \ {ChunkOf(b)}
        h == [Relist(heap, p, s) EXCEPT !.slab[p] = Map(s, used)]
    IN  /\ heap.prev[p].type # "PAGE"
        /\ ChunkOf(b) \in heap.slab[p].used
        /\ heap' = IF heap.prev[p].type # "SMALL" /\ used = {}
                   THEN FreePages(h, p, 1) ELSE h
        /\ live' = live \ {b}

Alloc(size) ==
    /\ Cardinality(live) < MaxLive
    /\ \/ AllocLarge(size)
       \/ AllocChunk(size)
       \/ AllocFresh(size)
       \/ AllocFails(size)

Next ==
    \/ \E size \in Sizes : Alloc(size)
    \/ \E b \in live : FreeLarge(b) \/ FreeChunk(b)

Spec == Init /\ [][Next]_vars

-----------------------------------------------------------------------------
\* Properties

\* The i-th cell of a list, and the pages on it.
CellAt(head) ==
    LET c[i \in 0..NPages] ==
            IF i = 0 THEN heap.next[head]
            ELSE LET x == c[i - 1] IN IF x \in Pages THEN heap.next[x] ELSE x
    IN  c
OnList(head) ==
    LET cell == CellAt(head) IN {cell[i] : i \in 0..NPages} \cap Pages

IsMap(p) == heap.slab[p].kind = "map"
HasRoom(p, s) ==
    IsMap(p) /\ heap.slab[p].shift = s /\ heap.slab[p].used # Chunks(s)
IsFreeRun(p) == heap.slab[p].kind = "free" /\ heap.slab[p].n > 0

\* allocLocked and freeLocked link and unlink pages by hand, and take a null
\* next for "on no list": every list ends at its head, holds exactly the pages
\* with a free chunk of its size (or the free runs), each once and with its
\* type, and prev leads back along next.
ListsExact ==
    /\ \A head \in Heads :
        /\ CellAt(head)[NPages] = head
        /\ \A p \in OnList(head) : heap.next[heap.prev[p].to] = p
    /\ OnList(FreeCell) = {p \in Pages : IsFreeRun(p)}
    /\ \A s \in Shifts : OnList(Slot(s)) = {p \in Pages : HasRoom(p, s)}
    /\ \A p \in Pages :
        /\ heap.prev[p].type = IF IsMap(p) THEN TypeOf(heap.slab[p].shift)
                               ELSE "PAGE"
        /\ heap.next[p] = NULL <=>
            ~IsFreeRun(p) /\ \A s \in Shifts : ~HasRoom(p, s)

Covers(q, p) ==
    IF IsMap(q) THEN p = q ELSE p \in q..(q + heap.slab[q].n - 1)

\* Splitting runs and giving them back neither loses a page nor hands it out
\* twice: every page is in one free run, one block of pages, or cut in chunks.
PagesCovered ==
    \A p \in Pages : Cardinality({q \in Pages : Covers(q, p)}) = 1

BlocksIn(p) == {b \in live : PageOf(b) = p}

\* What the headers and bitmaps say is in use is what the callers hold, and
\* no caller holds bytes of a bitmap.
UsedIsLive ==
    \A p \in Pages :
        IF IsMap(p)
        THEN LET s == heap.slab[p].shift
                 own == IF s < exactShift THEN 0..(Reserved(s) - 1) ELSE {}
                 bitmapBytes == (pow2[PageShift - s] + 7) \div 8
             IN  /\ heap.slab[p].used = own \cup {ChunkOf(b) : b \in BlocksIn(p)}
                 /\ Cardinality(heap.slab[p].used)
                      = Cardinality(own) + Cardinality(BlocksIn(p))
                 /\ s < exactShift =>
                        \A b \in BlocksIn(p) : b.at % pageSize >= bitmapBytes
        ELSE Cardinality(BlocksIn(p)) = IF heap.slab[p].kind = "start" THEN 1 ELSE 0

\* The inductive invariant, part by part.

\* Words and pointers have values of their kind.
Words ==
    {FreeRun(n) : n \in 0..NPages} \cup {StartOf(n) : n \in 1..NPages} \cup {Busy}
      \cup UNION {{Map(s, S) : S \in SUBSET Chunks(s)} : s \in Shifts}

Links == [to : Cells \cup {NULL}, type : {"PAGE", "SMALL", "EXACT", "BIG"}]

HeadersInv(h) ==
    h \in [slab : [Pages -> Words], next : [Cells -> Cells \cup {NULL}],
          prev : [Cells -> Links]]

\* The head of the list that a page with this word belongs to, or NULL.
Home(w) ==
    CASE w.kind = "free" /\ w.n > 0 -> FreeCell
      [] w.kind = "map" /\ w.used # Chunks(w.shift) -> Slot(w.shift)
      [] OTHER -> NULL

Homes(h) == [p \in Pages |-> Home(h.slab[p])]
Backs(h) == [x \in Cells |-> h.prev[x].to]

\* The list of a head, without walking along it: next and prev of its pages are
\* inverse to each other, stay among pages with the same head, and a way back
\* along prev leaves every set of pages, so that it ends at the head.
Linked(next, back, home) ==
    /\ \A p \in Pages :
        IF home[p] = NULL THEN next[p] = NULL /\ back[p] = NULL
        ELSE /\ home[p] \in Heads /\ next[p] \in Pages \cup {home[p]}
             /\ back[p] \in Pages \cup {home[p]} /\ next[back[p]] = p
    /\ \A head \in Heads : next[head] \in Pages \cup {head}
    /\ \A x \in Cells : next[x] \in Pages =>
            /\ back[next[x]] = x
            /\ home[next[x]] = IF x \in Pages THEN home[x] ELSE x
    /\ \A T \in SUBSET Pages : T # {} => \E p \in T : back[p] \notin T

TypeFor(w) == IF w.kind = "map" THEN TypeOf(w.shift) ELSE "PAGE"

LinksInv(h) ==
    /\ Linked(h.next, Backs(h), Homes(h))
    /\ \A p \in Pages : h.prev[p].type = TypeFor(h.slab[p])

\* The pages that belong to a page with this word.
Extent(w, p) == IF w.kind = "map" THEN {p} ELSE p..(p + w.n - 1)

PagesInv(h) ==
    /\ \A p \in Pages : Extent(h.slab[p], p) \subseteq Pages
    /\ \A p \in Pages : \E q \in Pages : p \in Extent(h.slab[q], q)
    /\ \A q, r \in Pages :
            q # r => Extent(h.slab[q], q) \cap Extent(h.slab[r], r) = {}

\* The chunks that a caller may hold, and the block of memory each one is.
Own(s) == 0..(Reserved(s) - 1)

\* What the word of page p says is in use: where it is, and its bytes.
InUse(w, p) ==
    CASE w.kind = "start" -> {[at |-> p * pageSize, len |-> w.n * pageSize]}
      [] w.kind = "map" ->
            {[at |-> p * pageSize + c * pow2[w.shift], len |-> pow2[w.shift]] :
                c \in w.used \ Own(w.shift)}
      [] OTHER -> {}

\* The blocks that are in use are those the callers hold, each by one.
BlocksInv(h, L) ==
    /\ L \subseteq [at : Nat, size : Nat \ {0}]
    /\ \A p \in Pages : h.slab[p].kind = "map" =>
            Own(h.slab[p].shift) \subseteq h.slab[p].used
    /\ \A b \in L : \E p \in Pages : \E m \in InUse(h.slab[p], p) :
            b.at = m.at /\ b.size <= m.len
    /\ \A p \in Pages : \A m \in InUse(h.slab[p], p) : \E b \in L : b.at = m.at
    /\ \A b, c \in L : b.at = c.at => b = c

Inv == HeadersInv(heap) /\ LinksInv(heap) /\ PagesInv(heap) /\ BlocksInv(heap, live)

\* The slab is an allocator: it never hands out a byte that is in use.
Abstract == INSTANCE Allocator WITH ArenaSize <- NPages * pageSize
ImplementsAllocator == Abstract!Spec

=============================================================================
