----------------------------- MODULE CacheProofs ----------------------------
(***************************************************************************)
(* Theorems about Cache.                                                   *)
(***************************************************************************)
EXTENDS Cache, Iteration, FiniteSetTheorems

\* What every turn of the eviction loop keeps, the loop keeps.
LEMMA EvictKeeps ==
    ASSUME NEW X, NEW c \in X, NEW nds, c.list \in Seq(Objs),
           \A d \in X, o \in Objs : Contains(c.list, o) => EvictOne(d, o, nds) \in X
    PROVE  EvictFromMemory(c, nds) \in X
<1> DEFINE n == Len(c.list)
           l == Reverse(c.list)
           Eq(F) == F = [s \in SUBSET (1..n) |->
                          IF s = {} THEN c
                          ELSE EvictOne(F[s \ {Max(s)}], l[Max(s)], nds)]
           iter == CHOOSE F : Eq(F)
           h == [p \in X \X (1..n) |-> EvictOne(p[1], l[p[2]], nds)]
<1>1. n \in Nat /\ DOMAIN l = 1..n
  BY DEF Reverse
<1>2. ASSUME NEW i \in 1..n PROVE l[i] \in Objs /\ Contains(c.list, l[i])
  <2>1. (n - i) + 1 \in 1..n /\ l[i] = c.list[(n - i) + 1]
    BY <1>1 DEF Reverse
  <2> QED BY <2>1 DEF Contains
<1>3. EvictFromMemory(c, nds) = iter[1..n]
  BY <1>1 DEF EvictFromMemory, FoldLeft, MapThenFoldSet
<1>4. h \in [X \X (1..n) -> X]
  <2>1. ASSUME NEW p \in X \X (1..n) PROVE EvictOne(p[1], l[p[2]], nds) \in X
    BY <1>2
  <2> HIDE DEF l, n
  <2> QED BY <2>1
<1>5. PICK f : IsFold(f, X, c, n, h)
  <2>1. n \in Nat
    BY <1>1
  <2> HIDE DEF h, l, n
  <2> QED BY <2>1, <1>4, FoldExists
<1>6. ASSUME NEW s \in SUBSET (1..n), s # {}
      PROVE  Max(s) \in 1..n /\ s \ {Max(s)} \in SUBSET (1..n)
  <2>1. s \in SUBSET (0..n)
    OBVIOUS
  <2>2. Max(s) \in s
    BY <1>1, <1>6, <2>1, LargestIn
  <2> QED BY <2>2
<1>7. Eq(f)
  <2>1. ASSUME NEW s \in SUBSET (1..n), s # {}
        PROVE  f[s] = EvictOne(f[s \ {Max(s)}], l[Max(s)], nds)
    <3>1. f[s \ {Max(s)}] \in X /\ Max(s) \in 1..n
      BY <1>5, <1>6, <2>1 DEF IsFold
    <3>2. f[s] = h[<<f[s \ {Max(s)}], Max(s)>>]
      BY <1>5, <2>1 DEF IsFold
    <3> HIDE DEF l, n
    <3> QED BY <3>1, <3>2
  <2>2. f[{}] = c
    BY <1>5 DEF IsFold
  <2> HIDE DEF l, n
  <2> QED BY <1>5, <2>1, <2>2 DEF IsFold
<1>8. Eq(iter)
  <2> HIDE DEF Eq
  <2> QED BY <1>7
<1>9. \A k \in 0..n : iter[1..k] \in X
  <2> DEFINE T == {k \in 0..n : iter[1..k] \in X}
  <2> HIDE DEF iter
  <2>1. 0 \in T
    <3>1. 1..0 = {} /\ {} \in SUBSET (1..n) /\ 0 \in 0..n
      BY <1>1
    <3>2. iter[{}] = c
      <4> HIDE DEF l, n
      <4> QED BY <1>8, <3>1
    <3> QED BY <3>1, <3>2
  <2>2. ASSUME NEW k \in 1..n, k - 1 \in T PROVE k \in T
    <3> DEFINE s == 1..k
    <3>1. s \in SUBSET (1..n) /\ s # {} /\ k \in s /\ s \in SUBSET (0..k) /\ k \in Nat
      <4>1. n \in Nat /\ k \in Nat /\ 1 <= k /\ k <= n
        BY <1>1
      <4>2. \A i \in s : i \in 1..n /\ i \in 0..k
        BY <4>1
      <4>3. k \in s
        BY <4>1
      <4> HIDE DEF s
      <4> QED BY <4>1, <4>2, <4>3
    <3>2. Max(s) = k
      <4> HIDE DEF s
      <4>1. Max(s) \in s /\ k <= Max(s)
        BY <3>1, LargestIn
      <4> QED BY <3>1, <4>1 DEF s
    <3>3. s \ {k} = 1..(k - 1)
      BY <1>1
    <3>4. iter[s] = EvictOne(iter[s \ {k}], l[k], nds)
      <4> HIDE DEF l, n, s
      <4> QED BY <1>8, <3>1, <3>2
    <3>5. iter[s] \in X
      <4>1. iter[1..(k - 1)] \in X
        BY <2>2
      <4> HIDE DEF l, n, s
      <4> QED BY <1>2, <3>3, <3>4, <4>1
    <3> QED BY <1>1, <3>5
  <2>3. T \in SUBSET (0..n)
    OBVIOUS
  <2> HIDE DEF T, n
  <2>4. \A k \in 0..n : k \in T
    BY <1>1, <2>1, <2>2, <2>3, UpTo
  <2> QED BY <2>4 DEF T
<1>10. n \in 0..n
  BY <1>1
<1> QED BY <1>3, <1>9, <1>10

\* The size of a node is a number below the limit of the cache.
LEMMA SizeBelowLimit ==
    ASSUME NEW nd \in NodeObj
    PROVE  WriteBackSize(nd) \in Nat /\ WriteBackSize(nd) <= CacheLimitMem
<1>1. nd.data \in SUBSET Changes /\ Changes = 0..MaxChanges /\ MaxChanges \in Nat
  BY BoundsAssumption DEF NodeObj, Changes
<1>2. IsFiniteSet(Changes) /\ Cardinality(Changes) = MaxChanges + 1
  BY <1>1, FS_Interval
<1>3. IsFiniteSet(nd.data) /\ Cardinality(nd.data) <= MaxChanges + 1
  BY <1>1, <1>2, FS_Subset
<1>4. Cardinality(nd.data) \in Nat
  BY <1>3, FS_CardinalityType
<1> QED BY <1>3, <1>4, BoundsAssumption, LimitAssumption DEF WriteBackSize

\* No element appears twice in the sequence s.
Once(s) == \A i, j \in 1..Len(s) : s[i] = s[j] => i = j

\* No two elements of the sequence s have one nid, unless it is nid 1.
OwnNids(s, nds) ==
    \A x, y \in Objs :
        (/\ Contains(s, x) /\ Contains(s, y)
         /\ nds[x].self = nds[y].self /\ nds[x].self > 1) => x = y

\* evictFromMemory takes nodes from the list and from the map and nothing else:
\* the order of the list stays, and a node that stays in the list stays in the
\* map.  The total does not fall below 0.
Evicted(list, size, nds, res) ==
    /\ res.list \in Seq(Objs) /\ Once(res.list)
    /\ \A x : Contains(res.list, x) => Contains(list, x)
    /\ Contains(res.list, list[1]) => res.list # <<>> /\ res.list[1] = list[1]
    /\ res.map \in [Nids -> Objs \cup {NoObj}]
    /\ \A n \in Nids : res.map[n] \in {NoObj, nodes[n]}
    /\ OwnNids(list, nds) =>
          \A x \in Objs : Contains(res.list, x) /\ nds[x].self > 1 =>
              res.map[nds[x].self] = nodes[nds[x].self]
    /\ res.size \in Nat

\* What the loop of evictFromMemory leaves of a list, from any total.
LEMMA EvictResult ==
    ASSUME NEW list \in Seq(Objs), list # <<>>, Once(list), NEW size \in Nat,
           NEW nds \in [Objs -> NodeObj], nodes \in [Nids -> Objs \cup {NoObj}]
    PROVE  Evicted(list, size, nds, EvictFromMemory(
               [list |-> list, map |-> nodes, size |-> size], nds))
<1> DEFINE c == [list |-> list, map |-> nodes, size |-> size]
           X == {d \in [list : Seq(Objs), map : [Nids -> Objs \cup {NoObj}], size : Nat] :
                    Evicted(list, size, nds, d)}
<1>1. c \in X
  <2>1. Contains(list, list[1])
    <3>1. 1 \in 1..Len(list)
      BY EmptySeq
    <3> QED BY <3>1 DEF Contains
  <2>2. Evicted(list, size, nds, c)
    BY <2>1 DEF Evicted
  <2> QED BY <2>2
<1>2. ASSUME NEW d \in X, NEW o \in Objs, Contains(list, o)
      PROVE  EvictOne(d, o, nds) \in X
  <2> DEFINE e == [d EXCEPT !.list = RemoveFirst(@, o),
                            !.map[nds[o].self] = NoObj,
                            !.size = @ - WriteBackSize(nds[o])]
  <2>1. CASE ~ (d.size >= CacheLimitMem /\ nds[o].dirty)
    BY <2>1 DEF EvictOne
  <2>2. CASE d.size >= CacheLimitMem /\ nds[o].dirty
    <3>1. EvictOne(d, o, nds) = e
      BY <2>2 DEF EvictOne
    <3>2. /\ e.list = RemoveFirst(d.list, o)
          /\ e.map = [d.map EXCEPT ![nds[o].self] = NoObj]
          /\ e.size = d.size - WriteBackSize(nds[o])
      OBVIOUS
    <3>3. d.list \in Seq(Objs) /\ Once(d.list) /\ d.size \in Nat
      BY DEF Evicted
    <3>4. /\ e.list \in Seq(Objs) /\ Once(e.list)
          /\ \A x : Contains(e.list, x) <=> Contains(d.list, x) /\ x # o
          /\ d.list # <<>> /\ d.list[1] # o => e.list # <<>> /\ e.list[1] = d.list[1]
      BY <3>2, <3>3, RemoveFirstKeeps DEF Once
    <3>5. e.size \in Nat
      BY <2>2, <3>2, <3>3, SizeBelowLimit, LimitAssumption
    <3>6. /\ e.map \in [Nids -> Objs \cup {NoObj}]
          /\ \A n \in Nids : e.map[n] \in {NoObj, nodes[n]}
      BY <3>2 DEF Evicted
    <3>7. ASSUME Contains(e.list, list[1])
          PROVE  e.list # <<>> /\ e.list[1] = list[1]
      BY <3>4, <3>7 DEF Evicted
    <3>8. ASSUME OwnNids(list, nds), NEW x \in Objs, Contains(e.list, x),
                 nds[x].self > 1
          PROVE  e.map[nds[x].self] = nodes[nds[x].self]
      <4>1. Contains(d.list, x) /\ Contains(list, x) /\ x # o
        BY <3>4, <3>8 DEF Evicted
      <4>2. nds[x].self # nds[o].self
        BY <1>2, <3>8, <4>1 DEF OwnNids
      <4>3. d.map[nds[x].self] = nodes[nds[x].self]
        BY <3>8, <4>1 DEF Evicted
      <4> QED BY <3>2, <4>2, <4>3
    <3>9. \A x : Contains(e.list, x) => Contains(list, x)
      BY <3>4 DEF Evicted
    <3>10. Evicted(list, size, nds, e)
      <4> HIDE DEF e, X
      <4> QED BY <3>4, <3>5, <3>6, <3>7, <3>8, <3>9 DEF Evicted
    <3>11. e \in [list : Seq(Objs), map : [Nids -> Objs \cup {NoObj}], size : Nat]
      BY <3>2, <3>4, <3>5, <3>6
    <3> QED BY <3>1, <3>10, <3>11
  <2> QED BY <2>1, <2>2
<1>3. EvictFromMemory(c, nds) \in X
  <2>1. c.list = list
    OBVIOUS
  <2> HIDE DEF X, c
  <2> QED BY <1>1, <1>2, <2>1, EvictKeeps
<1> QED BY <1>3

\* What Enter leaves: the assertion or dead element that breaks the cache, or a
\* list and a map in which the front of the list is entered under n.
LEMMA EnterResult ==
    ASSUME NEW c \in Clients, NEW n \in Nids, NEW next,
           NEW list \in Seq(Objs), list # <<>>, Once(list),
           NEW nds \in [Objs -> NodeObj],
           nodes \in [Nids -> Objs \cup {NoObj}], cacheSize \in Nat,
           Enter(c, n, list, nds, next)
    PROVE  /\ node' = nds
           /\ \/ /\ broken' = TRUE
                 /\ UNCHANGED <<usedNodes, nodes, cacheSize, at, held>>
              \/ /\ broken' = broken
                 /\ usedNodes' \in Seq(Objs) /\ Once(usedNodes')
                 /\ \A x : Contains(usedNodes', x) => Contains(list, x)
                 /\ nodes' \in [Nids -> Objs \cup {NoObj}]
                 /\ \A m \in Nids : m # n => nodes'[m] \in {NoObj, nodes[m]}
                 /\ Contains(list, nodes'[n])
                 /\ Contains(usedNodes', list[1]) => nodes'[n] = list[1]
                 /\ OwnNids(list, nds) =>
                      \A x \in Objs : Contains(usedNodes', x) /\ nds[x].self > 1
                                      /\ nds[x].self # n =>
                         nodes'[nds[x].self] = nodes[nds[x].self]
                 /\ cacheSize' \in Nat
                 /\ at' = [at EXCEPT ![c] = next]
                 /\ held' = [held EXCEPT ![c] = nodes'[n]]
<1> DEFINE o == Head(list)
           size == cacheSize + WriteBackSize(nds[o])
           res == EvictFromMemory([list |-> list, map |-> nodes, size |-> size], nds)
<1>1. o = list[1] /\ o \in Objs
  BY EmptySeq
<1>2. size \in Nat
  BY <1>1, SizeBelowLimit
<1> HIDE DEF size
<1>3. Evicted(list, size, nds, res)
  BY <1>2, EvictResult
<1>4. node' = nds
  BY DEF Enter
<1>5. CASE broken' = TRUE /\ UNCHANGED <<usedNodes, nodes, cacheSize, at, held>>
  BY <1>4, <1>5
<1>6. CASE ~ (broken' = TRUE /\ UNCHANGED <<usedNodes, nodes, cacheSize, at, held>>)
  <2>1. /\ Contains(res.list, o) \/ res.list # <<>>
        /\ usedNodes' = res.list
        /\ nodes' = [res.map EXCEPT ![n] = Head(res.list)]
        /\ cacheSize' = res.size
        /\ at' = [at EXCEPT ![c] = next]
        /\ held' = [held EXCEPT ![c] = Head(res.list)]
        /\ UNCHANGED broken
    BY <1>6 DEF Enter, size
  <2> HIDE DEF res
  <2>2. res.list # <<>> /\ res.list \in Seq(Objs)
    BY <1>1, <1>3, <2>1 DEF Evicted
  <2>3. Head(res.list) = res.list[1] /\ res.list[1] \in Objs /\ 1 \in 1..Len(res.list)
    BY <2>2, EmptySeq
  <2>4. Contains(res.list, res.list[1])
    BY <2>3 DEF Contains
  <2>5. /\ usedNodes' \in Seq(Objs) /\ Once(usedNodes')
        /\ \A x : Contains(usedNodes', x) => Contains(list, x)
        /\ cacheSize' \in Nat /\ broken' = broken
        /\ at' = [at EXCEPT ![c] = next]
    BY <1>3, <2>1 DEF Evicted
  <2>6. res.map \in [Nids -> Objs \cup {NoObj}]
    BY <1>3 DEF Evicted
  <2>7. /\ nodes' \in [Nids -> Objs \cup {NoObj}] /\ nodes'[n] = res.list[1]
        /\ \A m \in Nids : m # n => nodes'[m] = res.map[m]
    BY <2>1, <2>3, <2>6
  <2>8. \A m \in Nids : m # n => nodes'[m] \in {NoObj, nodes[m]}
    BY <1>3, <2>7 DEF Evicted
  <2>9. Contains(list, nodes'[n])
    BY <2>1, <2>4, <2>5, <2>7
  <2>10. Contains(usedNodes', list[1]) => nodes'[n] = list[1]
    BY <1>3, <2>1, <2>7 DEF Evicted
  <2>11. ASSUME OwnNids(list, nds), NEW x \in Objs, Contains(usedNodes', x),
                nds[x].self > 1, nds[x].self # n
         PROVE  nodes'[nds[x].self] = nodes[nds[x].self]
    <3>1. nodes'[nds[x].self] = res.map[nds[x].self]
      BY <2>1, <2>6, <2>11
    <3> QED BY <1>3, <2>1, <2>11, <3>1 DEF Evicted
  <2>12. held' = [held EXCEPT ![c] = nodes'[n]]
    BY <2>1, <2>3, <2>7
  <2> QED BY <1>4, <2>5, <2>7, <2>8, <2>9, <2>10, <2>11, <2>12
<1> QED BY <1>5, <1>6

\* What a caller of Enter has done to objects, counters and nids before it.
EnterReady(n, list, nds) ==
    /\ created' \in 0..MaxObjs /\ created <= created'
    /\ nodeCount' \in 0..MaxObjs /\ nodeCount <= nodeCount' /\ nodeCount' <= created'
    /\ misread' \in BOOLEAN /\ (misread => misread')
    /\ gets' \in 0..MaxGets
    /\ UNCHANGED <<lifeVars, changes, workerVars>>
    /\ \A o \in Objs :
        /\ o <= created => nds[o] = node[o]
        /\ IF o <= created' THEN broken \/ GivenNid(nds[o].self, nodeCount')
           ELSE nds[o] = [self |-> 0, data |-> {}, dirty |-> FALSE]
        /\ nds[o].dirty => nds[o].data # {}
        /\ created < o => nds[o].data = {} \/ nds[o].dirty
        /\ Contains(list, o) => (Listed(o) \/ created < o) /\ o <= created'
    /\ ~misread' =>
        /\ OwnNids(list, nds)
        /\ \A o \in Objs : Contains(list, o) /\ nds[o].self > 1 =>
              IF nds[o].self = n THEN o = list[1] ELSE nodes[nds[o].self] = o

\* A nid that was given out stays given out.
LEMMA GivenNidStays ==
    ASSUME NEW n, NEW a \in Nat, NEW b \in Nat, a <= b, GivenNid(n, a)
    PROVE  GivenNid(n, b)
BY DEF GivenNid

\* getNode keeps the invariant from where the node is at the front of the list.
LEMMA EnterKeeps ==
    ASSUME Inv, phase = "open", NEW c \in Clients, at[c] = "idle", NEW n \in Nids,
           NEW list \in Seq(Objs), list # <<>>, Once(list),
           NEW nds \in [Objs -> NodeObj], NEW next \in {"new", "holds"},
           EnterReady(n, list, nds), Enter(c, n, list, nds, next)
    PROVE  Inv'
<1> DEFINE Broke == /\ broken' = TRUE
                    /\ UNCHANGED <<usedNodes, nodes, cacheSize, at, held>>
           Done == /\ broken' = broken
                   /\ usedNodes' \in Seq(Objs) /\ Once(usedNodes')
                   /\ \A x : Contains(usedNodes', x) => Contains(list, x)
                   /\ nodes' \in [Nids -> Objs \cup {NoObj}]
                   /\ \A m \in Nids : m # n => nodes'[m] \in {NoObj, nodes[m]}
                   /\ Contains(list, nodes'[n])
                   /\ Contains(usedNodes', list[1]) => nodes'[n] = list[1]
                   /\ OwnNids(list, nds) =>
                        \A x \in Objs : Contains(usedNodes', x) /\ nds[x].self > 1
                                        /\ nds[x].self # n =>
                           nodes'[nds[x].self] = nodes[nds[x].self]
                   /\ cacheSize' \in Nat
                   /\ at' = [at EXCEPT ![c] = next]
                   /\ held' = [held EXCEPT ![c] = nodes'[n]]
<1>1. node' = nds /\ (Broke \/ Done)
  <2>1. nodes \in [Nids -> Objs \cup {NoObj}] /\ cacheSize \in Nat
    BY DEF Inv, CacheTypeOK
  <2> QED BY <2>1, EnterResult
<1> USE DEF EnterReady
<1>2. nodeCount \in Nat /\ nodeCount' \in Nat /\ created \in Nat /\ created' \in Nat
  BY BoundsAssumption DEF Inv, CacheTypeOK
<1>3. nodes'[n] \in Objs \cup {NoObj} /\ (Done => nodes'[n] \in 1..created')
  <2>1. nodes \in [Nids -> Objs \cup {NoObj}]
    BY DEF Inv, CacheTypeOK
  <2>2. ASSUME Done PROVE nodes'[n] \in 1..created'
    <3>1. nodes'[n] \in Objs
      BY <2>2 DEF Contains
    <3> QED BY <1>2, <2>2, <3>1, BoundsAssumption DEF Objs
  <2> QED BY <1>1, <2>1, <2>2
<1>4. CacheTypeOK'
  <2> USE DEF Inv, CacheTypeOK, lifeVars, workerVars
  <2>1. usedNodes' \in Seq(Objs) /\ nodes' \in [Nids -> Objs \cup {NoObj}] /\ cacheSize' \in Nat
    BY <1>1
  <2>2. at' \in [Clients -> {"idle", "new", "holds", "changed"}]
    <3>1. CASE Broke
      BY <3>1
    <3>2. CASE Done
      BY <3>2
    <3> QED BY <1>1, <3>1, <3>2
  <2>3. held' \in [Clients -> Objs \cup {NoObj}]
    BY <1>1, <1>3
  <2>4. broken' \in BOOLEAN
    BY <1>1
  <2> QED BY <1>1, <2>1, <2>2, <2>3, <2>4
<1>5. OpeningInv'
  <2>1. nodeCount' >= 1 /\ phase' = "open"
    BY <1>2 DEF Inv, OpeningInv, lifeVars
  <2> QED BY <2>1 DEF OpeningInv
<1>6. CreatedInv'
  BY <1>1 DEF CreatedInv
<1>7. ListInv'
  <2>1. ASSUME NEW o \in Objs, Listed(o)' PROVE o <= created'
    <3>1. CASE Broke
      <4>1. Listed(o) /\ o <= created
        BY <2>1, <3>1 DEF Inv, ListInv, Listed
      <4> QED BY <1>2, <4>1, BoundsAssumption DEF Objs
    <3>2. CASE Done
      BY <2>1, <3>2 DEF Listed
    <3> QED BY <1>1, <3>1, <3>2
  <2>2. \A i, j \in DOMAIN usedNodes' : usedNodes'[i] = usedNodes'[j] => i = j
    <3>1. CASE Broke
      BY <3>1 DEF Inv, ListInv
    <3>2. CASE Done
      <4>1. DOMAIN usedNodes' = 1..Len(usedNodes')
        BY <3>2
      <4> QED BY <3>2, <4>1 DEF Once
    <3> QED BY <1>1, <3>1, <3>2
  <2>3. ASSUME NEW m \in Nids PROVE nodes'[m] <= created'
    <3>1. nodes[m] <= created /\ nodes[m] \in Nat
      BY BoundsAssumption DEF Inv, ListInv, CacheTypeOK, Objs, NoObj
    <3> QED BY <1>1, <1>2, <1>3, <3>1 DEF NoObj
  <2> QED BY <2>1, <2>2, <2>3 DEF ListInv
<1>8. ASSUME NEW o \in 1..created PROVE o \in Objs /\ o \in 1..created' /\ node'[o] = node[o]
  <2>1. o \in Objs
    BY BoundsAssumption DEF Inv, CacheTypeOK, Objs
  <2> QED BY <1>1, <1>2, <2>1
<1>9. HeldInv'
  <2> SUFFICES ASSUME NEW d \in Clients
               PROVE  /\ at'[d] # "idle" => held'[d] \in 1..created'
                      /\ at'[d] = "changed" => node'[held'[d]].data # {}
    BY DEF HeldInv
  <2>1. CASE at'[d] = at[d] /\ held'[d] = held[d]
    BY <1>8, <2>1 DEF Inv, HeldInv
  <2>2. CASE d = c /\ Done
    <3>1. at'[d] = next /\ held'[d] = nodes'[n]
      BY <2>2 DEF Inv, CacheTypeOK
    <3> QED BY <1>3, <2>2, <3>1
  <2>3. CASE d # c /\ Done
    BY <2>1, <2>3 DEF Inv, CacheTypeOK
  <2> QED BY <1>1, <2>1, <2>2, <2>3
<1>10. WorkerInv'
  <2>1. ASSUME NEW m \in Nids, dirtyNodes'[m] # NoObj
        PROVE  /\ dirtyNodes'[m] <= created' /\ node'[dirtyNodes'[m]].self = m
               /\ node'[dirtyNodes'[m]].data # {}
    <3>1. dirtyNodes'[m] = dirtyNodes[m] /\ dirtyNodes[m] \in Objs
      BY <2>1 DEF workerVars, Inv, CacheTypeOK
    <3>2. /\ dirtyNodes[m] <= created /\ node[dirtyNodes[m]].self = m
          /\ node[dirtyNodes[m]].data # {}
      BY <2>1, <3>1 DEF Inv, WorkerInv
    <3>3. dirtyNodes[m] \in 1..created
      BY <1>2, <3>1, <3>2, BoundsAssumption DEF Objs
    <3> QED BY <1>8, <3>1, <3>2, <3>3
  <2> QED BY <2>1 DEF Inv, WorkerInv, workerVars
<1>11. ContentsInv'
  <2>1. \A o \in Objs : node'[o].dirty => node'[o].data # {}
    BY <1>1
  <2>2. writeBuf' = writeBuf /\ disk' = disk
    BY DEF workerVars
  <2>3. \A m : GivenNid(m, nodeCount) => GivenNid(m, nodeCount')
    BY <1>2, GivenNidStays
  <2> QED BY <2>1, <2>2, <2>3 DEF Inv, ContentsInv, Image
<1>12. MapInv'
  <2> SUFFICES ASSUME ~misread', NEW o \in Objs, o <= created', node'[o].self > 1,
                      Listed(o)'
               PROVE  nodes'[node'[o].self] = o
    <3>1. (1..created') \subseteq Objs
      BY <1>2, BoundsAssumption DEF Objs
    <3> QED BY <1>2, <3>1 DEF MapInv, OwnNid
  <2>1. CASE Done
    BY <1>1, <2>1 DEF Listed
  <2>2. CASE Broke
    <3>1. Listed(o) /\ o <= created /\ ~misread
      BY <2>2 DEF Inv, ListInv, Listed
    <3>2. node'[o] = node[o] /\ o \in OwnNid
      BY <1>1, <1>2, <3>1 DEF OwnNid, Objs
    <3> QED BY <2>2, <3>1, <3>2 DEF Inv, MapInv
  <2> QED BY <1>1, <2>1, <2>2
<1>13. RememberedInv'
  <2> SUFFICES ASSUME ~misread', NEW o \in Objs, o <= created', node'[o].self > 1,
                      Listed(o)'
               PROVE  \/ node'[o].data = {}
                      \/ node'[o].dirty
                      \/ \E d \in Clients : at'[d] = "changed" /\ held'[d] = o
                      \/ dirtyNodes'[node'[o].self] = o
    <3>1. (1..created') \subseteq Objs
      BY <1>2, BoundsAssumption DEF Objs
    <3> QED BY <1>2, <3>1 DEF RememberedInv, Cached, OwnNid, Listed
  <2>1. CASE created < o
    BY <1>1, <2>1
  <2>2. CASE ~ (created < o)
    <3>1. o <= created /\ Listed(o) /\ ~misread
      BY <1>1, <1>2, <2>2 DEF Listed, Objs
    <3>2. node'[o] = node[o] /\ o \in Cached
      BY <1>1, <1>2, <3>1 DEF OwnNid, Cached, Objs, Listed
    <3>3. \/ node[o].data = {}
          \/ node[o].dirty
          \/ \E d \in Clients : at[d] = "changed" /\ held[d] = o
          \/ dirtyNodes[node[o].self] = o
      BY <3>1, <3>2 DEF Inv, RememberedInv
    <3>4. \A d \in Clients : at[d] = "changed" => at'[d] = at[d] /\ held'[d] = held[d]
      BY <1>1 DEF Inv, CacheTypeOK
    <3> QED BY <3>2, <3>3, <3>4 DEF workerVars
  <2> QED BY <2>1, <2>2
<1> QED BY <1>4, <1>5, <1>6, <1>7, <1>9, <1>10, <1>11, <1>12, <1>13 DEF Inv

\* An element that a sequence does not have yet, put at its front.
LEMMA PutInFront ==
    ASSUME NEW S, NEW s \in Seq(S), Once(s), NEW e \in S, ~ Contains(s, e)
    PROVE  /\ <<e>> \o s \in Seq(S) /\ <<e>> \o s # <<>> /\ (<<e>> \o s)[1] = e
           /\ Once(<<e>> \o s)
           /\ \A x : Contains(<<e>> \o s, x) <=> x = e \/ Contains(s, x)
<1> DEFINE t == <<e>> \o s
<1>1. Len(s) \in Nat /\ <<e>> \in Seq(S) /\ Len(<<e>>) = 1 /\ <<e>>[1] = e
  BY LenProperties
<1>2. t \in Seq(S) /\ Len(t) = 1 + Len(s)
  BY <1>1, ConcatProperties
<1>3. ASSUME NEW i \in 1..(1 + Len(s)) PROVE t[i] = IF i = 1 THEN e ELSE s[i - 1]
  <2>1. t[i] = IF i <= 1 THEN <<e>>[i] ELSE s[i - 1]
    BY <1>1, ConcatProperties
  <2> QED BY <1>1, <2>1
<1> HIDE DEF t
<1>4. t[1] = e /\ t # <<>>
  BY <1>1, <1>2, <1>3, EmptySeq
<1>5. ASSUME NEW x PROVE Contains(t, x) <=> x = e \/ Contains(s, x)
  <2>1. ASSUME NEW i \in 1..Len(t), t[i] = x PROVE x = e \/ Contains(s, x)
    <3>1. CASE i = 1
      BY <1>4, <2>1, <3>1
    <3>2. CASE i # 1
      <4>1. i - 1 \in 1..Len(s) /\ s[i - 1] = x
        BY <1>1, <1>2, <1>3, <2>1, <3>2
      <4> QED BY <4>1 DEF Contains
    <3> QED BY <3>1, <3>2
  <2>2. ASSUME NEW j \in 1..Len(s), s[j] = x PROVE Contains(t, x)
    <3>1. j + 1 \in 1..Len(t) /\ t[j + 1] = x
      BY <1>1, <1>2, <1>3, <2>2
    <3> QED BY <3>1 DEF Contains
  <2>3. Contains(t, e)
    <3>1. 1 \in 1..Len(t)
      BY <1>1, <1>2
    <3> QED BY <1>4, <3>1 DEF Contains
  <2> QED BY <2>1, <2>2, <2>3 DEF Contains
<1>6. ASSUME NEW i \in 1..Len(t), NEW j \in 1..Len(t), t[i] = t[j] PROVE i = j
  <2>1. \A k \in 1..Len(t) : k # 1 => k - 1 \in 1..Len(s) /\ t[k] = s[k - 1] /\ t[k] # e
    BY <1>1, <1>2, <1>3 DEF Contains
  <2>2. CASE i = 1 \/ j = 1
    BY <1>4, <1>6, <2>1, <2>2
  <2>3. CASE i # 1 /\ j # 1
    <3>1. i - 1 = j - 1
      BY <1>6, <2>1, <2>3 DEF Once
    <3> QED BY <1>2, <3>1
  <2> QED BY <2>2, <2>3
<1> QED BY <1>2, <1>4, <1>5, <1>6 DEF t, Once

\* What the list is while the cache works.
LEMMA Basics ==
    ASSUME Inv
    PROVE  /\ usedNodes \in Seq(Objs) /\ Once(usedNodes)
           /\ node \in [Objs -> NodeObj]
           /\ created \in 0..MaxObjs /\ created \in Nat
           /\ nodeCount \in Nat /\ nodeCount <= created
           /\ Objs = 1..MaxObjs /\ Nids = 1..MaxObjs /\ MaxObjs \in Nat
           /\ \A o \in Objs : /\ node[o].self \in 0..MaxObjs
                              /\ node[o].data \in SUBSET Changes
                              /\ node[o].dirty \in BOOLEAN
           /\ \A o : Listed(o) => o \in Objs /\ o <= created
<1>1. usedNodes \in Seq(Objs) /\ DOMAIN usedNodes = 1..Len(usedNodes)
  BY DEF Inv, CacheTypeOK
<1>2. Once(usedNodes)
  BY <1>1 DEF Inv, ListInv, Once
<1>3. node \in [Objs -> NodeObj] /\ created \in 0..MaxObjs /\ nodeCount \in 0..MaxObjs
  BY DEF Inv, CacheTypeOK
<1>4. Objs = 1..MaxObjs /\ Nids = 1..MaxObjs /\ MaxObjs \in Nat
  BY BoundsAssumption DEF Objs, Nids
<1>5. \A o \in Objs : /\ node[o].self \in 0..MaxObjs /\ node[o].data \in SUBSET Changes
                     /\ node[o].dirty \in BOOLEAN
  BY <1>3 DEF NodeObj
<1>6. \A o : Listed(o) => o \in Objs
  BY <1>1 DEF Listed, Contains
<1> QED BY <1>1, <1>2, <1>3, <1>4, <1>5, <1>6 DEF Inv, ListInv, CreatedInv

\* Each step keeps the invariant.  BufferTree::createNode:
LEMMA GetNewNodeInv ==
    ASSUME Inv, NEW c \in Clients, GetNewNode(c)
    PROVE  Inv'
<1> DEFINE o == created + 1
           list == <<o>> \o usedNodes
           nds == [node EXCEPT ![o].self = nodeCount]
<1>1. /\ phase = "open" /\ ~broken /\ at[c] = "idle" /\ created < MaxObjs
      /\ created' = o /\ nodeCount' = nodeCount + 1
      /\ Enter(c, nodeCount, list, nds, "new")
      /\ UNCHANGED <<lifeVars, changes, gets, misread, workerVars>>
  BY DEF GetNewNode, Working
<1>2. o \in Objs /\ nodeCount \in Nids /\ nodeCount >= 1 /\ ~ Contains(usedNodes, o)
  BY <1>1, Basics DEF Inv, OpeningInv, Listed
<1>3. /\ list \in Seq(Objs) /\ list # <<>> /\ list[1] = o /\ Once(list)
      /\ \A x : Contains(list, x) <=> x = o \/ Listed(x)
  BY <1>2, Basics, PutInFront DEF Listed
<1> HIDE DEF list
<1>4. node[o] = [self |-> 0, data |-> {}, dirty |-> FALSE]
  BY <1>2, Basics DEF Inv, CreatedInv
<1>5. /\ nds[o].self = nodeCount /\ nds[o].data = {} /\ nds[o].dirty = FALSE
      /\ \A x \in Objs : x # o => nds[x] = node[x]
      /\ nds \in [Objs -> NodeObj]
  <2>1. nds[o] = [node[o] EXCEPT !.self = nodeCount]
    BY <1>2, Basics
  <2>2. node[o] \in NodeObj /\ nodeCount \in 0..MaxObjs
    BY <1>2, Basics
  <2>3. nds[o] \in NodeObj
    <3> HIDE DEF nds, o
    <3> QED BY <2>1, <2>2 DEF NodeObj
  <2>4. nds[o].self = nodeCount /\ nds[o].data = {} /\ nds[o].dirty = FALSE
    <3> HIDE DEF nds, o
    <3> QED BY <1>4, <2>1
  <2> QED BY <1>2, <2>3, <2>4, Basics
<1>0. o = created + 1
  OBVIOUS
<1> HIDE DEF nds, o
<1>6. \A x \in Objs : Listed(x) => x <= created /\ GivenNid(node[x].self, nodeCount)
  BY <1>1, Basics DEF Inv, CreatedInv
<1>7. EnterReady(nodeCount, list, nds)
  <2>1. /\ created' \in 0..MaxObjs /\ created <= created'
        /\ nodeCount' \in 0..MaxObjs /\ nodeCount <= nodeCount' /\ nodeCount' <= created'
    BY <1>0, <1>1, <1>2, Basics
  <2>2. misread' = misread /\ misread \in BOOLEAN /\ gets' \in 0..MaxGets
    BY <1>1 DEF Inv, CacheTypeOK
  <2>3. ASSUME NEW x \in Objs
        PROVE  /\ x <= created => nds[x] = node[x]
               /\ IF x <= created' THEN broken \/ GivenNid(nds[x].self, nodeCount')
                  ELSE nds[x] = [self |-> 0, data |-> {}, dirty |-> FALSE]
               /\ nds[x].dirty => nds[x].data # {}
               /\ created < x => nds[x].data = {} \/ nds[x].dirty
               /\ Contains(list, x) => (Listed(x) \/ created < x) /\ x <= created'
    <3>1. CASE x = o
      <4>1. GivenNid(nodeCount, nodeCount')
        BY <1>1, <1>2, Basics DEF GivenNid
      <4>2. x <= created' /\ created < x
        BY <1>0, <1>1, <3>1, Basics
      <4> QED BY <1>5, <3>1, <4>1, <4>2, Basics
    <3>2. CASE x # o
      <4>1. nds[x] = node[x]
        BY <1>5, <3>2
      <4>2. x <= created' <=> x <= created
        BY <1>0, <1>1, <3>2, Basics
      <4>3. IF x <= created THEN GivenNid(node[x].self, nodeCount)
            ELSE node[x] = [self |-> 0, data |-> {}, dirty |-> FALSE]
        BY <1>1 DEF Inv, CreatedInv
      <4>4. GivenNid(node[x].self, nodeCount) => GivenNid(node[x].self, nodeCount')
        BY <2>1, Basics, GivenNidStays
      <4>5. node[x].dirty => node[x].data # {}
        BY DEF Inv, ContentsInv
      <4>6. Contains(list, x) => Listed(x) /\ x <= created
        BY <1>3, <3>2, Basics
      <4> QED BY <4>1, <4>2, <4>3, <4>4, <4>5, <4>6, Basics
    <3> QED BY <3>1, <3>2
  <2>4. ASSUME ~misread'
        PROVE  /\ OwnNids(list, nds)
               /\ \A x \in Objs : Contains(list, x) /\ nds[x].self > 1 =>
                     IF nds[x].self = nodeCount THEN x = list[1]
                     ELSE nodes[nds[x].self] = x
    <3>1. ASSUME NEW x \in Objs, Contains(list, x), nds[x].self > 1, x # o
          PROVE  nodes[nds[x].self] = x /\ nds[x].self # nodeCount
      <4>1. nds[x] = node[x] /\ Listed(x) /\ x \in 1..created
        BY <1>3, <1>5, <3>1, Basics
      <4>2. x \in OwnNid
        BY <3>1, <4>1 DEF OwnNid
      <4>3. nodes[node[x].self] = x
        BY <2>2, <2>4, <4>1, <4>2 DEF Inv, MapInv
      <4>4. node[x].self # nodeCount
        BY <1>6, <3>1, <4>1, Basics DEF GivenNid
      <4> QED BY <4>1, <4>3, <4>4
    <3>2. \A x \in Objs : Contains(list, x) /\ nds[x].self > 1 =>
              IF nds[x].self = nodeCount THEN x = list[1]
              ELSE nodes[nds[x].self] = x
      BY <1>3, <1>5, <3>1
    <3>3. ASSUME NEW x \in Objs, NEW y \in Objs, Contains(list, x), Contains(list, y),
                 nds[x].self = nds[y].self, nds[x].self > 1
          PROVE  x = y
      BY <1>5, <3>1, <3>3
    <3>4. OwnNids(list, nds)
      BY <3>3 DEF OwnNids
    <3> QED BY <3>2, <3>4
  <2> QED BY <1>1, <2>1, <2>2, <2>3, <2>4 DEF EnterReady
<1> QED BY <1>1, <1>2, <1>3, <1>5, <1>7, EnterKeeps

\* A lookup that breaks the cache before it enters anything.
LEMMA BrokenInv ==
    ASSUME Inv, phase = "open" \/ created' = created, broken' = TRUE,
           UNCHANGED <<lifeVars, node, usedNodes, nodes, cacheSize, at, held,
                       nodeCount, changes, workerVars>>,
           gets' \in 0..MaxGets, misread' \in BOOLEAN, misread => misread',
           created' \in 0..MaxObjs, created <= created'
    PROVE  Inv'
<1> USE DEF lifeVars, workerVars
<1>1. CacheTypeOK'
  BY DEF Inv, CacheTypeOK
<1>2. OpeningInv'
  BY DEF Inv, OpeningInv
<1>3. created \in Nat /\ created' \in Nat
  BY Basics
<1>4. CreatedInv'
  BY <1>3, Basics DEF Inv, CreatedInv
<1>0. /\ nodes \in [Nids -> Objs \cup {NoObj}] /\ dirtyNodes \in [Nids -> Objs \cup {NoObj}]
      /\ Objs \cup {NoObj} \subseteq Nat
  BY Basics DEF Inv, CacheTypeOK, NoObj
<1>5. ListInv'
  <2>1. ASSUME NEW o \in Objs, Listed(o)' PROVE o <= created'
    BY <1>3, <2>1, Basics DEF Listed
  <2>2. ASSUME NEW n \in Nids PROVE nodes'[n] <= created'
    <3>1. nodes[n] <= created
      BY DEF Inv, ListInv
    <3>2. nodes[n] \in Nat
      BY <1>0
    <3> QED BY <1>3, <3>1, <3>2
  <2> QED BY <2>1, <2>2 DEF Inv, ListInv
<1>6. HeldInv'
  <2>1. 1..created \subseteq 1..created'
    BY <1>3
  <2> QED BY <2>1 DEF Inv, HeldInv
<1>7. WorkerInv'
  <2>1. ASSUME NEW n \in Nids, dirtyNodes[n] # NoObj PROVE dirtyNodes[n] <= created'
    <3>1. dirtyNodes[n] <= created
      BY <2>1 DEF Inv, WorkerInv
    <3>2. dirtyNodes[n] \in Nat
      BY <1>0
    <3> QED BY <1>3, <3>1, <3>2
  <2> QED BY <2>1 DEF Inv, WorkerInv
<1>8. ContentsInv'
  BY DEF Inv, ContentsInv, Image
<1>10. ASSUME NEW o \in OwnNid', Listed(o)' PROVE o \in OwnNid /\ Listed(o)
  BY <1>3, <1>10, Basics DEF OwnNid, Listed
<1>11. MapInv'
  BY <1>10 DEF Inv, MapInv
<1>12. RememberedInv'
  <2> SUFFICES ASSUME ~misread', NEW o \in OwnNid', Listed(o)'
               PROVE  \/ node'[o].data = {}
                      \/ node'[o].dirty
                      \/ \E d \in Clients : at'[d] = "changed" /\ held'[d] = o
                      \/ dirtyNodes'[node'[o].self] = o
    BY DEF RememberedInv, Cached, Listed
  <2>1. o \in Cached /\ ~misread
    BY <1>10 DEF Cached, Listed
  <2> QED BY <2>1 DEF Inv, RememberedInv
<1> QED BY <1>1, <1>2, <1>4, <1>5, <1>6, <1>7, <1>8, <1>11, <1>12 DEF Inv

\* A lookup that finds the node in memory: it comes to the front of the list.
LEMMA GetNodeInv ==
    ASSUME Inv, NEW c \in Clients, NEW n \in Nids, GetNode(c, n)
    PROVE  Inv'
<1> DEFINE o == nodes[n]
           list == <<o>> \o RemoveFirst(usedNodes, o)
<1>1. /\ phase = "open" /\ ~broken /\ at[c] = "idle" /\ o # NoObj
      /\ gets' \in 0..MaxGets
      /\ UNCHANGED <<lifeVars, created, nodeCount, changes, misread, workerVars>>
  BY BoundsAssumption DEF GetNode, Working, Inv, CacheTypeOK
<1>2. misread' \in BOOLEAN /\ misread' = misread /\ created' = created /\ nodeCount' = nodeCount
  BY <1>1 DEF Inv, CacheTypeOK
<1>3. CASE ~ Contains(usedNodes, o)
  <2>1. /\ broken' = TRUE
        /\ UNCHANGED <<node, usedNodes, nodes, cacheSize, at, held>>
    BY <1>3 DEF GetNode
  <2> QED BY <1>1, <1>2, <2>1, Basics, BrokenInv
<1>4. CASE Contains(usedNodes, o)
  <2>1. Enter(c, n, list, node, "holds")
    BY <1>4 DEF GetNode
  <2>2. o \in Objs /\ o <= created
    BY <1>4, Basics DEF Listed
  <2> DEFINE rest == RemoveFirst(usedNodes, o)
  <2>3. /\ rest \in Seq(Objs) /\ Once(rest)
        /\ \A x : Contains(rest, x) <=> Contains(usedNodes, x) /\ x # o
    BY Basics, RemoveFirstKeeps DEF Once
  <2> HIDE DEF rest
  <2>4. /\ list \in Seq(Objs) /\ list # <<>> /\ list[1] = o /\ Once(list)
        /\ \A x : Contains(list, x) <=> Listed(x)
    <3>1. list = <<o>> \o rest
      BY DEF rest
    <3> HIDE DEF list
    <3> QED BY <1>4, <2>2, <2>3, <3>1, PutInFront DEF Listed
  <2> HIDE DEF list
  <2>5. ASSUME ~misread, NEW x \in Objs, Contains(list, x), node[x].self > 1
        PROVE  nodes[node[x].self] = x
    <3>1. x \in OwnNid /\ Listed(x)
      BY <2>4, <2>5, Basics DEF OwnNid
    <3> QED BY <2>5, <3>1 DEF Inv, MapInv
  <2>6. EnterReady(n, list, node)
    <3>1. ASSUME ~misread
          PROVE  /\ OwnNids(list, node)
                 /\ \A x \in Objs : Contains(list, x) /\ node[x].self > 1 =>
                      IF node[x].self = n THEN x = list[1] ELSE nodes[node[x].self] = x
      <4>1. OwnNids(list, node)
        BY <2>5, <3>1 DEF OwnNids
      <4>2. ASSUME NEW x \in Objs, Contains(list, x), node[x].self > 1
            PROVE  IF node[x].self = n THEN x = list[1] ELSE nodes[node[x].self] = x
        BY <2>4, <2>5, <3>1, <4>2
      <4> QED BY <4>1, <4>2
    <3>2. ASSUME NEW x \in Objs
          PROVE  /\ IF x <= created THEN broken \/ GivenNid(node[x].self, nodeCount)
                    ELSE node[x] = [self |-> 0, data |-> {}, dirty |-> FALSE]
                 /\ node[x].dirty => node[x].data # {}
                 /\ created < x => node[x].data = {}
                 /\ Contains(list, x) => Listed(x) /\ x <= created
      BY <2>4, Basics DEF Inv, CreatedInv, ContentsInv
    <3>3. /\ created \in 0..MaxObjs /\ created <= created
          /\ nodeCount \in 0..MaxObjs /\ nodeCount <= nodeCount /\ nodeCount <= created
      BY Basics
    <3> QED BY <1>1, <1>2, <3>1, <3>2, <3>3 DEF EnterReady
  <2> QED BY <1>1, <2>1, <2>4, <2>6, Basics, EnterKeeps
<1> QED BY <1>3, <1>4

\* A lookup that reads the data file: the nid it finds there was given out,
\* and is n unless the lookup is a misread.
LEMMA LoadNodeInv ==
    ASSUME Inv, NEW c \in Clients, NEW n \in Nids, LoadNode(c, n)
    PROVE  Inv'
<1> DEFINE o == created + 1
           list == <<o>> \o usedNodes
           loaded == [self |-> disk[n].nid, data |-> disk[n].data, dirty |-> TRUE]
           nds == [node EXCEPT ![o] = loaded]
<1>1. /\ phase = "open" /\ ~broken /\ at[c] = "idle" /\ created < MaxObjs
      /\ nodes[n] = NoObj /\ n < nodeCount
      /\ created' = o /\ gets' \in 0..MaxGets
      /\ misread' = (misread \/ (disk[n] \in Image /\ disk[n].nid # n))
      /\ UNCHANGED <<lifeVars, nodeCount, changes, workerVars>>
  BY BoundsAssumption DEF LoadNode, Working, Inv, CacheTypeOK
<1>2. /\ misread' \in BOOLEAN /\ (misread => misread')
      /\ created' \in 0..MaxObjs /\ created <= created' /\ nodeCount' = nodeCount
  BY <1>1, Basics DEF Inv, CacheTypeOK
<1>3. CASE disk[n] \notin Image
  <2>1. /\ broken' = TRUE
        /\ UNCHANGED <<node, usedNodes, nodes, cacheSize, at, held>>
    BY <1>3 DEF LoadNode
  <2> QED BY <1>1, <1>2, <2>1, BrokenInv
<1>4. CASE disk[n] \in Image
  <2>1. Enter(c, n, list, nds, "holds")
    BY <1>4 DEF LoadNode
  <2>2. o \in Objs /\ ~ Contains(usedNodes, o)
    BY <1>1, Basics DEF Listed
  <2>3. /\ list \in Seq(Objs) /\ list # <<>> /\ list[1] = o /\ Once(list)
        /\ \A x : Contains(list, x) <=> x = o \/ Listed(x)
    BY <2>2, Basics, PutInFront DEF Listed
  <2> HIDE DEF list
  <2>4. GivenNid(disk[n].nid, nodeCount) /\ disk[n].data # {}
    BY <1>4 DEF Inv, ContentsInv
  <2>5. loaded \in NodeObj
    <3>1. disk[n].nid \in Nids /\ disk[n].data \in SUBSET Changes
      BY <1>4 DEF Image
    <3> QED BY <3>1, Basics DEF NodeObj
  <2>6. /\ nds[o].self = disk[n].nid /\ nds[o].data = disk[n].data /\ nds[o].dirty = TRUE
        /\ \A x \in Objs : x # o => nds[x] = node[x]
        /\ nds \in [Objs -> NodeObj]
    <3>1. nds[o] = loaded
      BY <2>2, Basics
    <3>2. nds[o].self = disk[n].nid /\ nds[o].data = disk[n].data /\ nds[o].dirty = TRUE
      <4> HIDE DEF nds, o
      <4> QED BY <3>1
    <3> QED BY <2>2, <2>5, <3>2, Basics
  <2>7. o = created + 1
    OBVIOUS
  <2> HIDE DEF nds, o
  <2>8. ASSUME ~misread', NEW x \in Objs, Contains(list, x), nds[x].self > 1, x # o
        PROVE  nodes[nds[x].self] = x /\ nds[x].self # n
    <3>1. nds[x] = node[x] /\ Listed(x) /\ x \in 1..created
      BY <2>3, <2>6, <2>8, Basics
    <3>2. x \in OwnNid
      BY <2>8, <3>1 DEF OwnNid
    <3>3. nodes[node[x].self] = x
      BY <1>2, <2>8, <3>1, <3>2 DEF Inv, MapInv
    <3>4. x # NoObj
      BY <3>1, Basics DEF NoObj
    <3> QED BY <1>1, <3>1, <3>3, <3>4
  <2>9. EnterReady(n, list, nds)
    <3>1. ASSUME ~misread'
          PROVE  /\ OwnNids(list, nds)
                 /\ \A x \in Objs : Contains(list, x) /\ nds[x].self > 1 =>
                      IF nds[x].self = n THEN x = list[1] ELSE nodes[nds[x].self] = x
      <4>1. nds[o].self = n
        BY <1>1, <1>4, <2>6, <3>1
      <4>2. OwnNids(list, nds)
        BY <2>8, <3>1, <4>1 DEF OwnNids
      <4>3. ASSUME NEW x \in Objs, Contains(list, x), nds[x].self > 1
            PROVE  IF nds[x].self = n THEN x = list[1] ELSE nodes[nds[x].self] = x
        BY <2>3, <2>8, <3>1, <4>1, <4>3
      <4> QED BY <4>2, <4>3
    <3>2. ASSUME NEW x \in Objs
          PROVE  /\ x <= created => nds[x] = node[x]
                 /\ IF x <= created' THEN broken \/ GivenNid(nds[x].self, nodeCount')
                    ELSE nds[x] = [self |-> 0, data |-> {}, dirty |-> FALSE]
                 /\ nds[x].dirty => nds[x].data # {}
                 /\ created < x => nds[x].data = {} \/ nds[x].dirty
                 /\ Contains(list, x) => (Listed(x) \/ created < x) /\ x <= created'
      <4>1. CASE x = o
        <5>1. x <= created' /\ created < x
          BY <1>1, <2>7, <4>1, Basics
        <5> QED BY <1>2, <2>4, <2>6, <4>1, <5>1, Basics
      <4>2. CASE x # o
        <5>1. nds[x] = node[x] /\ (x <= created' <=> x <= created)
          BY <1>1, <2>6, <2>7, <4>2, Basics
        <5>2. IF x <= created THEN GivenNid(node[x].self, nodeCount)
              ELSE node[x] = [self |-> 0, data |-> {}, dirty |-> FALSE]
          BY <1>1 DEF Inv, CreatedInv
        <5>3. node[x].dirty => node[x].data # {}
          BY DEF Inv, ContentsInv
        <5>4. Contains(list, x) => Listed(x) /\ x <= created
          BY <2>3, <4>2, Basics
        <5> QED BY <1>2, <5>1, <5>2, <5>3, <5>4, Basics
      <4> QED BY <4>1, <4>2
    <3>3. /\ nodeCount' \in 0..MaxObjs /\ nodeCount <= nodeCount' /\ nodeCount' <= created'
      BY <1>2, Basics
    <3> QED BY <1>1, <1>2, <3>1, <3>2, <3>3 DEF EnterReady
  <2> QED BY <1>1, <2>1, <2>3, <2>6, <2>9, EnterKeeps
<1> QED BY <1>3, <1>4

\* A step that may change contents and flags of nodes, but no nids and nothing
\* of the cache.
LEMMA SameNidsKeep ==
    ASSUME Inv, node' \in [Objs -> NodeObj],
           \A o \in Objs :
               /\ node'[o].self = node[o].self
               /\ created < o => node'[o] = node[o]
               /\ node'[o].dirty => node'[o].data # {},
           UNCHANGED <<cacheVars, misread, broken, writeBuf, disk>>
    PROVE  /\ CreatedInv' /\ ListInv' /\ ContentsInv' /\ MapInv'
           /\ OwnNid' = OwnNid /\ Cached' = Cached
<1> USE DEF cacheVars
<1>1. OwnNid' = OwnNid /\ Cached' = Cached
  <2>1. \A o \in 1..created : o \in Objs
    BY Basics
  <2>2. OwnNid' = OwnNid
    BY <2>1 DEF OwnNid
  <2> QED BY <2>2 DEF Cached
<1>2. CreatedInv'
  <2>1. ASSUME NEW o \in Objs
        PROVE  IF o <= created THEN broken \/ GivenNid(node'[o].self, nodeCount)
               ELSE node'[o] = [self |-> 0, data |-> {}, dirty |-> FALSE]
    BY Basics, SMTT(30) DEF Inv, CreatedInv
  <2> QED BY <2>1, Basics DEF CreatedInv
<1>3. ListInv'
  BY DEF Inv, ListInv, Listed
<1>4. ContentsInv'
  BY DEF Inv, ContentsInv, Image
<1>5. MapInv'
  <2>1. ASSUME ~misread, NEW o \in OwnNid, Listed(o) PROVE nodes[node'[o].self] = o
    <3>1. o \in Objs
      BY Basics DEF OwnNid
    <3> QED BY <2>1, <3>1 DEF Inv, MapInv
  <2> QED BY <1>1, <2>1 DEF MapInv, Listed
<1> QED BY <1>1, <1>2, <1>3, <1>4, <1>5

\* A step that leaves nodes and clients alone and what the thread knows.
LEMMA SameWorkKeeps ==
    ASSUME Inv, UNCHANGED <<node, cacheVars, clientVars, dirtyNodes, broken>>
    PROVE  CreatedInv' /\ ListInv' /\ HeldInv' /\ MapInv' /\ RememberedInv'
BY DEF Inv, CreatedInv, ListInv, HeldInv, MapInv, RememberedInv, Listed, OwnNid,
       Cached, cacheVars, clientVars

\* DBImpl::init up to the first root, and ~DBImpl.
LEMMA OpeningStepsInv ==
    ASSUME Inv, InitLayout \/ InitCache \/ Tie \/ Close
    PROVE  Inv'
<1> USE DEF workerVars, clientVars, cacheVars
<1>1. UNCHANGED <<node, cacheVars, clientVars, workerVars, broken>>
  BY DEF InitLayout, InitCache, Tie, Close
<1>2. CreatedInv' /\ ListInv' /\ HeldInv' /\ MapInv' /\ RememberedInv'
  BY <1>1, SameWorkKeeps
<1>3. /\ running' \in BOOLEAN
      /\ phase' \in {"cache", "failed", "tie", "root", "closed"}
      /\ phase' = "closed" => phase = "open" /\ \A c \in Clients : at[c] = "idle"
      /\ phase' # "closed" => phase \in {"layout", "cache", "tie"}
  BY DEF Inv, CacheTypeOK, InitLayout, InitCache, Tie, Close
<1>4. CacheTypeOK'
  BY <1>1, <1>3 DEF Inv, CacheTypeOK
<1>5. OpeningInv'
  BY <1>1, <1>3 DEF Inv, OpeningInv
<1>6. WorkerInv' /\ ContentsInv'
  BY <1>1 DEF Inv, WorkerInv, ContentsInv, Image
<1> QED BY <1>2, <1>4, <1>5, <1>6 DEF Inv

\* The first root: nothing was cached, listed or collected before.
LEMMA CreateRootInv ==
    ASSUME Inv, CreateRoot
    PROVE  Inv'
<1> USE DEF workerVars, clientVars
<1>1. /\ phase' = "pivot" /\ created' = 1 /\ nodeCount' = 1 /\ usedNodes' = <<1>>
      /\ node' = [node EXCEPT ![1].self = 1]
      /\ nodes' = [nodes EXCEPT ![1] = 1] /\ cacheSize' = NodeSize
      /\ UNCHANGED <<running, clientVars, workerVars, broken>>
  BY DEF CreateRoot
<1>2. created = 0 /\ nodeCount = 0 /\ \A c \in Clients : at[c] = "idle"
  BY DEF CreateRoot, Inv, OpeningInv
<1>3. 1 \in Objs /\ 1 \in Nids /\ Objs \cup {NoObj} \subseteq Nat /\ 1 \in 0..MaxObjs
  BY Basics, BoundsAssumption DEF NoObj
<1>4. \A o \in Objs : node[o] = [self |-> 0, data |-> {}, dirty |-> FALSE]
  BY <1>2, <1>3, Basics DEF Inv, CreatedInv
<1>5. /\ node'[1] = [self |-> 1, data |-> {}, dirty |-> FALSE]
      /\ \A o \in Objs : o # 1 => node'[o] = node[o]
      /\ node' \in [Objs -> NodeObj]
  <2>1. node'[1] = [node[1] EXCEPT !.self = 1] /\ \A o \in Objs : o # 1 => node'[o] = node[o]
    BY <1>1, <1>3, Basics
  <2>2. node'[1] = [self |-> 1, data |-> {}, dirty |-> FALSE]
    <3>1. node[1] = [self |-> 0, data |-> {}, dirty |-> FALSE]
      BY <1>3, <1>4
    <3>2. node'[1] = [[self |-> 0, data |-> {}, dirty |-> FALSE] EXCEPT !.self = 1]
      BY <2>1, <3>1
    <3> QED BY <3>2
  <2>3. node'[1] \in NodeObj
    BY <1>3, <2>2 DEF NodeObj
  <2> QED BY <1>1, <2>1, <2>2, <2>3, Basics
<1>6. <<1>> \in Seq(Objs) /\ DOMAIN <<1>> = {1} /\ <<1>>[1] = 1
  BY <1>3
<1>7. ASSUME NEW o, Contains(usedNodes', o) PROVE o = 1
  BY <1>1, <1>7 DEF Contains
<1>8. CacheTypeOK'
  <2>1. nodes' \in [Nids -> Objs \cup {NoObj}] /\ cacheSize' \in Nat
    BY <1>1, <1>3, BoundsAssumption DEF Inv, CacheTypeOK
  <2> QED BY <1>1, <1>3, <1>5, <1>6, <2>1 DEF Inv, CacheTypeOK
<1>9. OpeningInv'
  BY <1>1, <1>2 DEF OpeningInv
<1>10. CreatedInv'
  <2>1. ASSUME NEW o \in Objs
        PROVE  IF o <= 1 THEN GivenNid(node'[o].self, 1)
               ELSE node'[o] = [self |-> 0, data |-> {}, dirty |-> FALSE]
    <3>1. o <= 1 => o = 1
      BY <2>1, Basics
    <3> QED BY <1>4, <1>5, <3>1 DEF GivenNid
  <2> QED BY <1>1, <2>1 DEF CreatedInv
<1>11. ListInv'
  <2>1. ASSUME NEW n \in Nids PROVE nodes'[n] <= 1
    <3>1. nodes \in [Nids -> Objs \cup {NoObj}] /\ nodes[n] <= 0
      BY <1>2 DEF Inv, ListInv, CacheTypeOK
    <3>2. nodes[n] \in Nat
      BY <1>3, <3>1
    <3> QED BY <1>1, <3>1, <3>2
  <2>2. \A i, j \in DOMAIN usedNodes' : usedNodes'[i] = usedNodes'[j] => i = j
    BY <1>1, <1>6
  <2>3. \A o \in Objs : Listed(o)' => o <= created'
    BY <1>1, <1>7 DEF Listed
  <2> QED BY <1>1, <2>1, <2>2, <2>3 DEF ListInv
<1>12. HeldInv'
  BY <1>1, <1>2 DEF HeldInv
<1>13. WorkerInv'
  <2>1. ASSUME NEW n \in Nids PROVE dirtyNodes[n] = NoObj
    <3>1. dirtyNodes[n] \in Objs \cup {NoObj}
      BY DEF Inv, CacheTypeOK
    <3>2. CASE dirtyNodes[n] # NoObj
      <4>1. dirtyNodes[n] <= 0 /\ dirtyNodes[n] \in 1..MaxObjs
        BY <1>2, <3>1, <3>2, Basics DEF Inv, WorkerInv
      <4> QED BY <4>1, BoundsAssumption
    <3> QED BY <3>2
  <2> QED BY <1>1, <2>1 DEF Inv, WorkerInv
<1>14. ContentsInv'
  <2>1. \A n : GivenNid(n, 0) => GivenNid(n, 1)
    BY DEF GivenNid
  <2>2. \A o \in Objs : node'[o].dirty => node'[o].data # {}
    BY <1>4, <1>5
  <2> QED BY <1>1, <1>2, <2>1, <2>2 DEF Inv, ContentsInv, Image
<1>15. OwnNid' = {}
  BY <1>1, <1>5 DEF OwnNid
<1> QED BY <1>8, <1>9, <1>10, <1>11, <1>12, <1>13, <1>14, <1>15
        DEF Inv, MapInv, RememberedInv, Cached

\* One node gets new contents, or a new flag.
LEMMA OneNode ==
    ASSUME Inv, NEW x \in 1..created, NEW d \in SUBSET Changes, NEW b \in BOOLEAN,
           node' = [node EXCEPT ![x].data = d, ![x].dirty = b]
    PROVE  /\ node' \in [Objs -> NodeObj]
           /\ node'[x] = [self |-> node[x].self, data |-> d, dirty |-> b]
           /\ \A o \in Objs : o # x => node'[o] = node[o]
<1>1. x \in Objs /\ node \in [Objs -> NodeObj] /\ node[x] \in NodeObj
  BY Basics
<1>2. node'[x] = [[node[x] EXCEPT !.data = d] EXCEPT !.dirty = b]
  BY <1>1
<1>3. node'[x] = [self |-> node[x].self, data |-> d, dirty |-> b]
  BY <1>1, <1>2 DEF NodeObj
<1>4. \A o \in Objs : o # x => node'[o] = node[o]
  BY <1>1
<1>5. node'[x] \in NodeObj
  BY <1>1, <1>3 DEF NodeObj
<1> QED BY <1>1, <1>3, <1>4, <1>5

\* The first pivot: the root gets its contents and its flag in one step.
LEMMA CreateFirstPivotInv ==
    ASSUME Inv, CreateFirstPivot
    PROVE  Inv'
<1> USE DEF workerVars, clientVars
<1>1. /\ phase = "pivot" /\ phase' = "open"
      /\ node' = [node EXCEPT ![1].data = {0}, ![1].dirty = TRUE]
      /\ UNCHANGED <<running, cacheVars, clientVars, workerVars, broken>>
  BY DEF CreateFirstPivot
<1>2. 1 \in 1..created /\ 1 \in Objs /\ {0} \in SUBSET Changes
  BY <1>1, Basics, BoundsAssumption DEF Inv, OpeningInv, Changes
<1>3. /\ node' \in [Objs -> NodeObj]
      /\ node'[1] = [self |-> node[1].self, data |-> {0}, dirty |-> TRUE]
      /\ \A o \in Objs : o # 1 => node'[o] = node[o]
  BY <1>1, <1>2, OneNode
<1>4. /\ node'[1].self = node[1].self /\ node'[1].data = {0} /\ node'[1].dirty
      /\ \A o \in Objs : node'[o].self = node[o].self
      /\ \A o \in Objs : node[o].data # {} => node'[o].data # {}
  BY <1>3
<1>5. \A o \in Objs : created < o => node'[o] = node[o]
  BY <1>2, <1>3, Basics
<1>6. \A o \in Objs : node'[o].dirty => node'[o].data # {}
  BY <1>3, <1>4 DEF Inv, ContentsInv
<1>7. CreatedInv' /\ ListInv' /\ ContentsInv' /\ MapInv' /\ OwnNid' = OwnNid /\ Cached' = Cached
  BY <1>1, <1>3, <1>4, <1>5, <1>6, SameNidsKeep
<1>8. CacheTypeOK'
  BY <1>1, <1>3 DEF Inv, CacheTypeOK, cacheVars
<1>9. OpeningInv'
  BY <1>1 DEF Inv, OpeningInv, cacheVars
<1>10. HeldInv'
  BY <1>1 DEF Inv, OpeningInv, HeldInv, cacheVars
<1>11. WorkerInv'
  <2>1. ASSUME NEW n \in Nids, dirtyNodes[n] # NoObj
        PROVE  dirtyNodes[n] \in Objs
    BY <2>1 DEF Inv, CacheTypeOK
  <2> QED BY <1>1, <1>4, <2>1 DEF Inv, WorkerInv, cacheVars
<1>12. RememberedInv'
  <2>1. \A o \in Cached : o \in Objs
    BY Basics DEF Cached, OwnNid
  <2> QED BY <1>1, <1>3, <1>4, <1>7, <2>1 DEF Inv, RememberedInv
<1> QED BY <1>7, <1>8, <1>9, <1>10, <1>11, <1>12 DEF Inv

\* A change: the client remembers the node until it marks it.
LEMMA ChangeInv ==
    ASSUME Inv, NEW c \in Clients, Change(c)
    PROVE  Inv'
<1> DEFINE x == held[c]
           d == node[x].data \cup {changes + 1}
<1> USE DEF workerVars, cacheVars, lifeVars
<1>1. /\ at[c] \in {"new", "holds"} /\ changes < MaxChanges /\ changes' = changes + 1
      /\ node' = [node EXCEPT ![x].data = node[x].data \cup {changes + 1}]
      /\ at' = [at EXCEPT ![c] = "changed"]
      /\ UNCHANGED <<lifeVars, cacheVars, held, gets, misread, workerVars, broken>>
      /\ phase = "open"
  BY DEF Change, Working
<1>2. x \in 1..created /\ x \in Objs
  BY <1>1, Basics DEF Inv, HeldInv
<1>3. d \in SUBSET Changes /\ d # {} /\ node[x].dirty \in BOOLEAN /\ changes' \in 0..MaxChanges
  <2>1. changes + 1 \in 0..MaxChanges
    BY <1>1, BoundsAssumption DEF Inv, CacheTypeOK
  <2>2. node[x].data \in SUBSET Changes
    BY <1>2, Basics
  <2> QED BY <1>1, <1>2, <2>1, <2>2, Basics DEF Changes
<1> HIDE DEF d
<1>4. node' = [node EXCEPT ![x].data = d, ![x].dirty = node[x].dirty]
  <2>1. node[x] \in NodeObj /\ node \in [Objs -> NodeObj]
    BY <1>2, Basics
  <2>2. [node[x] EXCEPT !.data = d] = [[node[x] EXCEPT !.data = d] EXCEPT !.dirty = node[x].dirty]
    BY <2>1 DEF NodeObj
  <2> QED BY <1>1, <1>2, <2>1, <2>2 DEF d
<1>5. /\ node' \in [Objs -> NodeObj]
      /\ node'[x] = [self |-> node[x].self, data |-> d, dirty |-> node[x].dirty]
      /\ \A o \in Objs : o # x => node'[o] = node[o]
  <2> HIDE DEF x
  <2> QED BY <1>2, <1>3, <1>4, OneNode
<1> HIDE DEF x
<1>6. /\ node'[x].self = node[x].self /\ node'[x].data = d /\ node'[x].dirty = node[x].dirty
      /\ \A o \in Objs : node'[o].self = node[o].self /\ node'[o].dirty = node[o].dirty
      /\ \A o \in Objs : node[o].data # {} => node'[o].data # {}
  BY <1>3, <1>5
<1>7. \A o \in Objs : created < o => node'[o] = node[o]
  BY <1>2, <1>5, Basics
<1>8. \A o \in Objs : node'[o].dirty => node'[o].data # {}
  BY <1>6 DEF Inv, ContentsInv
<1>9. CreatedInv' /\ ListInv' /\ ContentsInv' /\ MapInv' /\ OwnNid' = OwnNid /\ Cached' = Cached
  BY <1>1, <1>5, <1>6, <1>7, <1>8, SameNidsKeep
<1>10. CacheTypeOK'
  BY <1>1, <1>3, <1>5 DEF Inv, CacheTypeOK
<1>11. OpeningInv'
  BY <1>1 DEF Inv, OpeningInv
<1>12. at \in [Clients -> {"idle", "new", "holds", "changed"}]
  BY DEF Inv, CacheTypeOK
<1>13. HeldInv'
  <2> SUFFICES ASSUME NEW e \in Clients
               PROVE  /\ at'[e] # "idle" => held[e] \in 1..created
                      /\ at'[e] = "changed" => node'[held[e]].data # {}
    BY <1>1 DEF HeldInv
  <2>1. CASE e = c
    BY <1>1, <1>2, <1>3, <1>6, <2>1 DEF x
  <2>2. CASE e # c
    <3>1. at'[e] = at[e]
      BY <1>1, <1>12, <2>2
    <3>2. at[e] # "idle" => held[e] \in 1..created /\ held[e] \in Objs
      BY Basics DEF Inv, HeldInv
    <3> QED BY <1>6, <3>1, <3>2 DEF Inv, HeldInv
  <2> QED BY <2>1, <2>2
<1>14. WorkerInv'
  <2>1. ASSUME NEW n \in Nids, dirtyNodes[n] # NoObj
        PROVE  dirtyNodes[n] \in Objs
    BY <2>1 DEF Inv, CacheTypeOK
  <2> QED BY <1>1, <1>6, <2>1 DEF Inv, WorkerInv
<1>15. RememberedInv'
  <2> SUFFICES ASSUME ~misread, NEW o \in Cached
               PROVE  \/ node'[o].data = {}
                      \/ node'[o].dirty
                      \/ \E e \in Clients : at'[e] = "changed" /\ held[e] = o
                      \/ dirtyNodes[node'[o].self] = o
    BY <1>1, <1>9 DEF RememberedInv
  <2>1. o \in Objs
    BY Basics DEF Cached, OwnNid
  <2>2. CASE o = x
    BY <1>1, <1>12, <2>2 DEF x
  <2>3. CASE o # x
    <3>1. \A e \in Clients : at[e] = "changed" => at'[e] = "changed"
      BY <1>1, <1>12
    <3>2. node'[o] = node[o]
      BY <1>5, <2>1, <2>3
    <3>3. \/ node[o].data = {}
          \/ node[o].dirty
          \/ \E e \in Clients : at[e] = "changed" /\ held[e] = o
          \/ dirtyNodes[node[o].self] = o
      BY DEF Inv, RememberedInv
    <3> QED BY <3>1, <3>2, <3>3
  <2> QED BY <2>2, <2>3
<1> QED BY <1>9, <1>10, <1>11, <1>13, <1>14, <1>15 DEF Inv

\* setDirty(true)
LEMMA MarkInv ==
    ASSUME Inv, NEW c \in Clients, Mark(c)
    PROVE  Inv'
<1> DEFINE x == held[c]
<1> USE DEF workerVars, cacheVars, lifeVars
<1>1. /\ at[c] = "changed"
      /\ node' = [node EXCEPT ![x].dirty = TRUE]
      /\ at' = [at EXCEPT ![c] = "idle"] /\ held' = [held EXCEPT ![c] = NoObj]
      /\ UNCHANGED <<lifeVars, cacheVars, changes, gets, misread, workerVars, broken>>
      /\ phase = "open"
  BY DEF Mark, Working
<1>2. x \in 1..created /\ x \in Objs /\ node[x].data # {}
  BY <1>1, Basics DEF Inv, HeldInv
<1>3. node' = [node EXCEPT ![x].data = node[x].data, ![x].dirty = TRUE]
  <2>1. node[x] \in NodeObj /\ node \in [Objs -> NodeObj]
    BY <1>2, Basics
  <2>2. [node[x] EXCEPT !.dirty = TRUE] = [[node[x] EXCEPT !.data = node[x].data] EXCEPT !.dirty = TRUE]
    BY <2>1 DEF NodeObj
  <2> QED BY <1>1, <1>2, <2>1, <2>2
<1>4. /\ node' \in [Objs -> NodeObj]
      /\ node'[x] = [self |-> node[x].self, data |-> node[x].data, dirty |-> TRUE]
      /\ \A o \in Objs : o # x => node'[o] = node[o]
  BY <1>2, <1>3, Basics, OneNode
<1> HIDE DEF x
<1>5. \A o \in Objs : /\ node'[o].self = node[o].self /\ node'[o].data = node[o].data
                      /\ node'[o].dirty <=> (o = x \/ node[o].dirty)
  BY <1>4
<1>6. \A o \in Objs : created < o => node'[o] = node[o]
  BY <1>2, <1>4, Basics
<1>7. \A o \in Objs : node'[o].dirty => node'[o].data # {}
  BY <1>2, <1>5 DEF Inv, ContentsInv
<1>8. CreatedInv' /\ ListInv' /\ ContentsInv' /\ MapInv' /\ OwnNid' = OwnNid /\ Cached' = Cached
  BY <1>1, <1>4, <1>5, <1>6, <1>7, SameNidsKeep
<1>9. CacheTypeOK'
  BY <1>1, <1>4 DEF Inv, CacheTypeOK
<1>10. OpeningInv'
  BY <1>1 DEF Inv, OpeningInv
<1>11. /\ at'[c] = "idle"
       /\ \A e \in Clients : e # c => at'[e] = at[e] /\ held'[e] = held[e]
  BY <1>1 DEF Inv, CacheTypeOK
<1>12. HeldInv'
  <2> SUFFICES ASSUME NEW e \in Clients, e # c
               PROVE  /\ at[e] # "idle" => held[e] \in 1..created
                      /\ at[e] = "changed" => node'[held[e]].data # {}
    BY <1>1, <1>11 DEF HeldInv
  <2>1. at[e] # "idle" => held[e] \in 1..created /\ held[e] \in Objs
    BY Basics DEF Inv, HeldInv
  <2> QED BY <1>5, <2>1 DEF Inv, HeldInv
<1>13. WorkerInv'
  <2>1. ASSUME NEW n \in Nids, dirtyNodes[n] # NoObj
        PROVE  dirtyNodes[n] \in Objs
    BY <2>1 DEF Inv, CacheTypeOK
  <2> QED BY <1>1, <1>5, <2>1 DEF Inv, WorkerInv
<1>14. RememberedInv'
  <2> SUFFICES ASSUME ~misread, NEW o \in Cached
               PROVE  \/ node'[o].data = {}
                      \/ node'[o].dirty
                      \/ \E e \in Clients : at'[e] = "changed" /\ held'[e] = o
                      \/ dirtyNodes[node'[o].self] = o
    BY <1>1, <1>8 DEF RememberedInv
  <2>1. o \in Objs
    BY Basics DEF Cached, OwnNid
  <2>2. CASE o = x
    BY <1>5, <2>1, <2>2
  <2>3. CASE o # x
    BY <1>5, <1>11, <2>1, <2>3 DEF Inv, RememberedInv, x
  <2> QED BY <2>2, <2>3
<1> QED BY <1>8, <1>9, <1>10, <1>12, <1>13, <1>14 DEF Inv

\* A lookup that changed nothing has nothing to remember.
LEMMA ReleaseInv ==
    ASSUME Inv, NEW c \in Clients, Release(c)
    PROVE  Inv'
<1> USE DEF workerVars, cacheVars, lifeVars
<1>1. /\ at[c] = "holds"
      /\ at' = [at EXCEPT ![c] = "idle"] /\ held' = [held EXCEPT ![c] = NoObj]
      /\ UNCHANGED <<lifeVars, node, cacheVars, changes, gets, misread, workerVars,
                     broken>>
      /\ phase = "open"
  BY DEF Release, Working
<1>2. /\ at'[c] = "idle"
      /\ \A e \in Clients : e # c => at'[e] = at[e] /\ held'[e] = held[e]
  BY <1>1 DEF Inv, CacheTypeOK
<1>3. CacheTypeOK'
  BY <1>1 DEF Inv, CacheTypeOK
<1>4. OpeningInv'
  BY <1>1 DEF Inv, OpeningInv
<1>5. HeldInv'
  BY <1>1, <1>2 DEF Inv, HeldInv
<1>6. CreatedInv' /\ ListInv' /\ WorkerInv' /\ ContentsInv' /\ MapInv'
  BY <1>1 DEF Inv, CreatedInv, ListInv, WorkerInv, ContentsInv, MapInv, Listed, OwnNid,
              Image
<1>7. RememberedInv'
  <2>1. \A e \in Clients : at[e] = "changed" => e # c
    BY <1>1
  <2> QED BY <1>1, <1>2, <2>1 DEF Inv, RememberedInv, Cached, OwnNid
<1> QED BY <1>3, <1>4, <1>5, <1>6, <1>7 DEF Inv

\* After ~DBImpl.
LEMMA UseDeletedInv ==
    ASSUME Inv, UseDeleted
    PROVE  Inv'
<1>1. /\ broken' = TRUE
      /\ UNCHANGED <<lifeVars, node, cacheVars, clientVars, workerVars>>
  BY DEF UseDeleted
<1>2. /\ UNCHANGED <<usedNodes, nodes, cacheSize, nodeCount, at, held, changes>>
      /\ created' = created /\ gets' = gets /\ misread' = misread
  BY <1>1 DEF cacheVars, clientVars
<1>3. gets \in 0..MaxGets /\ misread \in BOOLEAN
  BY DEF Inv, CacheTypeOK
<1> QED BY <1>1, <1>2, <1>3, Basics, BrokenInv

\* The write-back thread takes the lock of the list.
LEMMA LockUsedNodesInv ==
    ASSUME Inv, LockUsedNodes
    PROVE  Inv'
<1>1. /\ wpc' = "scan"
      /\ UNCHANGED <<lifeVars, node, cacheVars, clientVars, dirtyNodes, todo,
                     writeBuf, disk, failures, broken>>
  BY DEF LockUsedNodes
<1>2. CreatedInv' /\ ListInv' /\ HeldInv' /\ MapInv' /\ RememberedInv'
  BY <1>1, SameWorkKeeps
<1>3. CacheTypeOK' /\ OpeningInv'
  BY <1>1 DEF Inv, CacheTypeOK, OpeningInv, lifeVars, cacheVars, clientVars
<1>4. WorkerInv' /\ ContentsInv'
  BY <1>1 DEF Inv, WorkerInv, ContentsInv, Image, cacheVars
<1> QED BY <1>2, <1>3, <1>4 DEF Inv

\* The scan collects an object of the list under its nid.
LEMMA DirtyFound ==
    ASSUME Inv, NEW n \in Nids, DirtyIn(n) # {}
    PROVE  LET o == usedNodes[Max(DirtyIn(n))]
           IN  o \in Objs /\ Listed(o) /\ node[o].self = n /\ node[o].dirty
<1> DEFINE i == Max(DirtyIn(n))
<1>1. DOMAIN usedNodes = 1..Len(usedNodes) /\ Len(usedNodes) \in Nat
  BY Basics
<1>2. DirtyIn(n) \in SUBSET (0..Len(usedNodes))
  BY <1>1 DEF DirtyIn
<1>3. i \in DirtyIn(n)
  BY <1>1, <1>2, LargestIn
<1>4. i \in 1..Len(usedNodes) /\ node[usedNodes[i]].dirty /\ node[usedNodes[i]].self = n
  BY <1>1, <1>3 DEF DirtyIn
<1> HIDE DEF i
<1>5. Listed(usedNodes[i])
  BY <1>4 DEF Listed, Contains
<1> QED BY <1>4, <1>5, Basics DEF i

\* The scan: a node collected before is collected again under its nid, since
\* a dirty object found in its place would be a second object of the nid.
LEMMA ScanInv ==
    ASSUME Inv, Scan
    PROVE  Inv'
<1> DEFINE found == [n \in Nids |-> IF DirtyIn(n) = {} THEN dirtyNodes[n]
                                   ELSE usedNodes[Max(DirtyIn(n))]]
<1>1. /\ dirtyNodes' = found
      /\ todo' = {n \in Nids : found[n] # NoObj}
      /\ wpc' = IF todo' = {} THEN "sleep" ELSE "serialize"
      /\ writeBuf' = <<>>
      /\ UNCHANGED <<lifeVars, node, cacheVars, clientVars, disk, failures, broken>>
  BY DEF Scan
<1>2. ASSUME NEW n \in Nids
      PROVE  \/ found[n] = dirtyNodes[n]
             \/ /\ found[n] \in Objs /\ Listed(found[n])
                /\ node[found[n]].self = n /\ node[found[n]].dirty
  BY DirtyFound
<1> HIDE DEF found
<1>3. ASSUME NEW n \in Nids PROVE found[n] \in Objs \cup {NoObj}
  <2>1. dirtyNodes[n] \in Objs \cup {NoObj}
    BY DEF Inv, CacheTypeOK
  <2> QED BY <1>2, <2>1
<1>4. CacheTypeOK'
  <2>1. found \in [Nids -> Objs \cup {NoObj}]
    BY <1>3 DEF found
  <2>2. <<>> \in Seq(Image) /\ todo' \in SUBSET Nids /\ wpc' \in {"sleep", "serialize"}
    BY <1>1
  <2> QED BY <1>1, <2>1, <2>2 DEF Inv, CacheTypeOK, lifeVars, cacheVars, clientVars
<1> USE DEF lifeVars, cacheVars, clientVars
<1>5. OpeningInv' /\ CreatedInv' /\ ListInv' /\ HeldInv' /\ MapInv'
  BY <1>1 DEF Inv, OpeningInv, CreatedInv, ListInv, HeldInv, MapInv, OwnNid, Listed
<1>6. ContentsInv'
  <2>1. DOMAIN writeBuf' = {}
    BY <1>1
  <2> QED BY <1>1, <2>1 DEF Inv, ContentsInv, Image
<1>7. WorkerInv'
  <2>1. ASSUME NEW n \in Nids, found[n] # NoObj
        PROVE  /\ found[n] <= created /\ node[found[n]].self = n
               /\ node[found[n]].data # {}
    <3>1. CASE found[n] = dirtyNodes[n]
      BY <2>1, <3>1 DEF Inv, WorkerInv
    <3>2. CASE found[n] # dirtyNodes[n]
      BY <1>2, <3>2, Basics DEF Inv, ContentsInv
    <3> QED BY <3>1, <3>2
  <2>2. wpc' \in {"serialize", "write", "clear"} => todo' # {}
    BY <1>1
  <2>3. wpc' # "write" /\ \A n \in todo' : dirtyNodes'[n] # NoObj
    BY <1>1
  <2> QED BY <1>1, <2>1, <2>2, <2>3 DEF WorkerInv
<1>8. RememberedInv'
  <2> SUFFICES ASSUME ~misread, NEW o \in Cached, dirtyNodes[node[o].self] = o
               PROVE  found[node[o].self] = o
    BY <1>1 DEF Inv, RememberedInv, Cached, OwnNid
  <2> DEFINE n == node[o].self
  <2>1. o \in OwnNid /\ Listed(o) /\ n \in Nids
    BY Basics DEF Cached, OwnNid, Listed
  <2>2. CASE found[n] = dirtyNodes[n]
    BY <2>2
  <2>3. CASE found[n] # dirtyNodes[n]
    <3>1. /\ found[n] \in Objs /\ Listed(found[n]) /\ node[found[n]].self = n
          /\ found[n] <= created
      BY <1>2, <2>1, <2>3, Basics
    <3>2. found[n] \in OwnNid
      BY <2>1, <3>1, Basics DEF OwnNid
    <3> QED BY <2>1, <3>1, <3>2 DEF Inv, MapInv
  <2> QED BY <2>2, <2>3
<1> QED BY <1>4, <1>5, <1>6, <1>7, <1>8 DEF Inv

\* The nid whose turn it is, and the node collected for it.
LEMMA NodeInTurn ==
    ASSUME Inv, todo # {}
    PROVE  /\ Min(todo) \in todo /\ Min(todo) \in Nids
           /\ dirtyNodes[Min(todo)] \in 1..created
           /\ dirtyNodes[Min(todo)] \in Objs
           /\ node[dirtyNodes[Min(todo)]].self = Min(todo)
           /\ node[dirtyNodes[Min(todo)]].data # {}
<1> DEFINE n == Min(todo)
<1>1. todo \in SUBSET Nids /\ todo \in SUBSET Nat
  BY Basics DEF Inv, CacheTypeOK
<1>2. n \in todo
  BY <1>1, LeastIn
<1> HIDE DEF n
<1>3. n \in Nids /\ dirtyNodes[n] # NoObj
  BY <1>1, <1>2 DEF Inv, WorkerInv
<1>4. dirtyNodes[n] \in Objs
  BY <1>3 DEF Inv, CacheTypeOK
<1>5. /\ dirtyNodes[n] <= created /\ node[dirtyNodes[n]].self = n
      /\ node[dirtyNodes[n]].data # {}
  BY <1>3 DEF Inv, WorkerInv
<1> QED BY <1>2, <1>3, <1>4, <1>5, Basics DEF n

\* An image gets a nid that was given out, and contents that are not empty.
LEMMA SerializeInv ==
    ASSUME Inv, Serialize
    PROVE  Inv'
<1> DEFINE nd == node[dirtyNodes[Min(todo)]]
           image == [nid |-> nd.self, data |-> nd.data]
<1>1. /\ wpc = "serialize" /\ wpc' = "write" /\ ~broken
      /\ writeBuf' = Append(writeBuf, image)
      /\ UNCHANGED <<lifeVars, node, cacheVars, clientVars, dirtyNodes, todo,
                     disk, failures, broken>>
  BY DEF Serialize, WorkerRuns
<1>2. todo # {}
  BY <1>1 DEF Inv, WorkerInv
<1>3. /\ dirtyNodes[Min(todo)] \in Objs /\ dirtyNodes[Min(todo)] \in 1..created
      /\ nd.self \in Nids /\ nd.data # {}
  BY <1>2, NodeInTurn
<1>4. image \in Image
  BY <1>3, Basics DEF Image
<1>5. GivenNid(image.nid, nodeCount) /\ image.data # {}
  BY <1>1, <1>3 DEF Inv, CreatedInv
<1> HIDE DEF nd, image
<1>6. writeBuf \in Seq(Image)
  BY DEF Inv, CacheTypeOK
<1>7. /\ writeBuf' \in Seq(Image) /\ writeBuf' # <<>>
      /\ \A i \in DOMAIN writeBuf' :
            \/ writeBuf'[i] = image
            \/ i \in DOMAIN writeBuf /\ writeBuf'[i] = writeBuf[i]
  <2>1. /\ writeBuf' \in Seq(Image) /\ Len(writeBuf') = Len(writeBuf) + 1
        /\ \A i \in 1..Len(writeBuf) : writeBuf'[i] = writeBuf[i]
        /\ writeBuf'[Len(writeBuf) + 1] = image
    BY <1>1, <1>4, <1>6, AppendProperties
  <2>2. Len(writeBuf) \in Nat /\ DOMAIN writeBuf = 1..Len(writeBuf)
        /\ DOMAIN writeBuf' = 1..Len(writeBuf')
    BY <1>6, <2>1
  <2>3. ASSUME NEW i \in DOMAIN writeBuf' PROVE i = Len(writeBuf) + 1 \/ i \in 1..Len(writeBuf)
    BY <2>1, <2>2
  <2>4. writeBuf' # <<>>
    BY <2>1, <2>2, EmptySeq
  <2> QED BY <2>1, <2>2, <2>3, <2>4
<1>8. CreatedInv' /\ ListInv' /\ HeldInv' /\ MapInv' /\ RememberedInv'
  BY <1>1, SameWorkKeeps
<1>9. CacheTypeOK' /\ OpeningInv'
  BY <1>1, <1>7 DEF Inv, CacheTypeOK, OpeningInv, lifeVars, cacheVars, clientVars
<1>10. WorkerInv'
  BY <1>1, <1>2, <1>7 DEF Inv, WorkerInv, cacheVars
<1>11. ContentsInv'
  <2>1. ASSUME NEW i \in DOMAIN writeBuf'
        PROVE  GivenNid(writeBuf'[i].nid, nodeCount) /\ writeBuf'[i].data # {}
    <3>1. CASE writeBuf'[i] = image
      BY <1>5, <3>1
    <3>2. CASE writeBuf'[i] # image
      <4>1. i \in DOMAIN writeBuf /\ writeBuf'[i] = writeBuf[i]
        BY <1>7, <3>2
      <4> QED BY <4>1 DEF Inv, ContentsInv
    <3> QED BY <3>1, <3>2
  <2> QED BY <1>1, <2>1 DEF Inv, ContentsInv, Image, cacheVars
<1> QED BY <1>8, <1>9, <1>10, <1>11 DEF Inv

\* On to the next node, or to the flags: there is work left.
LEMMA NextNodeKeeps ==
    ASSUME Inv, NextNode, todo # {}, dirtyNodes' = dirtyNodes
    PROVE  /\ todo' \in SUBSET Nids /\ todo' # {}
           /\ wpc' \in {"serialize", "clear"}
           /\ \A n \in todo' : dirtyNodes'[n] # NoObj
<1>1. Min(todo) \in todo /\ todo \in SUBSET Nids
  BY NodeInTurn DEF Inv, CacheTypeOK
<1>2. \A n \in todo : dirtyNodes[n] # NoObj
  BY DEF Inv, WorkerInv
<1>3. CASE todo = {Min(todo)}
  <2>1. wpc' = "clear" /\ todo' = {n \in Nids : dirtyNodes[n] # NoObj}
    BY <1>3 DEF NextNode
  <2>2. Min(todo) \in todo'
    BY <1>1, <1>2, <2>1
  <2> QED BY <2>1, <2>2
<1>4. CASE todo # {Min(todo)}
  <2>1. wpc' = "serialize" /\ todo' = todo \ {Min(todo)}
    BY <1>4 DEF NextNode
  <2> QED BY <1>1, <1>2, <1>4, <2>1
<1> QED BY <1>3, <1>4

\* A write, complete or not, leaves in every region a node image that was
\* there or that it wrote, or no image.
LEMMA WriteKeeps ==
    ASSUME Inv, wpc = "write", NextNode, NEW image, NEW reach,
           image \in {disk[Min(todo)], TornImage, Head(writeBuf)},
           disk' = Overwritten(Min(todo), image, reach),
           writeBuf' \in {writeBuf, <<>>}, failures' \in 0..MaxFailures,
           UNCHANGED <<lifeVars, node, cacheVars, clientVars, dirtyNodes, broken>>
    PROVE  Inv'
<1> DEFINE Fine(im) == im \in Image => GivenNid(im.nid, nodeCount) /\ im.data # {}
           Region == Image \cup {NoImage, TornImage}
<1>1. todo # {} /\ writeBuf # <<>> /\ writeBuf \in Seq(Image) /\ disk \in [Nids -> Region]
  BY DEF Inv, WorkerInv, CacheTypeOK
<1>2. Min(todo) \in Nids
  BY <1>1, NodeInTurn
<1>3. 1 \in DOMAIN writeBuf /\ Head(writeBuf) = writeBuf[1] /\ writeBuf[1] \in Image
  BY <1>1, EmptySeq
<1>4. TornImage \notin Image
  BY Basics DEF TornImage, Image
<1>5. \A n \in Nids : Fine(disk[n])
  BY DEF Inv, ContentsInv
<1>6. Fine(Head(writeBuf))
  BY <1>3 DEF Inv, ContentsInv
<1>7. Fine(image) /\ image \in Region
  BY <1>1, <1>2, <1>3, <1>4, <1>5, <1>6
<1>8. \A n \in Nids : disk'[n] \in {image, TornImage, disk[n]}
  BY DEF Overwritten
<1>9. disk' \in [Nids -> Region]
  <2>1. \A n \in Nids : disk'[n] \in Region
    BY <1>1, <1>7, <1>8
  <2>2. disk' = [n \in Nids |-> disk'[n]]
    BY DEF Overwritten
  <2> QED BY <2>1, <2>2
<1>10. \A n \in Nids : Fine(disk'[n])
  BY <1>4, <1>5, <1>7, <1>8
<1>11. /\ todo' \in SUBSET Nids /\ todo' # {}
       /\ wpc' \in {"serialize", "clear"}
       /\ \A n \in todo' : dirtyNodes'[n] # NoObj
  BY <1>1, NextNodeKeeps
<1>12. CreatedInv' /\ ListInv' /\ HeldInv' /\ MapInv' /\ RememberedInv'
  BY SameWorkKeeps
<1>13. writeBuf' \in Seq(Image)
  <2>1. <<>> \in Seq(Image)
    OBVIOUS
  <2> QED BY <1>1, <2>1
<1> USE DEF lifeVars, cacheVars, clientVars
<1>14. CacheTypeOK'
  BY <1>9, <1>11, <1>13 DEF Inv, CacheTypeOK
<1>15. OpeningInv'
  BY DEF Inv, OpeningInv
<1>16. WorkerInv'
  BY <1>11 DEF Inv, WorkerInv
<1>17. ContentsInv'
  <2>1. \A i \in DOMAIN writeBuf' : GivenNid(writeBuf'[i].nid, nodeCount) /\ writeBuf'[i].data # {}
    <3>1. CASE writeBuf' = writeBuf
      BY <3>1 DEF Inv, ContentsInv
    <3>2. CASE writeBuf' = <<>>
      BY <3>2
    <3> QED BY <3>1, <3>2
  <2> QED BY <1>10, <2>1 DEF Inv, ContentsInv, Image
<1> QED BY <1>12, <1>14, <1>15, <1>16, <1>17 DEF Inv

\* Layout::writeFile, whether pwrite fails or not.
LEMMA WriteFileInv ==
    ASSUME Inv, WriteFile \/ WriteFileFails
    PROVE  Inv'
<1>1. CASE WriteFile
  <2>1. PICK reach \in 0..(Len(writeBuf) - 1) :
            disk' = Overwritten(Min(todo), Head(writeBuf), reach)
    BY <1>1 DEF WriteFile
  <2>2. failures' \in 0..MaxFailures
    BY <1>1 DEF WriteFile, Inv, CacheTypeOK
  <2>3. /\ wpc = "write" /\ NextNode /\ writeBuf' = <<>>
        /\ UNCHANGED <<lifeVars, node, cacheVars, clientVars, dirtyNodes, broken>>
    BY <1>1 DEF WriteFile
  <2> QED BY <2>1, <2>2, <2>3, WriteKeeps
<1>2. CASE WriteFileFails
  <2>1. PICK image \in {disk[Min(todo)], TornImage, Head(writeBuf)},
             reach \in 0..(Len(writeBuf) - 1) :
            disk' = Overwritten(Min(todo), image, reach)
    BY <1>2 DEF WriteFileFails
  <2>2. failures' \in 0..MaxFailures
    BY <1>2, BoundsAssumption DEF WriteFileFails, Inv, CacheTypeOK
  <2>3. /\ wpc = "write" /\ NextNode /\ writeBuf' = writeBuf
        /\ UNCHANGED <<lifeVars, node, cacheVars, clientVars, dirtyNodes, broken>>
    BY <1>2 DEF WriteFileFails
  <2> QED BY <2>1, <2>2, <2>3, WriteKeeps
<1> QED BY <1>1, <1>2

\* setDirty(false): the thread has the node under its nid from now on.
LEMMA ClearDirtyInv ==
    ASSUME Inv, ClearDirty
    PROVE  Inv'
<1> DEFINE n == Min(todo)
           x == dirtyNodes[n]
<1> USE DEF lifeVars, clientVars, cacheVars
<1>1. /\ wpc = "clear"
      /\ node' = [node EXCEPT ![x].dirty = FALSE]
      /\ todo' = todo \ {n}
      /\ wpc' = IF todo' = {} THEN "sleep" ELSE "clear"
      /\ UNCHANGED <<lifeVars, cacheVars, clientVars, dirtyNodes, writeBuf,
                     disk, failures, broken>>
  BY DEF ClearDirty
<1>2. todo # {}
  BY <1>1 DEF Inv, WorkerInv
<1>3. x \in Objs /\ x \in 1..created /\ node[x].self = n
  BY <1>2, NodeInTurn
<1>4. node' = [node EXCEPT ![x].data = node[x].data, ![x].dirty = FALSE]
  <2>1. node[x] \in NodeObj /\ node \in [Objs -> NodeObj]
    BY <1>3, Basics
  <2>2. [node[x] EXCEPT !.dirty = FALSE] = [[node[x] EXCEPT !.data = node[x].data] EXCEPT !.dirty = FALSE]
    BY <2>1 DEF NodeObj
  <2> HIDE DEF x
  <2> QED BY <1>1, <1>3, <2>1, <2>2
<1>5. /\ node' \in [Objs -> NodeObj]
      /\ node'[x] = [self |-> node[x].self, data |-> node[x].data, dirty |-> FALSE]
      /\ \A o \in Objs : o # x => node'[o] = node[o]
  <2>1. node[x].data \in SUBSET Changes
    BY <1>3, Basics
  <2> HIDE DEF x
  <2> QED BY <1>3, <1>4, <2>1, OneNode
<1> HIDE DEF n, x
<1>6. \A o \in Objs : /\ node'[o].self = node[o].self /\ node'[o].data = node[o].data
                      /\ node'[o].dirty => node[o].dirty
                      /\ o # x => node'[o].dirty = node[o].dirty
  <2>1. /\ node'[x].self = node[x].self /\ node'[x].data = node[x].data
        /\ node'[x].dirty = FALSE
    BY <1>5
  <2> QED BY <1>5, <2>1
<1>7. \A o \in Objs : created < o => node'[o] = node[o]
  BY <1>3, <1>5, Basics
<1>8. \A o \in Objs : node'[o].dirty => node'[o].data # {}
  BY <1>6 DEF Inv, ContentsInv
<1>9. CreatedInv' /\ ListInv' /\ ContentsInv' /\ MapInv' /\ OwnNid' = OwnNid /\ Cached' = Cached
  BY <1>1, <1>5, <1>6, <1>7, <1>8, SameNidsKeep
<1>10. CacheTypeOK'
  <2>1. wpc' \in {"sleep", "clear"} /\ todo' \in SUBSET Nids
    BY <1>1 DEF Inv, CacheTypeOK
  <2> QED BY <1>1, <1>5, <2>1 DEF Inv, CacheTypeOK
<1>11. OpeningInv'
  BY <1>1 DEF Inv, OpeningInv
<1>12. HeldInv'
  <2> SUFFICES ASSUME NEW e \in Clients
               PROVE  /\ at[e] # "idle" => held[e] \in 1..created
                      /\ at[e] = "changed" => node'[held[e]].data # {}
    BY <1>1 DEF HeldInv
  <2>1. at[e] # "idle" => held[e] \in 1..created /\ held[e] \in Objs
    BY Basics DEF Inv, HeldInv
  <2> QED BY <1>6, <2>1 DEF Inv, HeldInv
<1>13. WorkerInv'
  <2>1. ASSUME NEW m \in Nids, dirtyNodes[m] # NoObj
        PROVE  /\ dirtyNodes[m] <= created
               /\ node'[dirtyNodes[m]].self = m
               /\ node'[dirtyNodes[m]].data # {}
    <3>1. dirtyNodes[m] \in Objs
      BY <2>1 DEF Inv, CacheTypeOK
    <3> QED BY <1>6, <2>1, <3>1 DEF Inv, WorkerInv
  <2> QED BY <1>1, <2>1 DEF Inv, WorkerInv
<1>14. RememberedInv'
  <2> SUFFICES ASSUME ~misread, NEW o \in Cached
               PROVE  \/ node'[o].data = {}
                      \/ node'[o].dirty
                      \/ \E e \in Clients : at[e] = "changed" /\ held[e] = o
                      \/ dirtyNodes[node'[o].self] = o
    BY <1>1, <1>9 DEF RememberedInv
  <2>1. o \in Objs
    BY Basics DEF Cached, OwnNid
  <2>2. CASE o = x
    BY <1>3, <1>6, <2>1, <2>2 DEF x
  <2>3. CASE o # x
    BY <1>6, <2>1, <2>3 DEF Inv, RememberedInv
  <2> QED BY <2>2, <2>3
<1> QED BY <1>9, <1>10, <1>11, <1>12, <1>13, <1>14 DEF Inv

\* The constructors.
LEMMA InitInv ==
    ASSUME Init
    PROVE  Inv
<1> USE DEF Init
<1>1. 0 \in 0..MaxObjs /\ 0 \in 0..MaxChanges /\ 0 \in 0..MaxGets /\ 0 \in 0..MaxFailures
  BY BoundsAssumption
<1>2. [self |-> 0, data |-> {}, dirty |-> FALSE] \in NodeObj
  BY <1>1 DEF NodeObj
<1>3. node \in [Objs -> NodeObj]
  BY <1>2
<1>4. usedNodes \in Seq(Objs) /\ writeBuf \in Seq(Image) /\ todo \in SUBSET Nids
  OBVIOUS
<1>5. CacheTypeOK
  BY <1>1, <1>3, <1>4 DEF CacheTypeOK
<1>6. \A o \in Objs : o \in Nat /\ o >= 1
  BY BoundsAssumption DEF Objs
<1>7. OpeningInv
  BY DEF OpeningInv
<1>8. CreatedInv
  BY <1>6 DEF CreatedInv
<1>9. DOMAIN usedNodes = {} /\ DOMAIN writeBuf = {} /\ \A o : ~ Listed(o)
  BY DEF Listed, Contains
<1>10. ListInv
  BY <1>9 DEF ListInv, NoObj
<1>11. HeldInv /\ WorkerInv
  BY DEF HeldInv, WorkerInv
<1>12. ContentsInv
  <2>1. NoImage \notin Image
    BY BoundsAssumption DEF NoImage, Image, Nids
  <2> QED BY <1>9, <2>1 DEF ContentsInv
<1>13. MapInv /\ RememberedInv
  BY <1>9 DEF MapInv, RememberedInv, Cached, Listed
<1> QED BY <1>5, <1>7, <1>8, <1>10, <1>11, <1>12, <1>13 DEF Inv

\* Nothing happens.
LEMMA StutterInv ==
    ASSUME Inv, UNCHANGED vars
    PROVE  Inv'
<1> USE DEF vars, lifeVars, cacheVars, clientVars, workerVars
<1>1. CacheTypeOK'
  BY DEF Inv, CacheTypeOK, Image
<1>2. OpeningInv' /\ CreatedInv'
  BY DEF Inv, OpeningInv, CreatedInv
<1>3. ListInv' /\ HeldInv'
  BY DEF Inv, ListInv, HeldInv, Listed, OwnNid, Cached
<1>4. WorkerInv'
  BY DEF Inv, WorkerInv, Listed, OwnNid, Cached
<1>5. ContentsInv'
  BY DEF Inv, ContentsInv, Listed, OwnNid, Cached, Image
<1>6. MapInv' /\ RememberedInv'
  BY DEF Inv, MapInv, RememberedInv, Listed, OwnNid, Cached
<1> QED BY <1>1, <1>2, <1>3, <1>4, <1>5, <1>6 DEF Inv

\* The parts of Inv hold in every state: how the cache, the clients and the
\* write-back thread keep track of the nodes between them.
THEOREM InvHolds == Spec => []Inv
<1>1. Inv /\ [Next]_vars => Inv'
  <2> SUFFICES ASSUME Inv, [Next]_vars PROVE Inv'
    OBVIOUS
  <2>1. CASE Open \/ Close
    BY <2>1, OpeningStepsInv, CreateRootInv, CreateFirstPivotInv DEF Open
  <2>2. ASSUME NEW c \in Clients, GetNewNode(c) \/ Finish(c) PROVE Inv'
    BY <2>2, GetNewNodeInv, ChangeInv, MarkInv, ReleaseInv DEF Finish
  <2>3. ASSUME NEW c \in Clients, NEW n \in Nids, GetNode(c, n) \/ LoadNode(c, n)
        PROVE  Inv'
    BY <2>3, GetNodeInv, LoadNodeInv
  <2>4. CASE WriteBack
    BY <2>4, LockUsedNodesInv, ScanInv, SerializeInv, WriteFileInv, ClearDirtyInv,
       UseDeletedInv DEF WriteBack
  <2>5. CASE UNCHANGED vars
    BY <2>5, StutterInv
  <2> QED BY <2>1, <2>2, <2>3, <2>4, <2>5 DEF Next
<1> QED BY <1>1, InitInv, PTL DEF Spec

\* cacheSize_, an unsigned number, never passes below 0, and every variable
\* keeps its type.
THEOREM CacheTypes == Spec => []CacheTypeOK
<1>1. Inv => CacheTypeOK
  BY DEF Inv
<1> QED BY <1>1, InvHolds, PTL

\* A change that is not in the data file is not forgotten: as long as no lookup
\* has read the image of another node, the node of the change is dirty, about
\* to be marked, or among the nodes every round of the write-back thread writes.
THEOREM NothingForgotten == Spec => []UnwrittenIsRemembered
<1>1. Inv => UnwrittenIsRemembered
  <2> SUFFICES ASSUME Inv, ~misread, NEW o \in Cached, ~ Written(o)
               PROVE  \/ node[o].dirty
                      \/ \E c \in Clients : at[c] = "changed" /\ held[c] = o
                      \/ dirtyNodes[node[o].self] = o
    BY DEF UnwrittenIsRemembered
  <2>1. node[o].data # {}
    BY DEF Written
  <2> QED BY <2>1 DEF Inv, RememberedInv
<1> QED BY <1>1, InvHolds, PTL

\* usedNodes_ never holds two objects for one node, as long as no lookup has
\* read the image of another node.
THEOREM OneCopyOfANode == Spec => []OneCopy
<1>1. Inv => OneCopy
  <2> SUFFICES ASSUME Inv, ~misread, NEW i \in DOMAIN usedNodes, NEW j \in DOMAIN usedNodes,
                      node[usedNodes[i]].self = node[usedNodes[j]].self,
                      usedNodes[i] \in OwnNid
               PROVE  i = j
    BY DEF OneCopy
  <2>1. DOMAIN usedNodes = 1..Len(usedNodes)
    BY Basics
  <2>2. Listed(usedNodes[i]) /\ Listed(usedNodes[j])
    BY <2>1 DEF Listed, Contains
  <2>3. usedNodes[j] \in OwnNid
    BY <2>2, Basics DEF OwnNid
  <2>4. usedNodes[i] = usedNodes[j]
    BY <2>2, <2>3 DEF Inv, MapInv
  <2> QED BY <2>4 DEF Inv, ListInv
<1> QED BY <1>1, InvHolds, PTL

\* Node::serialize is called only when BufferTree::init has given the cache its
\* layout, and for a node that has pivots, as it asserts.
THEOREM FlushReady == Spec => []FlushIsReady
<1>1. Inv => FlushIsReady
  <2> SUFFICES ASSUME Inv, wpc = "serialize"
               PROVE  Tied /\ node[dirtyNodes[Min(todo)]].data # {}
    BY DEF FlushIsReady
  <2>1. todo # {}
    BY DEF Inv, WorkerInv
  <2>2. /\ dirtyNodes[Min(todo)] \in 1..created
        /\ node[dirtyNodes[Min(todo)]].data # {}
    BY <2>1, NodeInTurn
  <2>3. created # 0
    BY <2>2, Basics
  <2>4. phase \in {"pivot", "open", "closed"}
    BY <2>3 DEF Inv, OpeningInv
  <2> QED BY <2>2, <2>4 DEF Tied
<1> QED BY <1>1, InvHolds, PTL
=============================================================================
