--------------------------- MODULE SkiplistProofs ---------------------------
(***************************************************************************)
(* Theorems about Skiplist.                                                *)
(*                                                                         *)
(* Good characterises every pointer by itself, so that no proof needs the  *)
(* list a pointer begins.  The searches and the iteration are functions    *)
(* that are defined by recursion over the nodes; what they compute is      *)
(* shown by giving the result, checking that it solves the equation, and   *)
(* looking at the greatest node where another solution would differ.       *)
(***************************************************************************)
EXTENDS Skiplist, Iteration, FiniteSetTheorems

\* Keys and nodes are numbers; sets of keys are finite.
LEMMA NodeNumbers ==
    /\ KeyCount \in Nat /\ Keys = 1..KeyCount /\ Nodes = 0..KeyCount
    /\ Head_ = 0 /\ Null = -1
    /\ kMaxHeight \in Nat \ {0}
    /\ \A K \in SUBSET Keys : IsFiniteSet(K) /\ Cardinality(K) \in Nat
<1>1. KeyCount \in Nat /\ kMaxHeight \in Nat \ {0}
  BY KeyCountAssumption, HeightAssumption
<1>2. IsFiniteSet(Keys)
  BY <1>1, FS_Interval DEF Keys
<1>3. ASSUME NEW K \in SUBSET Keys PROVE IsFiniteSet(K) /\ Cardinality(K) \in Nat
  BY <1>2, FS_Subset, FS_CardinalityType
<1>4. Nodes = 0..KeyCount
  BY <1>1 DEF Nodes, Keys, Head_
<1> QED BY <1>1, <1>3, <1>4 DEF Keys, Head_, Null

\* y is the last node of S before the key.
Precedes(S, key, y) ==
    y \in S /\ y < key /\ \A u \in S : u < key => u <= y

\* There is one, and it is the only one.
LEMMA LastBefore ==
    ASSUME NEW n \in Nat, NEW S \in SUBSET (0..n), 0 \in S, NEW key \in Nat \ {0}
    PROVE  /\ \E y \in S : Precedes(S, key, y)
           /\ \A y, z : Precedes(S, key, y) /\ Precedes(S, key, z) => y = z
<1> DEFINE D == {u \in S : u < key}
<1>1. D \in SUBSET (0..n) /\ D # {}
  <2>1. 0 \in D
    OBVIOUS
  <2> QED BY <2>1
<1>2. PICK y \in D : \A u \in D : u <= y
  <2>1. Max(D) \in D /\ \A u \in D : u <= Max(D)
    BY <1>1, LargestIn
  <2> HIDE DEF D
  <2> QED BY <2>1
<1>3. Precedes(S, key, y)
  BY <1>2 DEF Precedes
<1>4. ASSUME NEW a, NEW b, Precedes(S, key, a), Precedes(S, key, b) PROVE a = b
  <2>1. a \in 0..n /\ b \in 0..n /\ a <= b /\ b <= a
    BY <1>4 DEF Precedes
  <2> QED BY <2>1
<1> QED BY <1>2, <1>3, <1>4

-----------------------------------------------------------------------------
\* The parts of Good.
LEMMA GoodParts ==
    ASSUME NEW L, Good(L)
    PROVE  /\ DOMAIN L.msg \in SUBSET Keys
           /\ L.msg \in [DOMAIN L.msg -> Messages]
           /\ L.maxHeight \in Heights /\ L.maxHeight \in Nat
           /\ L.count = Cardinality(DOMAIN L.msg) /\ L.count \in Nat
           /\ L.next \in [DOMAIN L.msg \cup {Head_} -> Towers]
           /\ DOMAIN L.next = DOMAIN L.msg \cup {Head_}
           /\ DOMAIN L.next \in SUBSET (0..KeyCount)
           /\ DOMAIN L.next[Head_] = Levels
           /\ L = [next |-> L.next, msg |-> L.msg, maxHeight |-> L.maxHeight,
                   count |-> L.count]
<1>1. DOMAIN L.msg \in SUBSET Keys
  BY DEF Good
<1>2. Cardinality(DOMAIN L.msg) \in Nat
  BY <1>1, NodeNumbers
<1>3. DOMAIN L.next = DOMAIN L.msg \cup {Head_}
  BY DEF Good
<1>4. DOMAIN L.next \in SUBSET (0..KeyCount)
  <2>1. \A k \in Keys : k \in 0..KeyCount
    BY NodeNumbers
  <2>2. Head_ \in 0..KeyCount
    BY NodeNumbers
  <2> QED BY <1>1, <1>3, <2>1, <2>2
<1>5. L.maxHeight \in Heights /\ L.maxHeight \in Nat
  BY NodeNumbers DEF Good, Heights
<1> QED BY <1>1, <1>2, <1>3, <1>4, <1>5 DEF Good

\* The domain of a node's pointers.
LEMMA TowerParts ==
    ASSUME NEW t \in Towers
    PROVE  \E h \in Heights : t \in [0..(h - 1) -> Nodes \cup {Null}]
BY DEF Towers

\* Which nodes a level links.
LEMMA TallParts ==
    ASSUME NEW L, Good(L), NEW l \in Levels
    PROVE  /\ l \in Nat
           /\ Tall(L, l) \in SUBSET (0..KeyCount) /\ 0 \in Tall(L, l)
           /\ Tall(L, l) \subseteq DOMAIN L.next
           /\ l >= L.maxHeight => Tall(L, l) = {0}
           /\ l = 0 => Tall(L, l) = DOMAIN L.next
           /\ l + 1 \in Levels => Tall(L, l + 1) \subseteq Tall(L, l)
           /\ \A x \in Tall(L, l) :
                /\ Follows(Tall(L, l), x, L.next[x][l])
                /\ L.next[x][l] \in Tall(L, l) \cup {Null}
<1>1. l \in Nat
  BY NodeNumbers DEF Levels
<1>2. Tall(L, l) \subseteq DOMAIN L.next
  BY DEF Tall
<1>3. DOMAIN L.next \in SUBSET (0..KeyCount)
  BY GoodParts
<1>4. 0 \in Tall(L, l)
  BY GoodParts, NodeNumbers DEF Tall
<1>5. ASSUME l >= L.maxHeight PROVE Tall(L, l) = {0}
  <2>1. ASSUME NEW x \in DOMAIN L.msg PROVE l \notin DOMAIN L.next[x]
    <3>1. DOMAIN L.next[x] \subseteq 0..(L.maxHeight - 1)
      BY DEF Good
    <3>2. L.maxHeight \in Nat
      BY GoodParts
    <3>3. l \notin 0..(L.maxHeight - 1)
      BY <1>1, <1>5, <3>2
    <3> QED BY <3>1, <3>3
  <2>2. DOMAIN L.next = DOMAIN L.msg \cup {0}
    BY GoodParts, NodeNumbers
  <2>3. ASSUME NEW x \in Tall(L, l) PROVE x = 0
    BY <2>1, <2>2 DEF Tall
  <2> QED BY <2>3, <1>4
<1>6. ASSUME NEW x \in DOMAIN L.next
      PROVE  /\ 0 \in DOMAIN L.next[x]
             /\ l + 1 \in DOMAIN L.next[x] => l \in DOMAIN L.next[x]
  <2>1. PICK h \in Heights : L.next[x] \in [0..(h - 1) -> Nodes \cup {Null}]
    <3>1. L.next[x] \in Towers
      BY GoodParts
    <3> QED BY <3>1, TowerParts
  <2>2. h \in Nat /\ h >= 1 /\ DOMAIN L.next[x] = 0..(h - 1)
    BY <2>1, NodeNumbers DEF Heights
  <2> QED BY <1>1, <2>2
<1>7. ASSUME NEW x \in Tall(L, l)
      PROVE  /\ Follows(Tall(L, l), x, L.next[x][l])
             /\ L.next[x][l] \in Tall(L, l) \cup {Null}
  <2>1. Follows(Tall(L, l), x, L.next[x][l])
    BY DEF Good
  <2> QED BY <2>1 DEF Follows
<1> QED BY <1>1, <1>2, <1>3, <1>4, <1>5, <1>6, <1>7 DEF Tall

\* Walking along a level from any node before the key ends at the last one.
LEMMA WalkResult ==
    ASSUME NEW L, Good(L), NEW l \in Levels, NEW key \in Nat \ {0},
           NEW x \in Tall(L, l), x < key, NEW y, Precedes(Tall(L, l), key, y)
    PROVE  Walk(L, l, x, key) = y
<1> DEFINE S == Tall(L, l)
           z(u) == L.next[u][l]
           Eq(w) == w = [u \in S |->
                        IF z(u) # Null /\ z(u) < key THEN w[z(u)] ELSE u]
           w0 == [u \in S |-> IF u < key THEN y ELSE u]
           w1 == CHOOSE w : Eq(w)
<1>1. /\ S \in SUBSET (0..KeyCount) /\ KeyCount \in Nat
      /\ \A u \in S : Follows(S, u, z(u)) /\ z(u) \in S \cup {Null}
      /\ y \in S /\ y < key /\ \A u \in S : u < key => u <= y
  BY TallParts, NodeNumbers DEF Precedes
<1>2. Eq(w0)
  <2>1. ASSUME NEW u \in S
        PROVE  w0[u] = IF z(u) # Null /\ z(u) < key THEN w0[z(u)] ELSE u
    <3>1. u \in 0..KeyCount /\ Follows(S, u, z(u))
      BY <1>1
    <3>2. CASE z(u) = Null
      <4>1. \A v \in S : v <= u
        BY <3>1, <3>2 DEF Follows
      <4>2. u < key => u = y
        <5>1. y <= u /\ (u < key => u <= y) /\ y \in 0..KeyCount
          BY <1>1, <4>1
        <5> QED BY <3>1, <5>1
      <4> QED BY <3>2, <4>2
    <3>3. CASE z(u) # Null
      <4>1. z(u) \in S /\ u < z(u) /\ \A v \in S : u < v => z(u) <= v
        BY <3>1, <3>3 DEF Follows
      <4>2. z(u) \in 0..KeyCount /\ y \in 0..KeyCount
        BY <1>1, <4>1
      <4>3. CASE z(u) < key
        <5>1. u < key
          BY <3>1, <4>1, <4>2, <4>3
        <5> QED BY <3>3, <4>1, <4>3, <5>1
      <4>4. CASE ~ (z(u) < key)
        <5>1. u < key => u = y
          <6>1. u < key => u <= y
            BY <1>1
          <6>2. u < y => z(u) <= y
            BY <1>1, <4>1
          <6> QED BY <1>1, <3>1, <4>2, <4>4, <6>1, <6>2
        <5> QED BY <4>4, <5>1
      <4> QED BY <4>3, <4>4
    <3> QED BY <3>2, <3>3
  <2> QED BY <2>1
<1>3. Eq(w1)
  <2> HIDE DEF Eq
  <2> QED BY <1>2
<1> HIDE DEF w1
<1>4. \A u \in S : w1[u] = IF z(u) # Null /\ z(u) < key THEN w1[z(u)] ELSE u
  BY <1>3
<1> DEFINE D == {u \in S : u < key /\ w1[u] # y}
<1>5. D = {}
  <2> SUFFICES ASSUME D # {} PROVE FALSE
    OBVIOUS
  <2>1. D \in SUBSET (0..KeyCount)
    BY <1>1
  <2>2. PICK u \in D : \A v \in D : v <= u
    <3>1. Max(D) \in D /\ \A v \in D : v <= Max(D)
      BY <1>1, <2>1, LargestIn
    <3> HIDE DEF D
    <3> QED BY <3>1
  <2>3. u \in S /\ u \in 0..KeyCount /\ u < key /\ w1[u] # y
    BY <1>1, <2>2
  <2>4. CASE z(u) # Null /\ z(u) < key
    <3>1. z(u) \in S /\ u < z(u) /\ z(u) \in 0..KeyCount
      BY <1>1, <2>3, <2>4 DEF Follows
    <3>2. z(u) \notin D
      BY <2>2, <2>3, <3>1
    <3> QED BY <1>4, <2>3, <2>4, <3>1, <3>2
  <2>5. CASE ~ (z(u) # Null /\ z(u) < key)
    <3>1. w0[u] = u
      BY <1>2, <2>3, <2>5
    <3>2. w1[u] = u
      BY <1>4, <2>3, <2>5
    <3> QED BY <2>3, <3>1, <3>2
  <2> QED BY <2>4, <2>5
<1>6. Walk(L, l, x, key) = w1[x]
  BY DEF Walk, w1
<1> QED BY <1>5, <1>6

\* The array prev holds the last node before the key on every level in use.
LEMMA PrevResult ==
    ASSUME NEW L, Good(L), NEW key \in Nat \ {0}
    PROVE  \A l \in 0..(L.maxHeight - 1) :
                /\ l \in Levels
                /\ Precedes(Tall(L, l), key, Prev(L, key)[l])
<1> DEFINE top == L.maxHeight - 1
           from(p, l) == IF l = top THEN Head_ ELSE p[l + 1]
           Eq(p) == p = [l \in 0..top |-> Walk(L, l, from(p, l), key)]
           p0 == [l \in 0..top |-> CHOOSE y : Precedes(Tall(L, l), key, y)]
           p1 == CHOOSE p : Eq(p)
<1>1. top \in Nat /\ \A l \in 0..top : l \in Levels /\ l \in Nat
  <2>1. kMaxHeight \in Nat /\ L.maxHeight \in 1..kMaxHeight
    BY GoodParts, NodeNumbers DEF Heights
  <2> QED BY <2>1 DEF Levels
<1>2. ASSUME NEW l \in 0..top
      PROVE  \E y \in Tall(L, l) : Precedes(Tall(L, l), key, y)
  <2>1. KeyCount \in Nat /\ Tall(L, l) \in SUBSET (0..KeyCount) /\ 0 \in Tall(L, l)
    BY <1>1, TallParts, NodeNumbers
  <2> QED BY <2>1, LastBefore
<1>3. ASSUME NEW l \in 0..top PROVE Precedes(Tall(L, l), key, p0[l])
  BY <1>2
<1> HIDE DEF top, p0
<1>4. ASSUME NEW l \in 0..top, NEW p,
             l # top => Precedes(Tall(L, l + 1), key, p[l + 1]),
             NEW y, Precedes(Tall(L, l), key, y)
      PROVE  Walk(L, l, from(p, l), key) = y
  <2>1. l \in Levels
    BY <1>1
  <2>2. from(p, l) \in Tall(L, l) /\ from(p, l) < key
    <3>1. CASE l = top
      BY <2>1, <3>1, TallParts, NodeNumbers
    <3>2. CASE l # top
      <4>1. l + 1 \in 0..top
        BY <1>1, <3>2
      <4>2. p[l + 1] \in Tall(L, l + 1) /\ p[l + 1] < key
        BY <1>4, <3>2 DEF Precedes
      <4> QED BY <1>1, <2>1, <3>2, <4>1, <4>2, TallParts
    <3> QED BY <3>1, <3>2
  <2> HIDE DEF from
  <2> QED BY <1>4, <2>1, <2>2, WalkResult
<1>5. Eq(p0)
  <2>1. ASSUME NEW l \in 0..top PROVE Walk(L, l, from(p0, l), key) = p0[l]
    <3>1. l # top => l + 1 \in 0..top
      BY <1>1
    <3>2. l # top => Precedes(Tall(L, l + 1), key, p0[l + 1])
      BY <1>3, <3>1
    <3> HIDE DEF from
    <3> QED BY <1>3, <1>4, <3>2
  <2>2. p0 = [l \in 0..top |-> p0[l]]
    BY DEF p0
  <2> HIDE DEF from
  <2> QED BY <2>1, <2>2
<1>6. Eq(p1)
  <2> HIDE DEF Eq
  <2> QED BY <1>5
<1> HIDE DEF p1
<1>7. \A l \in 0..top : p1[l] = Walk(L, l, from(p1, l), key)
  <2> HIDE DEF from
  <2> QED BY <1>6
<1> DEFINE D == {l \in 0..top : p1[l] # p0[l]}
<1>8. D = {}
  <2> SUFFICES ASSUME D # {} PROVE FALSE
    OBVIOUS
  <2>1. PICK l \in D : \A m \in D : m <= l
    <3>1. Max(D) \in D /\ \A v \in D : v <= Max(D)
      BY <1>1, LargestIn
    <3> HIDE DEF D
    <3> QED BY <3>1
  <2>2. l \in 0..top /\ p1[l] # p0[l]
    BY <2>1
  <2>3. ASSUME l # top PROVE Precedes(Tall(L, l + 1), key, p1[l + 1])
    <3>1. l + 1 \in 0..top /\ ~ (l + 1 <= l)
      BY <1>1, <2>2, <2>3
    <3>2. p1[l + 1] = p0[l + 1]
      BY <2>1, <3>1
    <3> QED BY <1>3, <3>1, <3>2
  <2>4. Walk(L, l, from(p1, l), key) = p0[l]
    <3> HIDE DEF from
    <3> QED BY <1>3, <1>4, <2>2, <2>3
  <2> HIDE DEF from
  <2> QED BY <1>7, <2>2, <2>4
<1>9. Prev(L, key) = p1
  BY DEF Prev, p1, top
<1>10. \A l \in 0..top : l \in Levels /\ Precedes(Tall(L, l), key, Prev(L, key)[l])
  BY <1>1, <1>3, <1>8, <1>9
<1> QED BY <1>10 DEF top

-----------------------------------------------------------------------------
\* Linking a node between the last node before it and the next one keeps the
\* order,
LEMMA FollowsLinked ==
    ASSUME NEW n \in Nat, NEW S \in SUBSET (0..n), NEW key \in 1..n, key \notin S,
           NEW y, Precedes(S, key, y), NEW z, Follows(S, y, z)
    PROVE  /\ Follows(S \cup {key}, y, key)
           /\ Follows(S \cup {key}, key, z)
           /\ \A x \in S \ {y} : \A u :
                Follows(S, x, u) => Follows(S \cup {key}, x, u)
<1>1. y \in S /\ y \in 0..n /\ y < key /\ \A u \in S : u < key => u <= y
  BY DEF Precedes
<1>2. key # Null /\ key \in Nat /\ \A u \in S : u \in Nat /\ u # key
  BY DEF Null
<1>3. Follows(S \cup {key}, y, key)
  <2>1. ASSUME NEW u \in S \cup {key}, y < u PROVE key <= u
    BY <1>1, <1>2, <2>1
  <2> QED BY <1>1, <1>2, <2>1 DEF Follows
<1>4. Follows(S \cup {key}, key, z)
  <2>1. CASE z = Null
    <3>1. \A u \in S : u <= y
      BY <2>1 DEF Follows
    <3>2. \A u \in S \cup {key} : u <= key
      BY <1>1, <1>2, <3>1
    <3> QED BY <2>1, <3>2 DEF Follows
  <2>2. CASE z # Null
    <3>1. z \in S /\ y < z /\ \A u \in S : y < u => z <= u
      BY <2>2 DEF Follows
    <3>2. key < z
      BY <1>1, <1>2, <3>1
    <3>3. ASSUME NEW u \in S \cup {key}, key < u PROVE z <= u
      <4>1. u \in S /\ y < u
        BY <1>1, <1>2, <3>3
      <4> QED BY <3>1, <4>1
    <3> QED BY <2>2, <3>1, <3>2, <3>3 DEF Follows
  <2> QED BY <2>1, <2>2
<1>5. ASSUME NEW x \in S \ {y}, NEW u, Follows(S, x, u)
      PROVE  Follows(S \cup {key}, x, u)
  <2>1. CASE u = Null
    <3>1. \A v \in S : v <= x
      BY <1>5, <2>1 DEF Follows
    <3>2. key <= x
      BY <1>1, <1>2, <3>1
    <3> QED BY <2>1, <3>1, <3>2 DEF Follows
  <2>2. CASE u # Null
    <3>1. u \in S /\ x < u /\ \A v \in S : x < v => u <= v
      BY <1>5, <2>2 DEF Follows
    <3>2. x < key => u <= key
      <4>1. x < key => x < y
        BY <1>1, <1>2
      <4> QED BY <1>1, <1>2, <3>1, <4>1
    <3> QED BY <2>2, <3>1, <3>2 DEF Follows
  <2> QED BY <2>1, <2>2
<1> QED BY <1>3, <1>4, <1>5

\* and so does unlinking one.
LEMMA FollowsUnlinked ==
    ASSUME NEW n \in Nat, NEW S \in SUBSET (0..n), NEW key \in Nat,
           NEW x \in S \ {key}, NEW z, Follows(S, x, z)
    PROVE  /\ z # key => Follows(S \ {key}, x, z)
           /\ z = key => \A u : Follows(S, key, u) => Follows(S \ {key}, x, u)
<1>1. key # Null /\ x \in Nat /\ \A u \in S : u \in Nat
  BY DEF Null
<1>2. CASE z # key
  BY <1>2 DEF Follows
<1>3. ASSUME z = key, NEW u, Follows(S, key, u) PROVE Follows(S \ {key}, x, u)
  <2>1. key \in S /\ x < key /\ \A v \in S : x < v => key <= v
    BY <1>1, <1>3 DEF Follows
  <2>2. CASE u = Null
    <3>1. ASSUME NEW v \in S \ {key} PROVE v <= x
      <4>1. v <= key
        BY <1>3, <2>2 DEF Follows
      <4> QED BY <1>1, <2>1, <3>1, <4>1
    <3> QED BY <2>2, <3>1 DEF Follows
  <2>3. CASE u # Null
    <3>1. u \in S /\ key < u /\ \A v \in S : key < v => u <= v
      BY <1>3, <2>3 DEF Follows
    <3>2. u # key /\ x < u
      BY <1>1, <2>1, <3>1
    <3>3. ASSUME NEW v \in S \ {key}, x < v PROVE u <= v
      BY <1>1, <2>1, <3>1, <3>3
    <3> QED BY <2>3, <3>1, <3>2, <3>3 DEF Follows
  <2> QED BY <2>2, <2>3
<1> QED BY <1>2, <1>3

\* Where a node is followed by the key, it is the last one before it.
LEMMA FollowedByKey ==
    ASSUME NEW n \in Nat, NEW S \in SUBSET (0..n), NEW key \in Nat, NEW x \in S,
           Follows(S, x, key)
    PROVE  key \in S /\ Precedes(S, key, x)
<1>1. key # Null /\ \A u \in S : u \in Nat
  BY DEF Null
<1>2. key \in S /\ x < key /\ \A u \in S : x < u => key <= u
  BY <1>1 DEF Follows
<1>3. ASSUME NEW u \in S, u < key PROVE u <= x
  BY <1>1, <1>2, <1>3
<1> QED BY <1>2, <1>3 DEF Precedes

\* findGreaterOrEqual returns the first node that is not before the key,
\* findLessThan the last one before it, and contains knows the keys.
LEMMA SearchResult ==
    ASSUME NEW L, Good(L), NEW key \in Nat \ {0}
    PROVE  LET S == DOMAIN L.next
               r == FindGreaterOrEqual(L, key)
           IN  /\ Precedes(S, key, FindLessThan(L, key))
               /\ IF r = Null THEN \A y \in S : y < key
                  ELSE r \in S /\ key <= r /\ \A y \in S : key <= y => r <= y
               /\ ContainsKey(L, key) <=> key \in DOMAIN L.msg
<1> DEFINE S == DOMAIN L.next
           r == FindGreaterOrEqual(L, key)
           y == Prev(L, key)[0]
<1>1. 0 \in Levels /\ 0 \in 0..(L.maxHeight - 1)
  <2>1. kMaxHeight \in Nat /\ L.maxHeight \in 1..kMaxHeight
    BY GoodParts, NodeNumbers DEF Heights
  <2> QED BY <2>1 DEF Levels
<1>2. Tall(L, 0) = S /\ S \in SUBSET (0..KeyCount)
  BY <1>1, TallParts, GoodParts
<1>3. Precedes(S, key, y)
  BY <1>1, <1>2, PrevResult
<1>4. Follows(S, y, r)
  <2>1. y \in S
    BY <1>3 DEF Precedes
  <2> QED BY <1>1, <1>2, <2>1, TallParts DEF FindGreaterOrEqual
<1>5. KeyCount \in Nat /\ y \in 0..KeyCount /\ y < key /\ \A u \in S : u < key => u <= y
  BY <1>2, <1>3, NodeNumbers DEF Precedes
<1>6. CASE r = Null
  <2>1. ASSUME NEW u \in S PROVE u < key
    <3>1. u <= y /\ u \in 0..KeyCount
      BY <1>2, <1>4, <1>6 DEF Follows
    <3> QED BY <1>5, <3>1
  <2>2. key \notin S /\ r # key
    BY <1>6, <2>1 DEF Null
  <2> QED BY <1>3, <1>6, <2>1, <2>2, GoodParts DEF ContainsKey, FindLessThan
<1>7. CASE r # Null
  <2>1. r \in S /\ y < r /\ \A u \in S : y < u => r <= u
    BY <1>4, <1>7 DEF Follows
  <2>2. r \in 0..KeyCount /\ key <= r
    BY <1>2, <1>5, <2>1
  <2>3. ASSUME NEW u \in S, key <= u PROVE r <= u
    <3>1. u \in 0..KeyCount
      BY <1>2
    <3> QED BY <1>5, <2>1, <2>3, <3>1
  <2>4. r = key <=> key \in S
    BY <2>1, <2>2, <2>3
  <2>5. key \in S <=> key \in DOMAIN L.msg
    BY GoodParts, NodeNumbers
  <2> QED BY <1>3, <1>7, <2>1, <2>2, <2>3, <2>4, <2>5 DEF ContainsKey, FindLessThan
<1> QED BY <1>6, <1>7

-----------------------------------------------------------------------------
\* What the operations do to the list.

\* Good, from what each level links.
LEMMA GoodFrom ==
    ASSUME NEW M, NEW A \in SUBSET Keys, NEW next \in [A \cup {Head_} -> Towers],
           NEW msg \in [A -> Messages], NEW mh \in Heights,
           M = [next |-> next, msg |-> msg, maxHeight |-> mh,
                count |-> Cardinality(A)],
           DOMAIN next[Head_] = Levels,
           \A x \in A : DOMAIN next[x] \subseteq 0..(mh - 1),
           \A l \in Levels : \A x \in Tall(M, l) :
                Follows(Tall(M, l), x, next[x][l])
    PROVE  Good(M)
<1>1. /\ M.next = next /\ M.msg = msg /\ M.maxHeight = mh
      /\ M.count = Cardinality(A) /\ DOMAIN M.msg = A
  OBVIOUS
<1> QED BY <1>1 DEF Good

\* The taller of two heights.
LEMMA Raised ==
    ASSUME NEW a \in Heights, NEW b \in Heights
    PROVE  LET m == Max({a, b}) IN m \in Heights /\ a <= m /\ b <= m
<1>1. {a, b} \in SUBSET (0..kMaxHeight) /\ kMaxHeight \in Nat
  BY NodeNumbers DEF Heights
<1>2. Max({a, b}) \in {a, b} /\ \A y \in {a, b} : y <= Max({a, b})
  BY <1>1, LargestIn
<1> QED BY <1>2

\* insert.
LEMMA InsertResult ==
    ASSUME NEW L, Good(L), NEW key \in Keys, NEW m \in Messages, NEW h \in Heights
    PROVE  LET M == InsertNode(L, key, m, h)
           IN  /\ Good(M)
               /\ DOMAIN M.msg = DOMAIN L.msg \cup {key}
               /\ \A k \in DOMAIN M.msg : M.msg[k] = IF k = key THEN m ELSE L.msg[k]
<1> DEFINE M == InsertNode(L, key, m, h)
           A == DOMAIN L.msg
           raised == Max({L.maxHeight, h})
           msg == [x \in A \cup {key} |-> IF x = key THEN m ELSE L.msg[x]]
           At(l) == IF l < L.maxHeight THEN Prev(L, key)[l] ELSE Head_
           tower(x) == [l \in DOMAIN L.next[x] |->
                          IF l < h /\ x = At(l) THEN key ELSE L.next[x][l]]
           new == [l \in 0..(h - 1) |-> L.next[At(l)][l]]
           next == [x \in DOMAIN L.next \cup {key} |->
                      IF x = key THEN new ELSE tower(x)]
<1>1. /\ raised \in Heights /\ raised \in Nat
      /\ L.maxHeight <= raised /\ h <= raised
      /\ L.maxHeight \in Nat /\ h \in Nat
      /\ kMaxHeight \in Nat /\ L.maxHeight \in 1..kMaxHeight /\ h \in 1..kMaxHeight
  <2>1. L.maxHeight \in Heights
    BY GoodParts
  <2>2. raised \in Heights /\ L.maxHeight <= raised /\ h <= raised
    BY <2>1, Raised
  <2> HIDE DEF raised
  <2> QED BY <2>1, <2>2, NodeNumbers DEF Heights
<1>2. key \in Nat \ {0} /\ key \in 1..KeyCount /\ KeyCount \in Nat /\ key # Head_
  BY NodeNumbers
<1>3. msg \in [A \cup {key} -> Messages] /\ A \cup {key} \in SUBSET Keys
  BY GoodParts
<1> HIDE DEF raised
<1>4. CASE ContainsKey(L, key)
  <2>1. key \in A
    BY <1>2, <1>4, SearchResult
  <2>2. M = [L EXCEPT !.msg[key] = m, !.maxHeight = raised]
    BY <1>4 DEF InsertNode, raised
  <2>3. /\ A \cup {key} = A
        /\ [L.msg EXCEPT ![key] = m] = msg
    BY <2>1, GoodParts
  <2>4. M = [next |-> L.next, msg |-> msg, maxHeight |-> raised,
             count |-> Cardinality(A)]
    <3>1. /\ L = [next |-> L.next, msg |-> L.msg, maxHeight |-> L.maxHeight,
                  count |-> L.count]
          /\ L.count = Cardinality(A)
      BY GoodParts
    <3>2. M = [next |-> L.next, msg |-> [L.msg EXCEPT ![key] = m],
               maxHeight |-> raised, count |-> L.count]
      BY <2>2, <3>1
    <3> QED BY <2>3, <3>1, <3>2
  <2>5. \A l : Tall(M, l) = Tall(L, l)
    BY <2>4 DEF Tall
  <2>6. ASSUME NEW x \in A PROVE DOMAIN L.next[x] \subseteq 0..(raised - 1)
    <3>1. DOMAIN L.next[x] \subseteq 0..(L.maxHeight - 1)
      BY DEF Good
    <3>2. \A l \in 0..(L.maxHeight - 1) : l \in 0..(raised - 1)
      BY <1>1
    <3> QED BY <3>1, <3>2
  <2>7. \A l \in Levels : \A x \in Tall(M, l) : Follows(Tall(M, l), x, L.next[x][l])
    BY <2>5, TallParts
  <2>8. /\ A \in SUBSET Keys /\ L.next \in [A \cup {Head_} -> Towers]
        /\ msg \in [A -> Messages] /\ DOMAIN L.next[Head_] = Levels
    BY <1>3, <2>3, GoodParts
  <2>9. Good(M)
    <3> HIDE DEF M, msg, A
    <3> QED BY <1>1, <2>4, <2>6, <2>7, <2>8, GoodFrom
  <2>10. M.msg = msg
    BY <2>4
  <2> QED BY <2>9, <2>10
<1>5. CASE ~ContainsKey(L, key)
  <2>1. key \notin A /\ key \notin DOMAIN L.next /\ DOMAIN L.next = A \cup {Head_}
    <3>1. key \notin A
      BY <1>2, <1>5, SearchResult
    <3>2. DOMAIN L.next = A \cup {Head_}
      BY GoodParts
    <3> QED BY <1>2, <3>1, <3>2
  <2>2. M = [next |-> next, msg |-> msg, maxHeight |-> raised,
             count |-> Cardinality(A \cup {key})]
    <3>1. M = [next |-> next, count |-> L.count + 1, maxHeight |-> raised,
               msg |-> msg]
      BY <1>5 DEF InsertNode, raised
    <3>2. IsFiniteSet(A) /\ L.count = Cardinality(A)
      BY GoodParts, NodeNumbers
    <3>3. Cardinality(A \cup {key}) = L.count + 1
      BY <2>1, <3>2, FS_AddElement
    <3> QED BY <3>1, <3>3
  <2>3. ASSUME NEW l \in 0..(h - 1)
        PROVE  /\ l \in Levels /\ Precedes(Tall(L, l), key, At(l))
               /\ Follows(Tall(L, l), At(l), L.next[At(l)][l])
               /\ L.next[At(l)][l] \in Nodes \cup {Null}
    <3>1. l \in Levels /\ l \in Nat
      BY <1>1 DEF Levels
    <3>2. Precedes(Tall(L, l), key, At(l))
      <4>1. CASE l < L.maxHeight
        <5>1. l \in 0..(L.maxHeight - 1)
          BY <1>1, <3>1, <4>1
        <5> QED BY <1>2, <4>1, <5>1, PrevResult
      <4>2. CASE ~ (l < L.maxHeight)
        <5>1. Tall(L, l) = {0} /\ Head_ = 0
          BY <1>1, <3>1, <4>2, TallParts, NodeNumbers
        <5> QED BY <1>2, <4>2, <5>1 DEF Precedes
      <4> QED BY <4>1, <4>2
    <3> HIDE DEF At
    <3>3. At(l) \in Tall(L, l)
      BY <3>2 DEF Precedes
    <3>4. L.next[At(l)][l] \in Tall(L, l) \cup {Null}
      BY <3>1, <3>3, TallParts
    <3>5. Tall(L, l) \subseteq Nodes
      BY <3>1, TallParts, NodeNumbers
    <3> QED BY <3>1, <3>2, <3>3, <3>4, <3>5, TallParts
  <2>4. new \in Towers /\ DOMAIN new = 0..(h - 1)
    <3>1. new \in [0..(h - 1) -> Nodes \cup {Null}]
      <4> HIDE DEF At
      <4> QED BY <2>3
    <3> QED BY <3>1 DEF Towers
  <2>5. ASSUME NEW x \in DOMAIN L.next
        PROVE  tower(x) \in Towers /\ DOMAIN tower(x) = DOMAIN L.next[x]
    <3>1. PICK g \in Heights : L.next[x] \in [0..(g - 1) -> Nodes \cup {Null}]
      <4>1. L.next[x] \in Towers
        BY GoodParts
      <4> QED BY <4>1, TowerParts
    <3>2. key \in Nodes
      BY DEF Nodes
    <3>3. tower(x) \in [0..(g - 1) -> Nodes \cup {Null}]
      <4> HIDE DEF At
      <4> QED BY <3>1, <3>2
    <3> QED BY <3>3 DEF Towers
  <2> HIDE DEF At, tower, new
  <2>6. next \in [A \cup {key} \cup {Head_} -> Towers]
    <3>1. A \cup {key} \cup {Head_} = DOMAIN L.next \cup {key}
      BY <2>1
    <3>2. \A x \in DOMAIN L.next \cup {key} : next[x] \in Towers
      BY <2>4, <2>5
    <3> QED BY <3>1, <3>2
  <2>7. /\ next[key] = new
        /\ \A x \in DOMAIN L.next : next[x] = tower(x) /\ DOMAIN next[x] = DOMAIN L.next[x]
    BY <2>1, <2>5
  <2>8. DOMAIN next = DOMAIN L.next \cup {key}
    OBVIOUS
  <2> HIDE DEF next
  <2>9. ASSUME NEW l \in Levels
        PROVE  /\ l < h => Tall(M, l) = Tall(L, l) \cup {key}
               /\ ~ (l < h) => Tall(M, l) = Tall(L, l)
    <3>1. l \in Nat /\ (l < h <=> l \in DOMAIN next[key])
      <4>1. l \in Nat
        BY TallParts
      <4>2. l \in 0..(h - 1) <=> l < h
        BY <1>1, <4>1
      <4> QED BY <2>4, <2>7, <4>1, <4>2
    <3> QED BY <2>1, <2>2, <2>7, <2>8, <3>1 DEF Tall
  <2>10. ASSUME NEW l \in Levels, NEW x \in Tall(M, l)
         PROVE  Follows(Tall(M, l), x, next[x][l])
    <3> DEFINE S == Tall(L, l)
    <3>1. /\ S \in SUBSET (0..KeyCount) /\ S \subseteq DOMAIN L.next /\ l \in Nat
          /\ \A u \in S : Follows(S, u, L.next[u][l])
      BY TallParts
    <3>2. ASSUME NEW u \in S
          PROVE  next[u][l] = IF l < h /\ u = At(l) THEN key ELSE L.next[u][l]
      <4>1. l \in DOMAIN L.next[u] /\ next[u] = tower(u)
        BY <2>7, <3>1 DEF Tall
      <4> QED BY <4>1 DEF tower
    <3>3. CASE l < h
      <4>1. l \in 0..(h - 1)
        BY <1>1, <3>1, <3>3
      <4>2. /\ Precedes(S, key, At(l)) /\ Follows(S, At(l), L.next[At(l)][l])
            /\ key \notin S
        BY <2>1, <2>3, <3>1, <4>1
      <4>3. /\ Follows(S \cup {key}, At(l), key)
            /\ Follows(S \cup {key}, key, L.next[At(l)][l])
            /\ \A y \in S \ {At(l)} : \A u :
                 Follows(S, y, u) => Follows(S \cup {key}, y, u)
        <5> HIDE DEF S
        <5> QED BY <1>2, <3>1, <4>2, FollowsLinked
      <4>4. Tall(M, l) = S \cup {key}
        BY <2>9, <3>3
      <4>5. CASE x = key
        <5>1. next[x][l] = L.next[At(l)][l]
          BY <2>7, <4>1, <4>5 DEF new
        <5> QED BY <4>3, <4>4, <4>5, <5>1
      <4>6. CASE x # key /\ x = At(l)
        BY <3>2, <3>3, <4>3, <4>4, <4>6
      <4>7. CASE x # key /\ x # At(l)
        <5>1. x \in S \ {At(l)} /\ next[x][l] = L.next[x][l]
          BY <3>2, <4>4, <4>7
        <5> QED BY <3>1, <4>3, <4>4, <5>1
      <4> QED BY <4>5, <4>6, <4>7
    <3>4. CASE ~ (l < h)
      BY <2>9, <3>1, <3>2, <3>4
    <3> QED BY <3>3, <3>4
  <2>11. ASSUME NEW x \in A \cup {key} PROVE DOMAIN next[x] \subseteq 0..(raised - 1)
    <3>1. CASE x = key
      <4>1. \A l \in 0..(h - 1) : l \in 0..(raised - 1)
        BY <1>1
      <4> QED BY <2>4, <2>7, <3>1, <4>1
    <3>2. CASE x # key
      <4>1. x \in A /\ DOMAIN L.next[x] \subseteq 0..(L.maxHeight - 1)
        BY <3>2 DEF Good
      <4>2. \A l \in 0..(L.maxHeight - 1) : l \in 0..(raised - 1)
        BY <1>1
      <4> QED BY <2>1, <2>7, <4>1, <4>2
    <3> QED BY <3>1, <3>2
  <2>12. DOMAIN next[Head_] = Levels
    BY <2>1, <2>7, GoodParts
  <2>13. Good(M)
    <3> DEFINE B == A \cup {key}
    <3>1. /\ B \in SUBSET Keys /\ next \in [B \cup {Head_} -> Towers]
          /\ msg \in [B -> Messages]
          /\ M = [next |-> next, msg |-> msg, maxHeight |-> raised,
                  count |-> Cardinality(B)]
          /\ \A x \in B : DOMAIN next[x] \subseteq 0..(raised - 1)
      BY <1>3, <2>2, <2>6, <2>11
    <3> HIDE DEF M, msg, B
    <3> QED BY <1>1, <2>10, <2>12, <3>1, GoodFrom
  <2>14. M.msg = msg
    BY <2>2
  <2> QED BY <2>13, <2>14
<1> QED BY <1>4, <1>5

\* erase.
LEMMA EraseResult ==
    ASSUME NEW L, Good(L), NEW key \in Keys, ContainsKey(L, key)
    PROVE  LET M == EraseNode(L, key)
           IN  /\ Good(M)
               /\ DOMAIN M.msg = DOMAIN L.msg \ {key}
               /\ \A k \in DOMAIN M.msg : M.msg[k] = L.msg[k]
<1> DEFINE M == EraseNode(L, key)
           A == DOMAIN L.msg
           B == A \ {key}
           msg == [x \in B |-> L.msg[x]]
           cut(x, l) == l < L.maxHeight /\ Prev(L, key)[l] = x /\ L.next[x][l] = key
           tower(x) == [l \in DOMAIN L.next[x] |->
                          IF cut(x, l) THEN L.next[key][l] ELSE L.next[x][l]]
           next == [x \in DOMAIN L.next \ {key} |-> tower(x)]
<1>1. /\ L.maxHeight \in Nat /\ L.maxHeight \in Heights
      /\ key \in Nat \ {0} /\ KeyCount \in Nat /\ key # Head_
      /\ DOMAIN L.next = A \cup {Head_} /\ A \in SUBSET Keys
  <2>1. key \in Nat \ {0} /\ KeyCount \in Nat /\ key # Head_
    BY NodeNumbers
  <2> QED BY <2>1, GoodParts
<1>2. key \in A
  BY <1>1, SearchResult
<1>3. M = [next |-> next, msg |-> msg, maxHeight |-> L.maxHeight,
           count |-> Cardinality(B)]
  <2>1. M = [next |-> next, msg |-> msg, maxHeight |-> L.maxHeight,
             count |-> L.count - 1]
    BY DEF EraseNode
  <2>2. IsFiniteSet(A) /\ L.count = Cardinality(A)
    BY GoodParts, NodeNumbers
  <2>3. Cardinality(B) = L.count - 1
    BY <1>2, <2>2, FS_RemoveElement
  <2> QED BY <2>1, <2>3
<1> HIDE DEF cut
<1>4. ASSUME NEW l \in Levels, NEW x \in Tall(L, l)
      PROVE  /\ cut(x, l) <=> L.next[x][l] = key
             /\ cut(x, l) => key \in Tall(L, l)
  <2>1. /\ l \in Nat /\ Tall(L, l) \in SUBSET (0..KeyCount) /\ 0 \in Tall(L, l)
        /\ Follows(Tall(L, l), x, L.next[x][l])
        /\ l >= L.maxHeight => Tall(L, l) = {0}
    BY TallParts
  <2>2. ASSUME L.next[x][l] = key PROVE cut(x, l) /\ key \in Tall(L, l)
    <3>1. key \in Tall(L, l) /\ Precedes(Tall(L, l), key, x)
      BY <1>1, <2>1, <2>2, FollowedByKey
    <3>2. l < L.maxHeight /\ l \in 0..(L.maxHeight - 1)
      BY <1>1, <2>1, <3>1
    <3>3. Precedes(Tall(L, l), key, Prev(L, key)[l])
      BY <1>1, <3>2, PrevResult
    <3>4. Prev(L, key)[l] = x
      BY <1>1, <2>1, <3>1, <3>3, LastBefore
    <3> QED BY <2>2, <3>1, <3>2, <3>4 DEF cut
  <2> QED BY <2>2 DEF cut
<1>5. ASSUME NEW x \in DOMAIN L.next
      PROVE  tower(x) \in Towers /\ DOMAIN tower(x) = DOMAIN L.next[x]
  <2>1. PICK g \in Heights : L.next[x] \in [0..(g - 1) -> Nodes \cup {Null}]
    <3>1. L.next[x] \in Towers
      BY GoodParts
    <3> QED BY <3>1, TowerParts
  <2>2. ASSUME NEW l \in 0..(g - 1), cut(x, l) PROVE L.next[key][l] \in Nodes \cup {Null}
    <3>1. l \in Levels
      <4>1. g \in Nat /\ g <= kMaxHeight /\ kMaxHeight \in Nat
        BY NodeNumbers DEF Heights
      <4> QED BY <4>1 DEF Levels
    <3>2. x \in Tall(L, l)
      BY <2>1 DEF Tall
    <3>3. key \in Tall(L, l)
      BY <1>4, <2>2, <3>1, <3>2
    <3>4. L.next[key][l] \in Tall(L, l) \cup {Null} /\ Tall(L, l) \subseteq Nodes
      BY <3>1, <3>3, TallParts, NodeNumbers
    <3> QED BY <3>4
  <2>3. tower(x) \in [0..(g - 1) -> Nodes \cup {Null}]
    BY <2>1, <2>2
  <2> QED BY <2>3 DEF Towers
<1> HIDE DEF tower
<1>6. /\ \A x \in DOMAIN L.next \ {key} :
           next[x] = tower(x) /\ DOMAIN next[x] = DOMAIN L.next[x]
      /\ DOMAIN next = DOMAIN L.next \ {key}
  BY <1>5
<1>7. next \in [B \cup {Head_} -> Towers] /\ B \in SUBSET Keys /\ msg \in [B -> Messages]
  <2>1. B \cup {Head_} = DOMAIN L.next \ {key}
    BY <1>1
  <2> QED BY <1>1, <1>5, <2>1, GoodParts
<1> HIDE DEF next
<1>8. ASSUME NEW l \in Levels PROVE Tall(M, l) = Tall(L, l) \ {key}
  BY <1>3, <1>6 DEF Tall
<1>9. ASSUME NEW l \in Levels, NEW x \in Tall(M, l)
      PROVE  Follows(Tall(M, l), x, next[x][l])
  <2> DEFINE S == Tall(L, l)
  <2>1. /\ S \in SUBSET (0..KeyCount) /\ S \subseteq DOMAIN L.next
        /\ \A u \in S : Follows(S, u, L.next[u][l])
        /\ x \in S \ {key} /\ Tall(M, l) = S \ {key}
    BY <1>8, TallParts
  <2>2. next[x][l] = IF L.next[x][l] = key THEN L.next[key][l] ELSE L.next[x][l]
    <3>1. l \in DOMAIN L.next[x] /\ next[x] = tower(x)
      BY <1>6, <2>1 DEF Tall
    <3> QED BY <1>4, <2>1, <3>1 DEF tower
  <2>3. L.next[x][l] = key => key \in S
    BY <1>4, <2>1
  <2>4. /\ L.next[x][l] # key => Follows(S \ {key}, x, L.next[x][l])
        /\ L.next[x][l] = key => \A u : Follows(S, key, u) => Follows(S \ {key}, x, u)
    <3>1. key \in Nat /\ Follows(S, x, L.next[x][l])
      BY <1>1, <2>1
    <3> HIDE DEF S
    <3> QED BY <1>1, <2>1, <3>1, FollowsUnlinked
  <2> QED BY <2>1, <2>2, <2>3, <2>4
<1>10. ASSUME NEW x \in B PROVE DOMAIN next[x] \subseteq 0..(L.maxHeight - 1)
  <2>1. x \in A /\ DOMAIN L.next[x] \subseteq 0..(L.maxHeight - 1)
    BY DEF Good
  <2> QED BY <1>1, <1>6, <2>1
<1>11. DOMAIN next[Head_] = Levels
  BY <1>1, <1>6, GoodParts
<1>12. Good(M)
  <2> HIDE DEF M, msg, B
  <2> QED BY <1>1, <1>3, <1>7, <1>9, <1>10, <1>11, GoodFrom
<1>13. M.msg = msg
  BY <1>3
<1> QED BY <1>12, <1>13

-----------------------------------------------------------------------------
\* Iteration

\* s lists the elements of S in ascending order.
Lists(s, S) ==
    /\ s \in Seq(S)
    /\ \A i, j \in 1..Len(s) : i < j => s[i] < s[j]
    /\ \A y \in S : \E i \in 1..Len(s) : s[i] = y

\* A smaller element goes to the front.
LEMMA ListsFrom ==
    ASSUME NEW S \in SUBSET Nat, NEW x \in Nat, \A y \in S : x < y,
           NEW s, Lists(s, S)
    PROVE  Lists(<<x>> \o s, S \cup {x})
<1> DEFINE T == S \cup {x}
           t == <<x>> \o s
<1>1. s \in Seq(T) /\ <<x>> \in Seq(T) /\ Len(<<x>>) = 1 /\ <<x>>[1] = x
  BY DEF Lists
<1>2. Len(s) \in Nat /\ \A i \in 1..Len(s) : s[i] \in S
  BY DEF Lists
<1> HIDE DEF T
<1>3. /\ t \in Seq(T) /\ Len(t) = Len(s) + 1
      /\ \A i \in 1..(Len(s) + 1) : t[i] = IF i = 1 THEN x ELSE s[i - 1]
  <2>1. /\ t \in Seq(T) /\ Len(t) = 1 + Len(s)
        /\ \A i \in 1..(1 + Len(s)) : t[i] = IF i <= 1 THEN <<x>>[i] ELSE s[i - 1]
    BY <1>1, ConcatProperties
  <2>2. Len(s) + 1 = 1 + Len(s) /\ \A i \in 1..(Len(s) + 1) : i <= 1 <=> i = 1
    BY <1>2
  <2> HIDE DEF t
  <2> QED BY <1>1, <2>1, <2>2
<1> HIDE DEF t
<1>4. ASSUME NEW i \in 1..Len(t), NEW j \in 1..Len(t), i < j PROVE t[i] < t[j]
  <2>1. j - 1 \in 1..Len(s) /\ j # 1 /\ j \in 1..(Len(s) + 1) /\ i \in 1..(Len(s) + 1)
    BY <1>2, <1>3, <1>4
  <2>2. t[j] = s[j - 1] /\ s[j - 1] \in S
    BY <1>2, <1>3, <2>1
  <2>3. CASE i = 1
    BY <1>3, <2>1, <2>2, <2>3
  <2>4. CASE i # 1
    <3>1. i - 1 \in 1..Len(s) /\ i - 1 < j - 1
      BY <1>2, <1>4, <2>1, <2>4
    <3>2. s[i - 1] < s[j - 1]
      BY <2>1, <3>1 DEF Lists
    <3> QED BY <1>3, <2>1, <2>2, <2>4, <3>2
  <2> QED BY <2>3, <2>4
<1>5. ASSUME NEW y \in T PROVE \E i \in 1..Len(t) : t[i] = y
  <2>1. CASE y = x
    <3>1. 1 \in 1..Len(t) /\ t[1] = x
      BY <1>2, <1>3
    <3> QED BY <2>1, <3>1
  <2>2. CASE y \in S
    <3>1. PICK i \in 1..Len(s) : s[i] = y
      BY <2>2 DEF Lists
    <3>2. i + 1 \in 1..(Len(s) + 1) /\ i + 1 # 1 /\ (i + 1) - 1 = i
      BY <1>2
    <3>3. t[i + 1] = y
      BY <1>3, <3>1, <3>2
    <3> QED BY <1>3, <3>2, <3>3
  <2> QED BY <2>1, <2>2 DEF T
<1>6. Lists(t, T)
  BY <1>3, <1>4, <1>5 DEF Lists
<1> QED BY <1>6 DEF t, T

\* The i-th element has i - 1 elements before it, and the last one all others.
LEMMA ListsCount ==
    ASSUME NEW S \in SUBSET Nat, NEW s, Lists(s, S)
    PROVE  /\ IsFiniteSet(S) /\ Len(s) \in Nat /\ Cardinality(S) = Len(s)
           /\ \A i \in 1..Len(s) :
                s[i] \in S /\ Cardinality({y \in S : y < s[i]}) = i - 1
<1> DEFINE n == Len(s)
           Upto(k) == {s[j] : j \in 1..k}
           T == {k \in 0..n : IsFiniteSet(Upto(k)) /\ Cardinality(Upto(k)) = k}
<1>1. n \in Nat /\ \A i \in 1..n : s[i] \in S /\ s[i] \in Nat
  <2>1. s \in Seq(S)
    BY DEF Lists
  <2>2. n \in Nat /\ \A i \in 1..n : s[i] \in S
    BY <2>1
  <2> QED BY <2>2
<1>2. \A i, j \in 1..n : i < j => s[i] < s[j]
  BY DEF Lists
<1> HIDE DEF n
<1>3. 0 \in T
  <2>1. Upto(0) = {}
    OBVIOUS
  <2> HIDE DEF Upto
  <2> QED BY <1>1, <2>1, FS_EmptySet
<1>4. ASSUME NEW k \in 1..n, k - 1 \in T PROVE k \in T
  <2>1. k \in Nat /\ k >= 1 /\ k \in 0..n
    BY <1>1
  <2>2. Upto(k) = Upto(k - 1) \cup {s[k]}
    <3>1. \A j \in 1..k : j \in 1..(k - 1) \/ j = k
      BY <2>1
    <3>2. \A j \in 1..(k - 1) : j \in 1..k
      BY <2>1
    <3>3. k \in 1..k
      BY <2>1
    <3> QED BY <3>1, <3>2, <3>3
  <2>3. s[k] \notin Upto(k - 1)
    <3>1. ASSUME NEW j \in 1..(k - 1) PROVE s[j] # s[k]
      <4>1. j \in 1..n /\ j < k
        BY <1>1, <2>1
      <4>2. s[j] < s[k] /\ s[j] \in Nat /\ s[k] \in Nat
        BY <1>1, <1>2, <4>1
      <4> QED BY <4>2
    <3> QED BY <3>1
  <2>4. IsFiniteSet(Upto(k - 1)) /\ Cardinality(Upto(k - 1)) = k - 1
    BY <1>4
  <2> HIDE DEF Upto
  <2>5. IsFiniteSet(Upto(k)) /\ Cardinality(Upto(k)) = (k - 1) + 1
    BY <2>2, <2>3, <2>4, FS_AddElement
  <2> QED BY <2>1, <2>5
<1>5. \A k \in 0..n : IsFiniteSet(Upto(k)) /\ Cardinality(Upto(k)) = k
  <2> HIDE DEF Upto
  <2>1. T \in SUBSET (0..n)
    OBVIOUS
  <2> HIDE DEF T
  <2>2. \A k \in 0..n : k \in T
    BY <1>1, <1>3, <1>4, <2>1, UpTo
  <2> QED BY <2>2 DEF T
<1>6. S = Upto(n)
  BY <1>1 DEF Lists, n
<1>7. ASSUME NEW i \in 1..n PROVE {y \in S : y < s[i]} = Upto(i - 1) /\ i - 1 \in 0..n
  <2>1. ASSUME NEW j \in 1..n PROVE s[j] < s[i] <=> j \in 1..(i - 1)
    <3>1. CASE j < i
      BY <1>1, <1>2, <3>1
    <3>2. CASE i < j
      <4>1. s[i] < s[j] /\ s[i] \in Nat /\ s[j] \in Nat
        BY <1>1, <1>2, <3>2
      <4> QED BY <1>1, <3>2, <4>1
    <3>3. CASE i = j
      BY <1>1, <3>3
    <3> QED BY <1>1, <3>1, <3>2, <3>3
  <2>2. \A j \in 1..(i - 1) : j \in 1..n
    BY <1>1
  <2>3. i - 1 \in 0..n
    BY <1>1
  <2> QED BY <1>6, <2>1, <2>2, <2>3
<1>8. Cardinality(S) = n /\ IsFiniteSet(S) /\ n \in 0..n
  <2>1. n \in 0..n
    BY <1>1
  <2> HIDE DEF Upto
  <2> QED BY <1>5, <1>6, <2>1
<1> HIDE DEF Upto
<1> QED BY <1>1, <1>5, <1>7, <1>8 DEF n

\* Following the pointers of a level from its first node lists the nodes of the
\* level in ascending order, each once.
LEMMA LevelResult ==
    ASSUME NEW L, Good(L), NEW l \in Levels
    PROVE  Lists(Level(L, l), Tall(L, l) \ {Head_})
<1> DEFINE S == Tall(L, l)
           z(x) == L.next[x][l]
           From(x) == {y \in S : x <= y}
           Sol(v, D) == \A x \in D : v[x] = IF x = Null THEN <<>> ELSE <<x>> \o v[z(x)]
           Dom(x) == From(x) \cup {Null}
           Eq(v) == v = [x \in S \cup {Null} |->
                            IF x = Null THEN <<>> ELSE <<x>> \o v[z(x)]]
           v1 == CHOOSE v : Eq(v)
<1>1. /\ S \in SUBSET (0..KeyCount) /\ KeyCount \in Nat /\ 0 \in S
      /\ \A x \in S : Follows(S, x, z(x)) /\ z(x) \in S \cup {Null}
      /\ Null \notin S /\ Head_ = 0 /\ S \in SUBSET Nat
  <2>1. S \in SUBSET (0..KeyCount) /\ KeyCount \in Nat /\ Head_ = 0
    BY TallParts, NodeNumbers
  <2>2. Null \notin S /\ S \in SUBSET Nat
    BY <2>1 DEF Null
  <2> QED BY <2>1, <2>2, TallParts
<1> HIDE DEF S, z
<1>2. ASSUME NEW x \in S
      PROVE  IF z(x) = Null THEN From(x) = {x}
             ELSE /\ z(x) \in S /\ x < z(x)
                  /\ From(x) = From(z(x)) \cup {x} /\ x \notin From(z(x))
  <2>1. x \in Nat /\ Follows(S, x, z(x)) /\ \A y \in S : y \in Nat
    BY <1>1
  <2>2. CASE z(x) = Null
    <3>1. \A y \in S : y <= x
      BY <2>1, <2>2 DEF Follows
    <3>2. ASSUME NEW y \in S PROVE x <= y <=> y = x
      BY <2>1, <3>1
    <3> QED BY <2>2, <3>2
  <2>3. CASE z(x) # Null
    <3>1. z(x) \in S /\ x < z(x) /\ \A y \in S : x < y => z(x) <= y
      BY <2>1, <2>3 DEF Follows
    <3>2. ASSUME NEW y \in S PROVE x <= y <=> (y = x \/ z(x) <= y)
      <4>1. y \in Nat /\ z(x) \in Nat
        BY <2>1, <3>1
      <4> QED BY <2>1, <3>1, <4>1
    <3>3. x \notin From(z(x))
      <4>1. z(x) \in Nat
        BY <2>1, <3>1
      <4>2. x \in Nat /\ x < z(x)
        BY <2>1, <3>1
      <4>3. ~ (z(x) <= x)
        BY <4>1, <4>2
      <4> QED BY <4>3
    <3>4. From(x) = From(z(x)) \cup {x}
      BY <3>2
    <3> QED BY <2>3, <3>1, <3>3, <3>4
  <2> QED BY <2>2, <2>3
\* The equation has a solution on the nodes from x on.
<1>3. \E v : Eq(v)
  <2> DEFINE Open == {x \in S : ~ \E v : Sol(v, Dom(x)) /\ DOMAIN v = Dom(x)}
  <2>1. Open = {}
    <3> SUFFICES ASSUME Open # {} PROVE FALSE
      OBVIOUS
    <3>1. Open \in SUBSET (0..KeyCount)
      BY <1>1
    <3>2. PICK x \in Open : \A y \in Open : y <= x
      <4>1. Max(Open) \in Open /\ \A y \in Open : y <= Max(Open)
        BY <1>1, <3>1, LargestIn
      <4> HIDE DEF Open
      <4> QED BY <4>1
    <3>3. x \in S /\ x \in Nat /\ x # Null
      BY <1>1, <3>2
    <3>4. \E v : Sol(v, Dom(x)) /\ DOMAIN v = Dom(x)
      <4>1. CASE z(x) = Null
        <5> DEFINE v == [y \in Dom(x) |-> IF y = Null THEN <<>> ELSE <<x>> \o <<>>]
        <5>1. Dom(x) = {x, Null}
          BY <1>2, <3>3, <4>1
        <5>2. \A y \in Dom(x) : y # Null => y = x /\ z(y) = Null
          BY <4>1, <5>1
        <5>3. v[Null] = <<>>
          BY <5>1
        <5>4. Sol(v, Dom(x)) /\ DOMAIN v = Dom(x)
          <6>1. ASSUME NEW y \in Dom(x)
                PROVE  v[y] = IF y = Null THEN <<>> ELSE <<y>> \o v[z(y)]
            <7>1. v[y] = IF y = Null THEN <<>> ELSE <<x>> \o <<>>
              OBVIOUS
            <7> HIDE DEF v, Dom
            <7> QED BY <5>2, <5>3, <7>1
          <6> QED BY <6>1
        <5> HIDE DEF v, Sol, Dom
        <5> QED BY <5>4
      <4>2. CASE z(x) # Null
        <5>1. z(x) \in S /\ x < z(x) /\ z(x) \in Nat
          BY <1>1, <1>2, <3>3, <4>2
        <5>2. z(x) \notin Open
          <6>1. ~ (z(x) <= x)
            BY <3>3, <5>1
          <6> HIDE DEF Open
          <6> QED BY <3>2, <6>1
        <5>3. PICK w : Sol(w, Dom(z(x))) /\ DOMAIN w = Dom(z(x))
          <6> HIDE DEF Sol, Dom
          <6> QED BY <5>1, <5>2
        <5> DEFINE v == [y \in Dom(x) |-> IF y = x THEN <<x>> \o w[z(x)] ELSE w[y]]
        <5>4. Dom(x) = Dom(z(x)) \cup {x} /\ x \notin Dom(z(x))
          BY <1>2, <3>3, <4>2
        <5>5. z(x) \in Dom(z(x)) /\ Null \in Dom(z(x)) /\ Null # x
          BY <3>3, <5>1
        <5>6. ASSUME NEW y \in Dom(z(x)), y # Null PROVE z(y) \in Dom(z(x))
          <6>1. y \in S /\ z(x) <= y /\ y \in Nat
            BY <1>1, <5>6
          <6>2. z(y) \in S => y < z(y) /\ z(y) \in Nat
            BY <1>1, <1>2, <6>1
          <6>3. z(y) \in S \cup {Null}
            BY <1>1, <6>1
          <6> QED BY <5>1, <6>1, <6>2, <6>3
        <5> HIDE DEF Dom
        <5>7. /\ v[x] = <<x>> \o w[z(x)]
              /\ \A y \in Dom(z(x)) : v[y] = w[y]
          BY <5>4
        <5>8. Sol(v, Dom(x)) /\ DOMAIN v = Dom(x)
          <6>1. ASSUME NEW y \in Dom(x)
                PROVE  v[y] = IF y = Null THEN <<>> ELSE <<y>> \o v[z(y)]
            <7> HIDE DEF v
            <7>1. CASE y = x
              BY <5>5, <5>7, <7>1
            <7>2. CASE y # x
              <8>1. y \in Dom(z(x))
                BY <5>4, <7>2
              <8>2. w[y] = IF y = Null THEN <<>> ELSE <<y>> \o w[z(y)]
                BY <5>3, <8>1
              <8> QED BY <5>6, <5>7, <8>1, <8>2
            <7> QED BY <7>1, <7>2
          <6> QED BY <6>1
        <5> HIDE DEF v, Sol
        <5> QED BY <5>8
      <4> QED BY <4>1, <4>2
    <3> HIDE DEF Sol, Dom
    <3> QED BY <3>2, <3>4
  <2>2. Dom(0) = S \cup {Null}
    <3>1. \A y \in S : 0 <= y
      BY <1>1
    <3> QED BY <3>1
  <2>3. PICK v : Sol(v, Dom(0)) /\ DOMAIN v = Dom(0)
    <3> HIDE DEF Sol, Dom
    <3> QED BY <1>1, <2>1
  <2> DEFINE u == [x \in S \cup {Null} |-> v[x]]
  <2>4. Eq(u)
    <3>1. ASSUME NEW x \in S \cup {Null}
          PROVE  u[x] = IF x = Null THEN <<>> ELSE <<x>> \o u[z(x)]
      <4>1. v[x] = IF x = Null THEN <<>> ELSE <<x>> \o v[z(x)]
        <5> HIDE DEF Dom
        <5> QED BY <2>2, <2>3
      <4>2. x # Null => z(x) \in S \cup {Null}
        BY <1>1
      <4> QED BY <4>1, <4>2
    <3>2. u = [x \in S \cup {Null} |-> u[x]]
      OBVIOUS
    <3> HIDE DEF u
    <3> QED BY <3>1, <3>2
  <2> HIDE DEF Eq, u
  <2> QED BY <2>4
<1>4. Eq(v1)
  <2> HIDE DEF Eq
  <2> QED BY <1>3
<1> HIDE DEF v1
<1>5. /\ v1[Null] = <<>>
      /\ \A x \in S : v1[x] = <<x>> \o v1[z(x)]
  <2>1. \A x \in S \cup {Null} : v1[x] = IF x = Null THEN <<>> ELSE <<x>> \o v1[z(x)]
    BY <1>4
  <2> QED BY <1>1, <2>1
<1> HIDE DEF Eq
<1>6. Lists(<<>>, {})
  <2>1. <<>> \in Seq({}) /\ Len(<<>>) = 0
    BY EmptySeq
  <2> QED BY <2>1 DEF Lists
<1>7. ASSUME NEW x \in S, z(x) # Null => Lists(v1[z(x)], From(z(x)))
      PROVE  Lists(v1[x], From(x))
  <2>1. x \in Nat
    BY <1>1
  <2>2. CASE z(x) = Null
    <3>1. Lists(<<x>> \o <<>>, {} \cup {x})
      BY <1>6, <2>1, ListsFrom
    <3>2. From(x) = {} \cup {x}
      BY <1>2, <2>2
    <3> QED BY <1>5, <2>2, <3>1, <3>2
  <2>3. CASE z(x) # Null
    <3>1. /\ From(z(x)) \in SUBSET Nat
          /\ \A y \in From(z(x)) : x < y
          /\ From(x) = From(z(x)) \cup {x}
      <4>1. /\ z(x) \in S /\ x < z(x) /\ z(x) \in Nat
            /\ From(x) = From(z(x)) \cup {x}
        BY <1>1, <1>2, <2>3
      <4>2. ASSUME NEW y \in From(z(x)) PROVE y \in Nat /\ x < y
        <5>1. y \in Nat /\ z(x) <= y
          BY <1>1
        <5> QED BY <2>1, <4>1, <5>1
      <4> QED BY <4>1, <4>2
    <3> HIDE DEF From
    <3>2. Lists(<<x>> \o v1[z(x)], From(z(x)) \cup {x})
      BY <1>7, <2>1, <2>3, <3>1, ListsFrom
    <3> QED BY <1>5, <3>1, <3>2
  <2> QED BY <2>2, <2>3
<1> DEFINE Bad == {x \in S : ~ Lists(v1[x], From(x))}
<1>8. Bad = {}
  <2> SUFFICES ASSUME Bad # {} PROVE FALSE
    OBVIOUS
  <2>1. Bad \in SUBSET (0..KeyCount)
    BY <1>1
  <2>2. PICK x \in Bad : \A y \in Bad : y <= x
    <3>1. Max(Bad) \in Bad /\ \A y \in Bad : y <= Max(Bad)
      BY <1>1, <2>1, LargestIn
    <3> HIDE DEF Bad
    <3> QED BY <3>1
  <2>3. x \in S /\ x \in Nat /\ ~ Lists(v1[x], From(x))
    BY <1>1, <2>2
  <2>4. z(x) # Null => z(x) \in S /\ x < z(x) /\ z(x) \in Nat
    BY <1>1, <1>2, <2>3
  <2> HIDE DEF From
  <2>5. z(x) # Null => Lists(v1[z(x)], From(z(x)))
    <3>1. z(x) # Null => z(x) \notin Bad
      <4> HIDE DEF Bad
      <4> QED BY <2>2, <2>3, <2>4
    <3> QED BY <2>4, <3>1
  <2> QED BY <1>7, <2>3, <2>5
<1>9. Level(L, l) = v1[z(0)]
  BY NodeNumbers DEF Level, v1, Eq, S, z
<1>10. CASE z(0) = Null
  <2>1. S \ {0} = {}
    <3>1. \A y \in S : y <= 0 /\ y \in Nat
      BY <1>1, <1>10 DEF Follows
    <3> QED BY <3>1
  <2> QED BY <1>1, <1>5, <1>6, <1>9, <1>10, <2>1 DEF S
<1>11. CASE z(0) # Null
  <2>1. /\ z(0) \in S
        /\ From(0) = From(z(0)) \cup {0} /\ 0 \notin From(z(0))
    BY <1>1, <1>2, <1>11
  <2>2. From(0) = S
    <3>1. \A y \in S : 0 <= y
      BY <1>1
    <3> QED BY <3>1
  <2>3. From(z(0)) = S \ {0}
    BY <2>1, <2>2
  <2>4. Lists(v1[z(0)], From(z(0)))
    BY <1>8, <2>1
  <2> QED BY <1>1, <1>9, <2>3, <2>4 DEF S
<1> QED BY <1>10, <1>11

\* The iterator visits the keys in order, and count_ is their number.
LEMMA VisitResult ==
    ASSUME NEW L, Good(L)
    PROVE  LET s == Visit(L)
               A == DOMAIN L.msg
           IN  /\ Lists(s, A) /\ s \in Seq(A) /\ Len(s) = L.count
               /\ \A i \in 1..L.count :
                    s[i] \in A /\ Cardinality({y \in A : y < s[i]}) = i - 1
<1> DEFINE A == DOMAIN L.msg
           s == Visit(L)
<1>1. 0 \in Levels
  BY NodeNumbers DEF Levels
<1>2. Tall(L, 0) \ {Head_} = A
  <2>1. Tall(L, 0) = DOMAIN L.next /\ DOMAIN L.next = A \cup {Head_} /\ A \in SUBSET Keys
    BY <1>1, TallParts, GoodParts
  <2>2. Head_ \notin Keys
    BY NodeNumbers
  <2> QED BY <2>1, <2>2
<1>3. Lists(s, A)
  BY <1>1, <1>2, LevelResult DEF Visit
<1>4. A \in SUBSET Nat /\ L.count = Cardinality(A)
  <2>1. A \in SUBSET Keys /\ L.count = Cardinality(A)
    BY GoodParts
  <2>2. \A k \in Keys : k \in Nat
    BY NodeNumbers
  <2> HIDE DEF A
  <2> QED BY <2>1, <2>2
<1> HIDE DEF A, s
<1>5. /\ Cardinality(A) = Len(s)
      /\ \A i \in 1..Len(s) : s[i] \in A /\ Cardinality({y \in A : y < s[i]}) = i - 1
  BY <1>3, <1>4, ListsCount
<1>6. s \in Seq(A)
  BY <1>3 DEF Lists
<1> QED BY <1>3, <1>4, <1>5, <1>6 DEF A, s

\* The new list.
LEMMA EmptyGood == Good(EmptyList)
<1> DEFINE top == [l \in Levels |-> Null]
           next == [x \in {Head_} |-> top]
           msg == [x \in {} |-> NoMsg]
           A == {}
<1>1. top \in Towers
  <2>1. kMaxHeight \in Heights /\ Levels = 0..(kMaxHeight - 1)
    BY NodeNumbers DEF Heights, Levels
  <2>2. top \in [0..(kMaxHeight - 1) -> Nodes \cup {Null}]
    BY <2>1
  <2> QED BY <2>1, <2>2 DEF Towers
<1>2. /\ A \in SUBSET Keys /\ next \in [A \cup {Head_} -> Towers]
      /\ msg \in [A -> Messages] /\ 1 \in Heights
      /\ DOMAIN next[Head_] = Levels
  BY <1>1, NodeNumbers DEF Heights
<1>3. EmptyList = [next |-> next, msg |-> msg, maxHeight |-> 1,
                   count |-> Cardinality(A)]
  BY FS_EmptySet DEF EmptyList
<1>4. ASSUME NEW l \in Levels, NEW x \in Tall(EmptyList, l)
      PROVE  Follows(Tall(EmptyList, l), x, next[x][l])
  <2>1. Tall(EmptyList, l) = {Head_}
    BY <1>3 DEF Tall
  <2> QED BY <2>1, NodeNumbers DEF Follows
<1> HIDE DEF next, msg
<1>5. \A x \in A : DOMAIN next[x] \subseteq 0..(1 - 1)
  OBVIOUS
<1> HIDE DEF A
<1> QED BY <1>2, <1>3, <1>4, <1>5, GoodFrom

\* clear frees every node.
LEMMA ClearResult ==
    ASSUME NEW L, Good(L)
    PROVE  ClearList(L) = EmptyList
<1> DEFINE s == Visit(L)
           A == DOMAIN L.msg
           freed == ToSet(SubSeq(s, 1, L.count))
<1>1. Lists(s, A) /\ s \in Seq(A) /\ Len(s) = L.count
  BY VisitResult
<1>2. SubSeq(s, 1, L.count) = s
  BY <1>1, SubSeqFull
<1>3. freed = A
  <2>1. DOMAIN s = 1..Len(s) /\ \A i \in 1..Len(s) : s[i] \in A
    BY <1>1
  <2>2. \A y \in A : \E i \in 1..Len(s) : s[i] = y
    BY <1>1 DEF Lists
  <2> HIDE DEF A, s
  <2> QED BY <1>2, <2>1, <2>2 DEF ToSet
<1>4. DOMAIN L.next \ freed = {Head_}
  <2>1. DOMAIN L.next = A \cup {Head_} /\ A \in SUBSET Keys
    BY GoodParts
  <2>2. Head_ \notin Keys
    BY NodeNumbers
  <2> QED BY <1>3, <2>1, <2>2
<1> DEFINE next == [x \in DOMAIN L.next \ freed |->
                      IF x = Head_ THEN [l \in Levels |-> Null] ELSE L.next[x]]
           msg == [x \in A \ freed |-> L.msg[x]]
<1>5. next = [x \in {Head_} |-> [l \in Levels |-> Null]]
  BY <1>4
<1>6. msg = [x \in {} |-> NoMsg]
  BY <1>3
<1>7. ClearList(L) = [EmptyList EXCEPT !.next = next, !.msg = msg]
  BY DEF ClearList
<1> HIDE DEF next, msg
<1> QED BY <1>5, <1>6, <1>7 DEF EmptyList

\* resize: the first n keys with their messages, and count_ as it was counted.
LEMMA ResizeResult ==
    ASSUME NEW L, Good(L), NEW n \in Nat, n <= L.count, NEW hs \in [1..n -> Heights]
    PROVE  LET M == ResizeList(L, n, hs)
           IN  /\ Good(M)
               /\ DOMAIN M.msg = {Visit(L)[i] : i \in 1..n}
               /\ \A k \in DOMAIN M.msg : M.msg[k] = L.msg[k]
<1> DEFINE A == DOMAIN L.msg
           s == Visit(L)
           keys == SubSeq(s, 1, n)
           Ins(M, i) == InsertNode(M, keys[i], L.msg[keys[i]], hs[i])
           seq == [i \in 1..n |-> i]
           First(k) == {s[i] : i \in 1..k}
           Eq(F) == F = [t \in SUBSET (1..n) |->
                          IF t = {} THEN EmptyList
                          ELSE Ins(F[t \ {Max(t)}], seq[Max(t)])]
           iter == CHOOSE F : Eq(F)
           All == [next : UNION {[S -> Towers] : S \in SUBSET Nodes},
                   msg : UNION {[S -> Messages] : S \in SUBSET Keys},
                   maxHeight : Heights, count : Nat]
           X == {M \in All : Good(M)}
           h == [p \in X \X (1..n) |-> Ins(p[1], p[2])]
\* A list is an element of a set.
<1>1. ASSUME NEW M, Good(M) PROVE M \in X
  <2>1. DOMAIN M.msg \in SUBSET Keys /\ DOMAIN M.msg \cup {Head_} \in SUBSET Nodes
    BY <1>1, GoodParts DEF Nodes
  <2>2. /\ M.next \in UNION {[S -> Towers] : S \in SUBSET Nodes}
        /\ M.msg \in UNION {[S -> Messages] : S \in SUBSET Keys}
        /\ M.maxHeight \in Heights /\ M.count \in Nat
        /\ M = [next |-> M.next, msg |-> M.msg, maxHeight |-> M.maxHeight,
                count |-> M.count]
    <3>1. /\ M.msg \in [DOMAIN M.msg -> Messages]
          /\ M.next \in [DOMAIN M.msg \cup {Head_} -> Towers]
          /\ M.maxHeight \in Heights /\ M.count \in Nat
      BY <1>1, GoodParts
    <3>2. M = [next |-> M.next, msg |-> M.msg, maxHeight |-> M.maxHeight,
               count |-> M.count]
      BY <1>1, GoodParts
    <3> DEFINE D == DOMAIN M.msg
               E == DOMAIN M.msg \cup {Head_}
    <3>3. D \in SUBSET Keys /\ E \in SUBSET Nodes
      BY <2>1
    <3>4. M.msg \in [D -> Messages] /\ M.next \in [E -> Towers]
      BY <3>1
    <3> HIDE DEF D, E
    <3> QED BY ONLY <3>1, <3>2, <3>3, <3>4
  <2>3. M \in All
    BY <2>2
  <2> HIDE DEF All
  <2> QED BY <1>1, <2>3
<1> HIDE DEF All
<1>2. /\ s \in Seq(A) /\ Len(s) = L.count /\ L.count \in Nat
      /\ \A i \in 1..L.count : s[i] \in A
      /\ \A i, j \in 1..L.count : i < j => s[i] < s[j]
      /\ A \in SUBSET Keys /\ Keys \in SUBSET Nat
      /\ \A k \in A : L.msg[k] \in Messages
  <2>1. Lists(s, A) /\ s \in Seq(A) /\ Len(s) = L.count
    BY VisitResult
  <2>2. \A i, j \in 1..L.count : i < j => s[i] < s[j]
    BY <2>1 DEF Lists
  <2>3. L.count \in Nat /\ A \in SUBSET Keys /\ L.msg \in [A -> Messages]
    BY GoodParts
  <2>4. \A i \in 1..L.count : s[i] \in A
    BY <2>1, <2>3
  <2> QED BY <2>1, <2>2, <2>3, <2>4, NodeNumbers
<1> HIDE DEF s, A
<1>3. \A i \in 1..n : keys[i] = s[i] /\ keys[i] \in A
  <2>1. \A i \in 1..n : i \in 1..L.count /\ i \in 1..(n - 1 + 1) /\ 1 + i - 1 = i
    BY <1>2
  <2>2. \A i \in 1..n : s[i] \in A
    BY <1>2, <2>1
  <2>3. \A i \in 1..(n - 1 + 1) : keys[i] = s[1 + i - 1]
    BY <2>2, SubSeqProperties
  <2> HIDE DEF keys
  <2> QED BY <2>1, <2>2, <2>3
<1> HIDE DEF keys
<1>4. ASSUME NEW M, Good(M), NEW i \in 1..n
      PROVE  /\ Good(Ins(M, i))
             /\ DOMAIN Ins(M, i).msg = DOMAIN M.msg \cup {s[i]}
             /\ \A k \in DOMAIN Ins(M, i).msg :
                  Ins(M, i).msg[k] = IF k = s[i] THEN L.msg[k] ELSE M.msg[k]
  <2>1. keys[i] = s[i] /\ s[i] \in Keys /\ L.msg[s[i]] \in Messages /\ hs[i] \in Heights
    BY <1>2, <1>3
  <2> QED BY <1>4, <2>1, InsertResult
<1> HIDE DEF Ins
<1>5. EmptyList \in X
  <2> HIDE DEF X
  <2> QED BY <1>1, EmptyGood
<1>6. h \in [X \X (1..n) -> X]
  <2>1. ASSUME NEW p \in X \X (1..n) PROVE Ins(p[1], p[2]) \in X
    <3>1. Good(p[1]) /\ p[2] \in 1..n
      OBVIOUS
    <3> HIDE DEF X
    <3> QED BY <1>1, <1>4, <3>1
  <2> HIDE DEF X
  <2> QED BY <2>1
<1>7. PICK f : IsFold(f, X, EmptyList, n, h)
  <2> HIDE DEF X, h
  <2> QED BY <1>5, <1>6, FoldExists
<1>8. ASSUME NEW t \in SUBSET (1..n), t # {}
      PROVE  Max(t) \in 1..n /\ t \ {Max(t)} \in SUBSET (1..n)
  <2>1. t \in SUBSET (0..n)
    OBVIOUS
  <2>2. Max(t) \in t
    BY <1>8, <2>1, LargestIn
  <2> QED BY <2>2
<1>9. Eq(f)
  <2>1. ASSUME NEW t \in SUBSET (1..n), t # {}
        PROVE  f[t] = Ins(f[t \ {Max(t)}], seq[Max(t)])
    <3>1. f[t \ {Max(t)}] \in X /\ Max(t) \in 1..n
      <4> HIDE DEF X, h
      <4> QED BY <1>7, <1>8, <2>1 DEF IsFold
    <3>2. f[t] = h[<<f[t \ {Max(t)}], Max(t)>>]
      <4> HIDE DEF X, h
      <4> QED BY <1>7, <2>1 DEF IsFold
    <3>3. seq[Max(t)] = Max(t)
      BY <3>1
    <3> HIDE DEF X, seq
    <3> QED BY <3>1, <3>2, <3>3
  <2>2. f[{}] = EmptyList /\ f = [t \in SUBSET (1..n) |-> f[t]]
    <3> HIDE DEF X, h
    <3> QED BY <1>7 DEF IsFold
  <2> HIDE DEF seq
  <2> QED BY <2>1, <2>2
<1>10. Eq(iter)
  <2> HIDE DEF Eq
  <2> QED BY <1>9
<1> DEFINE Done(M, k) == /\ Good(M)
                         /\ DOMAIN M.msg = First(k)
                         /\ \A x \in First(k) : M.msg[x] = L.msg[x]
<1> HIDE DEF iter
<1>11. /\ iter[{}] = EmptyList
       /\ \A t \in SUBSET (1..n) : t # {} => iter[t] = Ins(iter[t \ {Max(t)}], Max(t))
  <2>1. \A t \in SUBSET (1..n) :
          iter[t] = IF t = {} THEN EmptyList ELSE Ins(iter[t \ {Max(t)}], seq[Max(t)])
    <3> HIDE DEF seq
    <3> QED BY <1>10
  <2>2. {} \in SUBSET (1..n) /\ \A i \in 1..n : seq[i] = i
    OBVIOUS
  <2> HIDE DEF seq
  <2> QED BY <1>8, <2>1, <2>2
<1>12. \A k \in 0..n : Done(iter[1..k], k)
  <2> DEFINE T == {k \in 0..n : Done(iter[1..k], k)}
  <2>1. 0 \in T
    <3>1. 1..0 = {} /\ 0 \in 0..n /\ First(0) = {}
      OBVIOUS
    <3>2. Good(EmptyList) /\ DOMAIN EmptyList.msg = {}
      BY EmptyGood DEF EmptyList
    <3> HIDE DEF First
    <3> QED BY <1>11, <3>1, <3>2
  <2>2. ASSUME NEW k \in 1..n, k - 1 \in T PROVE k \in T
    <3> DEFINE t == 1..k
               M == iter[1..(k - 1)]
    <3>1. k \in Nat /\ k \in t /\ t # {} /\ t \in SUBSET (0..k) /\ k \in 0..n
      <4>1. k \in Nat /\ k \in 1..k /\ k \in 0..n
        OBVIOUS
      <4>2. \A i \in 1..k : i \in 0..k
        BY <4>1
      <4>3. t \in SUBSET (0..k)
        BY <4>2
      <4> QED BY <4>1, <4>3
    <3>2. t \in SUBSET (1..n)
      OBVIOUS
    <3>3. Max(t) = k
      <4>1. Max(t) \in t /\ \A y \in t : y <= Max(t)
        <5> HIDE DEF t
        <5> QED BY <3>1, LargestIn
      <4>2. Max(t) \in 1..k /\ k <= Max(t)
        BY <3>1, <4>1
      <4> HIDE DEF t
      <4> QED BY <3>1, <4>2
    <3>4. t \ {k} = 1..(k - 1)
      BY <3>1
    <3>5. iter[1..k] = Ins(M, k)
      <4> HIDE DEF t
      <4>1. iter[t] = Ins(M, k)
        BY <1>11, <3>1, <3>2, <3>3, <3>4
      <4> QED BY <4>1 DEF t
    <3>6. First(k) = First(k - 1) \cup {s[k]}
      <4>1. \A i \in 1..k : i \in 1..(k - 1) \/ i = k
        BY <3>1
      <4>2. \A i \in 1..(k - 1) : i \in 1..k
        BY <3>1
      <4> QED BY <3>1, <4>1, <4>2
    <3>7. Done(M, k - 1)
      BY <2>2
    <3> HIDE DEF M, t, First
    <3>8. Done(Ins(M, k), k)
      <4>1. /\ Good(Ins(M, k)) /\ DOMAIN Ins(M, k).msg = DOMAIN M.msg \cup {s[k]}
            /\ \A x \in DOMAIN Ins(M, k).msg :
                 Ins(M, k).msg[x] = IF x = s[k] THEN L.msg[x] ELSE M.msg[x]
        BY <1>4, <3>7
      <4> QED BY <3>6, <3>7, <4>1
    <3> QED BY <3>1, <3>5, <3>8
  <2>3. T \in SUBSET (0..n)
    OBVIOUS
  <2> HIDE DEF T, Done
  <2>4. \A k \in 0..n : k \in T
    BY <2>1, <2>2, <2>3, UpTo
  <2> QED BY <2>4 DEF T
<1> DEFINE M == iter[1..n]
<1>13. FoldLeft(Ins, ClearList(L), seq) = M
  <2>1. ClearList(L) = EmptyList
    BY ClearResult
  <2>2. DOMAIN seq = 1..n
    OBVIOUS
  <2> HIDE DEF seq
  <2> QED BY <2>1, <2>2 DEF FoldLeft, MapThenFoldSet, iter
<1>14. Done(M, n)
  <2>1. n \in 0..n
    OBVIOUS
  <2> HIDE DEF Done
  <2> QED BY <1>12, <2>1
<1>15. M.count = n
  <2>1. Lists(keys, First(n)) /\ Len(keys) = n
    <3>1. \A i \in 1..n : s[i] \in First(n)
      OBVIOUS
    <3>2. /\ keys \in Seq(First(n)) /\ Len(keys) = n
      <4>1. Len(keys) = n /\ keys \in Seq(First(n))
        <5>1. 1 \in Int /\ n \in Int /\ (IF 1 <= n THEN n - 1 + 1 ELSE 0) = n
          OBVIOUS
        <5> HIDE DEF First
        <5> QED BY <3>1, <5>1, SubSeqProperties DEF keys
      <4> QED BY <4>1
    <3>3. ASSUME NEW i \in 1..n, NEW j \in 1..n, i < j PROVE keys[i] < keys[j]
      <4>1. i \in 1..L.count /\ j \in 1..L.count
        BY <1>2
      <4> QED BY <1>2, <1>3, <3>3, <4>1
    <3>4. \A y \in First(n) : \E i \in 1..n : keys[i] = y
      BY <1>3
    <3> HIDE DEF First
    <3> QED BY <3>2, <3>3, <3>4 DEF Lists
  <2>2. First(n) \in SUBSET Nat
    <3>1. ASSUME NEW i \in 1..n PROVE s[i] \in Nat
      <4>1. i \in 1..L.count
        BY <1>2
      <4> QED BY <1>2, <4>1
    <3> QED BY <3>1
  <2>3. Cardinality(First(n)) = n
    <3> HIDE DEF First
    <3> QED BY <2>1, <2>2, ListsCount
  <2> HIDE DEF First, M
  <2> QED BY <1>14, <2>3, GoodParts
<1>16. ResizeList(L, n, hs) = [M EXCEPT !.count = n]
  BY <1>13 DEF ResizeList, Ins, keys, s, seq
<1>17. [M EXCEPT !.count = n] = M
  <2> HIDE DEF M, First
  <2>1. M = [next |-> M.next, msg |-> M.msg, maxHeight |-> M.maxHeight,
             count |-> M.count]
    BY <1>14, GoodParts
  <2> QED BY <1>15, <2>1
<1> HIDE DEF M
<1> QED BY <1>14, <1>16, <1>17 DEF s

-----------------------------------------------------------------------------
\* The messages of a list as a map from all keys, as Contents has them.
Mapped(L) == [k \in Keys |-> IF k \in DOMAIN L.msg THEN L.msg[k] ELSE NoMsg]

\* The map has a message where the list has one.
LEMMA MappedPresent ==
    ASSUME NEW L, Good(L)
    PROVE  Present(Mapped(L)) = DOMAIN L.msg
<1>1. DOMAIN L.msg \in SUBSET Keys /\ L.msg \in [DOMAIN L.msg -> Messages]
  BY GoodParts
<1>2. NoMsg \notin Messages
  BY ValuesAssumption DEF Messages, NoMsg, Del
<1>3. ASSUME NEW k \in Keys PROVE Mapped(L)[k] # NoMsg <=> k \in DOMAIN L.msg
  <2>1. k \in DOMAIN L.msg => L.msg[k] \in Messages
    BY <1>1
  <2> QED BY <1>2, <2>1 DEF Mapped
<1> QED BY <1>1, <1>3 DEF Present

\* The first n keys are those the iterator visits first.
LEMMA FirstResult ==
    ASSUME NEW L, Good(L), NEW n \in 0..L.count
    PROVE  FirstKeys(Mapped(L), n) = {Visit(L)[i] : i \in 1..n}
<1> DEFINE A == DOMAIN L.msg
           s == Visit(L)
<1>1. FirstKeys(Mapped(L), n) = {k \in A : Cardinality({j \in A : j < k}) < n}
  BY MappedPresent DEF FirstKeys
<1>2. /\ \A k \in A : \E i \in 1..Len(s) : s[i] = k
      /\ Len(s) = L.count /\ L.count \in Nat
      /\ \A i \in 1..L.count : s[i] \in A /\ Cardinality({j \in A : j < s[i]}) = i - 1
  BY VisitResult, GoodParts DEF Lists
<1> HIDE DEF A, s
<1>3. ASSUME NEW k \in A, Cardinality({j \in A : j < k}) < n
      PROVE  \E i \in 1..n : k = s[i]
  <2>1. PICK i \in 1..L.count : s[i] = k
    BY <1>2
  <2>2. i - 1 < n
    BY <1>2, <1>3, <2>1
  <2>3. i \in 1..n
    BY <2>2, <1>2
  <2> QED BY <2>1, <2>3
<1>4. ASSUME NEW i \in 1..n
      PROVE  s[i] \in A /\ Cardinality({j \in A : j < s[i]}) < n
  <2>1. i \in 1..L.count /\ i - 1 < n
    BY <1>2
  <2> QED BY <1>2, <2>1
<1>5. {k \in A : Cardinality({j \in A : j < k}) < n} = {s[i] : i \in 1..n}
  BY <1>3, <1>4
<1> QED BY <1>1, <1>5 DEF A, s

\* The pointers of the lowest level lead through the keys in this order.
LEMMA VisitNext ==
    ASSUME NEW L, Good(L), L.count > 0
    PROVE  /\ L.next[Head_][0] = Visit(L)[1]
           /\ \A i \in 1..(L.count - 1) : L.next[Visit(L)[i]][0] = Visit(L)[i + 1]
<1> DEFINE A == DOMAIN L.msg
           S == DOMAIN L.next
           s == Visit(L)
           z(x) == L.next[x][0]
<1>1. /\ A \in SUBSET Nat /\ 0 \notin A /\ S = A \cup {0} /\ L.count \in Nat
      /\ Head_ = 0
  <2>1. A \in SUBSET Keys /\ S = A \cup {Head_} /\ L.count \in Nat
    BY GoodParts
  <2>2. \A k \in Keys : k \in Nat /\ k # 0
    BY NodeNumbers
  <2>3. Head_ = 0
    BY NodeNumbers
  <2> HIDE DEF A, S
  <2> QED BY <2>1, <2>2, <2>3
<1>2. /\ \A i, j \in 1..L.count : i < j => s[i] < s[j]
      /\ \A k \in A : \E i \in 1..L.count : s[i] = k
      /\ \A i \in 1..L.count : s[i] \in A
  BY VisitResult DEF Lists
<1>3. \A x \in S : Follows(S, x, z(x))
  <2>1. 0 \in Levels
    BY NodeNumbers DEF Levels
  <2> QED BY <2>1, TallParts
<1> HIDE DEF A, S, s, z
\* x is the head or one of the keys, and y the first key after it.
<1>4. ASSUME NEW x \in S, NEW j \in 1..L.count, x < s[j],
             \A i \in 1..L.count : x < s[i] => j <= i
      PROVE  z(x) = s[j]
  <2>0. \A y \in S : y \in Nat
    BY <1>1
  <2>1. s[j] \in A /\ s[j] \in S /\ s[j] \in Nat /\ x \in Nat
    <3>1. s[j] \in A
      BY <1>2
    <3> QED BY <1>1, <2>0, <3>1
  <2>2. z(x) # Null
    <3>1. ~ (s[j] <= x)
      BY <1>4, <2>1
    <3> QED BY <1>3, <2>1, <3>1 DEF Follows
  <2>3. z(x) \in S /\ x < z(x) /\ z(x) <= s[j]
    BY <1>3, <1>4, <2>1, <2>2 DEF Follows
  <2>4. z(x) \in A /\ z(x) \in Nat
    <3>1. z(x) \in Nat
      BY <2>0, <2>3
    <3>2. z(x) # 0
      BY <2>1, <2>3, <3>1
    <3> QED BY <1>1, <2>3, <3>1, <3>2
  <2>5. PICK i \in 1..L.count : s[i] = z(x)
    BY <1>2, <2>4
  <2>6. j <= i
    BY <1>4, <2>3, <2>5
  <2>7. CASE j < i
    <3>1. s[j] < z(x)
      BY <1>2, <2>5, <2>7
    <3> QED BY <2>1, <2>3, <2>4, <3>1
  <2>8. CASE ~ (j < i)
    <3>1. i = j
      BY <1>1, <2>6, <2>8
    <3> QED BY <2>5, <3>1
  <2> QED BY <2>7, <2>8
<1>5. z(0) = s[1]
  <2>1. 1 \in 1..L.count /\ \A i \in 1..L.count : 1 <= i
    BY <1>1
  <2>2. s[1] \in Nat /\ s[1] # 0
    <3>1. s[1] \in A
      BY <1>2, <2>1
    <3>2. \A y \in A : y \in Nat /\ y # 0
      BY <1>1
    <3> QED BY <3>1, <3>2
  <2>3. 0 \in S /\ 0 < s[1]
    BY <1>1, <2>2
  <2> QED BY <1>4, <2>1, <2>3
<1>6. ASSUME NEW i \in 1..(L.count - 1) PROVE z(s[i]) = s[i + 1]
  <2>1. i \in 1..L.count /\ i + 1 \in 1..L.count /\ i < i + 1
    BY <1>1
  <2>2. s[i] \in S /\ s[i] < s[i + 1] /\ s[i] \in Nat
    BY <1>1, <1>2, <2>1
  <2>3. ASSUME NEW j \in 1..L.count, s[i] < s[j] PROVE i + 1 <= j
    <3>1. s[j] \in Nat
      BY <1>1, <1>2
    <3>2. ~ (j < i)
      <4>1. j < i => s[j] < s[i]
        BY <1>2, <2>1
      <4> QED BY <2>2, <2>3, <3>1, <4>1
    <3>3. j # i
      BY <2>2, <2>3
    <3>4. i \in Nat /\ j \in Nat
      BY <1>1
    <3> QED BY <3>2, <3>3, <3>4
  <2> QED BY <1>4, <2>1, <2>2, <2>3
<1> QED BY <1>1, <1>5, <1>6 DEF z, s

\* seekToMiddle finds the first key behind the lower half.
LEMMA MiddleResult ==
    ASSUME NEW L, Good(L), L.count > 0
    PROVE  SeekToMiddle(L) = Visit(L)[(L.count \div 2) + 1]
<1> DEFINE n == L.count \div 2
           s == Visit(L)
           Eq(w) == w = [i \in 0..n |-> IF i = 0 THEN L.next[Head_][0]
                                         ELSE L.next[w[i - 1]][0]]
           w0 == [i \in 0..n |-> s[i + 1]]
           w1 == CHOOSE w : Eq(w)
<1>1. n \in Nat /\ n < L.count /\ L.count \in Nat
  <2>1. L.count \in Nat /\ L.count > 0
    BY GoodParts
  <2> QED BY <2>1
<1>2. /\ L.next[Head_][0] = s[1]
      /\ \A i \in 1..(L.count - 1) : L.next[s[i]][0] = s[i + 1]
  BY VisitNext
<1> HIDE DEF n, s
<1>3. Eq(w0)
  <2>1. ASSUME NEW i \in 0..n
        PROVE  w0[i] = IF i = 0 THEN L.next[Head_][0] ELSE L.next[w0[i - 1]][0]
    <3>1. w0[i] = s[i + 1]
      OBVIOUS
    <3>2. CASE i = 0
      BY <1>2, <3>1, <3>2
    <3>3. CASE i # 0
      <4>1. i \in 1..(L.count - 1) /\ i - 1 \in 0..n /\ (i - 1) + 1 = i
        BY <1>1, <3>3
      <4>2. w0[i - 1] = s[i]
        BY <4>1
      <4> HIDE DEF w0
      <4> QED BY <1>2, <3>1, <3>3, <4>1, <4>2
    <3> QED BY <3>2, <3>3
  <2> QED BY <2>1
<1>4. Eq(w1)
  <2> HIDE DEF w0, Eq
  <2> QED BY <1>3
<1> HIDE DEF w0, w1
<1>5. \A i \in 0..n : w1[i] = s[i + 1]
  <2> DEFINE T == {i \in 0..n : w1[i] = s[i + 1]}
  <2>1. \A i \in 0..n : w1[i] = IF i = 0 THEN L.next[Head_][0] ELSE L.next[w1[i - 1]][0]
    BY <1>4
  <2> HIDE DEF Eq
  <2>2. 0 \in T
    <3>1. 0 \in 0..n /\ 0 + 1 = 1
      BY <1>1
    <3> QED BY <1>2, <2>1, <3>1
  <2>3. ASSUME NEW i \in 1..n, i - 1 \in T PROVE i \in T
    <3>1. /\ i \in 0..n /\ i # 0 /\ i \in 1..(L.count - 1) /\ i - 1 \in 0..n
          /\ (i - 1) + 1 = i
      BY <1>1
    <3>2. w1[i - 1] = s[i]
      BY <2>3, <3>1
    <3>3. w1[i] = L.next[w1[i - 1]][0]
      BY <2>1, <3>1
    <3> QED BY <1>2, <3>1, <3>2, <3>3
  <2>4. T \in SUBSET (0..n)
    OBVIOUS
  <2>5. \A i \in 0..n : i \in T
    <3> HIDE DEF T
    <3> QED BY <1>1, <2>2, <2>3, <2>4, UpTo
  <2> QED BY <2>5
<1>6. n \in 0..n
  BY <1>1
<1>7. SeekToMiddle(L) = w1[n]
  BY DEF SeekToMiddle, w1, n
<1>8. SeekToMiddle(L) = s[n + 1]
  BY <1>5, <1>6, <1>7
<1> QED BY <1>8 DEF n, s

-----------------------------------------------------------------------------
\* Theorems

\* What every operation does to the list, from a good one.
LEMMA Steps ==
    ASSUME Inv, [Next]_list
    PROVE  Inv'
<1>1. ASSUME NEW k \in Keys, NEW m \in Messages, NEW h \in Heights, DoInsert(k, m, h)
      PROVE  Inv'
  BY <1>1, InsertResult DEF Inv, DoInsert
<1>2. ASSUME NEW k \in Keys, Erase(k) PROVE Inv'
  BY <1>2, EraseResult DEF Inv, Erase
<1>3. ASSUME NEW n \in 0..KeyCount, DoResize(n) PROVE Inv'
  <2>1. n \in Nat
    OBVIOUS
  <2>2. PICK hs \in [1..n -> Heights] : list' = ResizeList(list, n, hs)
    BY <1>3 DEF DoResize
  <2>3. n <= list.count
    BY <1>3 DEF DoResize
  <2> QED BY <2>1, <2>2, <2>3, ResizeResult DEF Inv
<1>4. ASSUME Clear PROVE Inv'
  BY <1>4, ClearResult, EmptyGood DEF Inv, Clear
<1>5. ASSUME UNCHANGED list PROVE Inv'
  BY <1>5 DEF Inv
<1> QED BY <1>1, <1>2, <1>3, <1>4, <1>5 DEF Next

\* Every pointer leads to the next node tall enough for its level, none to a
\* node that was freed, and count_ counts the nodes: after insert, erase,
\* resize and clear in any order and with any heights.
THEOREM PointersFollow == Spec => []Inv
<1>1. Init => Inv
  BY EmptyGood DEF Init, Inv
<1>2. Inv /\ [Next]_list => Inv'
  BY Steps
<1> QED BY <1>1, <1>2, PTL DEF Spec

\* The levels are ascending and link exactly the nodes tall enough for them,
\* and none above maxHeight_ is in use.
THEOREM ListWellFormed == Spec => []WellFormed
<1>1. Inv => WellFormed
  <2> SUFFICES ASSUME Inv PROVE WellFormed
    OBVIOUS
  <2> DEFINE alive == DOMAIN list.next \ {Head_}
  <2>1. Good(list)
    BY DEF Inv
  <2>2. alive = DOMAIN list.msg /\ list.count = Cardinality(DOMAIN list.msg)
    <3>1. Head_ \notin Keys
      BY NodeNumbers
    <3> QED BY <2>1, <3>1, GoodParts
  <2>3. ASSUME NEW l \in Levels
        PROVE  /\ IsSorted(Level(list, l), LAMBDA a, b : a < b)
               /\ ToSet(Level(list, l)) = {x \in alive : l \in DOMAIN list.next[x]}
               /\ l >= list.maxHeight => Level(list, l) = <<>>
    <3> DEFINE s == Level(list, l)
               S == Tall(list, l) \ {Head_}
    <3>1. Lists(s, S)
      BY <2>1, LevelResult
    <3>2. S = {x \in alive : l \in DOMAIN list.next[x]}
      BY DEF Tall
    <3>3. ASSUME l >= list.maxHeight PROVE S = {}
      BY <2>1, <3>3, TallParts, NodeNumbers
    <3> HIDE DEF S, s, alive
    <3>4. s \in Seq(S) /\ Len(s) \in Nat /\ DOMAIN s = 1..Len(s)
      BY <3>1 DEF Lists
    <3>5. IsSorted(s, LAMBDA a, b : a < b)
      BY <3>1 DEF IsSorted, Lists
    <3>6. ToSet(s) = S
      <4>1. \A i \in 1..Len(s) : s[i] \in S
        BY <3>4
      <4>2. \A y \in S : \E i \in 1..Len(s) : s[i] = y
        BY <3>1 DEF Lists
      <4> QED BY <3>4, <4>1, <4>2 DEF ToSet
    <3>7. S = {} => s = <<>>
      BY <3>4
    <3> QED BY <3>2, <3>3, <3>5, <3>6, <3>7 DEF s
  <2> QED BY <2>2, <2>3 DEF WellFormed
<1> QED BY <1>1, PointersFollow, PTL

\* The searches from the tallest level down, the step back, the last node and
\* the middle one are those that the set of keys determines.
THEOREM SearchesRight == Spec => []SearchesAgree
<1>1. Inv => SearchesAgree
  <2> SUFFICES ASSUME Inv PROVE SearchesAgree
    OBVIOUS
  <2> DEFINE L == list
             A == DOMAIN L.msg
             Least(T) == IF T = {} THEN Null ELSE Min(T)
             Greatest(T) == IF T = {} THEN Null ELSE Max(T)
             buf == [msgs |-> Contents, size |-> 0]
  <2>1. Good(L)
    BY DEF Inv
  <2>2. Contents = Mapped(L) /\ Present(Contents) = A
    BY <2>1, MappedPresent DEF Contents, Mapped
  <2>3. /\ A \in SUBSET Nat /\ 0 \notin A /\ DOMAIN L.next = A \cup {0}
        /\ A \in SUBSET (0..KeyCount) /\ L.count \in Nat /\ KeyCount \in Nat
        /\ Head_ = 0 /\ Null = -1
    <3>1. A \in SUBSET Keys /\ DOMAIN L.next = A \cup {Head_} /\ L.count \in Nat
      BY <2>1, GoodParts
    <3>2. /\ \A k \in Keys : k \in Nat /\ k # 0 /\ k \in 0..KeyCount
          /\ KeyCount \in Nat /\ Head_ = 0 /\ Null = -1
      BY NodeNumbers
    <3> HIDE DEF A
    <3> QED BY <3>1, <3>2
  <2> HIDE DEF A
  \* The greatest key below an argument, where there is one.
  <2>4. ASSUME NEW key \in Nat \ {0}, NEW x, Precedes(A \cup {0}, key, x)
        PROVE  (IF x = 0 THEN Null ELSE x) = Greatest({y \in A : y < key})
    <3> DEFINE T == {y \in A : y < key}
    <3>1. T \in SUBSET (0..KeyCount)
      BY <2>3
    <3>2. /\ x \in A \cup {0} /\ x \in Nat /\ x < key
          /\ \A y \in T : y <= x /\ y \in Nat /\ y # 0
      BY <2>3, <2>4 DEF Precedes
    <3>3. CASE x = 0
      <4>1. T = {}
        <5>1. ASSUME NEW y \in T PROVE FALSE
          <6>1. y <= 0 /\ y \in Nat /\ y # 0
            BY <3>2, <3>3, <5>1
          <6> QED BY <6>1
        <5> QED BY <5>1
      <4> HIDE DEF T
      <4>2. Greatest(T) = Null
        BY <4>1
      <4> QED BY <3>3, <4>2 DEF T
    <3>4. CASE x # 0
      <4>1. x \in T
        BY <3>2, <3>4
      <4> HIDE DEF T
      <4>2. Max(T) \in T /\ x <= Max(T)
        BY <2>3, <3>1, <4>1, LargestIn
      <4>3. Max(T) = x
        <5>1. Max(T) \in Nat /\ Max(T) <= x
          BY <3>2, <4>2
        <5> QED BY <3>2, <4>2, <5>1
      <4>4. Greatest(T) = x
        BY <4>1, <4>3
      <4> QED BY <3>4, <4>4 DEF T
    <3> QED BY <3>3, <3>4
  <2>5. ASSUME NEW k \in Keys
        PROVE  /\ FindGreaterOrEqual(L, k) = Least({x \in A : x >= k})
               /\ ContainsKey(L, k) <=> k \in A
               /\ PrevNode(L, k) = Greatest({x \in A : x < k})
    <3> DEFINE r == FindGreaterOrEqual(L, k)
               T == {x \in A : x >= k}
    <3>1. k \in Nat \ {0}
      BY NodeNumbers
    <3>2. /\ Precedes(A \cup {0}, k, FindLessThan(L, k))
          /\ IF r = Null THEN \A y \in A \cup {0} : y < k
             ELSE r \in A \cup {0} /\ k <= r /\ \A y \in A \cup {0} : k <= y => r <= y
          /\ ContainsKey(L, k) <=> k \in A
      BY <2>1, <2>3, <3>1, SearchResult, SMTT(30) DEF A
    <3>3. PrevNode(L, k) = Greatest({x \in A : x < k})
      <4> HIDE DEF Greatest
      <4> QED BY <2>3, <2>4, <3>1, <3>2 DEF PrevNode
    <3> HIDE DEF r
    <3>4. T \in SUBSET Nat /\ \A y \in A : y \in Nat
      BY <2>3
    <3>5. CASE r = Null
      <4>1. T = {}
        <5>1. ASSUME NEW y \in T PROVE FALSE
          <6>1. y \in A /\ y \in Nat /\ y >= k /\ y < k
            BY <3>2, <3>4, <3>5, <5>1
          <6> QED BY <3>1, <6>1
        <5> QED BY <5>1
      <4> HIDE DEF T
      <4>2. r = Least(T)
        BY <3>5, <4>1
      <4> QED BY <3>2, <3>3, <4>2 DEF r, T
    <3>6. CASE r # Null
      <4>1. r \in T /\ r \in Nat /\ \A y \in T : r <= y
        <5>1. r \in A \cup {0} /\ k <= r
          BY <3>2, <3>6
        <5>2. r \in A /\ r \in Nat
          BY <3>1, <3>4, <5>1
        <5>3. r \in T
          BY <3>1, <5>1, <5>2
        <5>4. ASSUME NEW y \in T PROVE r <= y
          <6>1. y \in A /\ k <= y
            BY <3>1, <3>4
          <6> QED BY <3>2, <3>6, <6>1
        <5> QED BY <5>2, <5>3, <5>4
      <4> HIDE DEF T
      <4>2. Min(T) \in T /\ Min(T) <= r /\ Min(T) \in Nat
        BY <3>4, <4>1, LeastIn
      <4>3. Min(T) = r
        <5>1. r <= Min(T)
          BY <4>1, <4>2
        <5> QED BY <4>1, <4>2, <5>1
      <4>4. r = Least(T)
        BY <4>1, <4>3
      <4> QED BY <3>2, <3>3, <4>4 DEF r, T
    <3> QED BY <3>5, <3>6
  <2>6. SeekToLast(L) = Greatest(A)
    <3>1. KeyCount + 1 \in Nat \ {0}
      BY <2>3
    <3>2. Precedes(A \cup {0}, KeyCount + 1, FindLessThan(L, KeyCount + 1))
      BY <2>1, <2>3, <3>1, SearchResult DEF A
    <3>3. SeekToLast(L) = Greatest({x \in A : x < KeyCount + 1})
      <4> HIDE DEF Greatest
      <4> QED BY <2>3, <2>4, <3>1, <3>2 DEF SeekToLast, FindLessThan
    <3>4. {x \in A : x < KeyCount + 1} = A
      <4>1. ASSUME NEW x \in A PROVE x < KeyCount + 1
        <5>1. x \in 0..KeyCount
          BY <2>3
        <5> QED BY <2>3, <5>1
      <4> QED BY <4>1
    <3> HIDE DEF Greatest
    <3> QED BY <3>3, <3>4
  <2>7. ASSUME A # {} PROVE SeekToMiddle(L) = Min(UpperKeys(buf))
    <3> DEFINE n == L.count \div 2
               s == Visit(L)
               U == UpperKeys(buf)
    <3>1. /\ \A i, j \in 1..L.count : i < j => s[i] < s[j]
          /\ \A k \in A : \E i \in 1..L.count : s[i] = k
          /\ \A i \in 1..L.count : s[i] \in A
      BY <2>1, VisitResult DEF Lists, A
    <3>2. L.count > 0
      <4>1. \E i \in 1..L.count : TRUE
        BY <2>7, <3>1
      <4> QED BY <2>3, <4>1
    <3>3. n \in Nat /\ n < L.count /\ n \in 0..L.count /\ n + 1 \in 1..L.count
      BY <2>3, <3>2
    <3>4. Count(buf) = L.count
      BY <2>1, <2>2, GoodParts DEF Count, A
    <3>5. U = A \ {s[i] : i \in 1..n}
      <4>1. FirstKeys(Contents, n) = {s[i] : i \in 1..n}
        BY <2>1, <2>2, <3>3, FirstResult
      <4>2. U = Present(Contents) \ FirstKeys(Contents, n)
        BY <3>4 DEF UpperKeys
      <4> HIDE DEF U, n, s
      <4> QED BY <2>2, <4>1, <4>2
    <3>6. SeekToMiddle(L) = s[n + 1]
      BY <2>1, <3>2, MiddleResult
    <3> HIDE DEF s, n, U
    <3>7. U \in SUBSET Nat /\ \A k \in A : k \in Nat
      BY <2>3, <3>5
    <3>8. s[n + 1] \in U
      <4>1. ASSUME NEW i \in 1..n PROVE s[i] # s[n + 1]
        <5>1. i \in 1..L.count /\ i < n + 1
          BY <2>3, <3>3
        <5>2. s[i] < s[n + 1] /\ s[i] \in Nat /\ s[n + 1] \in Nat
          BY <3>1, <3>3, <3>7, <5>1
        <5> QED BY <5>2
      <4> QED BY <3>1, <3>3, <3>5, <4>1
    <3>9. ASSUME NEW y \in U PROVE s[n + 1] <= y
      <4>1. y \in A /\ y \notin {s[i] : i \in 1..n}
        BY <3>5
      <4>2. PICK i \in 1..L.count : s[i] = y
        BY <3>1, <4>1
      <4>3. i \notin 1..n
        BY <4>1, <4>2
      <4>4. n + 1 = i \/ n + 1 < i
        BY <2>3, <3>3, <4>3
      <4>5. s[n + 1] \in Nat /\ y \in Nat
        BY <3>7, <3>8
      <4>6. CASE n + 1 = i
        BY <4>2, <4>5, <4>6
      <4>7. CASE n + 1 < i
        <5>1. s[n + 1] < s[i]
          BY <3>1, <3>3, <4>7
        <5> QED BY <4>2, <4>5, <5>1
      <4> QED BY <4>4, <4>6, <4>7
    <3>10. Min(U) \in U /\ Min(U) <= s[n + 1] /\ Min(U) \in Nat
      BY <3>7, <3>8, LeastIn
    <3>11. Min(U) = s[n + 1]
      <4>1. s[n + 1] <= Min(U) /\ s[n + 1] \in Nat
        BY <3>7, <3>8, <3>9, <3>10
      <4> QED BY <3>10, <4>1
    <3> QED BY <3>6, <3>11 DEF U
  <2> QED BY <2>2, <2>5, <2>6, <2>7 DEF SearchesAgree
<1> QED BY <1>1, PointersFollow, PTL

\* The skip list is the ordered map of MsgList: insert is Put whatever the
\* height, resize keeps the first n messages, and clear keeps none.
THEOREM ListIsMap == Spec => ImplementsMsgList
<1> USE DEF Abstract!Keys, Abstract!Messages, Abstract!NoMsg, Abstract!Del
<1>1. Init => Abstract!Init
  <2> SUFFICES ASSUME Init PROVE Contents = [k \in Keys |-> NoMsg]
    BY DEF Abstract!Init, Keys, NoMsg
  <2>1. DOMAIN list.msg = {}
    BY DEF Init, EmptyList
  <2> QED BY <2>1 DEF Contents
<1>2. ASSUME Inv, Inv', [Next]_list PROVE [Abstract!Next]_Contents
  <2>1. ASSUME NEW k \in Keys, NEW m \in Messages, NEW h \in Heights, DoInsert(k, m, h)
        PROVE  Abstract!Put(k, m)
    <3>1. /\ DOMAIN list'.msg = DOMAIN list.msg \cup {k}
          /\ \A j \in DOMAIN list'.msg : list'.msg[j] = IF j = k THEN m ELSE list.msg[j]
      BY <1>2, <2>1, InsertResult DEF Inv, DoInsert
    <3>2. Contents' = [Contents EXCEPT ![k] = m]
      <4>1. ASSUME NEW j \in Keys
            PROVE  (IF j \in DOMAIN list'.msg THEN list'.msg[j] ELSE NoMsg)
                    = IF j = k THEN m
                      ELSE IF j \in DOMAIN list.msg THEN list.msg[j] ELSE NoMsg
        BY <3>1
      <4> QED BY <4>1 DEF Contents
    <3> QED BY <3>2 DEF Abstract!Put
  <2>2. ASSUME NEW k \in Keys, Erase(k) PROVE Abstract!Erase(k)
    <3>1. /\ DOMAIN list'.msg = DOMAIN list.msg \ {k}
          /\ \A j \in DOMAIN list'.msg : list'.msg[j] = list.msg[j]
      BY <1>2, <2>2, EraseResult DEF Inv, Erase
    <3>2. Contents[k] # NoMsg
      <4>1. k \in DOMAIN list.msg
        <5>1. k \in Nat \ {0}
          BY NodeNumbers
        <5> QED BY <1>2, <2>2, <5>1, SearchResult DEF Inv, Erase
      <4>2. Contents[k] \in Messages
        BY <1>2, <4>1, GoodParts DEF Contents, Inv
      <4> QED BY <4>2, ValuesAssumption DEF Messages, NoMsg, Del
    <3>3. Contents' = [Contents EXCEPT ![k] = NoMsg]
      <4>1. ASSUME NEW j \in Keys
            PROVE  (IF j \in DOMAIN list'.msg THEN list'.msg[j] ELSE NoMsg)
                    = IF j = k THEN NoMsg
                      ELSE IF j \in DOMAIN list.msg THEN list.msg[j] ELSE NoMsg
        BY <3>1
      <4> QED BY <4>1 DEF Contents
    <3> QED BY <3>2, <3>3 DEF Abstract!Erase, NoMsg
  \* Both resize and clear keep the first n keys.
  <2>3. ASSUME NEW n \in 0..list.count,
               DOMAIN list'.msg = {Visit(list)[i] : i \in 1..n},
               \A k \in DOMAIN list'.msg : list'.msg[k] = list.msg[k]
        PROVE  Abstract!Truncate(n)
    <3> DEFINE F == FirstKeys(Contents, n)
    <3>1. Good(list) /\ Contents = Mapped(list)
      BY <1>2 DEF Inv, Contents, Mapped
    <3>2. Present(Contents) = DOMAIN list.msg /\ list.count = Cardinality(DOMAIN list.msg)
      BY <3>1, MappedPresent, GoodParts
    <3>3. n <= Cardinality(Present(Contents))
      BY <3>2
    <3>4. F = DOMAIN list'.msg
      BY <2>3, <3>1, FirstResult
    <3>5. \A k \in F : k \in DOMAIN list.msg
      <4>1. F \subseteq Present(Contents)
        BY DEF FirstKeys
      <4> HIDE DEF F
      <4> QED BY <3>2, <4>1
    <3> HIDE DEF F
    <3>6. Contents' = [k \in Keys |-> IF k \in F THEN Contents[k] ELSE NoMsg]
      <4>1. ASSUME NEW k \in Keys
            PROVE  (IF k \in DOMAIN list'.msg THEN list'.msg[k] ELSE NoMsg)
                    = IF k \in F THEN Contents[k] ELSE NoMsg
        BY <2>3, <3>4, <3>5 DEF Contents
      <4> QED BY <4>1 DEF Contents
    <3>7. Contents' = Keep(Contents, F).msgs
      BY <3>6 DEF Keep
    <3>8. ASSUME NEW S PROVE Abstract!Cardinality(S) = Cardinality(S)
      BY DEF Abstract!Cardinality, Cardinality
    <3>9. Abstract!Present(Contents) = Present(Contents)
      BY DEF Abstract!Present, Present, Keys, NoMsg
    <3>10. Abstract!FirstKeys(Contents, n) = F
      BY <3>8, <3>9 DEF Abstract!FirstKeys, FirstKeys, F
    <3>11. Abstract!Keep(Contents, F).msgs = Keep(Contents, F).msgs
      BY DEF Abstract!Keep, Keep, Keys, NoMsg
    <3> QED BY <3>3, <3>7, <3>8, <3>9, <3>10, <3>11 DEF Abstract!Truncate
  <2>4. list.count \in 0..KeyCount
    <3>1. list.count = Cardinality(DOMAIN list.msg) /\ DOMAIN list.msg \in SUBSET Keys
      BY <1>2, GoodParts DEF Inv
    <3>2. IsFiniteSet(Keys) /\ Cardinality(Keys) = KeyCount
      BY NodeNumbers, FS_Interval
    <3>3. Cardinality(DOMAIN list.msg) <= KeyCount /\ Cardinality(DOMAIN list.msg) \in Nat
      BY <3>1, <3>2, FS_Subset, NodeNumbers
    <3> QED BY <3>1, <3>3, NodeNumbers
  <2>5. ASSUME NEW n \in 0..KeyCount, DoResize(n) PROVE Abstract!Truncate(n)
    <3>1. PICK hs \in [1..n -> Heights] : list' = ResizeList(list, n, hs)
      BY <2>5 DEF DoResize
    <3>2. n \in Nat /\ n <= list.count
      BY <2>5 DEF DoResize
    <3>3. /\ DOMAIN list'.msg = {Visit(list)[i] : i \in 1..n}
          /\ \A k \in DOMAIN list'.msg : list'.msg[k] = list.msg[k]
      BY <1>2, <3>1, <3>2, ResizeResult DEF Inv
    <3>4. n \in 0..list.count
      BY <2>4, <3>2
    <3> QED BY <2>3, <3>3, <3>4
  <2>6. ASSUME Clear PROVE Abstract!Truncate(0)
    <3>1. DOMAIN list'.msg = {}
      BY <1>2, <2>6, ClearResult DEF Inv, Clear, EmptyList
    <3>2. 0 \in 0..list.count /\ 1..0 = {}
      BY <2>4
    <3> QED BY <2>3, <3>1, <3>2
  <2>7. ASSUME UNCHANGED list PROVE UNCHANGED Contents
    BY <2>7 DEF Contents
  <2>8. 0 \in 0..KeyCount
    BY NodeNumbers
  <2> QED BY <1>2, <2>1, <2>2, <2>5, <2>6, <2>7, <2>8
          DEF Next, Abstract!Next, Keys, Messages, Del
<1> QED BY <1>1, <1>2, Steps, PointersFollow, PTL
        DEF Spec, ImplementsMsgList, Abstract!Spec

=============================================================================
