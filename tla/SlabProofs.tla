----------------------------- MODULE SlabProofs -----------------------------
(***************************************************************************)
(* Theorems about Slab.                                                    *)
(*                                                                         *)
(* An operation takes one page p from one word to another.  It is looked   *)
(* at in parts that know nothing of each other: what it does to the fields *)
(* of the headers (the Fields lemmas), what that does to the lists (the    *)
(* Linked lemmas) and to the pages that headers speak for (the Extents     *)
(* lemmas), and, from Changed, which is all that is kept of it, what it    *)
(* does to the memory in use (BlocksGain, BlocksLose).                     *)
(***************************************************************************)
EXTENDS Slab, Iteration, FunctionTheorems, FiniteSetTheorems

-----------------------------------------------------------------------------
\* Powers of two and multiples

\* The equation of pow2.
LEMMA PowIs ==
    \A n \in 0..PageShift : pow2[n] = IF n = 0 THEN 1 ELSE 2 * pow2[n - 1]
<1> DEFINE P == PageShift
           Eq(f) == f = [n \in 0..P |-> IF n = 0 THEN 1 ELSE 2 * f[n - 1]]
           double == [x \in Nat |-> 2 * x]
           f1 == CHOOSE f : Eq(f)
<1>1. P \in Nat
  BY SlabAssumption
<1>2. \A x \in Nat : double[x] = 2 * x /\ double[x] \in Nat
  OBVIOUS
<1> HIDE DEF P, double
<1>3. PICK f : IsChain(f, P, 1, double)
  BY <1>1, ChainExists
<1>4. \A n \in 0..P : f[n] = IF n = 0 THEN 1 ELSE double[f[n - 1]]
  BY <1>3 DEF IsChain
<1>5. \A n \in 0..P : f[n] \in Nat
  <2> DEFINE T == {n \in 0..P : f[n] \in Nat}
  <2>1. 0 \in T
    BY <1>1, <1>4
  <2>2. ASSUME NEW n \in 1..P, n - 1 \in T PROVE n \in T
    <3>1. n \in 0..P /\ n # 0 /\ f[n - 1] \in Nat
      BY <2>2
    <3>2. f[n] = double[f[n - 1]]
      BY <1>4, <3>1
    <3> QED BY <1>2, <3>1, <3>2
  <2>3. T \in SUBSET (0..P)
    OBVIOUS
  <2>4. \A n \in 0..P : n \in T
    <3> HIDE DEF T
    <3> QED BY <1>1, <2>1, <2>2, <2>3, UpTo
  <2> QED BY <2>4
<1>6. \E g : Eq(g)
  <2> DEFINE g == [n \in 0..P |-> f[n]]
  <2>1. ASSUME NEW n \in 0..P PROVE g[n] = IF n = 0 THEN 1 ELSE 2 * g[n - 1]
    <3>1. n # 0 => n - 1 \in 0..P
      BY <1>1
    <3> QED BY <1>2, <1>4, <1>5, <3>1
  <2>2. Eq(g)
    BY <2>1
  <2> QED BY <2>2
<1>7. Eq(f1)
  <2> HIDE DEF Eq
  <2> QED BY <1>6
<1>8. pow2 = f1
  BY DEF pow2, P
<1> HIDE DEF f1
<1> QED BY <1>7, <1>8 DEF P

\* Powers are positive, grow, and multiply as they should.
LEMMA PowFacts ==
    /\ \A n \in 0..PageShift : pow2[n] \in Nat /\ pow2[n] > 0
    /\ pow2[0] = 1
    /\ \A m \in 0..PageShift : \A n \in 0..(PageShift - m) :
            m + n \in 0..PageShift /\ pow2[m + n] = pow2[m] * pow2[n]
    /\ \A n \in 1..PageShift : pow2[n] = 2 * pow2[n - 1]
<1>1. PageShift \in Nat
  BY SlabAssumption
<1>2. \A n \in 0..PageShift : pow2[n] = IF n = 0 THEN 1 ELSE 2 * pow2[n - 1]
  BY PowIs
<1>3. \A n \in 0..PageShift : pow2[n] \in Nat /\ pow2[n] > 0
  <2> DEFINE T == {n \in 0..PageShift : pow2[n] \in Nat /\ pow2[n] > 0}
  <2>1. 0 \in T
    <3>1. 0 \in 0..PageShift
      BY <1>1
    <3> QED BY <1>2, <3>1
  <2>2. ASSUME NEW n \in 1..PageShift, n - 1 \in T PROVE n \in T
    <3>1. n \in 0..PageShift /\ n # 0
      BY <1>1
    <3> QED BY <1>2, <2>2, <3>1
  <2>3. T \in SUBSET (0..PageShift)
    OBVIOUS
  <2>4. \A n \in 0..PageShift : n \in T
    <3> HIDE DEF T
    <3> QED BY <1>1, <2>1, <2>2, <2>3, UpTo
  <2> QED BY <2>4
<1>4. \A n \in 1..PageShift : n \in 0..PageShift /\ pow2[n] = 2 * pow2[n - 1]
  <2>1. \A n \in 1..PageShift : n \in 0..PageShift /\ n # 0
    BY <1>1
  <2> QED BY <1>2, <2>1
<1>5. pow2[0] = 1
  <2>1. 0 \in 0..PageShift
    BY <1>1
  <2> QED BY <1>2, <2>1
<1>6. ASSUME NEW m \in 0..PageShift
      PROVE  \A n \in 0..(PageShift - m) :
                m + n \in 0..PageShift /\ pow2[m + n] = pow2[m] * pow2[n]
  <2> DEFINE r == PageShift - m
             T == {n \in 0..r : pow2[m + n] = pow2[m] * pow2[n]}
  <2>1. /\ r \in Nat /\ m \in Nat
        /\ \A n \in 0..r : m + n \in 0..PageShift /\ n \in 0..PageShift
    BY <1>1
  <2>2. 0 \in T
    <3>1. 0 \in 0..r /\ m + 0 = m
      BY <2>1
    <3>2. pow2[m] * pow2[0] = pow2[m]
      BY <1>3, <1>5
    <3> QED BY <3>1, <3>2
  <2>3. ASSUME NEW n \in 1..r, n - 1 \in T PROVE n \in T
    <3> HIDE DEF r
    <3>1. n \in 0..r /\ n - 1 \in 0..r /\ n \in Nat
      BY <2>1
    <3>2. m + n \in 0..PageShift /\ m + n # 0 /\ n \in 0..PageShift /\ n # 0
          /\ n - 1 \in 0..PageShift
      BY <2>1, <3>1
    <3>3. pow2[m + n] = 2 * pow2[(m + n) - 1] /\ pow2[n] = 2 * pow2[n - 1]
      BY <1>2, <3>2
    <3>4. (m + n) - 1 = m + (n - 1)
      BY <2>1, <3>1
    <3>5. pow2[m + (n - 1)] = pow2[m] * pow2[n - 1]
      BY <2>3
    <3>6. pow2[m] \in Nat /\ pow2[n - 1] \in Nat
      BY <1>3, <3>2
    <3>7. 2 * (pow2[m] * pow2[n - 1]) = pow2[m] * (2 * pow2[n - 1])
      BY <3>6
    <3> QED BY <3>1, <3>3, <3>4, <3>5, <3>7
  <2>4. T \in SUBSET (0..r)
    OBVIOUS
  <2>5. \A n \in 0..r : n \in T
    <3> HIDE DEF T, r
    <3> QED BY <2>1, <2>2, <2>3, <2>4, UpTo
  <2> QED BY <2>1, <2>5
<1> QED BY <1>3, <1>4, <1>5, <1>6

\* What the constants are.
LEMMA Numbers ==
    /\ NPages \in Nat /\ NPages > 0 /\ PageShift \in Nat
    /\ pageSize \in Nat /\ pageSize > 0
    /\ \A p : p \in Pages <=> p \in Nat /\ p < NPages
    /\ FreeCell \in Heads /\ FreeCell \notin Pages /\ NULL \notin Cells
    /\ \A head \in Heads : head \notin Pages
    /\ \A s \in Shifts : /\ Slot(s) \in Heads /\ Slot(s) # FreeCell
                         /\ \A r \in Shifts : Slot(r) = Slot(s) => r = s
    /\ \A s \in Shifts : s \in Nat /\ s > 0 /\ s < PageShift /\ s \in 0..PageShift
    /\ exactShift \in Shifts
<1>1. /\ MinShift \in Nat \ {0} /\ PageShift \in Nat /\ MinShift < PageShift
      /\ NPages \in Nat \ {0}
  BY SlabAssumption
<1>2. pageSize \in Nat /\ pageSize > 0
  <2>1. PageShift \in 0..PageShift
    BY <1>1
  <2> QED BY <2>1, PowFacts DEF pageSize
<1>3. \A p : p \in Pages <=> p \in Nat /\ p < NPages
  BY <1>1 DEF Pages
<1>4. \A s \in Shifts : s \in Nat /\ s > 0 /\ s < PageShift /\ s \in 0..PageShift
  BY <1>1 DEF Shifts
<1>5. exactShift \in Shifts
  BY SlabAssumption DEF exactShift
<1>6. \A head \in Heads : head \in Nat /\ head >= NPages
  BY <1>1, <1>4 DEF Heads, FreeCell, Slot
<1>7. FreeCell \in Heads /\ FreeCell \notin Pages
  BY <1>1, <1>3 DEF Heads, FreeCell
<1>8. \A head \in Heads : head \notin Pages
  BY <1>1, <1>3, <1>6
<1>9. NULL \notin Cells
  <2>1. \A x \in Cells : x \in Nat
    BY <1>3, <1>6 DEF Cells
  <2> QED BY <2>1 DEF NULL
<1>10. ASSUME NEW s \in Shifts
       PROVE  /\ Slot(s) \in Heads /\ Slot(s) # FreeCell
              /\ \A r \in Shifts : Slot(r) = Slot(s) => r = s
  <2>1. s \in Nat /\ s > 0
    BY <1>4
  <2>2. \A r \in Shifts : r \in Nat
    BY <1>4
  <2> QED BY <1>1, <2>1, <2>2 DEF Heads, FreeCell, Slot
<1> QED BY <1>1, <1>2, <1>3, <1>4, <1>5, <1>7, <1>8, <1>9, <1>10

\* A page is cut into at least two chunks.
LEMMA ChunkFacts ==
    ASSUME NEW s \in Shifts
    PROVE  LET k == pow2[PageShift - s]
               u == pow2[s]
           IN  /\ k \in Nat /\ k >= 2 /\ u \in Nat /\ u >= 2
               /\ pageSize = k * u /\ Chunks(s) = 0..(k - 1)
               /\ IsFiniteSet(Chunks(s))
<1> DEFINE k == pow2[PageShift - s]
           u == pow2[s]
           r == PageShift - s
<1>1. s \in Nat /\ PageShift \in Nat /\ s > 0 /\ s < PageShift
  BY Numbers
<1>2. /\ r \in 1..PageShift /\ r \in 0..PageShift /\ r - 1 \in 0..PageShift
      /\ s \in 1..PageShift /\ s \in 0..PageShift /\ s - 1 \in 0..PageShift
      /\ r \in 0..(PageShift - s) /\ s + r = PageShift
  BY <1>1
<1>3. k = 2 * pow2[r - 1] /\ u = 2 * pow2[s - 1]
  <2> HIDE DEF r
  <2>1. pow2[r] = 2 * pow2[r - 1] /\ u = 2 * pow2[s - 1]
    BY <1>2, PowFacts
  <2> QED BY <2>1 DEF r
<1>4. /\ pow2[r - 1] \in Nat /\ pow2[r - 1] > 0 /\ pow2[s - 1] \in Nat /\ pow2[s - 1] > 0
      /\ k \in Nat /\ u \in Nat
  <2> HIDE DEF r
  <2>1. pow2[r] \in Nat /\ pow2[r - 1] \in Nat /\ pow2[r - 1] > 0
    BY <1>2, PowFacts
  <2>2. u \in Nat /\ pow2[s - 1] \in Nat /\ pow2[s - 1] > 0
    BY <1>2, PowFacts
  <2> QED BY <2>1, <2>2 DEF r
<1>5. k >= 2 /\ u >= 2
  <2> HIDE DEF k, u, r
  <2> QED BY <1>3, <1>4
<1>6. pageSize = k * u
  <2> HIDE DEF r
  <2>1. pow2[s + r] = u * pow2[r]
    BY <1>2, PowFacts
  <2>2. u * pow2[r] = k * u
    <3>1. pow2[r] = k
      BY DEF r
    <3> HIDE DEF k, u
    <3> QED BY <1>4, <3>1
  <2> QED BY <1>2, <2>1, <2>2 DEF pageSize
<1>7. Chunks(s) = 0..(k - 1)
  BY DEF Chunks
<1>8. IsFiniteSet(0..(k - 1))
  <2> HIDE DEF k
  <2>1. 0 \in Int /\ k - 1 \in Int
    BY <1>4
  <2> QED BY <2>1, FS_Interval
<1> QED BY <1>4, <1>5, <1>6, <1>7, <1>8

\* The chunks of the bitmap, and one more, are not the whole page, and the
\* bitmap fits into its chunks.
LEMMA OwnFacts ==
    ASSUME NEW s \in Shifts
    PROVE  /\ Reserved(s) \in Nat /\ Reserved(s) + 1 < pow2[PageShift - s]
           /\ s >= exactShift => Reserved(s) = 0
           /\ s < exactShift =>
                (pow2[PageShift - s] + 7) \div 8 <= Reserved(s) * pow2[s]
<1> DEFINE k == pow2[PageShift - s]
           u == pow2[s]
           r == PageShift - s
           w == (k \div 8) \div u
<1>1. k \in Nat /\ k >= 2 /\ u \in Nat /\ u >= 2
  BY ChunkFacts
<1>2. s \in Nat /\ exactShift \in Nat /\ exactShift < PageShift /\ PageShift \in Nat
      /\ s > 0
  BY Numbers
<1>3. CASE s >= exactShift
  <2>1. Reserved(s) = 0
    BY <1>2, <1>3 DEF Reserved
  <2> QED BY <1>1, <1>2, <1>3, <2>1
<1>4. CASE s < exactShift
  <2>1. Reserved(s) = Max({1, w})
    BY <1>4 DEF Reserved
  <2>2. w \in Nat /\ k \div 8 \in Nat
    <3> HIDE DEF k, u
    <3>1. k \div 8 \in Nat
      BY <1>1
    <3> QED BY <1>1, <3>1, DivMod
  <2>3. Max({1, w}) \in {1, w} /\ \A y \in {1, w} : y <= Max({1, w})
    <3> DEFINE n == w + 1
               S == {1, w}
    <3>1. n \in Nat /\ S \in SUBSET (0..n) /\ S # {}
      BY <2>2
    <3>2. Max(S) \in S /\ \A y \in S : y <= Max(S)
      <4> HIDE DEF n, S
      <4> QED BY <3>1, LargestIn
    <3> QED BY <3>2
  <2> DEFINE R == Reserved(s)
  <2>4. R \in {1, w} /\ 1 <= R /\ w <= R /\ R \in Nat
    <3> HIDE DEF w
    <3> QED BY <2>1, <2>2, <2>3
  <2>5. /\ r \in 0..PageShift /\ r \in 1..PageShift /\ r >= 2
        /\ r - 1 \in 1..PageShift /\ r - 2 \in 0..PageShift /\ (r - 1) - 1 = r - 2
    BY <1>2, <1>4
  <2>6. k = 4 * pow2[r - 2] /\ pow2[r - 2] \in Nat /\ pow2[r - 2] > 0
    <3> HIDE DEF r
    <3>1. pow2[r] = 2 * pow2[r - 1] /\ pow2[r - 1] = 2 * pow2[(r - 1) - 1]
      BY <2>5, PowFacts
    <3>2. pow2[r - 2] \in Nat /\ pow2[r - 2] > 0
      BY <2>5, PowFacts
    <3>3. k = pow2[r]
      BY DEF r
    <3> QED BY <2>5, <3>1, <3>2, <3>3
  <2>7. R + 1 < k
    <3>1. w <= k \div 8
      <4> HIDE DEF k, u
      <4>1. k \div 8 = u * w + ((k \div 8) % u) /\ (k \div 8) % u \in 0..(u - 1)
        BY <1>1, <2>2, DivMod
      <4>2. w <= u * w
        <5> HIDE DEF w
        <5>1. u * w = w + (u - 1) * w /\ (u - 1) * w \in Nat
          BY <1>1, <2>2
        <5> QED BY <2>2, <5>1
      <4> QED BY <1>1, <2>2, <4>1, <4>2
    <3> HIDE DEF k, w, u, R
    <3>2. k >= 4 /\ k \div 8 <= k - 3
      BY <1>1, <2>6
    <3> QED BY <1>1, <2>2, <2>4, <3>1, <3>2
  <2>8. (k + 7) \div 8 <= R * u
    <3>1. CASE k < 8
      <4> HIDE DEF k, u, R, w
      <4>1. (k + 7) \div 8 <= 1
        BY <1>1, <3>1
      <4>2. 1 <= R * u
        BY <1>1, <2>4
      <4>3. (k + 7) \div 8 \in Nat /\ R * u \in Nat
        BY <1>1, <2>4
      <4> QED BY <4>1, <4>2, <4>3
    <3>2. CASE k >= 8
      <4> DEFINE a == r - 3
                 v == pow2[a]
      <4>1. r # 2
        <5> SUFFICES ASSUME r = 2 PROVE FALSE
          OBVIOUS
        <5>1. k = 4 * pow2[0] /\ pow2[0] = 1
          BY <2>6, PowFacts
        <5> HIDE DEF k
        <5> QED BY <3>2, <5>1
      <4>2. a \in 0..PageShift /\ r - 2 \in 1..PageShift /\ (r - 2) - 1 = a /\ a \in Nat
        BY <1>2, <2>5, <4>1
      <4>3. k = 8 * v /\ v \in Nat /\ v > 0
        <5> HIDE DEF a, r
        <5>1. pow2[r - 2] = 2 * pow2[(r - 2) - 1]
          BY <4>2, PowFacts
        <5>2. v \in Nat /\ v > 0
          BY <4>2, PowFacts
        <5> HIDE DEF k
        <5> QED BY <2>6, <4>2, <5>1, <5>2
      <4>4. (k + 7) \div 8 = v /\ k \div 8 = v
        <5> HIDE DEF k, v
        <5> QED BY <4>3
      <4>5. v <= R * u
        <5>1. CASE v <= u
          <6> HIDE DEF v, u, R, w
          <6>1. u <= R * u
            <7>1. R * u = u + (R - 1) * u /\ (R - 1) * u \in Nat
              BY <1>1, <2>4
            <7> QED BY <1>1, <7>1
          <6> QED BY <1>1, <2>4, <4>3, <5>1, <6>1
        <5>2. CASE ~ (v <= u)
          <6>1. s <= a
            <7> SUFFICES ASSUME a < s PROVE FALSE
              BY <1>2, <4>2
            <7>1. s - a \in 0..(PageShift - a) /\ a + (s - a) = s /\ s - a \in 0..PageShift
              BY <1>2, <4>2
            <7> HIDE DEF a
            <7>2. u = v * pow2[s - a]
              <8>1. pow2[a + (s - a)] = pow2[a] * pow2[s - a]
                BY <4>2, <7>1, PowFacts
              <8> QED BY <7>1, <8>1
            <7>3. pow2[s - a] \in Nat /\ pow2[s - a] > 0
              BY <7>1, PowFacts
            <7> HIDE DEF u, v
            <7>4. v <= v * pow2[s - a]
              <8>1. v * pow2[s - a] = v + v * (pow2[s - a] - 1)
                    /\ v * (pow2[s - a] - 1) \in Nat
                BY <4>3, <7>3
              <8> QED BY <4>3, <8>1
            <7> QED BY <5>2, <7>2, <7>4
          <6>2. a - s \in 0..(PageShift - s) /\ s + (a - s) = a /\ a - s \in 0..PageShift
                /\ s \in 0..PageShift
            BY <1>2, <4>2, <6>1
          <6> HIDE DEF a
          <6>3. v = u * pow2[a - s]
            <7>1. pow2[s + (a - s)] = pow2[s] * pow2[a - s]
              BY <6>2, PowFacts
            <7> QED BY <6>2, <7>1
          <6>4. pow2[a - s] \in Nat
            BY <6>2, PowFacts
          <6>5. w = pow2[a - s]
            <7> HIDE DEF u, v, k
            <7>1. (pow2[a - s] * u + 0) \div u = pow2[a - s]
              <8>1. 0 \in 0..(u - 1)
                BY <1>1
              <8> QED BY <1>1, <6>4, <8>1, DivMod
            <7>2. pow2[a - s] * u + 0 = v
              BY <1>1, <4>3, <6>3, <6>4
            <7> QED BY <4>4, <7>1, <7>2
          <6> HIDE DEF w, u, v, R
          <6>6. w * u <= R * u
            BY <1>1, <2>2, <2>4, Multiples
          <6>7. w * u = v
            BY <1>1, <6>3, <6>4, <6>5
          <6> QED BY <6>6, <6>7
        <5> QED BY <5>1, <5>2
      <4> QED BY <4>4, <4>5
    <3> HIDE DEF k, u, R
    <3> QED BY <1>1, <3>1, <3>2
  <2> QED BY <1>2, <1>4, <2>4, <2>7, <2>8
<1> HIDE DEF k, u
<1> QED BY <1>2, <1>3, <1>4 DEF k, u

-----------------------------------------------------------------------------
\* Doubly linked lists

\* The neighbours of a page that is on a list.
LEMMA OnListFacts ==
    ASSUME NEW next, NEW back, NEW home, Linked(next, back, home),
           NEW p \in Pages, home[p] # NULL
    PROVE  LET H == home[p]
               n == next[p]
               b == back[p]
           IN  /\ H \in Heads /\ H \notin Pages
               /\ n \in Pages \cup {H} /\ b \in Pages \cup {H} /\ next[b] = p
               /\ n # p /\ b # p /\ b \in Cells /\ n \in Cells
               /\ H = IF b \in Pages THEN home[b] ELSE b
               /\ n \in Pages => back[n] = p /\ home[n] = H
<1>1. /\ home[p] \in Heads /\ next[p] \in Pages \cup {home[p]}
      /\ back[p] \in Pages \cup {home[p]} /\ next[back[p]] = p
  BY DEF Linked
<1>2. home[p] \notin Pages /\ p \in Cells /\ back[p] \in Cells /\ next[p] \in Cells
  BY <1>1, Numbers DEF Cells
<1>3. ASSUME NEW x \in Cells, next[x] \in Pages
      PROVE  back[next[x]] = x /\ home[next[x]] = IF x \in Pages THEN home[x] ELSE x
  BY <1>3 DEF Linked
<1>4. back[p] # p
  <2>1. {p} \in SUBSET Pages /\ {p} # {}
    OBVIOUS
  <2>2. PICK y \in {p} : back[y] \notin {p}
    BY <2>1 DEF Linked
  <2> QED BY <2>2
<1>5. next[p] # p
  BY <1>2, <1>3, <1>4
<1>6. home[p] = IF back[p] \in Pages THEN home[back[p]] ELSE back[p]
  BY <1>1, <1>2, <1>3
<1>7. next[p] \in Pages => back[next[p]] = p /\ home[next[p]] = home[p]
  BY <1>2, <1>3
<1> QED BY <1>1, <1>2, <1>4, <1>5, <1>6, <1>7

\* Nothing leads to a page that is on no list, and it leads nowhere.
LEMMA OffListFacts ==
    ASSUME NEW next, NEW back, NEW home, Linked(next, back, home),
           NEW p \in Pages, home[p] = NULL
    PROVE  /\ next[p] = NULL /\ back[p] = NULL
           /\ \A x \in Cells : next[x] # p
           /\ \A x \in Pages : back[x] # p
<1>1. \A x \in Pages : home[x] = NULL => next[x] = NULL /\ back[x] = NULL
  BY DEF Linked
<1>2. NULL \notin Pages /\ NULL \notin Heads
  BY Numbers DEF Cells
<1>3. ASSUME NEW x \in Cells, next[x] = p PROVE FALSE
  <2>1. NULL = IF x \in Pages THEN home[x] ELSE x
    BY <1>3 DEF Linked
  <2>2. x \in Pages
    BY <2>1, Numbers
  <2>3. next[x] = NULL
    BY <1>1, <2>1, <2>2
  <2> QED BY <1>2, <1>3, <2>3
<1>4. ASSUME NEW x \in Pages, back[x] = p PROVE FALSE
  <2>1. CASE home[x] = NULL
    BY <1>1, <1>2, <1>4, <2>1
  <2>2. CASE home[x] # NULL
    <3>1. next[p] = x
      BY <1>4, <2>2, OnListFacts
    <3> QED BY <1>1, <1>2, <3>1
  <2> QED BY <2>1, <2>2
<1> QED BY <1>1, <1>3, <1>4

\* Other pages: what changes next to one of them.
LEMMA ListParts ==
    ASSUME NEW next, NEW back, NEW home, Linked(next, back, home)
    PROVE  /\ \A head \in Heads : next[head] \in Pages \cup {head}
           /\ \A x \in Cells : next[x] \in Pages =>
                /\ back[next[x]] = x
                /\ home[next[x]] = IF x \in Pages THEN home[x] ELSE x
           /\ \A T \in SUBSET Pages : T # {} => \E y \in T : back[y] \notin T
BY DEF Linked

\* A page is taken off its list.
LEMMA LinkedRemove ==
    ASSUME NEW next, NEW back, NEW home, Linked(next, back, home),
           NEW p \in Pages, home[p] # NULL, NEW next2, NEW back2, NEW home2,
           next2[p] = NULL,
           \A x \in Cells \ {p} : next2[x] = IF x = back[p] THEN next[p] ELSE next[x],
           back2[p] = NULL,
           \A x \in Pages \ {p} : back2[x] = IF x = next[p] THEN back[p] ELSE back[x],
           home2[p] = NULL, \A x \in Pages \ {p} : home2[x] = home[x]
    PROVE  Linked(next2, back2, home2)
<1> DEFINE H == home[p]
           n == next[p]
           b == back[p]
<1>1. /\ H \in Heads /\ H \notin Pages
      /\ n \in Pages \cup {H} /\ b \in Pages \cup {H} /\ next[b] = p
      /\ n # p /\ b # p /\ b \in Cells
      /\ H = IF b \in Pages THEN home[b] ELSE b
      /\ n \in Pages => back[n] = p /\ home[n] = H
  BY OnListFacts
<1>2. /\ \A x \in Cells \ {p} : next2[x] = IF x = b THEN n ELSE next[x]
      /\ \A x \in Pages \ {p} : back2[x] = IF x = n THEN b ELSE back[x]
      /\ H # NULL
  OBVIOUS
<1>3. NULL \notin Pages /\ \A x \in Pages : x \in Cells
  BY Numbers DEF Cells
<1> HIDE DEF H, n, b
<1>4. ASSUME NEW x \in Pages
      PROVE  IF home2[x] = NULL THEN next2[x] = NULL /\ back2[x] = NULL
             ELSE /\ home2[x] \in Heads /\ next2[x] \in Pages \cup {home2[x]}
                  /\ back2[x] \in Pages \cup {home2[x]} /\ next2[back2[x]] = x
  <2>1. CASE x = p
    BY <2>1
  <2>2. CASE x # p /\ home[x] = NULL
    <3>1. next[x] = NULL /\ back[x] = NULL
      BY <2>2, OffListFacts
    <3>2. x # b /\ x # n
      BY <1>1, <1>2, <2>2
    <3> QED BY <1>2, <1>3, <2>2, <3>1, <3>2
  <2>3. CASE x # p /\ home[x] # NULL
    <3> DEFINE y == back[x]
    <3>1. /\ home[x] \in Heads /\ next[x] \in Pages \cup {home[x]}
          /\ y \in Pages \cup {home[x]} /\ next[y] = x /\ y \in Cells
      BY <2>3, OnListFacts
    <3> HIDE DEF y
    <3>2. home2[x] = home[x]
      BY <2>3
    <3>3. next2[x] \in Pages \cup {home[x]}
      BY <1>1, <1>2, <1>3, <2>3, <3>1
    <3>4. CASE x = n
      <4>1. back2[x] = b /\ next2[b] = n /\ home[x] = H
        BY <1>1, <1>2, <2>3, <3>4
      <4> QED BY <1>1, <2>3, <3>1, <3>2, <3>3, <3>4, <4>1
    <3>5. CASE x # n
      <4>1. back2[x] = y
        BY <1>2, <2>3, <3>5 DEF y
      <4>2. y # p /\ y # b
        BY <1>1, <2>3, <3>1, <3>5 DEF n
      <4>3. next2[y] = x
        BY <1>2, <3>1, <4>2
      <4> QED BY <2>3, <3>1, <3>2, <3>3, <4>1, <4>3
    <3> QED BY <3>4, <3>5
  <2> QED BY <2>1, <2>2, <2>3
<1>5. ASSUME NEW head \in Heads PROVE next2[head] \in Pages \cup {head}
  <2>1. head \in Cells /\ head # p /\ head \notin Pages
    BY Numbers DEF Cells
  <2>2. next[head] \in Pages \cup {head}
    BY ListParts
  <2> QED BY <1>1, <1>2, <2>1, <2>2
<1>6. ASSUME NEW x \in Cells, next2[x] \in Pages
      PROVE  /\ back2[next2[x]] = x
             /\ home2[next2[x]] = IF x \in Pages THEN home2[x] ELSE x
  <2>1. x # p
    BY <1>3, <1>6
  <2>2. CASE x = b
    <3>1. next2[x] = n /\ n \in Pages \ {p}
      BY <1>1, <1>2, <1>6, <2>1, <2>2
    <3>2. back2[n] = b /\ home2[n] = H
      BY <1>1, <1>2, <3>1
    <3>3. H = IF x \in Pages THEN home2[x] ELSE x
      BY <1>1, <2>1, <2>2
    <3> QED BY <2>2, <3>1, <3>2, <3>3
  <2>3. CASE x # b
    <3> DEFINE z == next[x]
    <3>1. next2[x] = z /\ z \in Pages
      BY <1>2, <1>6, <2>1, <2>3
    <3>2. back[z] = x /\ home[z] = IF x \in Pages THEN home[x] ELSE x
      BY <3>1, ListParts
    <3> HIDE DEF z
    <3>3. z # p /\ z # n
      <4>1. z # p
        BY <2>3, <3>2 DEF b
      <4>2. z # n
        BY <1>1, <2>1, <3>1, <3>2
      <4> QED BY <4>1, <4>2
    <3>4. back2[z] = x /\ home2[z] = home[z] /\ (x \in Pages => home2[x] = home[x])
      BY <1>2, <2>1, <3>1, <3>2, <3>3
    <3> QED BY <3>1, <3>2, <3>4
  <2> QED BY <2>2, <2>3
<1>7. ASSUME NEW T \in SUBSET Pages, T # {} PROVE \E y \in T : back2[y] \notin T
  <2>1. CASE p \in T
    BY <1>3, <2>1
  <2>2. CASE p \notin T /\ n \in T /\ b \in T
    <3> DEFINE U == T \cup {p}
    <3>1. U \in SUBSET Pages /\ U # {}
      BY <1>7
    <3>2. PICK y \in U : back[y] \notin U
      <4> HIDE DEF U
      <4> QED BY <3>1, ListParts
    <3>3. y # p /\ y # n
      BY <1>1, <2>2, <3>2 DEF b
    <3> QED BY <1>2, <3>2, <3>3
  <2>3. CASE p \notin T /\ ~ (n \in T /\ b \in T)
    <3>1. PICK y \in T : back[y] \notin T
      BY <1>7, ListParts
    <3> QED BY <1>2, <2>3, <3>1
  <2> QED BY <2>1, <2>2, <2>3
<1> QED BY <1>4, <1>5, <1>6, <1>7 DEF Linked

\* A page is put at the front of a list.
LEMMA LinkedInsert ==
    ASSUME NEW next, NEW back, NEW home, Linked(next, back, home),
           NEW p \in Pages, home[p] = NULL, NEW head \in Heads,
           NEW next2, NEW back2, NEW home2,
           next2[p] = next[head], next2[head] = p,
           \A x \in Cells \ {p, head} : next2[x] = next[x],
           back2[p] = head,
           \A x \in Pages \ {p} : back2[x] = IF x = next[head] THEN p ELSE back[x],
           home2[p] = head, \A x \in Pages \ {p} : home2[x] = home[x]
    PROVE  Linked(next2, back2, home2)
<1> DEFINE f == next[head]
<1>1. /\ next[p] = NULL /\ \A x \in Cells : next[x] # p
      /\ NULL \notin Pages /\ NULL \notin Heads /\ \A x \in Pages : x \in Cells
      /\ head \in Cells /\ head \notin Pages
  BY OffListFacts, Numbers DEF Cells
<1>2. f \in Pages \cup {head} /\ f # p /\ (f \in Pages => back[f] = head /\ home[f] = head)
  BY <1>1, ListParts
<1>3. /\ next2[p] = f
      /\ \A x \in Pages \ {p} : back2[x] = IF x = f THEN p ELSE back[x]
  OBVIOUS
<1> HIDE DEF f
<1>4. ASSUME NEW x \in Pages
      PROVE  IF home2[x] = NULL THEN next2[x] = NULL /\ back2[x] = NULL
             ELSE /\ home2[x] \in Heads /\ next2[x] \in Pages \cup {home2[x]}
                  /\ back2[x] \in Pages \cup {home2[x]} /\ next2[back2[x]] = x
  <2>1. CASE x = p
    BY <1>1, <1>2, <1>3, <2>1
  <2>2. CASE x # p /\ home[x] = NULL
    <3>1. next[x] = NULL /\ back[x] = NULL /\ x # f
      BY <1>1, <1>2, <2>2, OffListFacts
    <3> QED BY <1>1, <1>3, <2>2, <3>1
  <2>3. CASE x # p /\ home[x] # NULL
    <3> DEFINE y == back[x]
    <3>1. /\ home[x] \in Heads /\ next[x] \in Pages \cup {home[x]}
          /\ y \in Pages \cup {home[x]} /\ next[y] = x /\ y \in Cells
      BY <2>3, OnListFacts
    <3> HIDE DEF y
    <3>2. home2[x] = home[x] /\ next2[x] = next[x]
      BY <1>1, <2>3
    <3>3. CASE x = f
      <4>1. back2[x] = p /\ next2[p] = x
        BY <1>3, <2>3, <3>3
      <4> QED BY <2>3, <3>1, <3>2, <4>1
    <3>4. CASE x # f
      <4>1. back2[x] = y
        BY <1>3, <2>3, <3>4 DEF y
      <4>2. y # p /\ y # head
        BY <1>1, <3>1, <3>4 DEF f
      <4>3. next2[y] = x
        BY <3>1, <4>2
      <4> QED BY <2>3, <3>1, <3>2, <4>1, <4>3
    <3> QED BY <3>3, <3>4
  <2> QED BY <2>1, <2>2, <2>3
<1>5. ASSUME NEW other \in Heads PROVE next2[other] \in Pages \cup {other}
  <2>1. other \in Cells /\ other # p
    BY Numbers DEF Cells
  <2>2. next[other] \in Pages \cup {other}
    BY ListParts
  <2> QED BY <2>1, <2>2
<1>6. ASSUME NEW x \in Cells, next2[x] \in Pages
      PROVE  /\ back2[next2[x]] = x
             /\ home2[next2[x]] = IF x \in Pages THEN home2[x] ELSE x
  <2>1. CASE x = head
    BY <1>1, <2>1
  <2>2. CASE x = p
    <3>1. next2[x] = f /\ f \in Pages \ {p}
      BY <1>2, <1>3, <1>6, <2>2
    <3> QED BY <1>2, <1>3, <2>2, <3>1
  <2>3. CASE x # p /\ x # head
    <3> DEFINE z == next[x]
    <3>1. next2[x] = z /\ z \in Pages /\ z # p
      BY <1>1, <1>6, <2>3
    <3>2. back[z] = x /\ home[z] = IF x \in Pages THEN home[x] ELSE x
      BY <3>1, ListParts
    <3> HIDE DEF z
    <3>3. z # f
      BY <1>2, <2>3, <3>1, <3>2
    <3>4. back2[z] = x /\ home2[z] = home[z] /\ (x \in Pages => home2[x] = home[x])
      BY <1>3, <2>3, <3>1, <3>2, <3>3
    <3> QED BY <3>1, <3>2, <3>4
  <2> QED BY <2>1, <2>2, <2>3
<1>7. ASSUME NEW T \in SUBSET Pages, T # {} PROVE \E y \in T : back2[y] \notin T
  <2>1. CASE p \in T
    BY <1>1, <2>1
  <2>2. CASE p \notin T
    <3>1. PICK y \in T : back[y] \notin T
      BY <1>7, ListParts
    <3> QED BY <1>3, <2>2, <3>1
  <2> QED BY <2>1, <2>2
<1> QED BY <1>4, <1>5, <1>6, <1>7 DEF Linked

\* A page takes the place of another.
LEMMA LinkedReplace ==
    ASSUME NEW next, NEW back, NEW home, Linked(next, back, home),
           NEW p \in Pages, home[p] # NULL, NEW q \in Pages, home[q] = NULL,
           NEW next2, NEW back2, NEW home2,
           next2[p] = NULL, next2[q] = next[p],
           \A x \in Cells \ {p, q} : next2[x] = IF x = back[p] THEN q ELSE next[x],
           back2[p] = NULL, back2[q] = back[p],
           \A x \in Pages \ {p, q} : back2[x] = IF x = next[p] THEN q ELSE back[x],
           home2[p] = NULL, home2[q] = home[p],
           \A x \in Pages \ {p, q} : home2[x] = home[x]
    PROVE  Linked(next2, back2, home2)
<1> DEFINE H == home[p]
           n == next[p]
           b == back[p]
<1>1. /\ H \in Heads /\ H \notin Pages
      /\ n \in Pages \cup {H} /\ b \in Pages \cup {H} /\ next[b] = p
      /\ n # p /\ b # p /\ b \in Cells
      /\ H = IF b \in Pages THEN home[b] ELSE b
      /\ n \in Pages => back[n] = p /\ home[n] = H
  BY OnListFacts
<1>2. /\ next[q] = NULL /\ (\A x \in Cells : next[x] # q) /\ \A x \in Pages : back[x] # q
      /\ NULL \notin Pages /\ \A x \in Pages : x \in Cells
  BY OffListFacts, Numbers DEF Cells
<1>3. /\ \A x \in Cells \ {p, q} : next2[x] = IF x = b THEN q ELSE next[x]
      /\ \A x \in Pages \ {p, q} : back2[x] = IF x = n THEN q ELSE back[x]
      /\ H # NULL /\ next2[q] = n /\ back2[q] = b /\ home2[q] = H
  OBVIOUS
<1>4. p # q /\ b # q /\ n # q
  <2>1. n # q
    BY <1>1, <1>2
  <2> HIDE DEF n
  <2>2. b # q
    BY <1>1, <1>2
  <2> HIDE DEF b
  <2> QED BY <2>1, <2>2
<1> HIDE DEF H, n, b
<1>5. ASSUME NEW x \in Pages
      PROVE  IF home2[x] = NULL THEN next2[x] = NULL /\ back2[x] = NULL
             ELSE /\ home2[x] \in Heads /\ next2[x] \in Pages \cup {home2[x]}
                  /\ back2[x] \in Pages \cup {home2[x]} /\ next2[back2[x]] = x
  <2>1. CASE x = p
    BY <2>1
  <2>2. CASE x = q
    <3>1. next2[b] = q
      BY <1>1, <1>3, <1>4
    <3> QED BY <1>1, <1>3, <2>2, <3>1
  <2>3. CASE x # p /\ x # q /\ home[x] = NULL
    <3>1. next[x] = NULL /\ back[x] = NULL
      BY <2>3, OffListFacts
    <3>2. x # b /\ x # n
      BY <1>1, <1>3, <2>3
    <3> QED BY <1>2, <1>3, <2>3, <3>1, <3>2
  <2>4. CASE x # p /\ x # q /\ home[x] # NULL
    <3> DEFINE y == back[x]
    <3>1. /\ home[x] \in Heads /\ next[x] \in Pages \cup {home[x]}
          /\ y \in Pages \cup {home[x]} /\ next[y] = x /\ y \in Cells
      BY <2>4, OnListFacts
    <3> HIDE DEF y
    <3>2. home2[x] = home[x] /\ next2[x] \in Pages \cup {home[x]}
      BY <1>2, <1>3, <2>4, <3>1
    <3>3. CASE x = n
      <4>1. back2[x] = q /\ next2[q] = x
        BY <1>3, <2>4, <3>3
      <4> QED BY <2>4, <3>1, <3>2, <4>1
    <3>4. CASE x # n
      <4>1. back2[x] = y
        BY <1>3, <2>4, <3>4 DEF y
      <4>2. y # p /\ y # q /\ y # b
        BY <1>1, <1>2, <2>4, <3>1, <3>4 DEF n
      <4>3. next2[y] = x
        BY <1>3, <3>1, <4>2
      <4> QED BY <2>4, <3>1, <3>2, <4>1, <4>3
    <3> QED BY <3>3, <3>4
  <2> QED BY <2>1, <2>2, <2>3, <2>4
<1>6. ASSUME NEW head \in Heads PROVE next2[head] \in Pages \cup {head}
  <2>1. head \in Cells /\ head # p /\ head # q
    BY Numbers DEF Cells
  <2>2. next[head] \in Pages \cup {head}
    BY ListParts
  <2> QED BY <1>3, <2>1, <2>2
<1>7. ASSUME NEW x \in Cells, next2[x] \in Pages
      PROVE  /\ back2[next2[x]] = x
             /\ home2[next2[x]] = IF x \in Pages THEN home2[x] ELSE x
  <2>1. x # p
    BY <1>2, <1>7
  <2>2. CASE x = q
    <3>1. next2[x] = n /\ n \in Pages \ {p, q}
      BY <1>1, <1>3, <1>4, <1>7, <2>2
    <3> QED BY <1>1, <1>3, <2>2, <3>1
  <2>3. CASE x = b
    <3>1. next2[x] = q
      BY <1>3, <1>4, <2>1, <2>3
    <3>2. H = IF x \in Pages THEN home2[x] ELSE x
      BY <1>1, <1>4, <2>3
    <3> QED BY <1>3, <2>3, <3>1, <3>2
  <2>4. CASE x # q /\ x # b
    <3> DEFINE z == next[x]
    <3>1. next2[x] = z /\ z \in Pages /\ z # q
      BY <1>2, <1>3, <1>7, <2>1, <2>4
    <3>2. back[z] = x /\ home[z] = IF x \in Pages THEN home[x] ELSE x
      BY <3>1, ListParts
    <3> HIDE DEF z
    <3>3. z # p /\ z # n
      <4>1. z # p
        BY <2>4, <3>2 DEF b
      <4>2. z # n
        BY <1>1, <2>1, <3>1, <3>2
      <4> QED BY <4>1, <4>2
    <3>4. back2[z] = x /\ home2[z] = home[z] /\ (x \in Pages => home2[x] = home[x])
      BY <1>3, <2>1, <2>4, <3>1, <3>2, <3>3
    <3> QED BY <3>1, <3>2, <3>4
  <2> QED BY <2>2, <2>3, <2>4
<1>8. ASSUME NEW T \in SUBSET Pages, T # {} PROVE \E y \in T : back2[y] \notin T
  <2>1. CASE p \in T
    BY <1>2, <2>1
  <2>2. CASE p \notin T /\ q \in T
    <3> DEFINE U == (T \ {q}) \cup {p}
    <3>1. U \in SUBSET Pages /\ U # {}
      OBVIOUS
    <3>2. PICK y \in U : back[y] \notin U
      <4> HIDE DEF U
      <4> QED BY <3>1, ListParts
    <3>3. CASE y = p
      <4>1. b \notin T
        BY <1>4, <3>2, <3>3 DEF b
      <4> QED BY <1>3, <2>2, <4>1
    <3>4. CASE y # p
      <4>1. y \in T /\ y # q /\ y \in Pages /\ p \in U
        BY <3>2, <3>4
      <4>2. y # n
        BY <1>1, <3>2, <4>1
      <4>3. back2[y] = back[y] /\ back[y] # q
        BY <1>2, <1>3, <3>4, <4>1, <4>2
      <4>4. back[y] \notin T
        BY <3>2, <4>3
      <4> QED BY <4>1, <4>3, <4>4
    <3> QED BY <3>3, <3>4
  <2>3. CASE p \notin T /\ q \notin T
    <3>1. PICK y \in T : back[y] \notin T
      BY <1>8, ListParts
    <3> QED BY <1>3, <2>3, <3>1
  <2> QED BY <2>1, <2>2, <2>3
<1> QED BY <1>5, <1>6, <1>7, <1>8 DEF Linked

-----------------------------------------------------------------------------
\* Words

\* What a word can be.
LEMMA WordParts ==
    ASSUME NEW w \in Words
    PROVE  \/ w.kind = "free" /\ w.n \in 0..NPages /\ w = FreeRun(w.n)
           \/ w.kind = "start" /\ w.n \in 1..NPages /\ w = StartOf(w.n)
           \/ w.kind = "busy" /\ w.n = 0 /\ w = Busy
           \/ /\ w.kind = "map" /\ w.shift \in Shifts
              /\ w.used \in SUBSET Chunks(w.shift) /\ w = Map(w.shift, w.used)
<1>1. CASE w \in {FreeRun(n) : n \in 0..NPages}
  BY <1>1 DEF FreeRun
<1>2. CASE w \in {StartOf(n) : n \in 1..NPages}
  BY <1>2 DEF StartOf
<1>3. CASE w = Busy
  BY <1>3 DEF Busy
<1>4. CASE w \in UNION {{Map(s, S) : S \in SUBSET Chunks(s)} : s \in Shifts}
  <2>1. PICK s \in Shifts : \E S \in SUBSET Chunks(s) : w = Map(s, S)
    BY <1>4
  <2> QED BY <2>1 DEF Map
<1> QED BY <1>1, <1>2, <1>3, <1>4 DEF Words

\* The words the operations write.
LEMMA WordsMade ==
    /\ \A n \in 0..NPages : /\ FreeRun(n) \in Words /\ FreeRun(n).kind = "free"
                            /\ FreeRun(n).n = n /\ TypeFor(FreeRun(n)) = "PAGE"
                            /\ Home(FreeRun(n)) = IF n > 0 THEN FreeCell ELSE NULL
    /\ \A n \in 1..NPages : /\ StartOf(n) \in Words /\ StartOf(n).kind = "start"
                            /\ StartOf(n).n = n /\ TypeFor(StartOf(n)) = "PAGE"
                            /\ Home(StartOf(n)) = NULL
    /\ Busy \in Words /\ Busy.kind = "busy" /\ Busy.n = 0 /\ Home(Busy) = NULL
    /\ TypeFor(Busy) = "PAGE"
    /\ \A s \in Shifts : \A S \in SUBSET Chunks(s) :
            /\ Map(s, S) \in Words /\ Map(s, S).kind = "map"
            /\ Map(s, S).shift = s /\ Map(s, S).used = S
            /\ TypeFor(Map(s, S)) = TypeOf(s)
            /\ Home(Map(s, S)) = IF S # Chunks(s) THEN Slot(s) ELSE NULL
<1>1. ASSUME NEW n \in 0..NPages
      PROVE  /\ FreeRun(n) \in Words /\ FreeRun(n).kind = "free"
             /\ FreeRun(n).n = n /\ TypeFor(FreeRun(n)) = "PAGE"
             /\ Home(FreeRun(n)) = IF n > 0 THEN FreeCell ELSE NULL
  BY DEF FreeRun, Words, TypeFor, Home
<1>2. ASSUME NEW n \in 1..NPages
      PROVE  /\ StartOf(n) \in Words /\ StartOf(n).kind = "start"
             /\ StartOf(n).n = n /\ TypeFor(StartOf(n)) = "PAGE"
             /\ Home(StartOf(n)) = NULL
  BY DEF StartOf, Words, TypeFor, Home
<1>3. /\ Busy \in Words /\ Busy.kind = "busy" /\ Busy.n = 0 /\ Home(Busy) = NULL
      /\ TypeFor(Busy) = "PAGE"
  BY DEF Busy, Words, TypeFor, Home
<1>4. ASSUME NEW s \in Shifts, NEW S \in SUBSET Chunks(s)
      PROVE  /\ Map(s, S) \in Words /\ Map(s, S).kind = "map"
             /\ Map(s, S).shift = s /\ Map(s, S).used = S
             /\ TypeFor(Map(s, S)) = TypeOf(s)
             /\ Home(Map(s, S)) = IF S # Chunks(s) THEN Slot(s) ELSE NULL
  <2>1. Map(s, S).kind = "map" /\ Map(s, S).shift = s /\ Map(s, S).used = S
    BY DEF Map
  <2>2. Map(s, S) \in Words
    BY DEF Words
  <2> QED BY <2>1, <2>2 DEF TypeFor, Home
<1> QED BY <1>1, <1>2, <1>3, <1>4

\* Which words have which list, and that a list has one type of page.
LEMMA HomeFacts ==
    ASSUME NEW w \in Words
    PROVE  /\ Home(w) = FreeCell <=> w.kind = "free" /\ w.n > 0
           /\ \A s \in Shifts : Home(w) = Slot(s) <=>
                w.kind = "map" /\ w.shift = s /\ w.used # Chunks(s)
           /\ Home(w) = NULL \/ Home(w) \in Heads
           /\ Home(w) \notin Pages
           /\ \A v \in Words : Home(v) = Home(w) /\ Home(w) # NULL
                                => TypeFor(v) = TypeFor(w)
<1>1. ASSUME NEW v \in Words
      PROVE  \/ v.kind = "free" /\ v.n > 0 /\ Home(v) = FreeCell /\ TypeFor(v) = "PAGE"
             \/ /\ v.kind = "map" /\ v.shift \in Shifts /\ v.used # Chunks(v.shift)
                /\ Home(v) = Slot(v.shift) /\ TypeFor(v) = TypeOf(v.shift)
             \/ /\ Home(v) = NULL
                /\ ~ (v.kind = "free" /\ v.n > 0)
                /\ ~ (v.kind = "map" /\ v.used # Chunks(v.shift))
  BY WordParts DEF Home, TypeFor
<1>2. /\ FreeCell # NULL /\ FreeCell \in Heads
      /\ \A s \in Shifts : Slot(s) \in Heads /\ Slot(s) # FreeCell /\ Slot(s) # NULL
      /\ \A s \in Shifts : \A r \in Shifts : Slot(r) = Slot(s) => r = s
      /\ NULL \notin Pages /\ \A head \in Heads : head \notin Pages
  BY Numbers DEF Cells
<1>3. Home(w) = FreeCell <=> w.kind = "free" /\ w.n > 0
  BY <1>1, <1>2
<1>4. \A s \in Shifts : Home(w) = Slot(s) <=>
                w.kind = "map" /\ w.shift = s /\ w.used # Chunks(s)
  BY <1>1, <1>2
<1>5. Home(w) = NULL \/ Home(w) \in Heads
  BY <1>1, <1>2
<1>6. ASSUME NEW v \in Words, Home(v) = Home(w), Home(w) # NULL
      PROVE  TypeFor(v) = TypeFor(w)
  BY <1>1, <1>2, <1>6
<1> QED BY <1>2, <1>3, <1>4, <1>5, <1>6

\* No type of chunk is that of pages.
LEMMA TypeFacts ==
    \A s \in Shifts : TypeOf(s) \in {"SMALL", "EXACT", "BIG"} /\ TypeOf(s) # "PAGE"
                      /\ (TypeOf(s) = "SMALL" <=> s < exactShift)
<1>1. ASSUME NEW s \in Shifts
      PROVE  \/ s < exactShift /\ TypeOf(s) = "SMALL"
             \/ ~ (s < exactShift) /\ TypeOf(s) \in {"EXACT", "BIG"}
  <2>1. s \in Nat /\ exactShift \in Nat
    BY Numbers
  <2>2. CASE s < exactShift
    <3>1. s # exactShift
      BY <2>1, <2>2
    <3> QED BY <2>2, <3>1 DEF TypeOf
  <2>3. CASE ~ (s < exactShift)
    BY <2>3 DEF TypeOf
  <2> QED BY <2>2, <2>3
<1> QED BY <1>1

-----------------------------------------------------------------------------
\* Pages

\* How far a page extends.
LEMMA ExtentFacts ==
    ASSUME NEW w \in Words, NEW p \in Pages
    PROVE  /\ w.kind = "map" => Extent(w, p) = {p}
           /\ w.kind # "map" => Extent(w, p) = p..(p + w.n - 1) /\ w.n \in Nat
           /\ p \notin Extent(w, p) => /\ w.kind \notin {"map", "start"}
                                       /\ w.n = 0 /\ Extent(w, p) = {}
                                       /\ Home(w) = NULL /\ TypeFor(w) = "PAGE"
                                       /\ InUse(w, p) = {}
<1>1. p \in Nat
  BY Numbers
<1>2. w.kind = "map" => Extent(w, p) = {p}
  BY DEF Extent
<1>3. w.kind # "map" => Extent(w, p) = p..(p + w.n - 1) /\ w.n \in Nat
  BY WordParts DEF Extent
<1>4. ASSUME p \notin Extent(w, p)
      PROVE  /\ w.kind \notin {"map", "start"} /\ w.n = 0 /\ Extent(w, p) = {}
             /\ Home(w) = NULL /\ TypeFor(w) = "PAGE" /\ InUse(w, p) = {}
  <2>1. w.kind # "map" /\ w.n \in Nat /\ p \notin p..(p + w.n - 1)
    BY <1>2, <1>3, <1>4
  <2>2. w.n = 0
    BY <1>1, <2>1
  <2>3. Extent(w, p) = {}
    BY <1>1, <1>3, <2>1, <2>2
  <2>4. w.kind \in {"free", "busy"}
    BY <2>1, <2>2, WordParts
  <2>5. Home(w) = NULL /\ TypeFor(w) = "PAGE" /\ InUse(w, p) = {}
    BY <2>2, <2>4 DEF Home, TypeFor, InUse
  <2> QED BY <2>1, <2>2, <2>3, <2>4, <2>5
<1> QED BY <1>2, <1>3, <1>4

\* The other pages of a run are nobody's start.
LEMMA Interior ==
    ASSUME NEW h, HeadersInv(h), PagesInv(h), NEW p \in Pages,
           NEW q \in Extent(h.slab[p], p), q # p
    PROVE  /\ q \in Pages /\ q \notin Extent(h.slab[q], q)
           /\ h.slab[q].kind \notin {"map", "start"} /\ h.slab[q].n = 0
           /\ Extent(h.slab[q], q) = {} /\ Home(h.slab[q]) = NULL
           /\ TypeFor(h.slab[q]) = "PAGE" /\ InUse(h.slab[q], q) = {}
<1>1. q \in Pages
  BY DEF PagesInv
<1>2. q \notin Extent(h.slab[q], q)
  BY <1>1 DEF PagesInv
<1>3. h.slab[q] \in Words
  BY <1>1 DEF HeadersInv
<1> QED BY <1>1, <1>2, <1>3, ExtentFacts

\* The same extents cover the same pages.
LEMMA SameExtents ==
    ASSUME NEW h, PagesInv(h), NEW g,
           \A q \in Pages : Extent(g.slab[q], q) = Extent(h.slab[q], q)
    PROVE  PagesInv(g)
BY DEF PagesInv

\* A run is given up for pages that cover the same.
LEMMA SplitExtents ==
    ASSUME NEW h, HeadersInv(h), PagesInv(h), NEW g, NEW p \in Pages,
           Extent(h.slab[p], p) # {},
           \A x \in Extent(h.slab[p], p) :
                /\ Extent(g.slab[x], x) \subseteq Extent(h.slab[p], p)
                /\ \E q \in Extent(h.slab[p], p) : x \in Extent(g.slab[q], q),
           \A q, r \in Extent(h.slab[p], p) :
                q # r => Extent(g.slab[q], q) \cap Extent(g.slab[r], r) = {},
           \A q \in Pages \ Extent(h.slab[p], p) : g.slab[q] = h.slab[q]
    PROVE  PagesInv(g)
<1> DEFINE E == Extent(h.slab[p], p)
           X(q) == Extent(h.slab[q], q)
           Y(q) == Extent(g.slab[q], q)
<1>1. /\ \A q \in Pages : X(q) \subseteq Pages
      /\ \A x \in Pages : \E q \in Pages : x \in X(q)
      /\ \A q, r \in Pages : q # r => X(q) \cap X(r) = {}
  BY DEF PagesInv
<1>2. X(p) = E
  OBVIOUS
<1>3. \A q \in E : q # p => X(q) = {}
  BY Interior
<1>4. /\ \A x \in E : Y(x) \subseteq E /\ \E q \in E : x \in Y(q)
      /\ \A q, r \in E : q # r => Y(q) \cap Y(r) = {}
      /\ \A q \in Pages \ E : Y(q) = X(q)
  OBVIOUS
<1> HIDE DEF E, X, Y
<1>5. \A q \in Pages : Y(q) \subseteq Pages
  BY <1>1, <1>2, <1>4
<1>6. \A x \in Pages : \E q \in Pages : x \in Y(q)
  <2>1. ASSUME NEW x \in Pages PROVE \E q \in Pages : x \in Y(q)
    <3>1. CASE x \in E
      BY <1>1, <1>2, <1>4, <3>1
    <3>2. CASE x \notin E
      <4>1. PICK q \in Pages : x \in X(q)
        BY <1>1
      <4>2. q # p /\ q \notin E
        BY <1>2, <1>3, <3>2, <4>1
      <4> QED BY <1>4, <4>1, <4>2
    <3> QED BY <3>1, <3>2
  <2> QED BY <2>1
<1>7. ASSUME NEW q \in Pages, NEW r \in Pages, q # r PROVE Y(q) \cap Y(r) = {}
  <2>1. \A x \in Pages \ E : Y(x) \cap E = {}
    <3>1. p \in E \/ X(p) = {}
      <4>1. h.slab[p] \in Words
        BY DEF HeadersInv
      <4> QED BY <4>1, ExtentFacts DEF X, E
    <3> QED BY <1>1, <1>2, <1>4, <3>1
  <2> QED BY <1>1, <1>4, <1>7, <2>1
<1> QED BY <1>5, <1>6, <1>7 DEF PagesInv, Y

-----------------------------------------------------------------------------
\* The fields the operations on headers leave

\* The fields of headers that are in order.
LEMMA HeaderParts ==
    ASSUME NEW h, HeadersInv(h)
    PROVE  /\ h.slab \in [Pages -> Words]
           /\ h.next \in [Cells -> Cells \cup {NULL}]
           /\ h.prev \in [Cells -> Links]
           /\ h = [slab |-> h.slab, next |-> h.next, prev |-> h.prev]
           /\ \A x \in Cells : h.prev[x].to \in Cells \cup {NULL}
           /\ \A p \in Pages : p \in Cells
BY DEF HeadersInv, Links, Cells

\* One entry of one field changes.
LEMMA FieldSet ==
    ASSUME NEW a, NEW b, NEW c, NEW x, NEW u
    PROVE  LET h == [slab |-> a, next |-> b, prev |-> c]
           IN  /\ [h EXCEPT !.slab[x] = u] = [slab |-> [a EXCEPT ![x] = u],
                                             next |-> b, prev |-> c]
               /\ [h EXCEPT !.next[x] = u] = [slab |-> a, prev |-> c,
                                             next |-> [b EXCEPT ![x] = u]]
               /\ [h EXCEPT !.prev[x] = u] = [slab |-> a, next |-> b,
                                             prev |-> [c EXCEPT ![x] = u]]
<1>1. [[slab |-> a, next |-> b, prev |-> c] EXCEPT !.slab[x] = u]
        = [slab |-> [a EXCEPT ![x] = u], next |-> b, prev |-> c]
  OBVIOUS
<1>2. [[slab |-> a, next |-> b, prev |-> c] EXCEPT !.next[x] = u]
        = [slab |-> a, next |-> [b EXCEPT ![x] = u], prev |-> c]
  OBVIOUS
<1>3. [[slab |-> a, next |-> b, prev |-> c] EXCEPT !.prev[x] = u]
        = [slab |-> a, next |-> b, prev |-> [c EXCEPT ![x] = u]]
  OBVIOUS
<1> QED BY <1>1, <1>2, <1>3

\* Two entries of next and two of prev, in this order.
LEMMA FieldsSet ==
    ASSUME NEW a, NEW b, NEW c, NEW x, NEW u, NEW x2, NEW u2,
           NEW y, NEW v, NEW y2, NEW v2,
           NEW h, h = [slab |-> a, next |-> b, prev |-> c]
    PROVE  /\ [h EXCEPT !.next[x] = u, !.prev[y] = v]
                = [slab |-> a, next |-> [b EXCEPT ![x] = u], prev |-> [c EXCEPT ![y] = v]]
           /\ [h EXCEPT !.next[x] = u, !.next[x2] = u2, !.prev[y] = v, !.prev[y2] = v2]
                = [slab |-> a, next |-> [[b EXCEPT ![x] = u] EXCEPT ![x2] = u2],
                   prev |-> [[c EXCEPT ![y] = v] EXCEPT ![y2] = v2]]
<1> DEFINE b1 == [b EXCEPT ![x] = u]
           b2 == [b1 EXCEPT ![x2] = u2]
           c1 == [c EXCEPT ![y] = v]
           c2 == [c1 EXCEPT ![y2] = v2]
           h1 == [slab |-> a, next |-> b1, prev |-> c]
           h2 == [slab |-> a, next |-> b2, prev |-> c]
           h3 == [slab |-> a, next |-> b2, prev |-> c1]
           h4 == [slab |-> a, next |-> b2, prev |-> c2]
           k == [slab |-> a, next |-> b1, prev |-> c1]
<1>1. [h EXCEPT !.next[x] = u] = h1 /\ [h1 EXCEPT !.prev[y] = v] = k
  <2>1. [h EXCEPT !.next[x] = u] = h1
    BY FieldSet
  <2> HIDE DEF b1
  <2> QED BY <2>1, FieldSet
<1>2. [h1 EXCEPT !.next[x2] = u2] = h2
  <2> HIDE DEF b1
  <2> QED BY FieldSet
<1>3. [h2 EXCEPT !.prev[y] = v] = h3
  <2> HIDE DEF b2
  <2> QED BY FieldSet
<1>4. [h3 EXCEPT !.prev[y2] = v2] = h4
  <2> HIDE DEF b2, c1
  <2> QED BY FieldSet
<1>5. [h EXCEPT !.next[x] = u, !.prev[y] = v]
        = [[h EXCEPT !.next[x] = u] EXCEPT !.prev[y] = v]
  OBVIOUS
<1>6. [h EXCEPT !.next[x] = u, !.next[x2] = u2, !.prev[y] = v, !.prev[y2] = v2]
        = [[[[h EXCEPT !.next[x] = u] EXCEPT !.next[x2] = u2]
                EXCEPT !.prev[y] = v] EXCEPT !.prev[y2] = v2]
  OBVIOUS
<1> HIDE DEF h1, h2, h3, h4, k
<1>7. [h EXCEPT !.next[x] = u, !.prev[y] = v] = k
  BY <1>1, <1>5
<1>8. [h EXCEPT !.next[x] = u, !.next[x2] = u2, !.prev[y] = v, !.prev[y2] = v2] = h4
  BY <1>1, <1>2, <1>3, <1>4, <1>6
<1> QED BY <1>7, <1>8 DEF k, h4

\* What Link makes.
LEMMA LinksMade ==
    \A x \in Cells \cup {NULL} :
        \A t \in {"PAGE", "SMALL", "EXACT", "BIG"} :
            Link(x, t) \in Links /\ Link(x, t).to = x /\ Link(x, t).type = t
BY DEF Link, Links

\* Unlink changes next of the cell before and prev of the cell after.
LEMMA UnlinkFields ==
    ASSUME NEW h, HeadersInv(h), NEW p \in Pages,
           h.prev[p].to \in Cells, h.next[p] \in Cells
    PROVE  LET g == Unlink(h, p)
           IN  /\ HeadersInv(g) /\ g.slab = h.slab
               /\ \A x \in Cells :
                    /\ g.next[x] = IF x = h.prev[p].to THEN h.next[p] ELSE h.next[x]
                    /\ g.prev[x] = IF x = h.next[p] THEN h.prev[p] ELSE h.prev[x]
<1> DEFINE b == h.prev[p].to
           n == h.next[p]
           next == [h.next EXCEPT ![b] = n]
           prev == [h.prev EXCEPT ![n] = h.prev[p]]
<1>1. Unlink(h, p) = [slab |-> h.slab, next |-> next, prev |-> prev]
  <2>1. h = [slab |-> h.slab, next |-> h.next, prev |-> h.prev]
    BY HeaderParts
  <2>2. Unlink(h, p) = [h EXCEPT !.next[b] = n, !.prev[n] = h.prev[p]]
    BY DEF Unlink
  <2> HIDE DEF b, n
  <2> QED BY <2>1, <2>2, FieldsSet
<1>2. /\ h.next \in [Cells -> Cells \cup {NULL}] /\ h.prev \in [Cells -> Links]
      /\ h.slab \in [Pages -> Words] /\ p \in Cells /\ b \in Cells /\ n \in Cells
  BY HeaderParts
<1> HIDE DEF b, n
<1>3. next \in [Cells -> Cells \cup {NULL}] /\ prev \in [Cells -> Links]
  BY <1>2
<1>4. \A x \in Cells :
        /\ next[x] = IF x = b THEN n ELSE h.next[x]
        /\ prev[x] = IF x = n THEN h.prev[p] ELSE h.prev[x]
  BY <1>2
<1> HIDE DEF next, prev
<1>5. HeadersInv([slab |-> h.slab, next |-> next, prev |-> prev])
  BY <1>2, <1>3 DEF HeadersInv
<1> QED BY <1>1, <1>4, <1>5 DEF b, n

\* PushFront changes the page, the head and the cell that was first.
LEMMA PushFields ==
    ASSUME NEW h, HeadersInv(h), NEW p \in Pages, NEW head \in Heads,
           h.next[head] \in Cells, NEW t \in {"PAGE", "SMALL", "EXACT", "BIG"}
    PROVE  LET g == PushFront(h, head, p, t)
           IN  /\ HeadersInv(g) /\ g.slab = h.slab
               /\ \A x \in Cells :
                    /\ g.next[x] = IF x = head THEN p
                                   ELSE IF x = p THEN h.next[head] ELSE h.next[x]
                    /\ g.prev[x] = IF x = h.next[head] THEN Link(p, t)
                                   ELSE IF x = p THEN Link(head, t) ELSE h.prev[x]
<1> DEFINE f == h.next[head]
           next == [[h.next EXCEPT ![p] = f] EXCEPT ![head] = p]
           prev == [[h.prev EXCEPT ![p] = Link(head, t)] EXCEPT ![f] = Link(p, t)]
<1>1. PushFront(h, head, p, t) = [slab |-> h.slab, next |-> next, prev |-> prev]
  <2>1. h = [slab |-> h.slab, next |-> h.next, prev |-> h.prev]
    BY HeaderParts
  <2>2. PushFront(h, head, p, t)
          = [h EXCEPT !.next[p] = f, !.next[head] = p,
                      !.prev[p] = Link(head, t), !.prev[f] = Link(p, t)]
    BY DEF PushFront
  <2> HIDE DEF f
  <2> QED BY <2>1, <2>2, FieldsSet
<1>2. /\ h.next \in [Cells -> Cells \cup {NULL}] /\ h.prev \in [Cells -> Links]
      /\ h.slab \in [Pages -> Words] /\ p \in Cells /\ f \in Cells /\ head \in Cells
  BY HeaderParts DEF Cells
<1>3. Link(head, t) \in Links /\ Link(p, t) \in Links
  BY <1>2, LinksMade
<1> HIDE DEF f
<1>4. next \in [Cells -> Cells \cup {NULL}] /\ prev \in [Cells -> Links]
  BY <1>2, <1>3
<1>5. \A x \in Cells :
        /\ next[x] = IF x = head THEN p ELSE IF x = p THEN f ELSE h.next[x]
        /\ prev[x] = IF x = f THEN Link(p, t)
                     ELSE IF x = p THEN Link(head, t) ELSE h.prev[x]
  BY <1>2
<1> HIDE DEF next, prev
<1>6. HeadersInv([slab |-> h.slab, next |-> next, prev |-> prev])
  BY <1>2, <1>4 DEF HeadersInv
<1> QED BY <1>1, <1>5, <1>6 DEF f

\* SplitRun changes the rest of the run and the two cells around the run.
LEMMA SplitFields ==
    ASSUME NEW h, HeadersInv(h), NEW p \in Pages, NEW n, p + n \in Pages,
           h.prev[p].to \in Cells, h.next[p] \in Cells,
           FreeRun(h.slab[p].n - n) \in Words
    PROVE  LET g == SplitRun(h, p, n)
               q == p + n
           IN  /\ HeadersInv(g)
               /\ g.slab = [h.slab EXCEPT ![q] = FreeRun(h.slab[p].n - n)]
               /\ \A x \in Cells :
                    /\ g.next[x] = IF x = h.prev[p].to THEN q
                                   ELSE IF x = q THEN h.next[p] ELSE h.next[x]
                    /\ g.prev[x] = IF x = h.next[p] THEN Link(q, "PAGE")
                                   ELSE IF x = q THEN h.prev[p] ELSE h.prev[x]
<1> DEFINE b == h.prev[p].to
           z == h.next[p]
           q == p + n
           w == FreeRun(h.slab[p].n - n)
           slab == [h.slab EXCEPT ![q] = w]
           next == [[h.next EXCEPT ![q] = z] EXCEPT ![b] = q]
           prev == [[h.prev EXCEPT ![q] = h.prev[p]] EXCEPT ![z] = Link(q, "PAGE")]
<1>1. SplitRun(h, p, n) = [slab |-> slab, next |-> next, prev |-> prev]
  <2> DEFINE g == [h EXCEPT !.slab[q] = w]
  <2>1. h = [slab |-> h.slab, next |-> h.next, prev |-> h.prev]
    BY HeaderParts
  <2>2. g = [slab |-> slab, next |-> h.next, prev |-> h.prev]
    BY <2>1, FieldSet
  <2>3. SplitRun(h, p, n) = [g EXCEPT !.next[q] = z, !.next[b] = q,
                                      !.prev[q] = h.prev[p], !.prev[z] = Link(q, "PAGE")]
    BY DEF SplitRun
  <2> DEFINE l == Link(q, "PAGE")
             next1 == [h.next EXCEPT ![q] = z]
             prev1 == [h.prev EXCEPT ![q] = h.prev[p]]
             next2 == [next1 EXCEPT ![b] = q]
             prev2 == [prev1 EXCEPT ![z] = l]
             g1 == [g EXCEPT !.next[q] = z]
             g2 == [g1 EXCEPT !.next[b] = q]
             g3 == [g2 EXCEPT !.prev[q] = h.prev[p]]
             g4 == [g3 EXCEPT !.prev[z] = l]
  <2>4. SplitRun(h, p, n) = g4
    BY <2>3
  <2> HIDE DEF g, slab, z, b, q, l
  <2>5. g1 = [slab |-> slab, next |-> next1, prev |-> h.prev]
    BY <2>2, FieldSet
  <2> HIDE DEF g1, next1
  <2>6. g2 = [slab |-> slab, next |-> next2, prev |-> h.prev]
    BY <2>5, FieldSet
  <2> HIDE DEF g2, next2
  <2>7. g3 = [slab |-> slab, next |-> next2, prev |-> prev1]
    BY <2>6, FieldSet
  <2> HIDE DEF g3, prev1
  <2>8. g4 = [slab |-> slab, next |-> next2, prev |-> prev2]
    BY <2>7, FieldSet
  <2> HIDE DEF g4, prev2
  <2>9. SplitRun(h, p, n) = [slab |-> slab, next |-> next2, prev |-> prev2]
    BY <2>4, <2>8
  <2> QED BY <2>9 DEF next2, next1, prev2, prev1, l
<1>2. /\ h.next \in [Cells -> Cells \cup {NULL}] /\ h.prev \in [Cells -> Links]
      /\ h.slab \in [Pages -> Words] /\ p \in Cells /\ b \in Cells /\ z \in Cells
      /\ q \in Pages /\ q \in Cells /\ w \in Words
  BY HeaderParts DEF Cells
<1>3. Link(q, "PAGE") \in Links
  BY <1>2, LinksMade
<1> HIDE DEF b, z, q, w
<1>4. /\ next \in [Cells -> Cells \cup {NULL}] /\ prev \in [Cells -> Links]
      /\ slab \in [Pages -> Words]
  BY <1>2, <1>3
<1>5. \A x \in Cells :
        /\ next[x] = IF x = b THEN q ELSE IF x = q THEN z ELSE h.next[x]
        /\ prev[x] = IF x = z THEN Link(q, "PAGE")
                     ELSE IF x = q THEN h.prev[p] ELSE h.prev[x]
  BY <1>2
<1>6. slab = [h.slab EXCEPT ![q] = w]
  OBVIOUS
<1> HIDE DEF next, prev, slab
<1>7. HeadersInv([slab |-> slab, next |-> next, prev |-> prev])
  BY <1>4 DEF HeadersInv
<1> QED BY <1>1, <1>5, <1>6, <1>7 DEF b, z, q, w

\* The neighbours of a page, as fields of the headers.
LEMMA OnListCells ==
    ASSUME NEW h, HeadersInv(h), LinksInv(h), NEW p \in Pages, Home(h.slab[p]) # NULL
    PROVE  LET H == Home(h.slab[p])
               n == h.next[p]
               b == h.prev[p].to
           IN  /\ H \in Heads /\ H \notin Pages
               /\ n \in Pages \cup {H} /\ b \in Pages \cup {H} /\ h.next[b] = p
               /\ n # p /\ b # p /\ b \in Cells /\ n \in Cells
               /\ b \in Pages => Home(h.slab[b]) = H
               /\ n \in Pages => h.prev[n].to = p /\ Home(h.slab[n]) = H
<1> DEFINE H == Home(h.slab[p])
           n == h.next[p]
           b == h.prev[p].to
<1>1. Linked(h.next, Backs(h), Homes(h))
  BY DEF LinksInv
<1>2. \A x \in Cells : Backs(h)[x] = h.prev[x].to
  BY DEF Backs
<1>3. \A x \in Pages : Homes(h)[x] = Home(h.slab[x]) /\ x \in Cells
  BY DEF Homes, Cells
<1>4. /\ H \in Heads /\ H \notin Pages
      /\ n \in Pages \cup {H} /\ b \in Pages \cup {H} /\ h.next[b] = p
      /\ n # p /\ b # p /\ b \in Cells /\ n \in Cells
      /\ H = IF b \in Pages THEN Homes(h)[b] ELSE b
      /\ n \in Pages => Backs(h)[n] = p /\ Homes(h)[n] = H
  BY <1>1, <1>2, <1>3, OnListFacts
<1> HIDE DEF n, b, H
<1> QED BY <1>2, <1>3, <1>4 DEF n, b, H

\* A page on no list.
LEMMA OffListCells ==
    ASSUME NEW h, HeadersInv(h), LinksInv(h), NEW p \in Pages, Home(h.slab[p]) = NULL
    PROVE  h.next[p] = NULL /\ h.prev[p].to = NULL
<1>1. Linked(h.next, Backs(h), Homes(h))
  BY DEF LinksInv
<1>2. Backs(h)[p] = h.prev[p].to /\ Homes(h)[p] = Home(h.slab[p])
  BY DEF Backs, Homes, Cells
<1> QED BY <1>1, <1>2, OffListFacts

\* The first page of a list.
LEMMA HeadCells ==
    ASSUME NEW h, HeadersInv(h), LinksInv(h), NEW head \in Heads
    PROVE  /\ h.next[head] \in Pages \cup {head} /\ h.next[head] \in Cells
           /\ head \in Cells /\ head \notin Pages
           /\ h.next[head] \in Pages => /\ Home(h.slab[h.next[head]]) = head
                                        /\ h.prev[h.next[head]].to = head
<1>1. Linked(h.next, Backs(h), Homes(h))
  BY DEF LinksInv
<1>2. head \in Cells /\ head \notin Pages /\ \A x \in Pages : x \in Cells
  BY Numbers DEF Cells
<1>3. h.next[head] \in Pages \cup {head}
  BY <1>1, ListParts
<1>4. ASSUME h.next[head] \in Pages
      PROVE  Backs(h)[h.next[head]] = head /\ Homes(h)[h.next[head]] = head
  BY <1>1, <1>2, <1>4, ListParts
<1> QED BY <1>2, <1>3, <1>4 DEF Backs, Homes

-----------------------------------------------------------------------------
\* Operations on the headers

\* The words that stand for nothing in use.
Quiet(w) == w.kind \in {"free", "busy"}

\* From h to g the headers keep their invariants, and no page but p changes
\* what is in use.
Changed(h, g, p) ==
    /\ HeadersInv(g) /\ LinksInv(g) /\ PagesInv(g)
    /\ \A q \in Pages \ {p} :
            \/ g.slab[q] = h.slab[q]
            \/ Quiet(g.slab[q]) /\ Quiet(h.slab[q])

\* How LinksInv follows for other headers.
LEMMA LinksMadeInv ==
    ASSUME NEW g, HeadersInv(g), Linked(g.next, Backs(g), Homes(g)),
           \A x \in Pages : g.prev[x].type = TypeFor(g.slab[x])
    PROVE  LinksInv(g)
BY DEF LinksInv

\* The lists of headers, as functions of cells and pages.
LEMMA ListsOf ==
    ASSUME NEW h, HeadersInv(h)
    PROVE  /\ \A x \in Cells : Backs(h)[x] = h.prev[x].to
           /\ \A x \in Pages : Homes(h)[x] = Home(h.slab[x]) /\ x \in Cells
                               /\ Backs(h)[x] = h.prev[x].to
           /\ LinksInv(h) => /\ Linked(h.next, Backs(h), Homes(h))
                             /\ \A x \in Pages : h.prev[x].type = TypeFor(h.slab[x])
<1>1. \A x \in Cells : Backs(h)[x] = h.prev[x].to
  BY DEF Backs
<1>2. \A x \in Pages : Homes(h)[x] = Home(h.slab[x]) /\ x \in Cells
  BY DEF Homes, Cells
<1> QED BY <1>1, <1>2 DEF LinksInv

\* The run that n pages are taken from, and its neighbours on the free list.
LEMMA RunFacts ==
    ASSUME NEW h, HeadersInv(h), LinksInv(h), PagesInv(h),
           NEW p \in Pages, h.slab[p].kind = "free", h.slab[p].n > 0
    PROVE  LET N == h.slab[p].n
               b == h.prev[p].to
               z == h.next[p]
               E == Extent(h.slab[p], p)
           IN  /\ N \in 1..NPages /\ E = p..(p + N - 1) /\ E \subseteq Pages
               /\ p \in E /\ Home(h.slab[p]) = FreeCell /\ FreeCell # NULL
               /\ h.prev[p].type = "PAGE"
               /\ b \in Cells \ E /\ z \in Cells \ E /\ z # p /\ b # p
               /\ z \in Pages => TypeFor(h.slab[z]) = "PAGE"
               /\ \A x \in E : x # p => /\ h.next[x] = NULL /\ h.prev[x].to = NULL
                                        /\ Home(h.slab[x]) = NULL
                                        /\ TypeFor(h.slab[x]) = "PAGE"
                                        /\ Quiet(h.slab[x])
                                        /\ Extent(h.slab[x], x) = {}
<1> DEFINE w == h.slab[p]
           N == h.slab[p].n
           b == h.prev[p].to
           z == h.next[p]
           E == Extent(h.slab[p], p)
<1>1. w \in Words /\ \A x \in Pages : h.slab[x] \in Words
  BY HeaderParts
<1>2. N \in 0..NPages /\ w.kind = "free"
  BY <1>1, WordParts
<1>3. N \in 1..NPages /\ E = p..(p + N - 1)
  <2>1. NPages \in Nat
    BY Numbers
  <2> QED BY <1>1, <1>2, <2>1, ExtentFacts
<1>4. p \in E /\ E \subseteq Pages
  <2>1. p \in Nat
    BY Numbers
  <2>2. p \in E
    BY <1>3, <2>1
  <2>3. E \subseteq Pages
    BY DEF PagesInv
  <2> QED BY <2>2, <2>3
<1>5. Home(w) = FreeCell /\ FreeCell # NULL
  <2>1. FreeCell # NULL
    BY Numbers DEF Cells
  <2> QED BY <1>1, <1>2, <1>3, <2>1, HomeFacts
<1>6. h.prev[p].type = "PAGE"
  <2>1. TypeFor(w) = "PAGE"
    BY <1>2 DEF TypeFor
  <2> QED BY <2>1, ListsOf
<1>7. /\ z # p /\ b # p /\ z \in Cells /\ b \in Cells
      /\ b \in Pages => Home(h.slab[b]) = FreeCell
      /\ z \in Pages => Home(h.slab[z]) = FreeCell
  BY <1>5, OnListCells
<1>8. ASSUME NEW x \in E, x # p
      PROVE  /\ h.next[x] = NULL /\ h.prev[x].to = NULL
             /\ Home(h.slab[x]) = NULL /\ TypeFor(h.slab[x]) = "PAGE"
             /\ Quiet(h.slab[x]) /\ Extent(h.slab[x], x) = {}
  <2>1. x \in Extent(w, p)
    OBVIOUS
  <2> HIDE DEF E
  <2>2. /\ x \in Pages /\ h.slab[x].kind \notin {"map", "start"}
        /\ Extent(h.slab[x], x) = {} /\ Home(h.slab[x]) = NULL
        /\ TypeFor(h.slab[x]) = "PAGE"
    BY <1>8, <2>1, Interior
  <2>3. h.slab[x] \in Words
    BY <1>1, <2>2
  <2>4. Quiet(h.slab[x])
    BY <2>2, <2>3, WordParts DEF Quiet
  <2> QED BY <2>2, <2>4, OffListCells
<1> HIDE DEF N, b, z
<1>9. b \notin E /\ z \notin E
  BY <1>4, <1>5, <1>7, <1>8
<1>10. z \in Pages => TypeFor(h.slab[z]) = "PAGE"
  <2>1. ASSUME z \in Pages PROVE TypeFor(h.slab[z]) = TypeFor(w)
    BY <1>1, <1>5, <1>7, <2>1, HomeFacts
  <2>2. TypeFor(w) = "PAGE"
    BY <1>2 DEF TypeFor
  <2> QED BY <2>1, <2>2
<1> QED BY <1>3, <1>4, <1>5, <1>6, <1>7, <1>8, <1>9, <1>10 DEF N, b, z

\* n pages are taken from the front of a longer run.
LEMMA SplitPagesResult ==
    ASSUME NEW h, HeadersInv(h), LinksInv(h), PagesInv(h),
           NEW p \in Pages, h.slab[p].kind = "free", NEW n \in Nat, n > 0,
           n < h.slab[p].n
    PROVE  Changed(h, AllocPages(h, p, n), p) /\ AllocPages(h, p, n).slab[p] = StartOf(n)
<1> DEFINE N == h.slab[p].n
           b == h.prev[p].to
           z == h.next[p]
           E == Extent(h.slab[p], p)
           q == p + n
           taken == p..(p + n - 1)
           f == SplitRun(h, p, n)
           g == AllocPages(h, p, n)
<1>1. p \in Nat /\ NPages \in Nat
  BY Numbers
<1>2. /\ N \in 1..NPages /\ E = p..(p + N - 1) /\ E \subseteq Pages
      /\ p \in E /\ Home(h.slab[p]) = FreeCell /\ FreeCell # NULL
      /\ h.prev[p].type = "PAGE"
      /\ b \in Cells \ E /\ z \in Cells \ E /\ z # p /\ b # p
      /\ z \in Pages => TypeFor(h.slab[z]) = "PAGE"
      /\ \A x \in E : x # p => /\ h.next[x] = NULL /\ h.prev[x].to = NULL
                               /\ Home(h.slab[x]) = NULL /\ TypeFor(h.slab[x]) = "PAGE"
                               /\ Quiet(h.slab[x]) /\ Extent(h.slab[x], x) = {}
  <2>1. h.slab[p].n \in Nat
    <3>1. h.slab[p] \in Words
      BY HeaderParts
    <3> QED BY <3>1, WordParts
  <2>2. h.slab[p].n > 0
    BY <2>1
  <2> QED BY <2>2, RunFacts
<1>3. /\ q \in E /\ q # p /\ taken \subseteq E /\ q \notin taken /\ p \in taken
      /\ n \in 1..NPages /\ N - n \in 0..NPages /\ N - n > 0
  <2>1. N \in Nat /\ n < N /\ N <= NPages /\ E = p..(p + N - 1)
    BY <1>1, <1>2
  <2> HIDE DEF N, E
  <2> QED BY <1>1, <2>1
<1>4. /\ FreeRun(N - n) \in Words /\ Home(FreeRun(N - n)) = FreeCell
      /\ TypeFor(FreeRun(N - n)) = "PAGE" /\ FreeRun(N - n).kind = "free"
      /\ FreeRun(N - n).n = N - n
      /\ StartOf(n) \in Words /\ Home(StartOf(n)) = NULL
      /\ TypeFor(StartOf(n)) = "PAGE" /\ StartOf(n).kind = "start"
      /\ StartOf(n).n = n
      /\ Busy \in Words /\ Home(Busy) = NULL /\ TypeFor(Busy) = "PAGE"
      /\ Busy.kind = "busy" /\ Busy.n = 0
  <2> HIDE DEF N
  <2> QED BY <1>3, WordsMade
<1>5. /\ HeadersInv(f)
      /\ f.slab = [h.slab EXCEPT ![q] = FreeRun(N - n)]
      /\ \A x \in Cells :
            /\ f.next[x] = IF x = b THEN q ELSE IF x = q THEN z ELSE h.next[x]
            /\ f.prev[x] = IF x = z THEN Link(q, "PAGE")
                           ELSE IF x = q THEN h.prev[p] ELSE h.prev[x]
  <2>1. q \in Pages /\ b \in Cells /\ z \in Cells /\ FreeRun(h.slab[p].n - n) \in Words
    BY <1>2, <1>3, <1>4
  <2> QED BY <2>1, SplitFields
<1>6. /\ g.slab = [x \in Pages |-> CASE x = p -> StartOf(n)
                                     [] x \in taken \ {p} -> Busy
                                     [] OTHER -> f.slab[x]]
      /\ g.next = [x \in Cells |-> IF x \in taken THEN NULL ELSE f.next[x]]
      /\ g.prev = [x \in Cells |-> IF x \in taken THEN Link(NULL, "PAGE") ELSE f.prev[x]]
      /\ g = [slab |-> g.slab, next |-> g.next, prev |-> g.prev]
  <2>1. n < h.slab[p].n /\ h.slab[p].n > n
    <3>1. n < N /\ N \in Nat
      BY <1>2
    <3>2. N > n
      <4> HIDE DEF N
      <4> QED BY <3>1
    <3> QED BY <3>1, <3>2
  <2> QED BY <2>1 DEF AllocPages
<1>7. /\ \A x \in Pages : x \in Cells
      /\ h.slab \in [Pages -> Words] /\ f.slab \in [Pages -> Words]
      /\ f.next \in [Cells -> Cells \cup {NULL}] /\ f.prev \in [Cells -> Links]
      /\ Link(NULL, "PAGE") \in Links /\ Link(NULL, "PAGE").to = NULL
      /\ Link(NULL, "PAGE").type = "PAGE"
      /\ Link(q, "PAGE").to = q /\ Link(q, "PAGE").type = "PAGE"
  <2>1. q \in Cells
    BY <1>2, <1>3 DEF Cells
  <2> HIDE DEF f, q
  <2> QED BY <1>5, <2>1, HeaderParts, LinksMade
<1> HIDE DEF N, b, z, E, q, taken, f, g
<1>8. /\ g.slab[p] = StartOf(n) /\ g.slab[q] = FreeRun(N - n)
      /\ \A x \in taken : x # p => g.slab[x] = Busy
      /\ \A x \in Pages \ taken : x # q => g.slab[x] = h.slab[x]
  BY <1>2, <1>3, <1>5, <1>6, <1>7
<1>9. /\ \A x \in taken : g.next[x] = NULL /\ g.prev[x] = Link(NULL, "PAGE")
      /\ g.next[q] = z /\ g.prev[q] = h.prev[p]
      /\ \A x \in Cells \ taken : x # q =>
            /\ g.next[x] = IF x = b THEN q ELSE h.next[x]
            /\ g.prev[x] = IF x = z THEN Link(q, "PAGE") ELSE h.prev[x]
  <2>1. q \in Cells \ taken /\ q # b /\ q # z /\ \A x \in taken : x \in Cells
    BY <1>2, <1>3, <1>7
  <2> QED BY <1>5, <1>6, <2>1
<1>10. HeadersInv(g)
  <2>1. g.slab \in [Pages -> Words]
    BY <1>4, <1>6, <1>7
  <2>2. g.next \in [Cells -> Cells \cup {NULL}] /\ g.prev \in [Cells -> Links]
    BY <1>6, <1>7
  <2> QED BY <1>6, <2>1, <2>2 DEF HeadersInv
<1>11. LinksInv(g)
  <2> DEFINE back == Backs(h)
             home == Homes(h)
             back2 == Backs(g)
             home2 == Homes(g)
  <2>1. /\ \A x \in Pages : home[x] = Home(h.slab[x]) /\ back[x] = h.prev[x].to
        /\ Linked(h.next, back, home)
        /\ \A x \in Pages : h.prev[x].type = TypeFor(h.slab[x])
    BY ListsOf
  <2>2. \A x \in Pages : home2[x] = Home(g.slab[x]) /\ back2[x] = g.prev[x].to
    BY <1>10, ListsOf
  <2> HIDE DEF back, home, back2, home2
  <2>3. q \in Pages /\ \A x \in taken : x \in E /\ x \in Pages
    BY <1>2, <1>3
  <2>4. home[p] # NULL /\ home[q] = NULL
    BY <1>2, <1>3, <2>1, <2>3
  <2>5. g.next[p] = NULL /\ g.next[q] = h.next[p]
    BY <1>3, <1>9 DEF z
  <2>6. ASSUME NEW x \in Cells \ {p, q}
        PROVE  g.next[x] = IF x = back[p] THEN q ELSE h.next[x]
    <3>1. back[p] = b
      BY <2>1 DEF b
    <3>2. CASE x \in taken
      BY <1>2, <1>9, <2>3, <2>6, <3>1, <3>2
    <3>3. CASE x \notin taken
      BY <1>9, <2>6, <3>1, <3>3
    <3> QED BY <3>2, <3>3
  <2>7. back2[p] = NULL /\ back2[q] = back[p]
    <3>1. g.prev[p].to = NULL
      BY <1>3, <1>7, <1>9
    <3> QED BY <1>9, <2>1, <2>2, <2>3, <3>1
  <2>8. ASSUME NEW x \in Pages \ {p, q}
        PROVE  back2[x] = IF x = h.next[p] THEN q ELSE back[x]
    <3>1. x \in Cells /\ h.next[p] = z
      BY <1>7 DEF z
    <3>2. CASE x \in taken
      BY <1>2, <1>7, <1>9, <2>1, <2>2, <2>3, <2>8, <3>1, <3>2
    <3>3. CASE x \notin taken
      BY <1>7, <1>9, <2>1, <2>2, <2>8, <3>1, <3>3
    <3> QED BY <3>2, <3>3
  <2>9. home2[p] = NULL /\ home2[q] = home[p]
    BY <1>2, <1>4, <1>8, <2>1, <2>2, <2>3
  <2>10. ASSUME NEW x \in Pages \ {p, q} PROVE home2[x] = home[x]
    <3>1. CASE x \in taken
      BY <1>2, <1>4, <1>8, <2>1, <2>2, <2>3, <2>10, <3>1
    <3>2. CASE x \notin taken
      BY <1>8, <2>1, <2>2, <2>10, <3>2
    <3> QED BY <3>1, <3>2
  <2>11. Linked(g.next, back2, home2)
    BY <2>1, <2>3, <2>4, <2>5, <2>6, <2>7, <2>8, <2>9, <2>10, LinkedReplace
  <2>12. ASSUME NEW x \in Pages PROVE g.prev[x].type = TypeFor(g.slab[x])
    <3>1. CASE x \in taken
      <4>1. g.prev[x].type = "PAGE"
        BY <1>7, <1>9, <3>1
      <4> QED BY <1>4, <1>8, <3>1, <4>1
    <3>2. CASE x = q
      BY <1>2, <1>4, <1>8, <1>9, <3>2
    <3>3. CASE x \notin taken /\ x # q
      <4>1. x \in Cells /\ g.slab[x] = h.slab[x]
        BY <1>7, <1>8, <3>3
      <4> QED BY <1>2, <1>7, <1>9, <2>1, <3>3, <4>1
    <3> QED BY <3>1, <3>2, <3>3
  <2> QED BY <1>10, <2>11, <2>12, LinksMadeInv DEF back2, home2
<1>12. PagesInv(g)
  <2>1. /\ Extent(g.slab[p], p) = taken
        /\ Extent(g.slab[q], q) = q..(p + N - 1)
        /\ \A x \in E : x \notin {p, q} => Extent(g.slab[x], x) = {}
    <3>1. q + (N - n) - 1 = p + N - 1
      BY <1>1, <1>2 DEF q
    <3>2. Extent(StartOf(n), p) = taken
      BY <1>4 DEF Extent, taken
    <3>3. Extent(FreeRun(N - n), q) = q..(q + (N - n) - 1)
      BY <1>4 DEF Extent
    <3>4. ASSUME NEW x \in E, x \notin {p, q} PROVE Extent(g.slab[x], x) = {}
      <4>1. CASE x \in taken
        <5>1. Extent(Busy, x) = x..(x + 0 - 1) /\ x \in Nat
          BY <1>2, <1>4, Numbers DEF Extent
        <5> QED BY <1>8, <3>4, <4>1, <5>1
      <4>2. CASE x \notin taken
        BY <1>2, <1>8, <3>4, <4>2
      <4> QED BY <4>1, <4>2
    <3> QED BY <1>8, <3>1, <3>2, <3>3, <3>4
  <2>2. /\ taken \subseteq E /\ q..(p + N - 1) \subseteq E
        /\ E = taken \cup q..(p + N - 1) /\ taken \cap q..(p + N - 1) = {}
    BY <1>1, <1>2, <1>3 DEF taken, q
  <2>3. /\ E # {} /\ E = Extent(h.slab[p], p)
    BY <1>2 DEF E
  <2>4. ASSUME NEW x \in E
        PROVE  /\ Extent(g.slab[x], x) \subseteq E
               /\ \E y \in E : x \in Extent(g.slab[y], y)
    BY <1>2, <1>3, <2>1, <2>2
  <2>5. ASSUME NEW x \in E, NEW y \in E, x # y
        PROVE  Extent(g.slab[x], x) \cap Extent(g.slab[y], y) = {}
    <3>1. \A u \in E : u = p \/ u = q \/ Extent(g.slab[u], u) = {}
      BY <2>1
    <3> QED BY <2>1, <2>2, <2>5, <3>1
  <2>6. \A x \in Pages \ E : g.slab[x] = h.slab[x]
    BY <1>3, <1>8
  <2> HIDE DEF E
  <2> QED BY <2>3, <2>4, <2>5, <2>6, SplitExtents
<1>13. ASSUME NEW x \in Pages \ {p}
       PROVE  \/ g.slab[x] = h.slab[x]
              \/ Quiet(g.slab[x]) /\ Quiet(h.slab[x])
  <2>1. x \in taken \/ x = q => Quiet(h.slab[x]) /\ Quiet(g.slab[x])
    BY <1>2, <1>3, <1>4, <1>8, <1>13 DEF Quiet
  <2> QED BY <1>8, <1>13, <2>1
<1>14. Changed(h, g, p)
  BY <1>10, <1>11, <1>12, <1>13 DEF Changed
<1> QED BY <1>8, <1>14 DEF g

\* A run is taken whole.
LEMMA WholePagesResult ==
    ASSUME NEW h, HeadersInv(h), LinksInv(h), PagesInv(h),
           NEW p \in Pages, h.slab[p].kind = "free", NEW n \in Nat, n > 0,
           n = h.slab[p].n
    PROVE  Changed(h, AllocPages(h, p, n), p) /\ AllocPages(h, p, n).slab[p] = StartOf(n)
<1> DEFINE b == h.prev[p].to
           z == h.next[p]
           E == Extent(h.slab[p], p)
           taken == p..(p + n - 1)
           f == Unlink(h, p)
           g == AllocPages(h, p, n)
<1>1. p \in Nat /\ NPages \in Nat
  BY Numbers
<1>2. /\ n \in 1..NPages /\ E = p..(p + n - 1) /\ E \subseteq Pages
      /\ p \in E /\ Home(h.slab[p]) = FreeCell /\ FreeCell # NULL
      /\ h.prev[p].type = "PAGE"
      /\ b \in Cells \ E /\ z \in Cells \ E /\ z # p /\ b # p
      /\ z \in Pages => TypeFor(h.slab[z]) = "PAGE"
      /\ \A x \in E : x # p => /\ h.next[x] = NULL /\ h.prev[x].to = NULL
                               /\ Home(h.slab[x]) = NULL /\ TypeFor(h.slab[x]) = "PAGE"
                               /\ Quiet(h.slab[x]) /\ Extent(h.slab[x], x) = {}
  <2>1. h.slab[p].n > 0
    OBVIOUS
  <2> QED BY <2>1, RunFacts
<1>3. taken = E
  BY <1>2
<1>4. /\ StartOf(n) \in Words /\ Home(StartOf(n)) = NULL
      /\ TypeFor(StartOf(n)) = "PAGE" /\ StartOf(n).kind = "start"
      /\ StartOf(n).n = n
      /\ Busy \in Words /\ Home(Busy) = NULL /\ TypeFor(Busy) = "PAGE"
      /\ Busy.kind = "busy" /\ Busy.n = 0
  BY <1>2, WordsMade
<1>5. /\ HeadersInv(f) /\ f.slab = h.slab
      /\ \A x \in Cells :
            /\ f.next[x] = IF x = b THEN z ELSE h.next[x]
            /\ f.prev[x] = IF x = z THEN h.prev[p] ELSE h.prev[x]
  <2>1. b \in Cells /\ z \in Cells
    BY <1>2
  <2> QED BY <2>1, UnlinkFields
<1>6. /\ g.slab = [x \in Pages |-> CASE x = p -> StartOf(n)
                                     [] x \in taken \ {p} -> Busy
                                     [] OTHER -> f.slab[x]]
      /\ g.next = [x \in Cells |-> IF x \in taken THEN NULL ELSE f.next[x]]
      /\ g.prev = [x \in Cells |-> IF x \in taken THEN Link(NULL, "PAGE") ELSE f.prev[x]]
      /\ g = [slab |-> g.slab, next |-> g.next, prev |-> g.prev]
  <2>1. ~ (h.slab[p].n > n)
    <3>1. ~ (n > n)
      BY <1>1
    <3> QED BY <3>1
  <2> QED BY <2>1 DEF AllocPages
<1>7. /\ \A x \in Pages : x \in Cells
      /\ h.slab \in [Pages -> Words] /\ f.slab \in [Pages -> Words]
      /\ f.next \in [Cells -> Cells \cup {NULL}] /\ f.prev \in [Cells -> Links]
      /\ Link(NULL, "PAGE") \in Links /\ Link(NULL, "PAGE").to = NULL
      /\ Link(NULL, "PAGE").type = "PAGE"
  <2> HIDE DEF f
  <2> QED BY <1>5, HeaderParts, LinksMade
<1> HIDE DEF b, z, E, taken, f, g
<1>8. /\ g.slab[p] = StartOf(n)
      /\ \A x \in E : x # p => g.slab[x] = Busy
      /\ \A x \in Pages \ E : g.slab[x] = h.slab[x]
  BY <1>2, <1>3, <1>5, <1>6, <1>7
<1>9. /\ \A x \in E : g.next[x] = NULL /\ g.prev[x] = Link(NULL, "PAGE")
      /\ \A x \in Cells \ E :
            /\ g.next[x] = IF x = b THEN z ELSE h.next[x]
            /\ g.prev[x] = IF x = z THEN h.prev[p] ELSE h.prev[x]
  <2>1. \A x \in E : x \in Cells
    BY <1>2, <1>3, <1>7
  <2> QED BY <1>3, <1>5, <1>6, <2>1
<1>10. HeadersInv(g)
  <2>1. g.slab \in [Pages -> Words]
    BY <1>4, <1>6, <1>7
  <2>2. g.next \in [Cells -> Cells \cup {NULL}] /\ g.prev \in [Cells -> Links]
    BY <1>6, <1>7
  <2> QED BY <1>6, <2>1, <2>2 DEF HeadersInv
<1>11. LinksInv(g)
  <2> DEFINE back == Backs(h)
             home == Homes(h)
             back2 == Backs(g)
             home2 == Homes(g)
  <2>1. /\ \A x \in Pages : home[x] = Home(h.slab[x]) /\ back[x] = h.prev[x].to
        /\ Linked(h.next, back, home)
        /\ \A x \in Pages : h.prev[x].type = TypeFor(h.slab[x])
    BY ListsOf
  <2>2. \A x \in Pages : home2[x] = Home(g.slab[x]) /\ back2[x] = g.prev[x].to
    BY <1>10, ListsOf
  <2> HIDE DEF back, home, back2, home2
  <2>3. /\ home[p] # NULL /\ g.next[p] = NULL
        /\ back2[p] = NULL /\ home2[p] = NULL
    BY <1>2, <1>4, <1>7, <1>8, <1>9, <2>1, <2>2
  <2>4. ASSUME NEW x \in Cells \ {p}
        PROVE  g.next[x] = IF x = back[p] THEN h.next[p] ELSE h.next[x]
    <3>1. back[p] = b /\ h.next[p] = z
      BY <2>1 DEF b, z
    <3>2. CASE x \in E
      BY <1>2, <1>9, <2>4, <3>1, <3>2
    <3>3. CASE x \notin E
      BY <1>9, <2>4, <3>1, <3>3
    <3> QED BY <3>2, <3>3
  <2>5. ASSUME NEW x \in Pages \ {p}
        PROVE  back2[x] = IF x = h.next[p] THEN back[p] ELSE back[x]
    <3>1. x \in Cells /\ h.next[p] = z /\ back[p] = h.prev[p].to
      BY <1>7, <2>1 DEF z
    <3>2. CASE x \in E
      BY <1>2, <1>7, <1>9, <2>1, <2>2, <2>5, <3>1, <3>2
    <3>3. CASE x \notin E
      BY <1>7, <1>9, <2>1, <2>2, <2>5, <3>1, <3>3
    <3> QED BY <3>2, <3>3
  <2>6. ASSUME NEW x \in Pages \ {p} PROVE home2[x] = home[x]
    BY <1>2, <1>4, <1>8, <2>1, <2>2, <2>6
  <2>7. Linked(g.next, back2, home2)
    BY <2>1, <2>3, <2>4, <2>5, <2>6, LinkedRemove
  <2>8. ASSUME NEW x \in Pages PROVE g.prev[x].type = TypeFor(g.slab[x])
    <3>1. CASE x \in E
      <4>1. g.prev[x].type = "PAGE"
        BY <1>7, <1>9, <3>1
      <4> QED BY <1>4, <1>8, <3>1, <4>1
    <3>2. CASE x \notin E
      <4>1. x \in Cells /\ g.slab[x] = h.slab[x]
        BY <1>7, <1>8, <3>2
      <4> QED BY <1>2, <1>7, <1>9, <2>1, <3>2, <4>1
    <3> QED BY <3>1, <3>2
  <2> QED BY <1>10, <2>7, <2>8, LinksMadeInv DEF back2, home2
<1>12. PagesInv(g)
  <2>1. ASSUME NEW x \in Pages PROVE Extent(g.slab[x], x) = Extent(h.slab[x], x)
    <3>1. CASE x = p
      <4>1. Extent(StartOf(n), p) = p..(p + n - 1)
        BY <1>4 DEF Extent
      <4> QED BY <1>2, <1>8, <3>1, <4>1 DEF E
    <3>2. CASE x \in E /\ x # p
      <4>1. Extent(Busy, x) = x..(x + 0 - 1) /\ x \in Nat
        BY <1>4, Numbers DEF Extent
      <4>2. x..(x + 0 - 1) = {}
        BY <4>1
      <4>3. g.slab[x] = Busy
        BY <1>8, <3>2
      <4> QED BY <1>2, <3>2, <4>1, <4>2, <4>3
    <3>3. CASE x \notin E
      BY <1>8, <3>3
    <3> QED BY <3>1, <3>2, <3>3
  <2> QED BY <2>1, SameExtents
<1>13. ASSUME NEW x \in Pages \ {p}
       PROVE  \/ g.slab[x] = h.slab[x]
              \/ Quiet(g.slab[x]) /\ Quiet(h.slab[x])
  <2>1. x \in E => Quiet(h.slab[x]) /\ Quiet(g.slab[x])
    BY <1>2, <1>4, <1>8, <1>13 DEF Quiet
  <2> QED BY <1>8, <1>13, <2>1
<1>14. Changed(h, g, p)
  BY <1>10, <1>11, <1>12, <1>13 DEF Changed
<1> QED BY <1>8, <1>14 DEF g

\* allocPages, for a run that is long enough.
LEMMA AllocPagesResult ==
    ASSUME NEW h, HeadersInv(h), LinksInv(h), PagesInv(h),
           NEW p \in Pages, h.slab[p].kind = "free", NEW n \in Nat, n > 0,
           n <= h.slab[p].n
    PROVE  Changed(h, AllocPages(h, p, n), p) /\ AllocPages(h, p, n).slab[p] = StartOf(n)
<1>1. h.slab[p].n \in Nat
  <2>1. h.slab[p] \in Words
    BY HeaderParts
  <2> QED BY <2>1, WordParts
<1>2. n < h.slab[p].n \/ n = h.slab[p].n
  BY <1>1
<1> QED BY <1>2, SplitPagesResult, WholePagesResult

-----------------------------------------------------------------------------
\* One page changes its word and its place

\* Changes of one page add up.
LEMMA ChangedTwice ==
    ASSUME NEW h, NEW m, NEW g, NEW p, Changed(h, m, p), Changed(m, g, p)
    PROVE  Changed(h, g, p)
<1>1. HeadersInv(g) /\ LinksInv(g) /\ PagesInv(g)
  BY DEF Changed
<1>2. ASSUME NEW q \in Pages \ {p}
      PROVE  \/ g.slab[q] = h.slab[q]
             \/ Quiet(g.slab[q]) /\ Quiet(h.slab[q])
  <2>1. m.slab[q] = h.slab[q] \/ (Quiet(m.slab[q]) /\ Quiet(h.slab[q]))
    BY DEF Changed
  <2>2. g.slab[q] = m.slab[q] \/ (Quiet(g.slab[q]) /\ Quiet(m.slab[q]))
    BY DEF Changed
  <2> QED BY <2>1, <2>2
<1> QED BY <1>1, <1>2 DEF Changed

\* The headers g are h with the word w at page p, which goes to the front of its
\* list from none, and with free words in S.
Pushed(h, g, p, w, S) ==
    /\ Home(h.slab[p]) = NULL
    /\ w \in Words /\ Home(w) # NULL /\ Extent(w, p) = Extent(h.slab[p], p)
    /\ S \in SUBSET (Extent(h.slab[p], p) \ {p})
    /\ HeadersInv(g) /\ g.slab[p] = w /\ \A x \in S : g.slab[x] = FreeRun(0)
    /\ \A x \in Pages \ (S \cup {p}) : g.slab[x] = h.slab[x]
    /\ g.next[p] = h.next[Home(w)] /\ g.next[Home(w)] = p
    /\ \A x \in Cells \ {p, Home(w)} : g.next[x] = h.next[x]
    /\ g.prev[p] = Link(Home(w), TypeFor(w))
    /\ \A x \in Pages \ {p} : g.prev[x] = IF x = h.next[Home(w)]
                                         THEN Link(p, TypeFor(w)) ELSE h.prev[x]

\* A page that is on no list gets a word that belongs to one, and goes to its
\* front; further pages of it may be marked free.
LEMMA PushResult ==
    ASSUME NEW h, HeadersInv(h), LinksInv(h), PagesInv(h),
           NEW p \in Pages, NEW w, NEW S, NEW g, Pushed(h, g, p, w, S)
    PROVE  Changed(h, g, p)
<1> USE DEF Pushed
<1> DEFINE F == Home(w)
           f == h.next[F]
           t == TypeFor(w)
<1>1. /\ F \in Heads /\ F \in Cells /\ F \notin Pages /\ F # NULL
      /\ f \in Pages \cup {F} /\ f \in Cells
      /\ f \in Pages => Home(h.slab[f]) = F
  <2>1. F \in Heads /\ F # NULL
    BY HomeFacts
  <2> HIDE DEF F
  <2> QED BY <2>1, HeadCells
<1>2. t \in {"PAGE", "SMALL", "EXACT", "BIG"}
  <2>1. w.kind = "map" => w.shift \in Shifts
    BY WordParts
  <2> QED BY <2>1, TypeFacts DEF TypeFor
<1>3. /\ \A x \in Pages : x \in Cells
      /\ Link(p, t).to = p /\ Link(p, t).type = t
      /\ Link(F, t).to = F /\ Link(F, t).type = t
  <2>1. \A x \in Pages : x \in Cells
    BY DEF Cells
  <2> HIDE DEF F, t
  <2> QED BY <1>1, <1>2, <2>1, LinksMade
<1>4. /\ Home(FreeRun(0)) = NULL /\ TypeFor(FreeRun(0)) = "PAGE"
      /\ FreeRun(0).kind = "free" /\ FreeRun(0).n = 0
  <2>1. 0 \in 0..NPages /\ ~ (0 > 0)
    BY Numbers
  <2> QED BY <2>1, WordsMade
<1>5. ASSUME NEW x \in S
      PROVE  /\ x \in Pages /\ x # p /\ Home(h.slab[x]) = NULL
             /\ TypeFor(h.slab[x]) = "PAGE" /\ Quiet(h.slab[x])
             /\ Extent(h.slab[x], x) = {}
  <2>1. x \in Extent(h.slab[p], p) /\ x # p
    OBVIOUS
  <2>2. /\ x \in Pages /\ h.slab[x].kind \notin {"map", "start"}
        /\ Extent(h.slab[x], x) = {} /\ Home(h.slab[x]) = NULL
        /\ TypeFor(h.slab[x]) = "PAGE"
    BY <2>1, Interior
  <2>3. h.slab[x] \in Words
    BY <2>2, HeaderParts
  <2> QED BY <2>1, <2>2, <2>3, WordParts DEF Quiet
<1>6. /\ g.next[p] = f /\ g.next[F] = p
      /\ \A x \in Cells \ {p, F} : g.next[x] = h.next[x]
      /\ g.prev[p] = Link(F, t)
      /\ \A x \in Pages \ {p} : g.prev[x] = IF x = f THEN Link(p, t) ELSE h.prev[x]
      /\ Home(w) = F /\ TypeFor(w) = t /\ h.next[F] = f /\ p \notin S
  OBVIOUS
<1> HIDE DEF F, f, t
<1>7. LinksInv(g)
  <2> DEFINE back == Backs(h)
             home == Homes(h)
             back2 == Backs(g)
             home2 == Homes(g)
  <2>1. /\ \A x \in Pages : home[x] = Home(h.slab[x]) /\ back[x] = h.prev[x].to
        /\ Linked(h.next, back, home)
        /\ \A x \in Pages : h.prev[x].type = TypeFor(h.slab[x])
    BY ListsOf
  <2>2. \A x \in Pages : home2[x] = Home(g.slab[x]) /\ back2[x] = g.prev[x].to
    BY ListsOf
  <2> HIDE DEF back, home, back2, home2
  <2>3. /\ home[p] = NULL /\ home2[p] = F /\ back2[p] = F /\ f # p
    BY <1>1, <1>3, <1>6, <2>1, <2>2
  <2>4. \A x \in Pages \ {p} : back2[x] = IF x = h.next[F] THEN p ELSE back[x]
    BY <1>3, <1>6, <2>1, <2>2
  <2>5. \A x \in Pages \ {p} : home2[x] = home[x]
    BY <1>4, <1>5, <2>1, <2>2
  <2>6. g.next[p] = h.next[F]
    BY <1>6
  <2>7. Linked(g.next, back2, home2)
    BY <1>1, <1>6, <2>1, <2>3, <2>4, <2>5, <2>6, LinkedInsert
  <2>8. ASSUME NEW x \in Pages PROVE g.prev[x].type = TypeFor(g.slab[x])
    <3>1. CASE x = p
      BY <1>3, <1>6, <3>1
    <3>2. CASE x \in S /\ x # f
      BY <1>4, <1>5, <1>6, <2>1, <3>2
    <3>3. CASE x = f
      <4>1. Home(h.slab[x]) = Home(w) /\ Home(w) # NULL /\ h.slab[x] \in Words
        BY <1>1, <1>6, <3>3, HeaderParts
      <4>2. TypeFor(h.slab[x]) = t
        BY <1>6, <4>1, HomeFacts
      <4>3. g.slab[x] = h.slab[x]
        BY <1>5, <2>3, <3>3, <4>1
      <4> QED BY <1>3, <1>6, <2>3, <3>3, <4>2, <4>3
    <3>4. CASE x # p /\ x \notin S /\ x # f
      BY <1>6, <2>1, <3>4
    <3> QED BY <3>1, <3>2, <3>3, <3>4
  <2> QED BY <2>7, <2>8, LinksMadeInv DEF back2, home2
<1>8. PagesInv(g)
  <2>1. ASSUME NEW x \in Pages PROVE Extent(g.slab[x], x) = Extent(h.slab[x], x)
    <3>1. CASE x = p
      BY <3>1
    <3>2. CASE x \in S
      <4>1. Extent(FreeRun(0), x) = x..(x + 0 - 1) /\ x \in Nat
        BY <1>4, Numbers DEF Extent
      <4>2. x..(x + 0 - 1) = {}
        BY <4>1
      <4>3. g.slab[x] = FreeRun(0)
        BY <3>2
      <4> QED BY <1>5, <3>2, <4>1, <4>2, <4>3
    <3>3. CASE x # p /\ x \notin S
      BY <3>3
    <3> QED BY <3>1, <3>2, <3>3
  <2> QED BY <2>1, SameExtents
<1>9. ASSUME NEW x \in Pages \ {p}
      PROVE  \/ g.slab[x] = h.slab[x]
             \/ Quiet(g.slab[x]) /\ Quiet(h.slab[x])
  <2>1. x \in S => Quiet(h.slab[x]) /\ Quiet(g.slab[x])
    BY <1>4, <1>5, <1>9 DEF Quiet
  <2> QED BY <1>9, <2>1
<1> QED BY <1>7, <1>8, <1>9 DEF Changed

\* A page on a list gets a word that belongs to none, and is taken off it.
LEMMA DropResult ==
    ASSUME NEW h, HeadersInv(h), LinksInv(h), PagesInv(h),
           NEW p \in Pages, Home(h.slab[p]) # NULL,
           NEW w \in Words, Home(w) = NULL, Extent(w, p) = Extent(h.slab[p], p),
           NEW g, HeadersInv(g), g.slab[p] = w,
           \A x \in Pages \ {p} : g.slab[x] = h.slab[x],
           g.next[p] = NULL, g.prev[p] = Link(NULL, TypeFor(w)),
           \A x \in Cells \ {p} :
                /\ g.next[x] = IF x = h.prev[p].to THEN h.next[p] ELSE h.next[x]
                /\ g.prev[x] = IF x = h.next[p] THEN h.prev[p] ELSE h.prev[x]
    PROVE  Changed(h, g, p)
<1> DEFINE b == h.prev[p].to
           z == h.next[p]
           t == TypeFor(w)
<1>1. t \in {"PAGE", "SMALL", "EXACT", "BIG"}
  <2>1. w.kind = "map" => w.shift \in Shifts
    BY WordParts
  <2> QED BY <2>1, TypeFacts DEF TypeFor
<1>2. /\ \A x \in Pages : x \in Cells
      /\ Link(NULL, t).to = NULL /\ Link(NULL, t).type = t
  BY <1>1, LinksMade DEF Cells
<1>3. z \in Pages => Home(h.slab[z]) = Home(h.slab[p])
  BY OnListCells
<1>4. /\ \A x \in Cells \ {p} : /\ g.next[x] = IF x = b THEN z ELSE h.next[x]
                                /\ g.prev[x] = IF x = z THEN h.prev[p] ELSE h.prev[x]
      /\ h.next[p] = z /\ h.prev[p].to = b
      /\ g.prev[p] = Link(NULL, t) /\ TypeFor(w) = t
  OBVIOUS
<1> HIDE DEF b, z, t
<1>5. LinksInv(g)
  <2> DEFINE back == Backs(h)
             home == Homes(h)
             back2 == Backs(g)
             home2 == Homes(g)
  <2>1. /\ \A x \in Pages : home[x] = Home(h.slab[x]) /\ back[x] = h.prev[x].to
        /\ Linked(h.next, back, home)
        /\ \A x \in Pages : h.prev[x].type = TypeFor(h.slab[x])
    BY ListsOf
  <2>2. \A x \in Pages : home2[x] = Home(g.slab[x]) /\ back2[x] = g.prev[x].to
    BY ListsOf
  <2> HIDE DEF back, home, back2, home2
  <2>3. /\ home[p] # NULL /\ home2[p] = NULL /\ back2[p] = NULL /\ back[p] = b
    BY <1>2, <1>4, <2>1, <2>2
  <2>4. \A x \in Cells \ {p} :
            g.next[x] = IF x = back[p] THEN h.next[p] ELSE h.next[x]
    BY <1>4, <2>3
  <2>5. \A x \in Pages \ {p} : back2[x] = IF x = h.next[p] THEN back[p] ELSE back[x]
    BY <1>2, <1>4, <2>1, <2>2, <2>3
  <2>6. \A x \in Pages \ {p} : home2[x] = home[x]
    BY <2>1, <2>2
  <2>7. Linked(g.next, back2, home2)
    BY <2>1, <2>3, <2>4, <2>5, <2>6, LinkedRemove
  <2>8. ASSUME NEW x \in Pages PROVE g.prev[x].type = TypeFor(g.slab[x])
    <3>1. CASE x = p
      BY <1>2, <1>4, <3>1
    <3>2. CASE x # p /\ x = z
      <4>1. h.slab[x] \in Words /\ h.slab[p] \in Words
        BY HeaderParts
      <4>2. TypeFor(h.slab[x]) = TypeFor(h.slab[p])
        BY <1>3, <3>2, <4>1, HomeFacts
      <4> QED BY <1>2, <1>4, <2>1, <3>2, <4>2
    <3>3. CASE x # p /\ x # z
      BY <1>2, <1>4, <2>1, <3>3
    <3> QED BY <3>1, <3>2, <3>3
  <2> QED BY <2>7, <2>8, LinksMadeInv DEF back2, home2
<1>6. PagesInv(g)
  <2>1. ASSUME NEW x \in Pages PROVE Extent(g.slab[x], x) = Extent(h.slab[x], x)
    BY <2>1
  <2> QED BY <2>1, SameExtents
<1> QED BY <1>5, <1>6 DEF Changed

\* A page gets another word of the same list.
LEMMA SameListResult ==
    ASSUME NEW h, HeadersInv(h), LinksInv(h), PagesInv(h),
           NEW p \in Pages, NEW w \in Words, Home(w) = Home(h.slab[p]),
           TypeFor(w) = TypeFor(h.slab[p]), Extent(w, p) = Extent(h.slab[p], p),
           NEW g, HeadersInv(g), g.slab[p] = w,
           \A x \in Pages \ {p} : g.slab[x] = h.slab[x],
           g.next = h.next, g.prev = h.prev
    PROVE  Changed(h, g, p)
<1>1. ASSUME NEW x \in Pages
      PROVE  /\ Home(g.slab[x]) = Home(h.slab[x])
             /\ TypeFor(g.slab[x]) = TypeFor(h.slab[x])
             /\ Extent(g.slab[x], x) = Extent(h.slab[x], x)
  BY <1>1
<1>2. Homes(g) = Homes(h) /\ Backs(g) = Backs(h)
  BY <1>1 DEF Homes, Backs
<1>3. LinksInv(g)
  <2>1. \A x \in Pages : g.prev[x].type = TypeFor(g.slab[x])
    BY <1>1, ListsOf
  <2>2. Linked(g.next, Backs(g), Homes(g))
    BY <1>2, ListsOf
  <2> QED BY <2>1, <2>2, LinksMadeInv
<1>4. PagesInv(g)
  BY <1>1, SameExtents
<1> QED BY <1>3, <1>4 DEF Changed

-----------------------------------------------------------------------------
\* What the operations do to the headers

\* What FreePages does to the words.
LEMMA MarkedWords ==
    ASSUME NEW h, HeadersInv(h), NEW g, HeadersInv(g), g.slab = h.slab,
           NEW p \in Pages, NEW n \in 1..NPages,
           NEW S, p \notin S
    PROVE  LET m == [g EXCEPT !.slab = [q \in Pages |->
                        CASE q = p -> FreeRun(n)
                          [] q \in S -> FreeRun(0)
                          [] OTHER -> g.slab[q]]]
           IN  /\ HeadersInv(m) /\ m.next = g.next /\ m.prev = g.prev
               /\ m.slab[p] = FreeRun(n)
               /\ \A q \in Pages \ {p} :
                    m.slab[q] = IF q \in S THEN FreeRun(0) ELSE h.slab[q]
<1> DEFINE slab == [q \in Pages |->
                        CASE q = p -> FreeRun(n)
                          [] q \in S -> FreeRun(0)
                          [] OTHER -> g.slab[q]]
           m == [g EXCEPT !.slab = slab]
<1>1. g = [slab |-> g.slab, next |-> g.next, prev |-> g.prev]
  BY HeaderParts
<1>2. m = [slab |-> slab, next |-> g.next, prev |-> g.prev]
  <2> HIDE DEF slab
  <2> QED BY <1>1
<1>3. FreeRun(n) \in Words /\ FreeRun(0) \in Words
  <2>1. n \in 0..NPages /\ 0 \in 0..NPages
    BY Numbers
  <2> QED BY <2>1, WordsMade
<1>4. slab \in [Pages -> Words]
  BY <1>3, HeaderParts
<1>5. /\ slab[p] = FreeRun(n)
      /\ \A q \in Pages \ {p} : slab[q] = IF q \in S THEN FreeRun(0) ELSE h.slab[q]
  <2>1. slab[p] = FreeRun(n)
    OBVIOUS
  <2>2. ASSUME NEW q \in Pages \ {p}
        PROVE  slab[q] = IF q \in S THEN FreeRun(0) ELSE h.slab[q]
    <3>1. q # p /\ q \in Pages
      OBVIOUS
    <3>2. CASE q \in S
      BY <3>1, <3>2
    <3>3. CASE q \notin S
      BY <3>1, <3>3
    <3> QED BY <3>2, <3>3
  <2> HIDE DEF slab
  <2> QED BY <2>1, <2>2
<1> HIDE DEF slab
<1>6. HeadersInv(m)
  BY <1>2, <1>4, HeaderParts DEF HeadersInv
<1>7. m.slab = slab /\ m.next = g.next /\ m.prev = g.prev
  BY <1>2
<1> HIDE DEF m
<1>8. /\ HeadersInv(m) /\ m.next = g.next /\ m.prev = g.prev
      /\ m.slab[p] = FreeRun(n)
      /\ \A q \in Pages \ {p} : m.slab[q] = IF q \in S THEN FreeRun(0) ELSE h.slab[q]
  BY <1>5, <1>6, <1>7
<1> QED BY <1>8 DEF m, slab

\* freePages, for a block of pages.
LEMMA FreeRunResult ==
    ASSUME NEW h, HeadersInv(h), LinksInv(h), PagesInv(h),
           NEW p \in Pages, h.slab[p].kind = "start"
    PROVE  LET n == h.slab[p].n
               g == FreePages(h, p, n)
           IN  Changed(h, g, p) /\ g.slab[p] = FreeRun(n)
<1> DEFINE n == h.slab[p].n
           S == {q \in (p + 1)..(p + n - 1) : 3 * (q - p - 1) < n - 1}
           m == [h EXCEPT !.slab = [q \in Pages |->
                        CASE q = p -> FreeRun(n)
                          [] q \in S -> FreeRun(0)
                          [] OTHER -> h.slab[q]]]
           g == PushFront(m, FreeCell, p, "PAGE")
           E == Extent(h.slab[p], p)
<1>1. n \in 1..NPages /\ h.slab[p] = StartOf(n)
  <2>1. h.slab[p] \in Words
    BY HeaderParts
  <2> QED BY <2>1, WordParts
<1>2. /\ Home(StartOf(n)) = NULL /\ StartOf(n).kind = "start" /\ StartOf(n).n = n
      /\ FreeRun(n) \in Words /\ Home(FreeRun(n)) = FreeCell
      /\ TypeFor(FreeRun(n)) = "PAGE" /\ FreeRun(n).kind = "free" /\ FreeRun(n).n = n
  <2>1. n \in 0..NPages /\ n > 0
    BY <1>1, Numbers
  <2> HIDE DEF n
  <2> QED BY <1>1, <2>1, WordsMade
<1>3. Home(h.slab[p]) = NULL /\ h.next[p] = NULL
  BY <1>1, <1>2, OffListCells
<1>4. FreePages(h, p, n) = g
  BY <1>3 DEF FreePages
<1>5. /\ HeadersInv(m) /\ m.next = h.next /\ m.prev = h.prev
      /\ m.slab[p] = FreeRun(n)
      /\ \A q \in Pages \ {p} : m.slab[q] = IF q \in S THEN FreeRun(0) ELSE h.slab[q]
  <2>1. p \notin S
    BY Numbers
  <2> HIDE DEF n, S
  <2> QED BY <1>1, <2>1, MarkedWords
<1>6. E = p..(p + n - 1) /\ E = Extent(FreeRun(n), p) /\ p \in Nat
  BY <1>1, <1>2, Numbers DEF Extent
<1>7. S \in SUBSET (E \ {p})
  <2>1. n \in Nat
    BY <1>1, Numbers
  <2> HIDE DEF n
  <2> QED BY <1>6, <2>1
<1> HIDE DEF n, S, m, E
<1>8. /\ FreeCell \in Heads /\ FreeCell \notin Pages /\ FreeCell # NULL
      /\ h.next[FreeCell] \in Cells
      /\ h.next[FreeCell] \in Pages \cup {FreeCell}
      /\ h.next[FreeCell] \in Pages => Home(h.slab[h.next[FreeCell]]) = FreeCell
      /\ FreeCell \in Cells
  BY HeadCells, Numbers DEF Cells
<1>9. /\ HeadersInv(g) /\ g.slab = m.slab
      /\ \A x \in Cells :
            /\ g.next[x] = IF x = FreeCell THEN p
                           ELSE IF x = p THEN h.next[FreeCell] ELSE h.next[x]
            /\ g.prev[x] = IF x = h.next[FreeCell] THEN Link(p, "PAGE")
                           ELSE IF x = p THEN Link(FreeCell, "PAGE") ELSE h.prev[x]
  <2>1. m.next[FreeCell] \in Cells /\ FreeCell \in Heads
        /\ "PAGE" \in {"PAGE", "SMALL", "EXACT", "BIG"}
    BY <1>5, <1>8
  <2> QED BY <1>5, <2>1, PushFields
<1> HIDE DEF g
<1>10. h.next[FreeCell] # p
  BY <1>3, <1>8
<1>11. /\ g.slab[p] = FreeRun(n) /\ \A x \in S : g.slab[x] = FreeRun(0)
       /\ \A x \in Pages \ (S \cup {p}) : g.slab[x] = h.slab[x]
  <2>1. \A x \in S : x \in Pages \ {p}
    BY <1>6, <1>7 DEF PagesInv, E
  <2> QED BY <1>5, <1>9, <2>1
<1>12. /\ g.next[p] = h.next[FreeCell] /\ g.next[FreeCell] = p
       /\ \A x \in Cells \ {p, FreeCell} : g.next[x] = h.next[x]
       /\ g.prev[p] = Link(FreeCell, "PAGE")
       /\ \A x \in Pages \ {p} : g.prev[x] = IF x = h.next[FreeCell]
                                             THEN Link(p, "PAGE") ELSE h.prev[x]
  <2>1. \A x \in Pages : x \in Cells
    BY DEF Cells
  <2> QED BY <1>8, <1>9, <1>10, <2>1
<1>13. Changed(h, g, p)
  <2>1. /\ Extent(FreeRun(n), p) = Extent(h.slab[p], p)
        /\ S \in SUBSET (Extent(h.slab[p], p) \ {p})
        /\ Home(FreeRun(n)) # NULL
    BY <1>2, <1>6, <1>7, <1>8 DEF E
  <2> DEFINE w == FreeRun(n)
  <2>2. Pushed(h, g, p, w, S)
    BY <1>2, <1>3, <1>9, <1>11, <1>12, <2>1 DEF Pushed
  <2> HIDE DEF w, S, g, n
  <2> QED BY ONLY HeadersInv(h), LinksInv(h), PagesInv(h), p \in Pages, <2>2, PushResult
<1> QED BY <1>4, <1>11, <1>13 DEF n

\* freePages, for a page of chunks that is on its list.
LEMMA FreeCutResult ==
    ASSUME NEW h, HeadersInv(h), LinksInv(h), PagesInv(h),
           NEW p \in Pages, h.slab[p].kind = "map", Home(h.slab[p]) # NULL
    PROVE  LET g == FreePages(h, p, 1)
           IN  Changed(h, g, p) /\ g.slab[p] = FreeRun(1)
<1> DEFINE u == Unlink(h, p)
           b == h.prev[p].to
           z == h.next[p]
           S == {q \in (p + 1)..(p + 1 - 1) : 3 * (q - p - 1) < 1 - 1}
           m == [u EXCEPT !.slab = [q \in Pages |->
                        CASE q = p -> FreeRun(1)
                          [] q \in S -> FreeRun(0)
                          [] OTHER -> u.slab[q]]]
           g == PushFront(m, FreeCell, p, "PAGE")
           d == [slab |-> [h.slab EXCEPT ![p] = StartOf(1)],
                 next |-> [u.next EXCEPT ![p] = NULL],
                 prev |-> [u.prev EXCEPT ![p] = Link(NULL, "PAGE")]]
           F == FreeCell
<1>1. /\ b \in Cells /\ z \in Cells /\ z # p /\ b # p /\ z # NULL
      /\ \A x \in Pages : x \in Cells
  BY OnListCells, Numbers DEF Cells
<1>2. /\ HeadersInv(u) /\ u.slab = h.slab
      /\ \A x \in Cells :
            /\ u.next[x] = IF x = b THEN z ELSE h.next[x]
            /\ u.prev[x] = IF x = z THEN h.prev[p] ELSE h.prev[x]
  BY <1>1, UnlinkFields
<1>3. S = {}
  <2>1. p \in Nat
    BY Numbers
  <2> QED BY <2>1
<1>4. FreePages(h, p, 1) = g
  BY <1>1 DEF FreePages
<1>5. 1 \in 1..NPages /\ 1 \in 0..NPages /\ 1 > 0
  BY Numbers
<1>6. /\ HeadersInv(m) /\ m.next = u.next /\ m.prev = u.prev
      /\ m.slab[p] = FreeRun(1)
      /\ \A q \in Pages \ {p} : m.slab[q] = IF q \in S THEN FreeRun(0) ELSE h.slab[q]
  <2>1. p \notin S
    BY <1>3
  <2> HIDE DEF u, S
  <2> QED BY <1>2, <1>5, <2>1, MarkedWords
<1>7. /\ FreeRun(1) \in Words /\ Home(FreeRun(1)) = F /\ TypeFor(FreeRun(1)) = "PAGE"
      /\ FreeRun(1).kind = "free" /\ FreeRun(1).n = 1
      /\ StartOf(1) \in Words /\ Home(StartOf(1)) = NULL
      /\ TypeFor(StartOf(1)) = "PAGE" /\ StartOf(1).kind = "start" /\ StartOf(1).n = 1
  BY <1>5, WordsMade
<1>8. /\ Extent(h.slab[p], p) = {p} /\ Extent(StartOf(1), p) = {p}
      /\ Extent(FreeRun(1), p) = {p}
  <2>1. p..(p + 1 - 1) = {p}
    BY Numbers
  <2> QED BY <1>7, <2>1 DEF Extent
<1>9. Link(NULL, "PAGE") \in Links
  BY LinksMade
<1> HIDE DEF u, b, z, S, m
<1>10. HeadersInv(d)
  <2>1. u.next \in [Cells -> Cells \cup {NULL}] /\ u.prev \in [Cells -> Links]
        /\ h.slab \in [Pages -> Words]
    BY <1>2, HeaderParts
  <2>2. [u.next EXCEPT ![p] = NULL] \in [Cells -> Cells \cup {NULL}]
    BY <2>1
  <2>3. [u.prev EXCEPT ![p] = Link(NULL, "PAGE")] \in [Cells -> Links]
    BY <1>9, <2>1
  <2>4. [h.slab EXCEPT ![p] = StartOf(1)] \in [Pages -> Words]
    BY <1>7, <2>1
  <2> QED BY <2>2, <2>3, <2>4 DEF HeadersInv
<1>11. /\ d.slab[p] = StartOf(1) /\ \A x \in Pages \ {p} : d.slab[x] = h.slab[x]
       /\ d.next[p] = NULL /\ d.prev[p] = Link(NULL, "PAGE")
       /\ \A x \in Cells \ {p} : d.next[x] = u.next[x] /\ d.prev[x] = u.prev[x]
  <2>1. u.next \in [Cells -> Cells \cup {NULL}] /\ u.prev \in [Cells -> Links]
        /\ h.slab \in [Pages -> Words] /\ p \in Cells
    BY <1>2, HeaderParts
  <2> QED BY <2>1
<1> HIDE DEF d
<1>12. Changed(h, d, p)
  <2>1. \A x \in Cells \ {p} :
            /\ d.next[x] = IF x = h.prev[p].to THEN h.next[p] ELSE h.next[x]
            /\ d.prev[x] = IF x = h.next[p] THEN h.prev[p] ELSE h.prev[x]
    BY <1>2, <1>11 DEF b, z
  <2> QED BY <1>7, <1>8, <1>10, <1>11, <2>1, DropResult, SMTT(30)
<1>13. HeadersInv(d) /\ LinksInv(d) /\ PagesInv(d)
  BY <1>12 DEF Changed
<1>14. /\ F \in Heads /\ F \notin Pages /\ F # NULL /\ F \in Cells /\ F # p
       /\ d.next[F] \in Cells
       /\ d.next[F] \in Pages => Home(d.slab[d.next[F]]) = F
  BY <1>13, HeadCells, Numbers DEF Cells
<1>15. d.next[F] = m.next[F] /\ d.next[F] # p
  BY <1>6, <1>7, <1>11, <1>14
<1>16. /\ HeadersInv(g) /\ g.slab = m.slab
       /\ \A x \in Cells :
            /\ g.next[x] = IF x = F THEN p ELSE IF x = p THEN m.next[F] ELSE m.next[x]
            /\ g.prev[x] = IF x = m.next[F] THEN Link(p, "PAGE")
                           ELSE IF x = p THEN Link(F, "PAGE") ELSE m.prev[x]
  <2>1. m.next[F] \in Cells /\ "PAGE" \in {"PAGE", "SMALL", "EXACT", "BIG"}
    BY <1>14, <1>15
  <2> QED BY <1>6, <1>14, <2>1, PushFields
<1> HIDE DEF g
<1>17. /\ g.slab[p] = FreeRun(1)
       /\ \A x \in Pages \ {p} : g.slab[x] = d.slab[x]
  BY <1>3, <1>6, <1>11, <1>16
<1>18. /\ g.next[p] = d.next[F] /\ g.next[F] = p
       /\ \A x \in Cells \ {p, F} : g.next[x] = d.next[x]
       /\ g.prev[p] = Link(F, "PAGE")
       /\ \A x \in Pages \ {p} : g.prev[x] = IF x = d.next[F]
                                             THEN Link(p, "PAGE") ELSE d.prev[x]
  BY <1>1, <1>6, <1>11, <1>14, <1>15, <1>16
<1>19. Changed(d, g, p)
  <2> DEFINE none == {}
  <2>1. /\ none \in SUBSET (Extent(d.slab[p], p) \ {p})
        /\ \A x \in none : g.slab[x] = FreeRun(0)
        /\ \A x \in Pages \ (none \cup {p}) : g.slab[x] = d.slab[x]
        /\ Extent(FreeRun(1), p) = Extent(d.slab[p], p)
        /\ Home(d.slab[p]) = NULL /\ Home(FreeRun(1)) # NULL
    BY <1>7, <1>8, <1>11, <1>14, <1>17
  <2> HIDE DEF none, F
  <2>2. /\ HeadersInv(g) /\ FreeRun(1) \in Words /\ g.slab[p] = FreeRun(1)
        /\ Home(FreeRun(1)) = F /\ TypeFor(FreeRun(1)) = "PAGE"
    BY <1>7, <1>16, <1>17
  <2> DEFINE w == FreeRun(1)
  <2>3. /\ g.next[p] = d.next[Home(w)] /\ g.next[Home(w)] = p
        /\ \A x \in Cells \ {p, Home(w)} : g.next[x] = d.next[x]
        /\ g.prev[p] = Link(Home(w), TypeFor(w))
        /\ \A x \in Pages \ {p} : g.prev[x] = IF x = d.next[Home(w)]
                                             THEN Link(p, TypeFor(w)) ELSE d.prev[x]
    BY <1>18, <2>2
  <2>4. /\ HeadersInv(g) /\ w \in Words /\ g.slab[p] = w /\ Home(w) # NULL
        /\ Extent(w, p) = Extent(d.slab[p], p)
    BY <2>1, <2>2
  <2> HIDE DEF w
  <2>5. Pushed(d, g, p, w, none)
    BY <2>1, <2>3, <2>4 DEF Pushed
  <2> HIDE DEF d
  <2> QED BY ONLY <1>13, p \in Pages, <2>5, PushResult
<1>20. Changed(h, g, p)
  BY <1>12, <1>19, ChangedTwice
<1> QED BY <1>4, <1>17, <1>20

\* One word changes.
LEMMA WordFields ==
    ASSUME NEW h, HeadersInv(h), NEW p \in Pages, NEW w \in Words
    PROVE  LET m == [h EXCEPT !.slab[p] = w]
           IN  /\ HeadersInv(m) /\ m.next = h.next /\ m.prev = h.prev
               /\ m.slab[p] = w /\ \A x \in Pages \ {p} : m.slab[x] = h.slab[x]
<1> DEFINE slab == [h.slab EXCEPT ![p] = w]
<1>1. h = [slab |-> h.slab, next |-> h.next, prev |-> h.prev]
  BY HeaderParts
<1>2. [h EXCEPT !.slab[p] = w] = [slab |-> slab, next |-> h.next, prev |-> h.prev]
  BY <1>1, FieldSet
<1>3. /\ slab \in [Pages -> Words] /\ slab[p] = w
      /\ \A x \in Pages \ {p} : slab[x] = h.slab[x]
  BY HeaderParts
<1> HIDE DEF slab
<1>4. HeadersInv([slab |-> slab, next |-> h.next, prev |-> h.prev])
  BY <1>3, HeaderParts DEF HeadersInv
<1> QED BY <1>2, <1>3, <1>4

\* A head that leads to itself has no pages.
LEMMA EmptyList ==
    ASSUME NEW h, HeadersInv(h), LinksInv(h), NEW head \in Heads, h.next[head] = head
    PROVE  \A x \in Pages : Home(h.slab[x]) # head
<1> DEFINE T == {x \in Pages : Home(h.slab[x]) = head}
<1>1. /\ Linked(h.next, Backs(h), Homes(h))
      /\ \A x \in Pages : Backs(h)[x] = h.prev[x].to
  BY ListsOf
<1>2. head # NULL /\ head \notin Pages
  BY Numbers DEF Cells
<1> SUFFICES ASSUME T # {} PROVE FALSE
  OBVIOUS
<1>3. T \in SUBSET Pages
  OBVIOUS
<1>4. PICK y \in T : Backs(h)[y] \notin T
  <2> HIDE DEF T
  <2> QED BY <1>1, <1>3, ListParts
<1>5. /\ h.prev[y].to \in Pages \cup {head} /\ h.next[h.prev[y].to] = y
      /\ h.prev[y].to \in Pages => Home(h.slab[h.prev[y].to]) = head
  BY <1>2, OnListCells
<1> QED BY <1>1, <1>2, <1>4, <1>5

\* The headers after the first page p of a slot gives a chunk.
Taken(h, p, s, used) ==
    LET m == [h EXCEPT !.slab[p] = Map(s, used)]
    IN  IF used # Chunks(s) THEN m
        ELSE [Unlink(m, p) EXCEPT !.next[p] = NULL,
                                  !.prev[p] = Link(NULL, TypeOf(s))]

\* That page has room, and what is left is in order.
LEMMA TakeChunkResult ==
    ASSUME NEW h, HeadersInv(h), LinksInv(h), PagesInv(h), NEW s \in Shifts,
           NEW p, p = h.next[Slot(s)], p # Slot(s)
    PROVE  /\ p \in Pages /\ h.slab[p].kind = "map" /\ h.slab[p].shift = s
           /\ h.slab[p].used \in SUBSET Chunks(s) /\ h.slab[p].used # Chunks(s)
           /\ \A used \in SUBSET Chunks(s) :
                /\ Changed(h, Taken(h, p, s, used), p)
                /\ Taken(h, p, s, used).slab[p] = Map(s, used)
<1>1. p \in Pages /\ Home(h.slab[p]) = Slot(s) /\ h.slab[p] \in Words
  <2>1. Slot(s) \in Heads
    BY Numbers
  <2>2. p \in Pages /\ Home(h.slab[p]) = Slot(s)
    BY <2>1, HeadCells
  <2> QED BY <2>2, HeaderParts
<1>2. /\ h.slab[p].kind = "map" /\ h.slab[p].shift = s
      /\ h.slab[p].used \in SUBSET Chunks(s) /\ h.slab[p].used # Chunks(s)
      /\ Home(h.slab[p]) # NULL
  <2>1. h.slab[p].kind = "map" /\ h.slab[p].shift = s /\ h.slab[p].used # Chunks(s)
    BY <1>1, HomeFacts
  <2>2. h.slab[p].used \in SUBSET Chunks(s)
    BY <1>1, <2>1, WordParts
  <2>3. Slot(s) # NULL
    BY Numbers DEF Cells
  <2> QED BY <1>1, <2>1, <2>2, <2>3
<1>3. ASSUME NEW used \in SUBSET Chunks(s)
      PROVE  /\ Changed(h, Taken(h, p, s, used), p)
             /\ Taken(h, p, s, used).slab[p] = Map(s, used)
  <2> DEFINE w == Map(s, used)
             m == [h EXCEPT !.slab[p] = w]
             g == IF used # Chunks(s) THEN m
                  ELSE [Unlink(m, p) EXCEPT !.next[p] = NULL,
                                            !.prev[p] = Link(NULL, TypeOf(s))]
  <2>1. Taken(h, p, s, used) = g
    BY DEF Taken
  <2>2. /\ w \in Words /\ w.kind = "map" /\ TypeFor(w) = TypeOf(s)
        /\ Home(w) = IF used # Chunks(s) THEN Slot(s) ELSE NULL
    BY WordsMade
  <2>3. Extent(w, p) = Extent(h.slab[p], p)
    BY <1>2, <2>2 DEF Extent
  <2>4. TypeFor(h.slab[p]) = TypeOf(s)
    BY <1>2 DEF TypeFor
  <2> HIDE DEF w
  <2>5. /\ HeadersInv(m) /\ m.next = h.next /\ m.prev = h.prev
        /\ m.slab[p] = w /\ \A x \in Pages \ {p} : m.slab[x] = h.slab[x]
    BY <1>1, <2>2, WordFields, SMTT(30)
  <2>6. CASE used # Chunks(s)
    <3>1. g = m
      BY <2>6
    <3> HIDE DEF m, g
    <3>2. Changed(h, m, p)
      BY <1>1, <2>2, <2>3, <2>4, <2>5, <2>6, SameListResult
    <3> QED BY <2>1, <2>5, <3>1, <3>2 DEF w
  <2>7. CASE used = Chunks(s)
    <3> DEFINE u == Unlink(m, p)
    <3>1. g = [u EXCEPT !.next[p] = NULL, !.prev[p] = Link(NULL, TypeOf(s))]
      BY <2>7
    <3> HIDE DEF m
    <3>2. h.prev[p].to \in Cells /\ h.next[p] \in Cells
      BY <1>1, <1>2, OnListCells
    <3>3. /\ HeadersInv(u) /\ u.slab = m.slab
          /\ \A x \in Cells :
                /\ u.next[x] = IF x = h.prev[p].to THEN h.next[p] ELSE h.next[x]
                /\ u.prev[x] = IF x = h.next[p] THEN h.prev[p] ELSE h.prev[x]
      <4>1. m.prev[p].to \in Cells /\ m.next[p] \in Cells
        BY <2>5, <3>2
      <4> QED BY <1>1, <2>5, <4>1, UnlinkFields
    <3> HIDE DEF u, g
    <3>4. Link(NULL, TypeOf(s)) \in Links
      BY TypeFacts, LinksMade
    <3>5. /\ HeadersInv(g) /\ g.slab = u.slab
          /\ g.next[p] = NULL /\ g.prev[p] = Link(NULL, TypeOf(s))
          /\ \A x \in Cells \ {p} : g.next[x] = u.next[x] /\ g.prev[x] = u.prev[x]
      <4> DEFINE n == NULL
                 l == Link(NULL, TypeOf(s))
      <4>1. n \in Cells \cup {NULL} /\ l \in Links
        BY <3>4
      <4>2. u = [slab |-> u.slab, next |-> u.next, prev |-> u.prev]
        BY <3>3, HeaderParts
      <4> HIDE DEF n, l
      <4> DEFINE next == [u.next EXCEPT ![p] = n]
                 prev == [u.prev EXCEPT ![p] = l]
      <4>3. g = [[u EXCEPT !.next[p] = n] EXCEPT !.prev[p] = l]
        BY <3>1 DEF n, l
      <4>6. [u EXCEPT !.next[p] = n] = [slab |-> u.slab, next |-> next, prev |-> u.prev]
        BY <4>2, FieldSet
      <4>7. g = [slab |-> u.slab, next |-> next, prev |-> prev]
        <5> HIDE DEF next
        <5> QED BY <4>3, <4>6, FieldSet
      <4>4. /\ g = [slab |-> g.slab, next |-> g.next, prev |-> g.prev]
            /\ g.slab = u.slab /\ g.next = next /\ g.prev = prev
        <5> HIDE DEF next, prev
        <5> QED BY <4>7
      <4>5. /\ HeadersInv(g) /\ g.slab = u.slab /\ g.next[p] = n /\ g.prev[p] = l
            /\ \A x \in Cells \ {p} : g.next[x] = u.next[x] /\ g.prev[x] = u.prev[x]
        <5>1. /\ next \in [Cells -> Cells \cup {NULL}] /\ prev \in [Cells -> Links]
              /\ next[p] = n /\ prev[p] = l
              /\ \A x \in Cells \ {p} : next[x] = u.next[x] /\ prev[x] = u.prev[x]
          BY <1>1, <3>3, <4>1, HeaderParts
        <5>2. u.slab \in [Pages -> Words]
          BY <3>3, HeaderParts
        <5> HIDE DEF next, prev
        <5>3. HeadersInv(g)
          BY <4>4, <5>1, <5>2 DEF HeadersInv
        <5> QED BY <4>4, <5>1, <5>3
      <4> QED BY <4>5 DEF n, l
    <3>6. /\ \A x \in Cells \ {p} :
                /\ g.next[x] = IF x = h.prev[p].to THEN h.next[p] ELSE h.next[x]
                /\ g.prev[x] = IF x = h.next[p] THEN h.prev[p] ELSE h.prev[x]
          /\ g.slab[p] = w /\ \A x \in Pages \ {p} : g.slab[x] = h.slab[x]
          /\ g.prev[p] = Link(NULL, TypeFor(w))
      BY <2>2, <2>5, <3>3, <3>5
    <3>7. Home(w) = NULL
      BY <2>2, <2>7
    <3>8. Changed(h, g, p)
      BY <1>1, <1>2, <2>2, <2>3, <3>5, <3>6, <3>7, DropResult
    <3> QED BY <2>1, <3>6, <3>8 DEF w
  <2> QED BY <2>6, <2>7
<1> QED BY <1>1, <1>2, <1>3

\* A page is cut for a slot whose list is empty.
LEMMA CutResult ==
    ASSUME NEW h, HeadersInv(h), LinksInv(h), PagesInv(h), NEW s \in Shifts,
           h.next[Slot(s)] = Slot(s),
           NEW p \in Pages, h.slab[p].kind = "free", 1 <= h.slab[p].n
    PROVE  LET g == [AllocPages(h, p, 1) EXCEPT
                        !.slab[p] = FreshMap(s),
                        !.next[p] = Slot(s),
                        !.prev[p] = Link(Slot(s), TypeOf(s)),
                        !.next[Slot(s)] = p]
           IN  /\ Changed(h, g, p) /\ g.slab[p] = FreshMap(s)
               /\ 0..Reserved(s) \in SUBSET Chunks(s)
<1> DEFINE a == AllocPages(h, p, 1)
           F == Slot(s)
           w == FreshMap(s)
           t == TypeOf(s)
           g == [a EXCEPT !.slab[p] = w, !.next[p] = F,
                          !.prev[p] = Link(F, t), !.next[F] = p]
<1>1. Changed(h, a, p) /\ a.slab[p] = StartOf(1)
  BY AllocPagesResult
<1>2. HeadersInv(a) /\ LinksInv(a) /\ PagesInv(a)
  BY <1>1 DEF Changed
<1>3. /\ 0..Reserved(s) \in SUBSET Chunks(s) /\ 0..Reserved(s) # Chunks(s)
  <2> DEFINE k == pow2[PageShift - s]
             R == Reserved(s)
  <2>1. R \in Nat /\ R + 1 < k /\ k \in Nat /\ Chunks(s) = 0..(k - 1)
    BY OwnFacts, ChunkFacts
  <2> HIDE DEF k, R
  <2>2. 0..R \in SUBSET (0..(k - 1)) /\ k - 1 \in 0..(k - 1) /\ k - 1 \notin 0..R
    BY <2>1
  <2> QED BY <2>1, <2>2 DEF R
<1>4. /\ w \in Words /\ w.kind = "map" /\ Home(w) = F /\ TypeFor(w) = t
  <2> DEFINE S == 0..Reserved(s)
  <2>1. S \in SUBSET Chunks(s) /\ S # Chunks(s)
    BY <1>3
  <2>2. w = Map(s, S)
    BY DEF FreshMap
  <2> HIDE DEF S, w
  <2>3. /\ Map(s, S) \in Words /\ Map(s, S).kind = "map"
        /\ Home(Map(s, S)) = Slot(s) /\ TypeFor(Map(s, S)) = TypeOf(s)
    BY <2>1, WordsMade
  <2> QED BY <2>2, <2>3
<1>5. /\ Home(StartOf(1)) = NULL /\ Extent(StartOf(1), p) = {p} /\ Extent(w, p) = {p}
  <2>1. 1 \in 1..NPages
    BY Numbers
  <2>2. StartOf(1).kind = "start" /\ StartOf(1).n = 1 /\ Home(StartOf(1)) = NULL
    BY <2>1, WordsMade
  <2>3. p..(p + 1 - 1) = {p}
    BY Numbers
  <2> QED BY <1>4, <2>2, <2>3 DEF Extent
<1>6. F \in Heads /\ F \in Cells /\ F \notin Pages /\ F # NULL /\ F # p
      /\ \A x \in Pages : x \in Cells
  BY Numbers DEF Cells
<1> HIDE DEF a, w, t
<1>7. a.next[F] = F
  <2>1. \A x \in Pages : Home(h.slab[x]) # F
    BY <1>6, EmptyList
  <2>2. ASSUME NEW x \in Pages, Home(a.slab[x]) = F PROVE FALSE
    <3>1. x # p
      BY <1>1, <1>5, <1>6, <2>2
    <3>2. ~ Quiet(a.slab[x])
      <4>1. a.slab[x].kind = "map"
        <5>1. a.slab[x] \in Words
          BY <1>2, HeaderParts
        <5> QED BY <2>2, <5>1, HomeFacts
      <4> QED BY <4>1 DEF Quiet
    <3>3. a.slab[x] = h.slab[x]
      BY <1>1, <3>1, <3>2 DEF Changed
    <3> QED BY <2>1, <2>2, <3>3
  <2> QED BY <1>2, <1>6, <2>2, HeadCells
<1> DEFINE m == [a EXCEPT !.slab[p] = w]
           d == [m EXCEPT !.next[p] = F, !.prev[p] = Link(F, t)]
<1>8. Link(F, t) \in Links
  BY <1>6, TypeFacts, LinksMade DEF t
<1>9. /\ HeadersInv(m) /\ m.next = a.next /\ m.prev = a.prev
      /\ m.slab[p] = w /\ \A x \in Pages \ {p} : m.slab[x] = a.slab[x]
  BY <1>2, <1>4, WordFields
<1>10. /\ HeadersInv(d) /\ d.slab = m.slab
       /\ d.next[p] = F /\ d.prev[p] = Link(F, t)
       /\ \A x \in Cells \ {p} : d.next[x] = m.next[x] /\ d.prev[x] = m.prev[x]
  <2>1. F \in Cells \cup {NULL}
    BY <1>6
  <2> DEFINE l == Link(F, t)
  <2>2. d = [m EXCEPT !.next[p] = F, !.prev[p] = l]
    OBVIOUS
  <2>3. m = [slab |-> m.slab, next |-> m.next, prev |-> m.prev]
    BY <1>9, HeaderParts
  <2> HIDE DEF m, F, d, l
  <2> DEFINE next == [m.next EXCEPT ![p] = F]
             prev == [m.prev EXCEPT ![p] = l]
  <2>4. d = [[m EXCEPT !.next[p] = F] EXCEPT !.prev[p] = l]
    BY <2>2
  <2>7. [m EXCEPT !.next[p] = F] = [slab |-> m.slab, next |-> next, prev |-> m.prev]
    BY <2>3, FieldSet
  <2>8. d = [slab |-> m.slab, next |-> next, prev |-> prev]
    <3> HIDE DEF next
    <3> QED BY <2>4, <2>7, FieldSet
  <2>6. /\ d = [slab |-> d.slab, next |-> d.next, prev |-> d.prev]
        /\ d.slab = m.slab /\ d.next = next /\ d.prev = prev
    <3> HIDE DEF next, prev
    <3> QED BY <2>8
  <2>5. /\ HeadersInv(d) /\ d.slab = m.slab /\ d.next[p] = F /\ d.prev[p] = l
        /\ \A x \in Cells \ {p} : d.next[x] = m.next[x] /\ d.prev[x] = m.prev[x]
    <3>1. l \in Links
      BY <1>8 DEF l
    <3>2. /\ next \in [Cells -> Cells \cup {NULL}] /\ prev \in [Cells -> Links]
          /\ next[p] = F /\ prev[p] = l
          /\ \A x \in Cells \ {p} : next[x] = m.next[x] /\ prev[x] = m.prev[x]
      BY <1>9, <2>1, <3>1, HeaderParts
    <3>3. m.slab \in [Pages -> Words]
      BY <1>9, HeaderParts
    <3> HIDE DEF next, prev
    <3>4. HeadersInv(d)
      BY <2>6, <3>2, <3>3 DEF HeadersInv
    <3> QED BY <2>6, <3>2, <3>4
  <2> QED BY <2>5 DEF l
<1>11. g = [d EXCEPT !.next[F] = p]
  OBVIOUS
<1> HIDE DEF m, d, F, g
<1>12. /\ HeadersInv(g) /\ g.slab = d.slab /\ g.prev = d.prev /\ g.next[F] = p
       /\ \A x \in Cells \ {F} : g.next[x] = d.next[x]
  <2> DEFINE next == [d.next EXCEPT ![F] = p]
  <2>1. d = [slab |-> d.slab, next |-> d.next, prev |-> d.prev]
    BY <1>10, HeaderParts
  <2>2. g = [slab |-> d.slab, next |-> next, prev |-> d.prev]
    BY <1>11, <2>1, FieldSet
  <2>3. /\ next \in [Cells -> Cells \cup {NULL}] /\ next[F] = p
        /\ \A x \in Cells \ {F} : next[x] = d.next[x]
    BY <1>6, <1>10, HeaderParts
  <2> HIDE DEF next
  <2>4. HeadersInv([slab |-> d.slab, next |-> next, prev |-> d.prev])
    BY <1>10, <2>3, HeaderParts DEF HeadersInv
  <2> QED BY <2>2, <2>3, <2>4
<1>13. Changed(a, g, p)
  <2> DEFINE none == {}
  <2>1. /\ none \in SUBSET (Extent(a.slab[p], p) \ {p})
        /\ \A x \in none : g.slab[x] = FreeRun(0)
        /\ \A x \in Pages \ (none \cup {p}) : g.slab[x] = a.slab[x]
        /\ Extent(w, p) = Extent(a.slab[p], p) /\ g.slab[p] = w
        /\ Home(a.slab[p]) = NULL /\ Home(w) # NULL
    BY <1>1, <1>4, <1>5, <1>6, <1>9, <1>10, <1>12
  <2>2. /\ g.next[p] = a.next[F] /\ g.next[F] = p
        /\ \A x \in Cells \ {p, F} : g.next[x] = a.next[x]
        /\ g.prev[p] = Link(F, t)
        /\ \A x \in Pages \ {p} : g.prev[x] = a.prev[x] /\ x # a.next[F]
    BY <1>6, <1>7, <1>9, <1>10, <1>12
  <2>3. /\ g.next[p] = a.next[Home(w)] /\ g.next[Home(w)] = p
        /\ \A x \in Cells \ {p, Home(w)} : g.next[x] = a.next[x]
        /\ g.prev[p] = Link(Home(w), TypeFor(w))
        /\ \A x \in Pages \ {p} : g.prev[x] = IF x = a.next[Home(w)]
                                             THEN Link(p, TypeFor(w)) ELSE a.prev[x]
    BY <1>4, <2>2
  <2>4. HeadersInv(g) /\ w \in Words
    BY <1>4, <1>12
  <2> HIDE DEF none
  <2>5. Pushed(a, g, p, w, none)
    BY <2>1, <2>3, <2>4 DEF Pushed
  <2> HIDE DEF a, g, w
  <2> QED BY ONLY <1>2, p \in Pages, <2>5, PushResult
<1>14. Changed(h, g, p)
  BY <1>1, <1>13, ChangedTwice
<1>15. g.slab[p] = w
  BY <1>9, <1>10, <1>12
<1> QED BY <1>3, <1>14, <1>15 DEF g, a, w, t, F

\* What the headers h are when chunk c of page p has gone back, and when the page
\* has gone back as well.
ChunkGiven(h, p, c) ==
    LET s == h.slab[p].shift
        used == h.slab[p].used \ {c}
        m == [Relist(h, p, s) EXCEPT !.slab[p] = Map(s, used)]
        g == FreePages(m, p, 1)
    IN  /\ s \in Shifts /\ used \in SUBSET Chunks(s)
        /\ Changed(h, m, p) /\ m.slab[p] = Map(s, used)
        /\ Changed(h, g, p) /\ g.slab[p] = FreeRun(1)

\* A chunk goes back: its page is on its list again, or all of it is free.
LEMMA GiveChunkResult ==
    ASSUME NEW h, HeadersInv(h), LinksInv(h), PagesInv(h), NEW p \in Pages,
           h.slab[p].kind = "map", NEW c \in h.slab[p].used
    PROVE  ChunkGiven(h, p, c)
<1> DEFINE s == h.slab[p].shift
           used == h.slab[p].used \ {c}
           r == Relist(h, p, s)
           w == Map(s, used)
           m == [r EXCEPT !.slab[p] = w]
           F == Slot(s)
           t == TypeOf(s)
<1>1. /\ s \in Shifts /\ used \in SUBSET Chunks(s) /\ used # Chunks(s)
      /\ h.slab[p] \in Words
  <2>1. h.slab[p] \in Words
    BY HeaderParts
  <2>2. s \in Shifts /\ h.slab[p].used \in SUBSET Chunks(s)
    BY <2>1, WordParts
  <2>3. c \in Chunks(s) /\ c \notin used
    BY <2>2
  <2> QED BY <2>1, <2>2, <2>3
<1>2. /\ w \in Words /\ w.kind = "map" /\ TypeFor(w) = t /\ Home(w) = F
  <2> HIDE DEF s, used
  <2> QED BY <1>1, WordsMade
<1>3. Extent(w, p) = Extent(h.slab[p], p) /\ TypeFor(h.slab[p]) = t
  BY <1>2 DEF Extent, TypeFor
<1>4. /\ F \in Heads /\ F \in Cells /\ F \notin Pages /\ F # NULL /\ F # p
      /\ \A x \in Pages : x \in Cells
  <2> HIDE DEF s
  <2> QED BY <1>1, Numbers DEF Cells
<1>5. t \in {"PAGE", "SMALL", "EXACT", "BIG"}
  <2> HIDE DEF s
  <2> QED BY <1>1, TypeFacts
<1>6. Changed(h, m, p) /\ m.slab[p] = w
  <2>1. CASE Home(h.slab[p]) # NULL
    <3>1. r = h
      <4>1. h.next[p] # NULL
        BY <2>1, OnListCells, Numbers DEF Cells
      <4> QED BY <4>1 DEF Relist
    <3>2. Home(h.slab[p]) = F
      BY <1>1, <2>1 DEF Home
    <3> HIDE DEF w, t, F, r, s
    <3>3. /\ HeadersInv(m) /\ m.next = h.next /\ m.prev = h.prev
          /\ m.slab[p] = w /\ \A x \in Pages \ {p} : m.slab[x] = h.slab[x]
      BY <1>2, <3>1, WordFields
    <3> HIDE DEF m
    <3>4. Changed(h, m, p)
      BY <1>2, <1>3, <3>2, <3>3, SameListResult
    <3> QED BY <3>3, <3>4
  <2>2. CASE Home(h.slab[p]) = NULL
    <3>1. r = PushFront(h, F, p, t)
      <4>1. h.next[p] = NULL
        BY <2>2, OffListCells
      <4> QED BY <4>1 DEF Relist
    <3> HIDE DEF w, t, F, r, s
    <3>2. h.next[F] \in Cells
      BY <1>4, HeadCells
    <3>3. /\ HeadersInv(r) /\ r.slab = h.slab
          /\ \A x \in Cells :
                /\ r.next[x] = IF x = F THEN p ELSE IF x = p THEN h.next[F] ELSE h.next[x]
                /\ r.prev[x] = IF x = h.next[F] THEN Link(p, t)
                               ELSE IF x = p THEN Link(F, t) ELSE h.prev[x]
      BY <1>4, <1>5, <3>1, <3>2, PushFields
    <3>4. /\ HeadersInv(m) /\ m.next = r.next /\ m.prev = r.prev
          /\ m.slab[p] = w /\ \A x \in Pages \ {p} : m.slab[x] = r.slab[x]
      BY <1>2, <3>3, WordFields
    <3> HIDE DEF m
    <3>5. h.next[F] # p
      BY <1>4, <2>2, HeadCells
    <3> DEFINE none == {}
    <3>6. /\ none \in SUBSET (Extent(h.slab[p], p) \ {p})
          /\ \A x \in none : m.slab[x] = FreeRun(0)
          /\ \A x \in Pages \ (none \cup {p}) : m.slab[x] = h.slab[x]
      BY <3>3, <3>4
    <3>7. /\ m.next[p] = h.next[Home(w)] /\ m.next[Home(w)] = p
          /\ \A x \in Cells \ {p, Home(w)} : m.next[x] = h.next[x]
          /\ m.prev[p] = Link(Home(w), TypeFor(w))
          /\ \A x \in Pages \ {p} : m.prev[x] = IF x = h.next[Home(w)]
                                             THEN Link(p, TypeFor(w)) ELSE h.prev[x]
      BY <1>2, <1>4, <3>3, <3>4, <3>5
    <3> HIDE DEF none
    <3>8. Home(w) # NULL
      BY <1>2, <1>4
    <3>9. Changed(h, m, p)
      <4>1. Pushed(h, m, p, w, none)
        BY <1>2, <1>3, <2>2, <3>4, <3>6, <3>7, <3>8 DEF Pushed
      <4> QED BY ONLY HeadersInv(h), LinksInv(h), PagesInv(h), p \in Pages, <4>1, PushResult
    <3> QED BY <3>4, <3>9
  <2> QED BY <2>1, <2>2
<1> HIDE DEF m, w
<1>7. Changed(h, FreePages(m, p, 1), p) /\ FreePages(m, p, 1).slab[p] = FreeRun(1)
  <2>1. HeadersInv(m) /\ LinksInv(m) /\ PagesInv(m)
    BY <1>6 DEF Changed
  <2>2. m.slab[p].kind = "map" /\ Home(m.slab[p]) # NULL
    BY <1>2, <1>4, <1>6
  <2>3. Changed(m, FreePages(m, p, 1), p) /\ FreePages(m, p, 1).slab[p] = FreeRun(1)
    BY <2>1, <2>2, FreeCutResult
  <2> QED BY <1>6, <2>3, ChangedTwice
<1> QED BY <1>1, <1>6, <1>7 DEF ChunkGiven, m, w

-----------------------------------------------------------------------------
\* Memory

\* Where a chunk is.
LEMMA ChunkAt ==
    ASSUME NEW p \in Pages, NEW s \in Shifts, NEW c \in Chunks(s)
    PROVE  LET u == pow2[s]
               a == p * pageSize + c * u
           IN  /\ a \in Nat /\ u \in Nat /\ u > 0 /\ c \in Nat
               /\ a \div pageSize = p /\ a % pageSize = c * u /\ (c * u) \div u = c
               /\ p * pageSize \in Nat /\ p * pageSize <= a
               /\ a + u <= p * pageSize + pageSize
<1> DEFINE k == pow2[PageShift - s]
           u == pow2[s]
           r == c * u
           a == p * pageSize + r
<1>1. /\ k \in Nat /\ u \in Nat /\ u >= 2 /\ pageSize = k * u /\ Chunks(s) = 0..(k - 1)
  BY ChunkFacts
<1>2. p \in Nat /\ pageSize \in Nat /\ pageSize > 0
  BY Numbers
<1> HIDE DEF k, u
<1>3. c \in Nat /\ c + 1 <= k /\ c + 1 \in Nat
  BY <1>1
<1>4. r \in Nat /\ r + u <= pageSize
  <2>1. c * u \in Nat /\ c * u + u = (c + 1) * u
    BY <1>1, <1>3, Multiples
  <2>2. (c + 1) * u <= k * u
    BY <1>1, <1>3, Multiples
  <2> QED BY <1>1, <2>1, <2>2
<1>5. (c * u) \div u = c
  <2>1. 0 \in 0..(u - 1) /\ u > 0
    BY <1>1
  <2>2. (c * u + 0) \div u = c
    BY <1>1, <1>3, <2>1, DivMod
  <2>3. c * u + 0 = c * u
    BY <1>4
  <2> QED BY <2>2, <2>3
<1> HIDE DEF r
<1>6. r \in 0..(pageSize - 1)
  BY <1>1, <1>2, <1>4
<1>7. a \div pageSize = p /\ a % pageSize = r
  BY <1>2, <1>6, DivMod
<1>8. p * pageSize \in Nat
  BY <1>2
<1>9. a \in Nat /\ p * pageSize <= a /\ a + u <= p * pageSize + pageSize
  <2> DEFINE x == p * pageSize
  <2>1. x \in Nat
    BY <1>8
  <2> HIDE DEF x
  <2>2. x + r \in Nat /\ x <= x + r /\ (x + r) + u <= x + pageSize
    BY <1>1, <1>2, <1>4, <2>1
  <2> QED BY <2>2 DEF x
<1>10. u > 0
  BY <1>1
<1> QED BY <1>1, <1>3, <1>5, <1>7, <1>8, <1>9, <1>10 DEF u, r

\* The memory that a word says is in use.
LEMMA MemoryOf ==
    ASSUME NEW w \in Words, NEW p \in Pages, NEW m \in InUse(w, p)
    PROVE  /\ w.kind \in {"start", "map"}
           /\ m = [at |-> m.at, len |-> m.len]
           /\ m.at \in Nat /\ m.len \in Nat /\ m.len > 0
           /\ m.at \div pageSize = p
           /\ w.kind = "start" => /\ InUse(w, p) = {m} /\ m.at = p * pageSize
                                  /\ m.len = w.n * pageSize
           /\ w.kind = "map" =>
                /\ w.shift \in Shifts
                /\ \E c \in w.used \ Own(w.shift) :
                    /\ c \in Chunks(w.shift)
                    /\ m.at = p * pageSize + c * pow2[w.shift] /\ m.len = pow2[w.shift]
                    /\ (m.at % pageSize) \div pow2[w.shift] = c
<1>1. \/ w.kind = "start" /\ w.n \in 1..NPages
      \/ w.kind = "map" /\ w.shift \in Shifts /\ w.used \in SUBSET Chunks(w.shift)
      \/ InUse(w, p) = {}
  BY WordParts DEF InUse
<1>2. p \in Nat /\ NPages \in Nat /\ pageSize \in Nat /\ pageSize > 0
  BY Numbers
<1>3. CASE w.kind = "start" /\ w.n \in 1..NPages
  <2> DEFINE a == p * pageSize
             l == w.n * pageSize
  <2>1. InUse(w, p) = {[at |-> a, len |-> l]}
    BY <1>3 DEF InUse
  <2>2. w.n \in Nat /\ w.n > 0
    BY <1>2, <1>3
  <2>3. a \in Nat /\ l \in Nat
    BY <1>2, <2>2
  <2>4. l > 0
    <3> DEFINE n == w.n
    <3>1. n = (n - 1) + 1 /\ n - 1 \in Nat
      BY <2>2
    <3> HIDE DEF n
    <3>2. /\ (n - 1) * pageSize \in Nat
          /\ (n - 1) * pageSize + pageSize = ((n - 1) + 1) * pageSize
      BY <1>2, <3>1, Multiples
    <3>3. n * pageSize > 0
      BY <1>2, <3>1, <3>2
    <3> QED BY <3>3 DEF n
  <2>5. a \div pageSize = p
    <3>1. 0 \in 0..(pageSize - 1)
      BY <1>2
    <3>2. (p * pageSize + 0) \div pageSize = p
      BY <1>2, <3>1, DivMod
    <3>3. p * pageSize + 0 = a
      BY <2>3
    <3> QED BY <3>2, <3>3
  <2> HIDE DEF a, l
  <2>6. m = [at |-> a, len |-> l]
    BY <2>1
  <2> QED BY <1>3, <2>1, <2>3, <2>4, <2>5, <2>6 DEF a, l
<1>4. CASE w.kind = "map" /\ w.shift \in Shifts /\ w.used \in SUBSET Chunks(w.shift)
  <2> DEFINE s == w.shift
  <2>1. InUse(w, p) = {[at |-> p * pageSize + c * pow2[s], len |-> pow2[s]] :
                        c \in w.used \ Own(s)}
    BY <1>4 DEF InUse
  <2>2. PICK c \in w.used \ Own(s) :
            m = [at |-> p * pageSize + c * pow2[s], len |-> pow2[s]]
    BY <2>1
  <2> DEFINE a == p * pageSize + c * pow2[s]
  <2>3. c \in Chunks(s) /\ s \in Shifts
    BY <1>4
  <2>4. /\ a \in Nat /\ pow2[s] \in Nat /\ pow2[s] > 0 /\ a \div pageSize = p
        /\ (a % pageSize) \div pow2[s] = c
    <3> HIDE DEF s
    <3>1. /\ a \in Nat /\ pow2[s] \in Nat /\ pow2[s] > 0 /\ a \div pageSize = p
          /\ a % pageSize = c * pow2[s] /\ (c * pow2[s]) \div pow2[s] = c
      BY <2>3, ChunkAt
    <3> HIDE DEF a
    <3> QED BY <3>1
  <2>5. m.at = a /\ m.len = pow2[s] /\ m = [at |-> a, len |-> pow2[s]]
    BY <2>2
  <2> HIDE DEF a
  <2>6. m.at = p * pageSize + c * pow2[s]
    BY <2>5 DEF a
  <2>7. \E d \in w.used \ Own(s) :
            /\ d \in Chunks(s) /\ m.at = p * pageSize + d * pow2[s]
            /\ m.len = pow2[s] /\ (m.at % pageSize) \div pow2[s] = d
    BY <2>3, <2>4, <2>5, <2>6
  <2>8. /\ m = [at |-> m.at, len |-> m.len] /\ m.at \in Nat /\ m.len \in Nat
        /\ m.len > 0 /\ m.at \div pageSize = p /\ w.kind = "map" /\ s \in Shifts
    BY <1>4, <2>4, <2>5
  <2> QED BY <2>7, <2>8
<1> QED BY <1>1, <1>3, <1>4

\* Memory that is in use in two places does not overlap.
LEMMA Apart ==
    ASSUME NEW h, HeadersInv(h), PagesInv(h), NEW p \in Pages, NEW q \in Pages,
           NEW m \in InUse(h.slab[p], p), NEW l \in InUse(h.slab[q], q)
    PROVE  /\ m.at = l.at => p = q /\ m = l
           /\ m.at # l.at => m.at + m.len <= l.at \/ l.at + l.len <= m.at
           /\ m.at + m.len <= NPages * pageSize
<1> DEFINE Ends(a, x) == x + 1 \in Nat /\ a.at + a.len <= (x + 1) * pageSize
<1>1. /\ h.slab[p] \in Words /\ h.slab[q] \in Words
      /\ p \in Nat /\ q \in Nat /\ NPages \in Nat /\ pageSize \in Nat /\ pageSize > 0
      /\ \A x \in Pages : x \in Nat /\ x < NPages
  BY HeaderParts, Numbers
<1>2. /\ m = [at |-> m.at, len |-> m.len] /\ l = [at |-> l.at, len |-> l.len]
      /\ m.at \in Nat /\ m.len \in Nat /\ l.at \in Nat /\ l.len \in Nat
      /\ m.at \div pageSize = p /\ l.at \div pageSize = q
  BY <1>1, MemoryOf
<1>3. ASSUME NEW x \in Pages, NEW a \in InUse(h.slab[x], x)
      PROVE  /\ x * pageSize <= a.at /\ x \in Extent(h.slab[x], x)
             /\ \E y \in Extent(h.slab[x], x) : Ends(a, y)
  <2>1. h.slab[x] \in Words /\ x \in Nat
    BY <1>1, HeaderParts
  <2>2. h.slab[x].kind \in {"start", "map"}
    BY <2>1, MemoryOf
  <2>3. CASE h.slab[x].kind = "start"
    <3> DEFINE n == h.slab[x].n
    <3>1. a.at = x * pageSize /\ a.len = n * pageSize
      BY <2>1, <2>3, MemoryOf
    <3>2. n \in Nat /\ n > 0 /\ Extent(h.slab[x], x) = x..(x + n - 1)
      <4>1. n \in 1..NPages
        BY <2>1, <2>3, WordParts
      <4>2. Extent(h.slab[x], x) = x..(x + n - 1)
        BY <2>3 DEF Extent
      <4> HIDE DEF n
      <4> QED BY <1>1, <4>1, <4>2
    <3> HIDE DEF n
    <3>3. x \in x..(x + n - 1) /\ x + n - 1 \in x..(x + n - 1) /\ (x + n - 1) + 1 = x + n
          /\ x + n \in Nat
      BY <2>1, <3>2
    <3>4. x * pageSize + n * pageSize = (x + n) * pageSize
          /\ x * pageSize <= x * pageSize /\ (x + n) * pageSize <= (x + n) * pageSize
      BY <1>1, <2>1, <3>2
    <3>5. Ends(a, x + n - 1)
      <4>1. a.at + a.len <= (x + n) * pageSize
        BY <3>1, <3>4
      <4> QED BY <3>3, <4>1
    <3> HIDE DEF Ends
    <3> QED BY <3>1, <3>2, <3>3, <3>4, <3>5
  <2>4. CASE h.slab[x].kind = "map"
    <3> DEFINE s == h.slab[x].shift
    <3>1. PICK c \in Chunks(s) : a.at = x * pageSize + c * pow2[s] /\ a.len = pow2[s]
      BY <2>1, <2>4, MemoryOf
    <3>2. s \in Shifts
      BY <2>1, <2>4, MemoryOf
    <3> DEFINE o == x * pageSize + c * pow2[s]
    <3>3. x * pageSize <= o /\ o + pow2[s] <= x * pageSize + pageSize
      <4> HIDE DEF s
      <4> QED BY <3>2, ChunkAt
    <3>4. Extent(h.slab[x], x) = {x}
      BY <2>4 DEF Extent
    <3>5. x * pageSize + pageSize = (x + 1) * pageSize /\ x + 1 \in Nat
      BY <1>1, <2>1, Multiples
    <3>6. x * pageSize <= a.at /\ a.at + a.len <= (x + 1) * pageSize
      <4> HIDE DEF o, s
      <4>1. a.at = o /\ a.len = pow2[s]
        BY <3>1 DEF o
      <4> QED BY <3>3, <3>5, <4>1
    <3> QED BY <3>4, <3>5, <3>6
  <2> QED BY <2>2, <2>3, <2>4
<1>4. ASSUME NEW x \in Pages, NEW a \in InUse(h.slab[x], x),
             NEW y \in Pages, NEW b \in InUse(h.slab[y], y), x < y
      PROVE  a.at + a.len <= b.at
  <2>1. PICK e \in Extent(h.slab[x], x) : Ends(a, e)
    <3> HIDE DEF Ends
    <3> QED BY <1>3
  <2>2. y \in Extent(h.slab[y], y) /\ y * pageSize <= b.at /\ x \in Extent(h.slab[x], x)
    BY <1>3
  <2>3. x \in Nat /\ y \in Nat /\ x # y
    BY <1>1, <1>4
  <2>4. y \notin Extent(h.slab[x], x)
    BY <2>2, <2>3 DEF PagesInv
  <2>5. e \in Nat /\ e < y
    <3>1. h.slab[x] \in Words
      BY HeaderParts
    <3>2. \/ Extent(h.slab[x], x) = {x}
          \/ /\ Extent(h.slab[x], x) = x..(x + h.slab[x].n - 1)
             /\ h.slab[x].n \in Nat
      BY <3>1, ExtentFacts
    <3>3. CASE Extent(h.slab[x], x) = {x}
      BY <1>4, <2>3, <3>3
    <3>4. CASE Extent(h.slab[x], x) = x..(x + h.slab[x].n - 1) /\ h.slab[x].n \in Nat
      <4> DEFINE n == h.slab[x].n
      <4>1. n \in Nat /\ e \in x..(x + n - 1) /\ y \notin x..(x + n - 1)
        BY <2>4, <3>4
      <4> HIDE DEF n
      <4> QED BY <1>4, <2>3, <4>1
    <3> QED BY <3>2, <3>3, <3>4
  <2>6. (e + 1) * pageSize <= y * pageSize
    <3>1. e + 1 \in Nat /\ e + 1 <= y
      BY <2>3, <2>5
    <3> QED BY <1>1, <2>3, <3>1, Multiples
  <2>7. /\ a.at \in Nat /\ a.len \in Nat /\ b.at \in Nat
    <3>1. h.slab[x] \in Words /\ h.slab[y] \in Words
      BY HeaderParts
    <3> QED BY <3>1, MemoryOf
  <2>8. (e + 1) * pageSize \in Nat /\ y * pageSize \in Nat
    BY <1>1, <2>3, <2>5
  <2> QED BY <2>1, <2>2, <2>6, <2>7, <2>8
<1>5. ASSUME m.at = l.at PROVE p = q
  BY <1>2, <1>5
<1>6. ASSUME p = q
      PROVE  /\ m.at = l.at => m = l
             /\ m.at # l.at => m.at + m.len <= l.at \/ l.at + l.len <= m.at
  <2>1. CASE h.slab[p].kind = "start"
    <3>1. InUse(h.slab[p], p) = {m}
      BY <1>1, <2>1, MemoryOf
    <3>2. m = l
      BY <1>6, <3>1
    <3> QED BY <3>2
  <2>2. CASE h.slab[p].kind = "map"
    <3> DEFINE s == h.slab[p].shift
               u == pow2[s]
               o == p * pageSize
    <3>7. PICK c \in Chunks(s) : m.at = p * pageSize + c * pow2[s] /\ m.len = pow2[s]
      <4>1. m \in InUse(h.slab[p], p) /\ h.slab[p] \in Words
        BY <1>1
      <4>2. \E c \in h.slab[p].used \ Own(h.slab[p].shift) :
                /\ c \in Chunks(s)
                /\ m.at = p * pageSize + c * pow2[s] /\ m.len = pow2[s]
        BY <2>2, <4>1, MemoryOf
      <4> QED BY <4>2
    <3>8. PICK d \in Chunks(s) : l.at = p * pageSize + d * pow2[s] /\ l.len = pow2[s]
      <4>1. l \in InUse(h.slab[p], p)
        BY <1>6
      <4> QED BY <1>1, <2>2, <4>1, MemoryOf
    <3>1. m.at = o + c * u /\ m.len = u
      BY <3>7
    <3>2. l.at = o + d * u /\ l.len = u
      BY <3>8
    <3>3. c \in Nat /\ d \in Nat /\ u \in Nat /\ u > 0 /\ o \in Nat
      <4>1. s \in Shifts
        BY <1>1, <2>2, MemoryOf
      <4> HIDE DEF s
      <4> QED BY <4>1, ChunkAt
    <3> HIDE DEF u, o
    <3>4. m.at = l.at => m = l
      BY <1>2, <3>1, <3>2
    <3>5. ASSUME NEW i \in Nat, NEW j \in Nat, i < j
          PROVE  (o + i * u) + u <= o + j * u
      <4>1. i + 1 \in Nat /\ i + 1 <= j
        BY <3>5
      <4>2. i * u + u = (i + 1) * u /\ (i + 1) * u <= j * u /\ i * u \in Nat
        BY <3>3, <4>1, Multiples
      <4>3. j * u \in Nat
        BY <3>3
      <4> QED BY <3>3, <4>2, <4>3
    <3>6. ASSUME m.at # l.at
          PROVE  m.at + m.len <= l.at \/ l.at + l.len <= m.at
      <4>1. c # d
        BY <3>1, <3>2, <3>6
      <4>2. c < d \/ d < c
        BY <3>3, <4>1
      <4> QED BY <3>1, <3>2, <3>3, <3>5, <4>2
    <3> QED BY <3>4, <3>6
  <2> QED BY <1>1, <2>1, <2>2, MemoryOf
<1>7. ASSUME p # q
      PROVE  m.at + m.len <= l.at \/ l.at + l.len <= m.at
  <2>1. p < q \/ q < p
    BY <1>1, <1>7
  <2> QED BY <1>4, <2>1
<1>8. m.at + m.len <= NPages * pageSize
  <2>1. PICK y \in Extent(h.slab[p], p) : Ends(m, y)
    <3> HIDE DEF Ends
    <3> QED BY <1>3
  <2>2. y \in Pages
    BY <2>1 DEF PagesInv
  <2>3. y + 1 \in Nat /\ y + 1 <= NPages
    BY <1>1, <2>2
  <2>4. (y + 1) * pageSize <= NPages * pageSize
    BY <1>1, <2>3, Multiples
  <2>5. (y + 1) * pageSize \in Nat /\ NPages * pageSize \in Nat
    BY <1>1, <2>3
  <2> QED BY <1>2, <2>1, <2>4, <2>5
<1> QED BY <1>5, <1>6, <1>7, <1>8

\* What BlocksInv says, one fact at a time.
LEMMA BlockParts ==
    ASSUME NEW h, NEW L, BlocksInv(h, L)
    PROVE  /\ \A b \in L : /\ b = [at |-> b.at, size |-> b.size]
                           /\ b.at \in Nat /\ b.size \in Nat \ {0}
           /\ \A b \in L : \E p \in Pages : \E m \in InUse(h.slab[p], p) :
                b.at = m.at /\ b.size <= m.len
           /\ \A p \in Pages : \A m \in InUse(h.slab[p], p) : \E b \in L : b.at = m.at
           /\ \A b, c \in L : b.at = c.at => b = c
           /\ \A p \in Pages : h.slab[p].kind = "map" =>
                Own(h.slab[p].shift) \subseteq h.slab[p].used
BY DEF BlocksInv

\* What is in use on the other pages does not change.
LEMMA ChangedMemory ==
    ASSUME NEW h, NEW g, NEW p, Changed(h, g, p), NEW q \in Pages, q # p
    PROVE  /\ InUse(g.slab[q], q) = InUse(h.slab[q], q)
           /\ g.slab[q].kind = "map" => g.slab[q] = h.slab[q]
<1>1. g.slab[q] = h.slab[q] \/ (Quiet(g.slab[q]) /\ Quiet(h.slab[q]))
  BY DEF Changed
<1>2. \A w : Quiet(w) => InUse(w, q) = {} /\ w.kind # "map"
  BY DEF Quiet, InUse
<1> QED BY <1>1, <1>2

\* A block is given to a caller.
LEMMA BlocksGain ==
    ASSUME NEW h, HeadersInv(h), PagesInv(h), NEW L, BlocksInv(h, L),
           NEW p \in Pages, NEW g, Changed(h, g, p),
           NEW m, m \notin InUse(h.slab[p], p),
           InUse(g.slab[p], p) = InUse(h.slab[p], p) \cup {m},
           g.slab[p].kind = "map" => Own(g.slab[p].shift) \subseteq g.slab[p].used,
           NEW size \in Nat \ {0}, size <= m.len
    PROVE  LET b == [at |-> m.at, size |-> size]
           IN  /\ BlocksInv(g, L \cup {b})
               /\ m.at \in Nat /\ m.at + size <= NPages * pageSize
               /\ \A c \in L : m.at + size <= c.at \/ c.at + c.size <= m.at
<1> DEFINE b == [at |-> m.at, size |-> size]
           M == L \cup {b}
<1>1. HeadersInv(g) /\ PagesInv(g)
  BY DEF Changed
<1>2. \A x \in Pages : g.slab[x] \in Words
  BY <1>1, HeaderParts
<1>3. /\ m \in InUse(g.slab[p], p)
      /\ \A x \in Pages : \A a \in InUse(h.slab[x], x) : a \in InUse(g.slab[x], x)
      /\ \A x \in Pages : \A a \in InUse(g.slab[x], x) :
            a \in InUse(h.slab[x], x) \/ (x = p /\ a = m)
  <2>1. \A x \in Pages : x # p => InUse(g.slab[x], x) = InUse(h.slab[x], x)
    BY ChangedMemory
  <2> QED BY <2>1
<1>4. m.at \in Nat /\ m.len \in Nat /\ m.at + m.len <= NPages * pageSize
  <2>1. m.at \in Nat /\ m.len \in Nat
    BY <1>2, <1>3, MemoryOf
  <2>2. m.at + m.len <= NPages * pageSize
    BY <1>1, <1>3, Apart
  <2> QED BY <2>1, <2>2
<1>5. b.at = m.at /\ b.size = size /\ b \in [at : Nat, size : Nat \ {0}]
  BY <1>4
<1>6. /\ \A c \in L : c \in [at : Nat, size : Nat \ {0}]
      /\ \A c \in L : \E x \in Pages : \E a \in InUse(h.slab[x], x) :
            c.at = a.at /\ c.size <= a.len
      /\ \A x \in Pages : \A a \in InUse(h.slab[x], x) : \E c \in L : c.at = a.at
      /\ \A c, d \in L : c.at = d.at => c = d
  <2>1. \A c \in L : c \in [at : Nat, size : Nat \ {0}]
    BY DEF BlocksInv
  <2> QED BY <2>1, BlockParts
<1> HIDE DEF b
<1>7. ASSUME NEW c \in L
      PROVE  /\ c.at # m.at
             /\ m.at + size <= c.at \/ c.at + c.size <= m.at
  <2>1. PICK x \in Pages : \E a \in InUse(h.slab[x], x) : c.at = a.at /\ c.size <= a.len
    BY <1>6
  <2>2. PICK a \in InUse(h.slab[x], x) : c.at = a.at /\ c.size <= a.len
    BY <2>1
  <2>3. a \in InUse(g.slab[x], x)
    BY <1>3
  <2>4. ~ (x = p /\ a = m)
    OBVIOUS
  <2>5. a.at # m.at /\ (m.at + m.len <= a.at \/ a.at + a.len <= m.at)
    BY <1>1, <1>3, <2>3, <2>4, Apart
  <2>6. a.at \in Nat /\ a.len \in Nat
    BY <1>2, <2>3, MemoryOf
  <2>7. c.size \in Nat
    BY <1>6
  <2>8. size <= m.len /\ size \in Nat /\ c.size <= a.len
    BY <2>2
  <2>9. a.at + c.size <= m.at \/ m.at + size <= a.at
    BY ONLY <1>4, <2>5, <2>6, <2>7, <2>8
  <2> QED BY <2>2, <2>5, <2>9
<1>8. BlocksInv(g, M)
  <2>1. M \subseteq [at : Nat, size : Nat \ {0}]
    BY <1>5, <1>6
  <2>2. ASSUME NEW x \in Pages, g.slab[x].kind = "map"
        PROVE  Own(g.slab[x].shift) \subseteq g.slab[x].used
    <3>1. CASE x = p
      BY <2>2, <3>1
    <3>2. CASE x # p
      <4>1. g.slab[x] = h.slab[x]
        BY <2>2, <3>2, ChangedMemory
      <4>2. h.slab[x].kind = "map"
        BY <2>2, <4>1
      <4>3. Own(h.slab[x].shift) \subseteq h.slab[x].used
        BY <4>2, BlockParts
      <4> QED BY <4>1, <4>3
    <3> QED BY <3>1, <3>2
  <2>3. ASSUME NEW c \in M
        PROVE  \E x \in Pages : \E a \in InUse(g.slab[x], x) :
                    c.at = a.at /\ c.size <= a.len
    <3>1. CASE c \in L
      BY <1>3, <1>6, <3>1
    <3>2. CASE c = b
      BY <1>3, <1>5, <3>2
    <3> QED BY <3>1, <3>2
  <2>4. ASSUME NEW x \in Pages, NEW a \in InUse(g.slab[x], x)
        PROVE  \E c \in M : c.at = a.at
    BY <1>3, <1>5, <1>6
  <2>5. ASSUME NEW c \in M, NEW d \in M, c.at = d.at PROVE c = d
    BY <1>5, <1>6, <1>7, <2>5
  <2> HIDE DEF M
  <2> QED BY <2>1, <2>2, <2>3, <2>4, <2>5 DEF BlocksInv
<1>9. m.at + size <= NPages * pageSize
  <2>1. size \in Nat /\ size <= m.len /\ NPages * pageSize \in Nat
    BY Numbers
  <2> HIDE DEF b
  <2> QED BY <1>4, <2>1
<1> QED BY <1>4, <1>7, <1>8, <1>9 DEF b

\* A block is given back.
LEMMA BlocksLose ==
    ASSUME NEW h, HeadersInv(h), PagesInv(h), NEW L, BlocksInv(h, L),
           NEW p \in Pages, NEW g, Changed(h, g, p),
           NEW m \in InUse(h.slab[p], p), NEW b \in L, b.at = m.at,
           InUse(g.slab[p], p) = InUse(h.slab[p], p) \ {m},
           g.slab[p].kind = "map" => Own(g.slab[p].shift) \subseteq g.slab[p].used
    PROVE  BlocksInv(g, L \ {b})
<1> DEFINE M == L \ {b}
<1>1. /\ \A x \in Pages : \A a \in InUse(g.slab[x], x) :
            a \in InUse(h.slab[x], x) /\ ~ (x = p /\ a = m)
      /\ \A x \in Pages : \A a \in InUse(h.slab[x], x) :
            a \in InUse(g.slab[x], x) \/ (x = p /\ a = m)
  <2>1. \A x \in Pages : x # p => InUse(g.slab[x], x) = InUse(h.slab[x], x)
    BY ChangedMemory
  <2> QED BY <2>1
<1>2. /\ \A c \in L : c \in [at : Nat, size : Nat \ {0}]
      /\ \A c \in L : \E x \in Pages : \E a \in InUse(h.slab[x], x) :
            c.at = a.at /\ c.size <= a.len
      /\ \A x \in Pages : \A a \in InUse(h.slab[x], x) : \E c \in L : c.at = a.at
      /\ \A c, d \in L : c.at = d.at => c = d
  <2>1. \A c \in L : c \in [at : Nat, size : Nat \ {0}]
    BY DEF BlocksInv
  <2> QED BY <2>1, BlockParts
<1>3. M \subseteq [at : Nat, size : Nat \ {0}]
  BY <1>2
<1>4. ASSUME NEW x \in Pages, g.slab[x].kind = "map"
      PROVE  Own(g.slab[x].shift) \subseteq g.slab[x].used
  <2>1. CASE x = p
    BY <1>4, <2>1
  <2>2. CASE x # p
    <3>1. g.slab[x] = h.slab[x]
      BY <1>4, <2>2, ChangedMemory
    <3>2. h.slab[x].kind = "map"
      BY <1>4, <3>1
    <3>3. Own(h.slab[x].shift) \subseteq h.slab[x].used
      BY <3>2, BlockParts
    <3> QED BY <3>1, <3>3
  <2> QED BY <2>1, <2>2
<1>5. ASSUME NEW c \in M
      PROVE  \E x \in Pages : \E a \in InUse(g.slab[x], x) :
                    c.at = a.at /\ c.size <= a.len
  <2>1. PICK x \in Pages : \E a \in InUse(h.slab[x], x) : c.at = a.at /\ c.size <= a.len
    BY <1>2
  <2>2. PICK a \in InUse(h.slab[x], x) : c.at = a.at /\ c.size <= a.len
    BY <2>1
  <2>3. a # m
    BY <1>2, <2>2
  <2>4. a \in InUse(g.slab[x], x)
    BY <1>1, <2>3
  <2> QED BY <2>2, <2>4
<1>6. ASSUME NEW x \in Pages, NEW a \in InUse(g.slab[x], x)
      PROVE  \E c \in M : c.at = a.at
  <2>1. a \in InUse(h.slab[x], x) /\ ~ (x = p /\ a = m)
    BY <1>1
  <2>2. a.at # m.at
    BY <2>1, Apart
  <2>3. PICK c \in L : c.at = a.at
    BY <1>2, <2>1
  <2> QED BY <2>2, <2>3
<1>7. ASSUME NEW c \in M, NEW d \in M, c.at = d.at PROVE c = d
  BY <1>2, <1>7
<1>8. BlocksInv(g, M)
  <2> HIDE DEF M
  <2> QED BY <1>3, <1>4, <1>5, <1>6, <1>7 DEF BlocksInv
<1> QED BY <1>8

-----------------------------------------------------------------------------
\* Walks and sizes

\* firstFit returns a run that is long enough.
LEMMA FirstFitResult ==
    ASSUME NEW h, HeadersInv(h), LinksInv(h), NEW n, FirstFit(h, n) # NULL
    PROVE  LET p == FirstFit(h, n)
           IN  p \in Pages /\ h.slab[p].kind = "free" /\ h.slab[p].n >= n
<1> DEFINE Eq(f) == f = [i \in 0..NPages |-> IF i = 0 THEN h.next[FreeCell]
                                            ELSE h.next[f[i - 1]]]
           cell == CHOOSE f : Eq(f)
           fits == {i \in 0..NPages : /\ \A j \in 0..i : cell[j] # FreeCell
                                      /\ h.slab[cell[i]].n >= n}
<1>1. FirstFit(h, n) = IF fits = {} THEN NULL ELSE cell[Min(fits)]
  BY DEF FirstFit
<1>2. NPages \in Nat /\ FreeCell \in Heads /\ FreeCell # NULL
  BY Numbers DEF Cells
<1>3. Eq(cell)
  <2>1. \E f : Eq(f)
    <3> DEFINE a == h.next[FreeCell]
               g == h.next
    <3>4. PICK f : IsChain(f, NPages, a, g)
      <4> HIDE DEF a, g
      <4> QED BY <1>2, ChainExists
    <3>1. \A i \in 0..NPages : f[i] = IF i = 0 THEN a ELSE g[f[i - 1]]
      BY <3>4 DEF IsChain
    <3> DEFINE e == [i \in 0..NPages |-> f[i]]
    <3>2. ASSUME NEW i \in 0..NPages PROVE e[i] = IF i = 0 THEN a ELSE g[e[i - 1]]
      <4>1. i # 0 => i - 1 \in 0..NPages
        BY <1>2
      <4> QED BY <3>1, <4>1
    <3>3. Eq(e)
      BY <3>2
    <3> QED BY <3>3
  <2> HIDE DEF Eq
  <2> QED BY <2>1
<1>4. \A i \in 0..NPages :
        cell[i] = IF i = 0 THEN h.next[FreeCell] ELSE h.next[cell[i - 1]]
  <2> HIDE DEF cell
  <2> QED BY <1>3
<1> HIDE DEF cell
<1>5. fits # {} /\ FirstFit(h, n) = cell[Min(fits)]
  BY <1>1
<1>6. Min(fits) \in fits
  <2>1. fits \in SUBSET Nat
    OBVIOUS
  <2> HIDE DEF fits
  <2> QED BY <1>5, <2>1, LeastIn
<1> DEFINE T == {i \in 0..NPages : (\A j \in 0..i : cell[j] # FreeCell)
                    => cell[i] \in Pages /\ Home(h.slab[cell[i]]) = FreeCell}
<1>7. 0 \in T
  <2>1. 0 \in 0..NPages /\ 0 \in 0..0
    BY <1>2
  <2>2. h.next[FreeCell] # FreeCell =>
            h.next[FreeCell] \in Pages /\ Home(h.slab[h.next[FreeCell]]) = FreeCell
    BY <1>2, HeadCells
  <2> QED BY <1>4, <2>1, <2>2
<1>8. ASSUME NEW i \in 1..NPages, i - 1 \in T PROVE i \in T
  <2>1. /\ i \in 0..NPages /\ i # 0 /\ i \in 0..i
        /\ \A j \in 0..(i - 1) : j \in 0..i
    OBVIOUS
  <2> SUFFICES ASSUME \A j \in 0..i : cell[j] # FreeCell
               PROVE  cell[i] \in Pages /\ Home(h.slab[cell[i]]) = FreeCell
    BY <2>1
  <2> DEFINE x == cell[i - 1]
  <2>2. x \in Pages /\ Home(h.slab[x]) = FreeCell
    BY <1>8, <2>1
  <2>3. cell[i] = h.next[x] /\ cell[i] # FreeCell
    BY <1>4, <2>1
  <2> HIDE DEF x
  <2>4. h.next[x] \in Pages \cup {FreeCell}
        /\ (h.next[x] \in Pages => Home(h.slab[h.next[x]]) = FreeCell)
    BY <1>2, <2>2, OnListCells
  <2> QED BY <2>3, <2>4
<1>9. Min(fits) \in T
  <2>1. T \in SUBSET (0..NPages) /\ Min(fits) \in 0..NPages
    BY <1>6
  <2> HIDE DEF T, fits
  <2> QED BY <1>2, <1>7, <1>8, <2>1, UpTo
<1> DEFINE p == cell[Min(fits)]
<1>10. p \in Pages /\ Home(h.slab[p]) = FreeCell /\ h.slab[p].n >= n
  BY <1>6, <1>9
<1> HIDE DEF p
<1>11. h.slab[p].kind = "free"
  <2>1. h.slab[p] \in Words
    BY <1>10, HeaderParts
  <2> QED BY <1>10, <2>1, HomeFacts
<1>12. FirstFit(h, n) = p
  BY <1>5 DEF p
<1> QED BY <1>10, <1>11, <1>12

\* The chunks for a size are large enough.
LEMMA ShiftForResult ==
    ASSUME NEW size \in Nat, size < pageSize \div 2
    PROVE  ShiftFor(size) \in Shifts /\ size <= pow2[ShiftFor(size)]
<1> DEFINE S == {s \in Shifts : size <= pow2[s]}
           t == PageShift - 1
<1>1. MinShift \in Nat /\ PageShift \in Nat /\ MinShift < PageShift
  BY SlabAssumption
<1>2. t \in Shifts /\ PageShift \in 1..PageShift /\ t \in 0..PageShift
  BY <1>1 DEF Shifts
<1>3. pageSize = 2 * pow2[t] /\ pow2[t] \in Nat
  BY <1>2, PowFacts DEF pageSize
<1>4. size <= pow2[t]
  <2> HIDE DEF t
  <2>1. pageSize \div 2 = pow2[t]
    BY <1>3
  <2> QED BY <1>3, <2>1
<1>5. S # {} /\ S \in SUBSET Nat
  <2>1. t \in S
    BY <1>2, <1>4
  <2> QED BY <2>1, Numbers
<1>6. Min(S) \in S
  <2> HIDE DEF S
  <2> QED BY <1>5, LeastIn
<1> QED BY <1>6 DEF ShiftFor

\* The pages for a size are large enough, and not none.
LEMMA PagesForResult ==
    ASSUME NEW size \in Nat, size > 0
    PROVE  PagesFor(size) \in Nat /\ PagesFor(size) > 0
           /\ size <= PagesFor(size) * pageSize
<1> DEFINE d == pageSize
           q == size \div d
           r == size % d
<1>1. d \in Nat /\ d > 0
  BY Numbers
<1>2. PagesFor(size) = q + (IF r # 0 THEN 1 ELSE 0)
  BY DEF PagesFor
<1> HIDE DEF d
<1>3. q \in Nat /\ r \in 0..(d - 1) /\ size = d * q + r
  BY <1>1, DivMod
<1> HIDE DEF q, r
<1>4. CASE r = 0
  <2>1. PagesFor(size) = q
    BY <1>2, <1>3, <1>4
  <2>2. size = q * d
    BY <1>1, <1>3, <1>4
  <2>3. q # 0
    <3> SUFFICES ASSUME q = 0 PROVE FALSE
      OBVIOUS
    <3> QED BY <1>1, <1>3, <1>4
  <2>4. size <= q * d /\ q > 0
    BY <1>3, <2>2, <2>3
  <2> QED BY <1>3, <2>1, <2>4 DEF d
<1>5. CASE r # 0
  <2>1. PagesFor(size) = q + 1
    BY <1>2, <1>5
  <2>2. q * d + d = (q + 1) * d /\ q * d \in Nat
    BY <1>1, <1>3, Multiples
  <2>3. d * q = q * d
    BY <1>1, <1>3
  <2>4. size <= (q + 1) * d
    BY <1>1, <1>3, <2>2, <2>3
  <2> QED BY <1>3, <2>1, <2>4 DEF d
<1> QED BY <1>4, <1>5

-----------------------------------------------------------------------------
\* What the words that are written say is in use

\* The memory of chunk c of page p.
ChunkMem(p, s, c) == [at |-> p * pageSize + c * pow2[s], len |-> pow2[s]]

\* The chunks that are in use are different memory.
LEMMA ChunksApart ==
    ASSUME NEW p \in Pages, NEW s \in Shifts, NEW c \in Chunks(s), NEW d \in Chunks(s),
           ChunkMem(p, s, c) = ChunkMem(p, s, d)
    PROVE  c = d
<1> DEFINE a == p * pageSize + c * pow2[s]
           b == p * pageSize + d * pow2[s]
<1>1. a = b
  BY DEF ChunkMem
<1>2. a % pageSize = c * pow2[s] /\ (c * pow2[s]) \div pow2[s] = c
  BY ChunkAt
<1>3. b % pageSize = d * pow2[s] /\ (d * pow2[s]) \div pow2[s] = d
  BY ChunkAt
<1> HIDE DEF a, b
<1> QED BY <1>1, <1>2, <1>3

\* A chunk is marked or not.
LEMMA MapInUse ==
    ASSUME NEW p \in Pages, NEW s \in Shifts, NEW S \in SUBSET Chunks(s),
           NEW c \in Chunks(s), c \notin Own(s)
    PROVE  /\ c \notin S => /\ ChunkMem(p, s, c) \notin InUse(Map(s, S), p)
                            /\ InUse(Map(s, S \cup {c}), p)
                                 = InUse(Map(s, S), p) \cup {ChunkMem(p, s, c)}
           /\ c \in S => /\ ChunkMem(p, s, c) \in InUse(Map(s, S), p)
                         /\ InUse(Map(s, S \ {c}), p)
                              = InUse(Map(s, S), p) \ {ChunkMem(p, s, c)}
<1> DEFINE C(T) == {ChunkMem(p, s, d) : d \in T \ Own(s)}
<1>1. \A T \in SUBSET Chunks(s) : InUse(Map(s, T), p) = C(T)
  <2>1. ASSUME NEW T \in SUBSET Chunks(s) PROVE InUse(Map(s, T), p) = C(T)
    <3>1. Map(s, T).kind = "map" /\ Map(s, T).shift = s /\ Map(s, T).used = T
      BY DEF Map
    <3> QED BY <3>1 DEF InUse, ChunkMem
  <2> QED BY <2>1
<1>2. S \cup {c} \in SUBSET Chunks(s) /\ S \ {c} \in SUBSET Chunks(s)
  OBVIOUS
<1>3. \A d \in Chunks(s) : ChunkMem(p, s, d) = ChunkMem(p, s, c) => d = c
  BY ChunksApart
<1>4. ASSUME c \notin S
      PROVE  /\ ChunkMem(p, s, c) \notin C(S)
             /\ C(S \cup {c}) = C(S) \cup {ChunkMem(p, s, c)}
  BY <1>3, <1>4
<1>5. ASSUME c \in S
      PROVE  ChunkMem(p, s, c) \in C(S) /\ C(S \ {c}) = C(S) \ {ChunkMem(p, s, c)}
  BY <1>3, <1>5
<1> HIDE DEF C
<1> QED BY <1>1, <1>2, <1>4, <1>5

\* Words of pages, and the word of a page that was just cut.
LEMMA WordsInUse ==
    ASSUME NEW p \in Pages
    PROVE  /\ \A w : Quiet(w) => InUse(w, p) = {}
           /\ \A n \in 1..NPages :
                InUse(StartOf(n), p) = {[at |-> p * pageSize, len |-> n * pageSize]}
           /\ \A s \in Shifts :
                /\ Reserved(s) \in Chunks(s) /\ Own(s) \subseteq 0..Reserved(s)
                /\ InUse(FreshMap(s), p) = {ChunkMem(p, s, Reserved(s))}
<1>1. \A w : Quiet(w) => InUse(w, p) = {}
  BY DEF Quiet, InUse
<1>2. \A n \in 1..NPages :
        InUse(StartOf(n), p) = {[at |-> p * pageSize, len |-> n * pageSize]}
  BY DEF StartOf, InUse
<1>3. ASSUME NEW s \in Shifts
      PROVE  /\ Reserved(s) \in Chunks(s) /\ Own(s) \subseteq 0..Reserved(s)
             /\ InUse(FreshMap(s), p) = {ChunkMem(p, s, Reserved(s))}
  <2> DEFINE R == Reserved(s)
             k == pow2[PageShift - s]
  <2>1. R \in Nat /\ R + 1 < k /\ k \in Nat /\ Chunks(s) = 0..(k - 1)
    BY OwnFacts, ChunkFacts
  <2>2. Own(s) = 0..(R - 1)
    BY DEF Own
  <2>3. FreshMap(s) = Map(s, 0..R)
    BY DEF FreshMap
  <2>4. InUse(Map(s, 0..R), p) = {ChunkMem(p, s, d) : d \in (0..R) \ Own(s)}
    <3> HIDE DEF R
    <3>1. Map(s, 0..R).kind = "map" /\ Map(s, 0..R).shift = s /\ Map(s, 0..R).used = 0..R
      BY DEF Map
    <3> QED BY <3>1 DEF InUse, ChunkMem
  <2> HIDE DEF R, k
  <2>5. (0..R) \ Own(s) = {R} /\ R \in 0..(k - 1) /\ 0..(R - 1) \subseteq 0..R
    BY <2>1, <2>2
  <2>6. InUse(Map(s, 0..R), p) = {ChunkMem(p, s, R)}
    BY <2>4, <2>5
  <2> QED BY <2>1, <2>2, <2>3, <2>5, <2>6 DEF R
<1> QED BY <1>1, <1>2, <1>3

-----------------------------------------------------------------------------
\* The steps

\* What a step that hands out a block keeps and promises.
Obtained(size) ==
    /\ Inv'
    /\ \E at \in Nat :
        /\ at + size <= NPages * pageSize
        /\ live' = live \cup {[at |-> at, size |-> size]}
        /\ \A c \in live : at + size <= c.at \/ c.at + c.size <= at

\* From the headers and the memory that is added.
LEMMA GainStep ==
    ASSUME Inv, NEW p \in Pages, Changed(heap, heap', p),
           NEW m, m \notin InUse(heap.slab[p], p),
           InUse(heap'.slab[p], p) = InUse(heap.slab[p], p) \cup {m},
           heap'.slab[p].kind = "map" =>
                Own(heap'.slab[p].shift) \subseteq heap'.slab[p].used,
           NEW size \in Nat \ {0}, size <= m.len, Give(m.at, size)
    PROVE  Obtained(size)
<1>1. HeadersInv(heap) /\ PagesInv(heap) /\ BlocksInv(heap, live)
  BY DEF Inv
<1>2. live' = live \cup {[at |-> m.at, size |-> size]}
  BY DEF Give
<1>3. /\ BlocksInv(heap', live \cup {[at |-> m.at, size |-> size]})
      /\ m.at \in Nat /\ m.at + size <= NPages * pageSize
      /\ \A c \in live : m.at + size <= c.at \/ c.at + c.size <= m.at
  BY <1>1, BlocksGain
<1>4. HeadersInv(heap') /\ LinksInv(heap') /\ PagesInv(heap')
  BY DEF Changed
<1>5. BlocksInv(heap', live')
  BY <1>2, <1>3
<1>6. Inv'
  BY <1>4, <1>5 DEF Inv
<1> QED BY <1>2, <1>3, <1>6 DEF Obtained

\* Pages are handed out.
LEMMA AllocLargeStep ==
    ASSUME Inv, NEW size \in Sizes, AllocLarge(size)
    PROVE  Obtained(size)
<1> DEFINE n == PagesFor(size)
           p == FirstFit(heap, n)
           m == [at |-> p * pageSize, len |-> n * pageSize]
<1>1. HeadersInv(heap) /\ LinksInv(heap) /\ PagesInv(heap)
  BY DEF Inv
<1>2. size \in Nat \ {0}
  BY SlabAssumption
<1>3. p # NULL /\ heap' = AllocPages(heap, p, n) /\ Give(p * pageSize, size)
  BY DEF AllocLarge
<1>4. n \in Nat /\ n > 0 /\ size <= n * pageSize
  BY <1>2, PagesForResult
<1> HIDE DEF n
<1>5. p \in Pages /\ heap.slab[p].kind = "free" /\ heap.slab[p].n >= n
  BY <1>1, <1>3, FirstFitResult
<1> HIDE DEF p
<1>6. n \in 1..NPages /\ n <= heap.slab[p].n
  <2>1. heap.slab[p] \in Words
    BY <1>1, <1>5, HeaderParts
  <2>2. heap.slab[p].n \in 0..NPages
    BY <1>5, <2>1, WordParts
  <2>3. NPages \in Nat
    BY Numbers
  <2> QED BY <1>4, <1>5, <2>2, <2>3
<1>7. Changed(heap, heap', p) /\ heap'.slab[p] = StartOf(n)
  BY <1>1, <1>3, <1>4, <1>5, <1>6, AllocPagesResult
<1>8. InUse(heap.slab[p], p) = {}
  <2>1. Quiet(heap.slab[p])
    BY <1>5 DEF Quiet
  <2> QED BY <1>5, <2>1, WordsInUse
<1>9. InUse(heap'.slab[p], p) = {m}
  BY <1>5, <1>6, <1>7, WordsInUse
<1>10. heap'.slab[p].kind # "map"
  BY <1>7 DEF StartOf
<1>11. m.at = p * pageSize /\ m.len = n * pageSize
  OBVIOUS
<1> HIDE DEF m
<1>12. /\ m \notin InUse(heap.slab[p], p)
       /\ InUse(heap'.slab[p], p) = InUse(heap.slab[p], p) \cup {m}
       /\ size <= m.len /\ Give(m.at, size)
  BY <1>3, <1>4, <1>8, <1>9, <1>11
<1> QED BY <1>2, <1>5, <1>7, <1>10, <1>12, GainStep

\* A chunk of a page on the list is handed out.
LEMMA AllocChunkStep ==
    ASSUME Inv, NEW size \in Sizes, AllocChunk(size)
    PROVE  Obtained(size)
<1> DEFINE s == ShiftFor(size)
           p == heap.next[Slot(s)]
           old == heap.slab[p].used
           c == Min(Chunks(s) \ old)
           m == ChunkMem(p, s, c)
           used == old \cup {c}
<1>1. HeadersInv(heap) /\ LinksInv(heap) /\ PagesInv(heap) /\ BlocksInv(heap, live)
  BY DEF Inv
<1>2. size \in Nat \ {0}
  BY SlabAssumption
<1>3. /\ size < pageSize \div 2 /\ p # Slot(s) /\ heap' = Taken(heap, p, s, used)
      /\ Give(p * pageSize + c * pow2[s], size)
  BY DEF AllocChunk, Taken
<1>4. s \in Shifts /\ size <= pow2[s]
  BY <1>2, <1>3, ShiftForResult
<1> HIDE DEF s
<1>5. /\ p \in Pages /\ heap.slab[p].kind = "map" /\ heap.slab[p].shift = s
      /\ old \in SUBSET Chunks(s) /\ old # Chunks(s)
      /\ \A S \in SUBSET Chunks(s) :
            /\ Changed(heap, Taken(heap, p, s, S), p)
            /\ Taken(heap, p, s, S).slab[p] = Map(s, S)
  <2>1. p = heap.next[Slot(s)]
    OBVIOUS
  <2> HIDE DEF p, c
  <2> QED BY <1>1, <1>3, <1>4, <2>1, TakeChunkResult
<1>6. c \in Chunks(s) /\ c \notin old
  <2> DEFINE T == Chunks(s) \ old
  <2>1. T # {} /\ T \in SUBSET Nat
    BY <1>4, <1>5, ChunkAt
  <2>2. Min(T) \in T
    <3> HIDE DEF T
    <3> QED BY <2>1, LeastIn
  <2> QED BY <2>2
<1>8. Changed(heap, heap', p) /\ heap'.slab[p] = Map(s, used)
  <2>1. used \in SUBSET Chunks(s)
    BY <1>5, <1>6
  <2> HIDE DEF used
  <2> QED BY <1>3, <1>5, <2>1
<1>9. Own(s) \subseteq old
  BY <1>1, <1>5, BlockParts
<1>10. heap.slab[p] = Map(s, old)
  <2>1. heap.slab[p] \in Words
    BY <1>1, <1>5, HeaderParts
  <2> QED BY <1>5, <2>1, WordParts
<1>11. m.at = p * pageSize + c * pow2[s] /\ m.len = pow2[s]
  BY DEF ChunkMem
<1> HIDE DEF p, c, m
<1>12. /\ m \notin InUse(heap.slab[p], p)
       /\ InUse(heap'.slab[p], p) = InUse(heap.slab[p], p) \cup {m}
  <2>1. c \notin Own(s)
    BY <1>6, <1>9
  <2>2. /\ ChunkMem(p, s, c) \notin InUse(Map(s, old), p)
        /\ InUse(Map(s, old \cup {c}), p) = InUse(Map(s, old), p) \cup {ChunkMem(p, s, c)}
    <3> DEFINE S == old
    <3>1. S \in SUBSET Chunks(s) /\ p \in Pages /\ s \in Shifts
      BY <1>4, <1>5
    <3>2. c \in Chunks(s) /\ c \notin S
      BY <1>6
    <3> HIDE DEF S
    <3>3. /\ ChunkMem(p, s, c) \notin InUse(Map(s, S), p)
          /\ InUse(Map(s, S \cup {c}), p) = InUse(Map(s, S), p) \cup {ChunkMem(p, s, c)}
      BY ONLY <2>1, <3>1, <3>2, MapInUse
    <3> QED BY <3>3 DEF S
  <2> QED BY <1>8, <1>10, <2>2 DEF m
<1>13. heap'.slab[p].kind = "map" => Own(heap'.slab[p].shift) \subseteq heap'.slab[p].used
  <2>1. Map(s, used).shift = s /\ Map(s, used).used = used
    BY DEF Map
  <2> QED BY <1>8, <1>9, <2>1
<1>14. size <= m.len /\ Give(m.at, size)
  BY <1>3, <1>4, <1>11 DEF p, c
<1> QED BY <1>2, <1>5, <1>8, <1>12, <1>13, <1>14, GainStep

\* A page is cut, and its first chunk is handed out.
LEMMA AllocFreshStep ==
    ASSUME Inv, NEW size \in Sizes, AllocFresh(size)
    PROVE  Obtained(size)
<1> DEFINE s == ShiftFor(size)
           p == FirstFit(heap, 1)
           m == ChunkMem(p, s, Reserved(s))
           g == [AllocPages(heap, p, 1) EXCEPT
                        !.slab[p] = FreshMap(s),
                        !.next[p] = Slot(s),
                        !.prev[p] = Link(Slot(s), TypeOf(s)),
                        !.next[Slot(s)] = p]
<1>1. HeadersInv(heap) /\ LinksInv(heap) /\ PagesInv(heap)
  BY DEF Inv
<1>2. size \in Nat \ {0}
  BY SlabAssumption
<1>3. /\ size < pageSize \div 2 /\ heap.next[Slot(s)] = Slot(s) /\ p # NULL
      /\ heap' = g /\ Give(p * pageSize + Reserved(s) * pow2[s], size)
  BY DEF AllocFresh
<1>4. s \in Shifts /\ size <= pow2[s]
  BY <1>2, <1>3, ShiftForResult
<1> HIDE DEF s
<1>5. p \in Pages /\ heap.slab[p].kind = "free" /\ heap.slab[p].n >= 1
  BY <1>1, <1>3, FirstFitResult
<1> HIDE DEF p
<1>6. 1 <= heap.slab[p].n
  <2>1. heap.slab[p] \in Words
    BY <1>1, <1>5, HeaderParts
  <2>2. heap.slab[p].n \in Nat
    BY <1>5, <2>1, WordParts
  <2> QED BY <1>5, <2>2
<1>7. /\ Changed(heap, g, p) /\ g.slab[p] = FreshMap(s)
      /\ 0..Reserved(s) \in SUBSET Chunks(s)
  BY <1>1, <1>3, <1>4, <1>5, <1>6, CutResult
<1> HIDE DEF g
<1>8. InUse(heap.slab[p], p) = {}
  <2>1. Quiet(heap.slab[p])
    BY <1>5 DEF Quiet
  <2> QED BY <1>5, <2>1, WordsInUse
<1>9. InUse(heap'.slab[p], p) = {m} /\ Own(s) \subseteq 0..Reserved(s)
  BY <1>3, <1>4, <1>5, <1>7, WordsInUse
<1>10. heap'.slab[p].kind = "map" => Own(heap'.slab[p].shift) \subseteq heap'.slab[p].used
  <2>1. FreshMap(s).shift = s /\ FreshMap(s).used = 0..Reserved(s)
    BY DEF FreshMap, Map
  <2> QED BY <1>3, <1>7, <1>9, <2>1
<1>11. m.at = p * pageSize + Reserved(s) * pow2[s] /\ m.len = pow2[s]
  BY DEF ChunkMem
<1> HIDE DEF m
<1>12. /\ m \notin InUse(heap.slab[p], p)
       /\ InUse(heap'.slab[p], p) = InUse(heap.slab[p], p) \cup {m}
       /\ size <= m.len /\ Give(m.at, size) /\ Changed(heap, heap', p)
  BY <1>3, <1>4, <1>7, <1>8, <1>9, <1>11
<1> QED BY <1>2, <1>5, <1>10, <1>12, GainStep

\* A page with memory in use is the page of that memory.
LEMMA HeldBy ==
    ASSUME Inv, NEW b \in live
    PROVE  /\ PageOf(b) \in Pages /\ heap.slab[PageOf(b)] \in Words
           /\ heap.slab[PageOf(b)].kind \in {"start", "map"}
           /\ \E m \in InUse(heap.slab[PageOf(b)], PageOf(b)) : b.at = m.at
<1>1. HeadersInv(heap) /\ BlocksInv(heap, live)
  BY DEF Inv
<1>2. PICK p \in Pages : \E m \in InUse(heap.slab[p], p) : b.at = m.at
  BY <1>1, BlockParts
<1>3. PICK m \in InUse(heap.slab[p], p) : b.at = m.at
  BY <1>2
<1>4. heap.slab[p] \in Words
  BY <1>1, HeaderParts
<1>5. m.at \div pageSize = p /\ heap.slab[p].kind \in {"start", "map"}
  BY <1>4, MemoryOf
<1>6. PageOf(b) = p
  BY <1>3, <1>5 DEF PageOf
<1> QED BY <1>3, <1>4, <1>5, <1>6

\* From the headers and the memory that is taken away.
LEMMA LoseStep ==
    ASSUME Inv, NEW p \in Pages, Changed(heap, heap', p),
           NEW m \in InUse(heap.slab[p], p), NEW b \in live, b.at = m.at,
           InUse(heap'.slab[p], p) = InUse(heap.slab[p], p) \ {m},
           heap'.slab[p].kind = "map" =>
                Own(heap'.slab[p].shift) \subseteq heap'.slab[p].used,
           live' = live \ {b}
    PROVE  Inv'
<1>1. HeadersInv(heap) /\ PagesInv(heap) /\ BlocksInv(heap, live)
  BY DEF Inv
<1>2. BlocksInv(heap', live \ {b})
  BY <1>1, BlocksLose
<1>3. HeadersInv(heap') /\ LinksInv(heap') /\ PagesInv(heap')
  BY DEF Changed
<1> QED BY <1>2, <1>3 DEF Inv

\* A block of pages is given back.
LEMMA FreeLargeStep ==
    ASSUME Inv, NEW b \in live, FreeLarge(b)
    PROVE  Inv' /\ live' = live \ {b}
<1> DEFINE p == PageOf(b)
           w == heap.slab[p]
<1>1. HeadersInv(heap) /\ LinksInv(heap) /\ PagesInv(heap)
  BY DEF Inv
<1>2. p \in Pages /\ w \in Words /\ w.kind \in {"start", "map"}
  BY HeldBy
<1>3. PICK m \in InUse(w, p) : b.at = m.at
  BY HeldBy
<1>4. /\ heap.prev[p].type = "PAGE" /\ heap' = FreePages(heap, p, w.n)
      /\ live' = live \ {b}
  BY DEF FreeLarge
<1> HIDE DEF p
<1>5. w.kind = "start"
  <2>1. heap.prev[p].type = TypeFor(w)
    BY <1>1, <1>2 DEF LinksInv
  <2>2. ASSUME w.kind = "map" PROVE FALSE
    <3>1. w.shift \in Shifts
      BY <1>2, <2>2, WordParts
    <3>2. TypeOf(w.shift) # "PAGE"
      BY <3>1, TypeFacts
    <3> QED BY <1>4, <2>1, <2>2, <3>2 DEF TypeFor
  <2> QED BY <1>2, <2>2
<1>6. Changed(heap, heap', p) /\ heap'.slab[p] = FreeRun(w.n)
  BY <1>1, <1>2, <1>4, <1>5, FreeRunResult
<1>7. InUse(w, p) = {m}
  BY <1>2, <1>5, MemoryOf
<1>8. InUse(heap'.slab[p], p) = InUse(w, p) \ {m} /\ heap'.slab[p].kind # "map"
  <2>1. FreeRun(w.n).kind = "free"
    BY DEF FreeRun
  <2>2. Quiet(FreeRun(w.n))
    BY <2>1 DEF Quiet
  <2>3. InUse(FreeRun(w.n), p) = {}
    BY <1>2, <2>2, WordsInUse
  <2> QED BY <1>6, <1>7, <2>1, <2>3
<1> QED BY <1>2, <1>3, <1>4, <1>6, <1>8, LoseStep

\* A chunk is given back.
LEMMA FreeChunkStep ==
    ASSUME Inv, NEW b \in live, FreeChunk(b)
    PROVE  Inv' /\ live' = live \ {b}
<1> DEFINE p == PageOf(b)
           w == heap.slab[p]
           s == w.shift
           c == ChunkOf(b)
           used == w.used \ {c}
           h == [Relist(heap, p, s) EXCEPT !.slab[p] = Map(s, used)]
           free == heap.prev[p].type # "SMALL" /\ used = {}
<1>1. HeadersInv(heap) /\ LinksInv(heap) /\ PagesInv(heap) /\ BlocksInv(heap, live)
  BY DEF Inv
<1>2. p \in Pages /\ w \in Words /\ w.kind \in {"start", "map"}
  BY HeldBy
<1>3. PICK m \in InUse(w, p) : b.at = m.at
  BY HeldBy
<1>4. /\ heap.prev[p].type # "PAGE" /\ c \in w.used
      /\ heap' = IF free THEN FreePages(h, p, 1) ELSE h
      /\ live' = live \ {b}
  BY DEF FreeChunk
<1>5. heap.prev[p].type = TypeFor(w)
  BY <1>1, <1>2 DEF LinksInv
<1>6. w.kind = "map"
  BY <1>2, <1>4, <1>5 DEF TypeFor
<1>7. /\ s \in Shifts /\ m = ChunkMem(p, s, c) /\ c \in Chunks(s) /\ c \notin Own(s)
  <2>1. /\ s \in Shifts /\ m = [at |-> m.at, len |-> m.len]
        /\ \E d \in w.used \ Own(s) :
                /\ d \in Chunks(s)
                /\ m.at = p * pageSize + d * pow2[s] /\ m.len = pow2[s]
                /\ (m.at % pageSize) \div pow2[s] = d
    BY <1>2, <1>6, MemoryOf
  <2>2. PICK d \in w.used \ Own(s) :
                /\ d \in Chunks(s)
                /\ m.at = p * pageSize + d * pow2[s] /\ m.len = pow2[s]
                /\ (m.at % pageSize) \div pow2[s] = d
    BY <2>1
  <2>3. c = d
    BY <1>3, <2>2 DEF ChunkOf
  <2> QED BY <2>1, <2>2, <2>3 DEF ChunkMem
<1>8. /\ used \in SUBSET Chunks(s)
      /\ Changed(heap, h, p) /\ h.slab[p] = Map(s, used)
      /\ Changed(heap, FreePages(h, p, 1), p) /\ FreePages(h, p, 1).slab[p] = FreeRun(1)
  <2>1. ChunkGiven(heap, p, c)
    <3> HIDE DEF p, c
    <3> QED BY <1>1, <1>2, <1>4, <1>6, GiveChunkResult
  <2> HIDE DEF p, c
  <2> QED BY <2>1 DEF ChunkGiven
<1>9. w = Map(s, w.used) /\ w.used \in SUBSET Chunks(s) /\ Own(s) \subseteq w.used
  <2>1. w = Map(s, w.used) /\ w.used \in SUBSET Chunks(s)
    BY <1>2, <1>6, WordParts
  <2> QED BY <1>1, <1>2, <1>6, <2>1, BlockParts
<1> HIDE DEF h, p, s, c
<1>10. InUse(Map(s, used), p) = InUse(w, p) \ {m}
  <2> DEFINE S == w.used
  <2>1. S \in SUBSET Chunks(s) /\ c \in S /\ w = Map(s, S)
    BY <1>4, <1>9
  <2> HIDE DEF S
  <2>2. InUse(Map(s, S \ {c}), p) = InUse(Map(s, S), p) \ {ChunkMem(p, s, c)}
    BY ONLY <1>2, <1>7, <2>1, MapInUse
  <2> QED BY <1>7, <2>1, <2>2 DEF S
<1>11. CASE free
  <2>1. heap'.slab[p] = FreeRun(1) /\ Changed(heap, heap', p)
    BY <1>4, <1>8, <1>11
  <2>2. FreeRun(1).kind = "free"
    BY DEF FreeRun
  <2>3. InUse(FreeRun(1), p) = {}
    <3>1. Quiet(FreeRun(1))
      BY <2>2 DEF Quiet
    <3> QED BY <1>2, <3>1, WordsInUse
  <2>4. InUse(Map(s, used), p) = {}
    <3>1. Map(s, used).kind = "map" /\ Map(s, used).used = used
      BY DEF Map
    <3> QED BY <1>11, <3>1 DEF InUse
  <2>5. InUse(heap'.slab[p], p) = InUse(w, p) \ {m} /\ heap'.slab[p].kind # "map"
    BY <1>10, <2>1, <2>2, <2>3, <2>4
  <2> QED BY <1>2, <1>3, <1>4, <2>1, <2>5, LoseStep
<1>12. CASE ~free
  <2>1. heap'.slab[p] = Map(s, used) /\ Changed(heap, heap', p)
    BY <1>4, <1>8, <1>12
  <2>2. Map(s, used).shift = s /\ Map(s, used).used = used
    BY DEF Map
  <2>3. Own(s) \subseteq used
    BY <1>7, <1>9
  <2>4. /\ InUse(heap'.slab[p], p) = InUse(w, p) \ {m}
        /\ Own(heap'.slab[p].shift) \subseteq heap'.slab[p].used
    BY <1>10, <2>1, <2>2, <2>3
  <2> QED BY <1>2, <1>3, <1>4, <2>1, <2>4, LoseStep
<1> QED BY <1>11, <1>12

\* One free run, and empty lists.
LEMMA InitEstablishes ==
    Init => Inv
<1> SUFFICES ASSUME Init PROVE Inv
  OBVIOUS
<1> DEFINE slab == [p \in Pages |-> FreeRun(IF p = 0 THEN NPages ELSE 0)]
           next == [x \in Cells |-> CASE x = FreeCell -> 0
                                      [] x = 0 -> FreeCell
                                      [] x \in Pages \ {0} -> NULL
                                      [] OTHER -> x]
           prev == [x \in Cells |-> Link(IF x = 0 THEN FreeCell ELSE NULL, "PAGE")]
<1>1. heap = [slab |-> slab, next |-> next, prev |-> prev] /\ live = {}
  BY DEF Init
<1>2. /\ 0 \in Pages /\ FreeCell \in Cells /\ FreeCell \notin Pages /\ NULL \notin Cells
      /\ FreeCell # 0 /\ \A p \in Pages : p \in Cells
      /\ \A head \in Heads : head \in Cells /\ head \notin Pages
      /\ FreeCell \in Heads
      /\ \A x \in Cells : x \in Pages \/ x \in Heads
  BY Numbers DEF Cells
<1>3. /\ next[FreeCell] = 0 /\ next[0] = FreeCell
      /\ \A x \in Pages \ {0} : next[x] = NULL
      /\ \A x \in Heads \ {FreeCell} : next[x] = x
  <2>1. next[FreeCell] = 0
    BY <1>2
  <2>2. next[0] = FreeCell
    BY <1>2
  <2>3. ASSUME NEW x \in Pages \ {0} PROVE next[x] = NULL
    BY <1>2
  <2>4. ASSUME NEW x \in Heads \ {FreeCell} PROVE next[x] = x
    BY <1>2
  <2> QED BY <2>1, <2>2, <2>3, <2>4
<1>4. next \in [Cells -> Cells \cup {NULL}]
  <2>1. ASSUME NEW x \in Cells PROVE next[x] \in Cells \cup {NULL}
    <3>1. x = FreeCell \/ x = 0 \/ x \in Pages \ {0} \/ x \in Heads \ {FreeCell}
      BY <1>2
    <3> HIDE DEF next
    <3> QED BY <1>2, <1>3, <3>1
  <2>2. next = [x \in Cells |-> next[x]]
    OBVIOUS
  <2> HIDE DEF next
  <2> QED BY <2>1, <2>2
<1>5. /\ \A p \in Pages : slab[p] = IF p = 0 THEN FreeRun(NPages) ELSE FreeRun(0)
      /\ slab \in [Pages -> Words]
  <2>1. FreeRun(NPages) \in Words /\ FreeRun(0) \in Words
    BY WordsMade, Numbers
  <2> QED BY <2>1
<1>6. /\ prev \in [Cells -> Links]
      /\ \A x \in Cells : /\ prev[x].to = IF x = 0 THEN FreeCell ELSE NULL
                          /\ prev[x].type = "PAGE"
  <2>1. /\ Link(FreeCell, "PAGE") \in Links /\ Link(NULL, "PAGE") \in Links
        /\ Link(FreeCell, "PAGE").to = FreeCell /\ Link(FreeCell, "PAGE").type = "PAGE"
        /\ Link(NULL, "PAGE").to = NULL /\ Link(NULL, "PAGE").type = "PAGE"
    BY <1>2, LinksMade
  <2>2. \A x \in Cells :
            prev[x] = IF x = 0 THEN Link(FreeCell, "PAGE") ELSE Link(NULL, "PAGE")
    OBVIOUS
  <2>3. prev = [x \in Cells |-> prev[x]]
    OBVIOUS
  <2> HIDE DEF prev
  <2> QED BY <2>1, <2>2, <2>3
<1> HIDE DEF slab, next, prev
<1>7. heap.slab = slab /\ heap.next = next /\ heap.prev = prev
  BY <1>1
<1>8. HeadersInv(heap)
  BY <1>1, <1>4, <1>5, <1>6 DEF HeadersInv
<1>9. \A p \in Pages : /\ Home(heap.slab[p]) = IF p = 0 THEN FreeCell ELSE NULL
                       /\ TypeFor(heap.slab[p]) = "PAGE"
                       /\ Extent(heap.slab[p], p) = IF p = 0 THEN Pages ELSE {}
                       /\ InUse(heap.slab[p], p) = {} /\ heap.slab[p].kind = "free"
  <2>1. NPages \in 0..NPages /\ 0 \in 0..NPages /\ NPages > 0
    BY Numbers
  <2>2. /\ Home(FreeRun(NPages)) = FreeCell /\ TypeFor(FreeRun(NPages)) = "PAGE"
        /\ FreeRun(NPages).kind = "free" /\ FreeRun(NPages).n = NPages
    BY <2>1, WordsMade
  <2>3. /\ Home(FreeRun(0)) = NULL /\ TypeFor(FreeRun(0)) = "PAGE"
        /\ FreeRun(0).kind = "free" /\ FreeRun(0).n = 0
    BY <2>1, WordsMade
  <2>4. Extent(FreeRun(NPages), 0) = Pages
    <3>1. 0 + NPages - 1 = NPages - 1
      BY Numbers
    <3> QED BY <2>2, <3>1 DEF Extent, Pages
  <2>5. \A p \in Pages : Extent(FreeRun(0), p) = {}
    <3>1. ASSUME NEW p \in Pages PROVE Extent(FreeRun(0), p) = {}
      <4>1. p \in Nat
        BY Numbers
      <4>2. p..(p + 0 - 1) = {}
        BY <4>1
      <4> QED BY <2>3, <4>2 DEF Extent
    <3> QED BY <3>1
  <2>6. \A p \in Pages : InUse(FreeRun(0), p) = {} /\ InUse(FreeRun(NPages), p) = {}
    <3>1. Quiet(FreeRun(0)) /\ Quiet(FreeRun(NPages))
      BY <2>2, <2>3 DEF Quiet
    <3> QED BY <3>1, WordsInUse
  <2> QED BY <1>5, <1>7, <2>2, <2>3, <2>4, <2>5, <2>6
<1>10. LinksInv(heap)
  <2> DEFINE back == Backs(heap)
             home == Homes(heap)
  <2>1. /\ \A x \in Cells : back[x] = IF x = 0 THEN FreeCell ELSE NULL
        /\ \A x \in Pages : home[x] = IF x = 0 THEN FreeCell ELSE NULL
    BY <1>2, <1>6, <1>7, <1>8, <1>9, ListsOf
  <2> HIDE DEF back, home
  <2>2. Linked(next, back, home)
    <3>1. \A p \in Pages :
            IF home[p] = NULL THEN next[p] = NULL /\ back[p] = NULL
            ELSE /\ home[p] \in Heads /\ next[p] \in Pages \cup {home[p]}
                 /\ back[p] \in Pages \cup {home[p]} /\ next[back[p]] = p
      BY <1>2, <1>3, <2>1
    <3>2. \A head \in Heads : next[head] \in Pages \cup {head}
      BY <1>2, <1>3
    <3>3. ASSUME NEW x \in Cells, next[x] \in Pages
          PROVE  /\ back[next[x]] = x
                 /\ home[next[x]] = IF x \in Pages THEN home[x] ELSE x
      <4>1. x = FreeCell /\ next[x] = 0
        BY <1>2, <1>3, <3>3
      <4> QED BY <1>2, <2>1, <4>1
    <3>4. ASSUME NEW T \in SUBSET Pages, T # {}
          PROVE  \E p \in T : back[p] \notin T
      BY <1>2, <2>1, <3>4
    <3> QED BY <3>1, <3>2, <3>3, <3>4 DEF Linked
  <2>3. \A p \in Pages : heap.prev[p].type = TypeFor(heap.slab[p])
    BY <1>2, <1>6, <1>7, <1>9
  <2> QED BY <1>7, <2>2, <2>3 DEF LinksInv, back, home
<1>11. PagesInv(heap)
  BY <1>2, <1>9 DEF PagesInv
<1>12. BlocksInv(heap, live)
  BY <1>1, <1>9 DEF BlocksInv
<1> QED BY <1>8, <1>10, <1>11, <1>12 DEF Inv

\* Every step keeps the invariant.
LEMMA NextKeeps ==
    Inv /\ [Next]_vars => Inv'
<1> SUFFICES ASSUME Inv, [Next]_vars PROVE Inv'
  OBVIOUS
<1>1. ASSUME UNCHANGED vars PROVE Inv'
  BY <1>1 DEF vars, Inv
<1>2. ASSUME NEW size \in Sizes, AllocLarge(size) PROVE Inv'
  BY <1>2, AllocLargeStep DEF Obtained
<1>3. ASSUME NEW size \in Sizes, AllocChunk(size) PROVE Inv'
  BY <1>3, AllocChunkStep DEF Obtained
<1>4. ASSUME NEW size \in Sizes, AllocFresh(size) PROVE Inv'
  BY <1>4, AllocFreshStep DEF Obtained
<1>5. ASSUME NEW size \in Sizes, AllocFails(size) PROVE Inv'
  BY <1>1, <1>5 DEF AllocFails
<1>6. ASSUME NEW b \in live, FreeLarge(b) PROVE Inv'
  BY <1>6, FreeLargeStep
<1>7. ASSUME NEW b \in live, FreeChunk(b) PROVE Inv'
  BY <1>7, FreeChunkStep
<1> QED BY <1>1, <1>2, <1>3, <1>4, <1>5, <1>6, <1>7 DEF Next, Alloc

\* The inductive invariant.  The headers are pointers and words of their kind;
\* next and prev link exactly the pages that belong to each list; the pages
\* that a header speaks for are nobody else's; and what headers and bitmaps say
\* is in use is what callers hold.
THEOREM SlabInvariant ==
    Spec => []Inv
<1> QED BY InitEstablishes, NextKeeps, PTL DEF Spec

\* The steps of the slab are steps of an allocator.
LEMMA StepImplements ==
    Inv /\ [Next]_vars => [Abstract!Next]_live
<1> SUFFICES ASSUME Inv, [Next]_vars PROVE [Abstract!Next]_live
  OBVIOUS
<1>1. ASSUME NEW size \in Sizes, Obtained(size) PROVE Abstract!Next
  <2>1. PICK at \in Nat :
            /\ at + size <= NPages * pageSize
            /\ live' = live \cup {[at |-> at, size |-> size]}
            /\ \A c \in live : at + size <= c.at \/ c.at + c.size <= at
    BY <1>1 DEF Obtained
  <2> DEFINE b == [at |-> at, size |-> size]
  <2>2. b.at = at /\ b.size = size
    OBVIOUS
  <2>3. \A c \in live : Abstract!Disjoint(b, c)
    BY <2>1 DEF Abstract!Disjoint
  <2>4. at \in 0..(NPages * pageSize - size)
    <3>1. size \in Nat /\ NPages * pageSize \in Int
      BY SlabAssumption, Numbers
    <3> DEFINE A == NPages * pageSize
    <3> HIDE DEF A
    <3>2. at \in 0..(A - size)
      BY <2>1, <3>1 DEF A
    <3> QED BY <3>2 DEF A
  <2>5. Abstract!Obtain(size)
    BY <2>1, <2>3, <2>4 DEF Abstract!Obtain
  <2> QED BY <2>5 DEF Abstract!Next
<1>2. ASSUME NEW b \in live, live' = live \ {b} PROVE Abstract!Next
  BY <1>2 DEF Abstract!Next, Abstract!GiveBack
<1>3. ASSUME UNCHANGED vars PROVE live' = live
  BY <1>3 DEF vars
<1>4. ASSUME NEW size \in Sizes, Alloc(size) PROVE [Abstract!Next]_live
  <2>1. AllocLarge(size) \/ AllocChunk(size) \/ AllocFresh(size) => Abstract!Next
    BY <1>1, AllocLargeStep, AllocChunkStep, AllocFreshStep
  <2>2. AllocFails(size) => live' = live
    BY <1>3 DEF AllocFails
  <2> QED BY <1>4, <2>1, <2>2 DEF Alloc
<1>5. ASSUME NEW b \in live, FreeLarge(b) \/ FreeChunk(b) PROVE Abstract!Next
  BY <1>2, <1>5, FreeLargeStep, FreeChunkStep
<1> QED BY <1>3, <1>4, <1>5 DEF Next

\* The slab is an allocator: what alloc returns lies in the arena and overlaps
\* nothing that is in use, for every arena, page size and pattern of calls.
THEOREM SlabImplementsAllocator ==
    Spec => ImplementsAllocator
<1>1. Init => Abstract!Init
  BY DEF Init, Abstract!Init
<1>2. Inv /\ [Next]_vars => [Abstract!Next]_live
  BY StepImplements
<1> QED BY <1>1, <1>2, SlabInvariant, PTL DEF Spec, ImplementsAllocator, Abstract!Spec

-----------------------------------------------------------------------------
\* Walks along a list

\* CellAt goes from page to page, and stays where the pages end.
LEMMA WalkSteps ==
    ASSUME Inv, NEW head \in Heads
    PROVE  LET c == CellAt(head)
           IN  \A i \in 0..NPages :
                /\ c[i] \in Cells
                /\ c[i] = IF i = 0 THEN heap.next[head]
                          ELSE IF c[i - 1] \in Pages THEN heap.next[c[i - 1]]
                          ELSE c[i - 1]
                /\ c[i] \in Pages => Home(heap.slab[c[i]]) = head
                /\ c[i] \notin Pages => c[i] = head
<1> DEFINE Eq(f) == f = [i \in 0..NPages |->
                           IF i = 0 THEN heap.next[head]
                           ELSE LET x == f[i - 1]
                                IN  IF x \in Pages THEN heap.next[x] ELSE x]
           a == heap.next[head]
           g == [x \in Cells |-> IF x \in Pages THEN heap.next[x] ELSE x]
           c == CHOOSE f : Eq(f)
           On(x) == IF x \in Pages THEN Home(heap.slab[x]) = head ELSE x = head
<1>1. CellAt(head) = c
  BY DEF CellAt
<1>2. HeadersInv(heap) /\ LinksInv(heap) /\ NPages \in Nat
  BY Numbers DEF Inv
<1>3. /\ a \in Pages \cup {head} /\ head \notin Pages /\ head \in Cells
      /\ a \in Pages => Home(heap.slab[a]) = head
      /\ \A x \in Pages : x \in Cells
  BY <1>2, HeadCells DEF Cells
<1>4. a \in Cells /\ On(a)
  BY <1>3
<1>5. ASSUME NEW x \in Cells, On(x) PROVE g[x] \in Cells /\ On(g[x])
  <2>1. CASE x \notin Pages
    BY <1>5, <2>1
  <2>2. CASE x \in Pages
    <3>1. Home(heap.slab[x]) = head /\ head # NULL
      BY <1>3, <1>5, <2>2, Numbers
    <3>2. /\ heap.next[x] \in Pages \cup {head}
          /\ heap.next[x] \in Pages => Home(heap.slab[heap.next[x]]) = head
      BY <1>2, <2>2, <3>1, OnListCells
    <3> QED BY <1>3, <2>2, <3>2
  <2> QED BY <2>1, <2>2
<1>6. \A x \in Cells : g[x] = IF x \in Pages THEN heap.next[x] ELSE x
  OBVIOUS
<1> HIDE DEF a, g, On
<1>7. ASSUME NEW f, \A i \in 0..NPages : f[i] = IF i = 0 THEN a ELSE g[f[i - 1]]
      PROVE  \A i \in 0..NPages : f[i] \in Cells /\ On(f[i])
  <2> DEFINE T == {i \in 0..NPages : f[i] \in Cells /\ On(f[i])}
  <2>1. 0 \in T
    BY <1>2, <1>4, <1>7
  <2>2. ASSUME NEW i \in 1..NPages, i - 1 \in T PROVE i \in T
    <3>1. i \in 0..NPages /\ i # 0
      OBVIOUS
    <3>2. f[i] = g[f[i - 1]]
      BY <1>7, <3>1
    <3> QED BY <1>5, <2>2, <3>1, <3>2
  <2>3. T \in SUBSET (0..NPages)
    OBVIOUS
  <2>4. \A i \in 0..NPages : i \in T
    <3> HIDE DEF T
    <3> QED BY <1>2, <2>1, <2>2, <2>3, UpTo
  <2> QED BY <2>4
<1>8. \E f : Eq(f)
  <2>1. PICK f : IsChain(f, NPages, a, g)
    BY <1>2, ChainExists
  <2>2. \A i \in 0..NPages : f[i] = IF i = 0 THEN a ELSE g[f[i - 1]]
    BY <2>1 DEF IsChain
  <2>3. \A i \in 0..NPages : f[i] \in Cells
    BY <1>7, <2>2
  <2> DEFINE e == [i \in 0..NPages |-> f[i]]
  <2>4. ASSUME NEW i \in 0..NPages
        PROVE  e[i] = IF i = 0 THEN heap.next[head]
                      ELSE LET x == e[i - 1]
                           IN  IF x \in Pages THEN heap.next[x] ELSE x
    <3>1. CASE i = 0
      BY <2>2, <3>1 DEF a
    <3>2. CASE i # 0
      <4>1. i - 1 \in 0..NPages
        BY <1>2, <3>2
      <4>2. e[i] = g[f[i - 1]] /\ e[i - 1] = f[i - 1] /\ f[i - 1] \in Cells
        BY <2>2, <2>3, <3>2, <4>1
      <4> QED BY <1>6, <3>2, <4>2
    <3> QED BY <3>1, <3>2
  <2>5. Eq(e)
    <3>1. e = [i \in 0..NPages |-> e[i]]
      OBVIOUS
    <3> HIDE DEF e
    <3> QED BY <2>4, <3>1
  <2> QED BY <2>5
<1>9. Eq(c)
  <2> HIDE DEF Eq
  <2> QED BY <1>8
<1> HIDE DEF c
<1>10. \A i \in 0..NPages : c[i] = IF i = 0 THEN heap.next[head]
                              ELSE IF c[i - 1] \in Pages THEN heap.next[c[i - 1]]
                              ELSE c[i - 1]
  BY <1>9
<1> HIDE DEF Eq
<1>11. \A i \in 0..NPages : c[i] \in Cells /\ On(c[i])
  <2> DEFINE T == {i \in 0..NPages : c[i] \in Cells /\ On(c[i])}
  <2>1. 0 \in T
    BY <1>2, <1>4, <1>10 DEF a
  <2>2. ASSUME NEW i \in 1..NPages, i - 1 \in T PROVE i \in T
    <3>1. i \in 0..NPages /\ i # 0
      OBVIOUS
    <3>2. c[i] = g[c[i - 1]]
      BY <1>6, <1>10, <2>2, <3>1
    <3> QED BY <1>5, <2>2, <3>1, <3>2
  <2>3. T \in SUBSET (0..NPages)
    OBVIOUS
  <2>4. \A i \in 0..NPages : i \in T
    <3> HIDE DEF T
    <3> QED BY <1>2, <2>1, <2>2, <2>3, UpTo
  <2> QED BY <2>4
<1> QED BY <1>1, <1>10, <1>11 DEF On

\* A walk does not come back to a page: next and prev are inverse to each other.
LEMMA WalkFresh ==
    ASSUME Inv, NEW head \in Heads, NEW i \in 0..NPages, NEW j \in 0..NPages, i < j,
           \A k \in 0..j : CellAt(head)[k] \in Pages
    PROVE  CellAt(head)[i] # CellAt(head)[j]
<1> DEFINE c == CellAt(head)
           S == {k \in 0..NPages : \E l \in 0..j : k < l /\ c[k] = c[l]}
<1>1. \A k \in 0..j : /\ k \in 0..NPages /\ c[k] \in Pages
                      /\ c[k] = IF k = 0 THEN heap.next[head]
                                ELSE IF c[k - 1] \in Pages THEN heap.next[c[k - 1]]
                                ELSE c[k - 1]
  <2>1. \A k \in 0..j : k \in 0..NPages
    BY Numbers
  <2>2. \A k \in 0..NPages :
            c[k] = IF k = 0 THEN heap.next[head]
                   ELSE IF c[k - 1] \in Pages THEN heap.next[c[k - 1]]
                   ELSE c[k - 1]
    BY WalkSteps
  <2> HIDE DEF c
  <2> QED BY <2>1, <2>2 DEF c
<1> HIDE DEF c
<1>2. /\ \A k \in 0..j : heap.prev[c[k]].to = IF k = 0 THEN head ELSE c[k - 1]
      /\ head \notin Pages
  <2>1. HeadersInv(heap) /\ LinksInv(heap) /\ head \in Cells /\ head \notin Pages
        /\ \A x \in Pages : x \in Cells
    BY Numbers DEF Inv, Cells
  <2>2. \A x \in Cells : heap.next[x] \in Pages => heap.prev[heap.next[x]].to = x
    <3>1. Linked(heap.next, Backs(heap), Homes(heap))
      BY <2>1, ListsOf
    <3>2. \A x \in Cells : heap.next[x] \in Pages => Backs(heap)[heap.next[x]] = x
      BY <3>1, ListParts
    <3> QED BY <2>1, <3>2, ListsOf
  <2>3. ASSUME NEW k \in 0..j
        PROVE  heap.prev[c[k]].to = IF k = 0 THEN head ELSE c[k - 1]
    <3>1. CASE k = 0
      BY <1>1, <2>1, <2>2, <3>1
    <3>2. CASE k # 0
      <4>1. k - 1 \in 0..j
        BY <3>2
      <4>2. c[k - 1] \in Pages /\ c[k] = heap.next[c[k - 1]] /\ c[k] \in Pages
        BY <1>1, <3>2, <4>1
      <4> QED BY <2>1, <2>2, <3>2, <4>2
    <3> QED BY <3>1, <3>2
  <2> QED BY <2>1, <2>3
<1> SUFFICES ASSUME S # {} PROVE FALSE
  <2>1. j \in 0..j
    OBVIOUS
  <2> QED BY <2>1 DEF c
<1> DEFINE k == Min(S)
<1>3. k \in S /\ \A y \in S : k <= y
  <2>1. S \in SUBSET Nat
    OBVIOUS
  <2> HIDE DEF S
  <2> QED BY <2>1, LeastIn
<1>4. PICK l \in 0..j : k < l /\ c[k] = c[l]
  BY <1>3
<1>5. k \in 0..j /\ l - 1 \in 0..j /\ l # 0 /\ j \in Nat
  BY <1>3, <1>4
<1>6. c[l - 1] = IF k = 0 THEN head ELSE c[k - 1]
  BY <1>2, <1>4, <1>5
<1> HIDE DEF k
<1>7. k # 0
  BY <1>1, <1>2, <1>5, <1>6
<1>8. k - 1 \in S
  <2>1. k - 1 \in 0..NPages /\ k - 1 < l - 1
    BY <1>1, <1>4, <1>5, <1>7
  <2> QED BY <1>5, <1>6, <1>7, <2>1
<1>9. k - 1 < k
  BY <1>5
<1> HIDE DEF S
<1> QED BY <1>3, <1>5, <1>8, <1>9

\* A list ends, and holds the pages of its head.
LEMMA WalkEnds ==
    ASSUME Inv, NEW head \in Heads
    PROVE  /\ CellAt(head)[NPages] = head
           /\ OnList(head) = {p \in Pages : Home(heap.slab[p]) = head}
<1> DEFINE c == CellAt(head)
           T == {p \in Pages : Home(heap.slab[p]) = head /\ p \notin OnList(head)}
<1>1. \A i \in 0..NPages : /\ c[i] = IF i = 0 THEN heap.next[head]
                                     ELSE IF c[i - 1] \in Pages THEN heap.next[c[i - 1]]
                                     ELSE c[i - 1]
                           /\ c[i] \in Pages => Home(heap.slab[c[i]]) = head
                           /\ c[i] \notin Pages => c[i] = head
  BY WalkSteps
<1>2. OnList(head) = {c[i] : i \in 0..NPages} \cap Pages
  BY DEF OnList
<1>3. /\ HeadersInv(heap) /\ LinksInv(heap) /\ head \in Cells /\ head \notin Pages
      /\ head # NULL /\ NPages \in Nat /\ NPages > 0
  BY Numbers DEF Inv, Cells
<1>4. \A i, j \in 0..NPages : i < j /\ (\A k \in 0..j : c[k] \in Pages) => c[i] # c[j]
  BY WalkFresh
<1> HIDE DEF c
<1>5. ASSUME c[NPages] \in Pages PROVE FALSE
  <2> DEFINE U == {i \in 0..NPages : c[NPages - i] \in Pages}
  <2>1. 0 \in U /\ U \in SUBSET (0..NPages)
    BY <1>3, <1>5
  <2>2. ASSUME NEW i \in 1..NPages, i - 1 \in U PROVE i \in U
    <3> DEFINE k == NPages - i
    <3>1. /\ k \in 0..NPages /\ k + 1 \in 0..NPages /\ k + 1 # 0 /\ (k + 1) - 1 = k
          /\ NPages - (i - 1) = k + 1 /\ i \in 0..NPages
      BY <1>3
    <3>2. c[k + 1] \in Pages
      BY <2>2, <3>1
    <3> HIDE DEF k
    <3>3. c[k] \in Pages
      BY <1>1, <3>1, <3>2
    <3> QED BY <3>1, <3>3 DEF k
  <2>3. \A i \in 0..NPages : i \in U
    <3> HIDE DEF U
    <3> QED BY <1>3, <2>1, <2>2, UpTo
  <2>4. ASSUME NEW k \in 0..NPages PROVE c[k] \in Pages
    <3>1. NPages - k \in 0..NPages /\ NPages - (NPages - k) = k
      BY <1>3
    <3> QED BY <2>3, <3>1
  <2>5. \A i, j \in 0..NPages : i < j => c[i] # c[j]
    <3>1. \A j \in 0..NPages : \A k \in 0..j : k \in 0..NPages
      BY <1>3
    <3> QED BY <1>4, <2>4, <3>1
  <2> DEFINE f == [i \in 0..NPages |-> c[i]]
             D == 0..NPages
  <2>6. f \in [D -> Pages]
    BY <2>4
  <2>7. IsFiniteSet(D) /\ Cardinality(D) = NPages + 1
    <3>1. 0 \in Int /\ NPages \in Int /\ ~ (0 > NPages) /\ NPages - 0 + 1 = NPages + 1
      BY <1>3
    <3> QED BY <3>1, FS_Interval
  <2>8. IsFiniteSet(Pages) /\ Cardinality(Pages) = NPages
    <3> DEFINE b == NPages - 1
    <3>1. 0 \in Int /\ b \in Int /\ ~ (0 > b) /\ b - 0 + 1 = NPages
      BY <1>3
    <3>2. Pages = 0..b
      BY DEF Pages
    <3> HIDE DEF b
    <3>3. IsFiniteSet(0..b) /\ Cardinality(0..b) = b - 0 + 1
      BY <3>1, FS_Interval
    <3> QED BY <3>1, <3>2, <3>3
  <2>9. \A x \in D, y \in D : x # y => f[x] # f[y]
    <3>1. \A x \in D, y \in D : x # y => x < y \/ y < x
      OBVIOUS
    <3> QED BY <2>5, <3>1
  <2>10. Cardinality(Pages) < Cardinality(D)
    BY <1>3, <2>7, <2>8
  <2> HIDE DEF f, D
  <2> QED BY <2>6, <2>7, <2>8, <2>9, <2>10, FS_PigeonHole
<1>6. c[NPages] = head
  <2>1. NPages \in 0..NPages
    BY <1>3
  <2> QED BY <1>1, <1>5, <2>1
<1>7. ASSUME T # {} PROVE FALSE
  <2>1. T \in SUBSET Pages
    OBVIOUS
  <2>2. PICK p \in T : heap.prev[p].to \notin T
    <3>1. Linked(heap.next, Backs(heap), Homes(heap))
      BY <1>3, ListsOf
    <3> HIDE DEF T
    <3>2. \E p \in T : Backs(heap)[p] \notin T
      BY <1>7, <2>1, <3>1, ListParts
    <3> QED BY <1>3, <2>1, <3>2, ListsOf
  <2> DEFINE b == heap.prev[p].to
  <2>3. /\ b \in Pages \cup {head} /\ heap.next[b] = p
        /\ b \in Pages => Home(heap.slab[b]) = head
    BY <1>3, OnListCells
  <2> HIDE DEF b
  <2>4. CASE b = head
    <3>1. c[0] = p /\ 0 \in 0..NPages
      BY <1>1, <1>3, <2>3, <2>4
    <3> QED BY <1>2, <3>1
  <2>5. CASE b \in Pages
    <3>1. b \in OnList(head)
      BY <2>2, <2>3, <2>5 DEF b
    <3>2. PICK i \in 0..NPages : c[i] = b
      BY <1>2, <3>1
    <3>3. i # NPages
      BY <1>3, <1>6, <2>5, <3>2
    <3>4. i + 1 \in 0..NPages /\ i + 1 # 0 /\ (i + 1) - 1 = i
      BY <1>3, <3>3
    <3>5. c[i + 1] = p
      BY <1>1, <2>3, <2>5, <3>2, <3>4
    <3> QED BY <1>2, <3>4, <3>5
  <2> QED BY <2>3, <2>4, <2>5
<1>8. OnList(head) = {p \in Pages : Home(heap.slab[p]) = head}
  <2>1. \A p \in OnList(head) : p \in Pages /\ Home(heap.slab[p]) = head
    BY <1>1, <1>2
  <2>2. \A p \in Pages : Home(heap.slab[p]) = head => p \in OnList(head)
    BY <1>7
  <2> QED BY <2>1, <2>2
<1> QED BY <1>6, <1>8 DEF c

-----------------------------------------------------------------------------
\* The properties

\* The words that the properties tell apart, and their heads.
LEMMA HomeIs ==
    ASSUME Inv, NEW p \in Pages
    PROVE  /\ Home(heap.slab[p]) = FreeCell <=> IsFreeRun(p)
           /\ \A s \in Shifts : Home(heap.slab[p]) = Slot(s) <=> HasRoom(p, s)
           /\ Home(heap.slab[p]) = NULL \/ Home(heap.slab[p]) = FreeCell
                \/ \E s \in Shifts : Home(heap.slab[p]) = Slot(s)
           /\ NULL # FreeCell /\ \A s \in Shifts : NULL # Slot(s)
<1> DEFINE w == heap.slab[p]
<1>1. w \in Words
  BY HeaderParts DEF Inv
<1>2. /\ Home(w) = FreeCell <=> w.kind = "free" /\ w.n > 0
      /\ \A s \in Shifts : Home(w) = Slot(s) <=>
            w.kind = "map" /\ w.shift = s /\ w.used # Chunks(s)
      /\ Home(w) = NULL \/ Home(w) \in Heads
  BY <1>1, HomeFacts
<1>3. NULL # FreeCell /\ \A s \in Shifts : NULL # Slot(s)
  BY Numbers DEF Cells
<1> HIDE DEF w
<1>4. Home(w) \in Heads => Home(w) = FreeCell \/ \E s \in Shifts : Home(w) = Slot(s)
  BY DEF Heads
<1> QED BY <1>2, <1>3, <1>4 DEF w, IsFreeRun, HasRoom, IsMap

\* Lists are exact, from the local links of the invariant.
LEMMA InvLists ==
    Inv => ListsExact
<1> SUFFICES ASSUME Inv PROVE ListsExact
  OBVIOUS
<1>1. HeadersInv(heap) /\ LinksInv(heap)
  BY DEF Inv
<1>2. \A head \in Heads : head # NULL
  BY Numbers DEF Cells
<1>3. ASSUME NEW head \in Heads
      PROVE  /\ CellAt(head)[NPages] = head
             /\ \A p \in OnList(head) : heap.next[heap.prev[p].to] = p
  <2>1. CellAt(head)[NPages] = head
        /\ OnList(head) = {p \in Pages : Home(heap.slab[p]) = head}
    BY WalkEnds
  <2>2. ASSUME NEW p \in OnList(head) PROVE heap.next[heap.prev[p].to] = p
    <3>1. p \in Pages /\ Home(heap.slab[p]) # NULL
      BY <1>2, <2>1
    <3> QED BY <1>1, <3>1, OnListCells
  <2> QED BY <2>1, <2>2
<1>4. OnList(FreeCell) = {p \in Pages : IsFreeRun(p)}
  <2>1. FreeCell \in Heads
    BY Numbers
  <2>2. OnList(FreeCell) = {p \in Pages : Home(heap.slab[p]) = FreeCell}
    BY <2>1, WalkEnds
  <2>3. \A p \in Pages : Home(heap.slab[p]) = FreeCell <=> IsFreeRun(p)
    BY HomeIs
  <2> QED BY <2>2, <2>3
<1>5. ASSUME NEW s \in Shifts PROVE OnList(Slot(s)) = {p \in Pages : HasRoom(p, s)}
  <2>1. Slot(s) \in Heads
    BY Numbers
  <2>2. OnList(Slot(s)) = {p \in Pages : Home(heap.slab[p]) = Slot(s)}
    BY <2>1, WalkEnds
  <2>3. \A p \in Pages : Home(heap.slab[p]) = Slot(s) <=> HasRoom(p, s)
    BY HomeIs
  <2> QED BY <2>2, <2>3
<1>6. ASSUME NEW p \in Pages
      PROVE  /\ heap.prev[p].type = IF IsMap(p) THEN TypeOf(heap.slab[p].shift)
                                    ELSE "PAGE"
             /\ heap.next[p] = NULL <=>
                  ~IsFreeRun(p) /\ \A s \in Shifts : ~HasRoom(p, s)
  <2>1. heap.prev[p].type = TypeFor(heap.slab[p])
    BY <1>1 DEF LinksInv
  <2>2. heap.next[p] = NULL <=> Home(heap.slab[p]) = NULL
    <3>1. CASE Home(heap.slab[p]) = NULL
      BY <1>1, <3>1, OffListCells
    <3>2. CASE Home(heap.slab[p]) # NULL
      <4>1. heap.next[p] \in Cells
        BY <1>1, <3>2, OnListCells
      <4> QED BY <3>2, <4>1, Numbers
    <3> QED BY <3>1, <3>2
  <2>3. Home(heap.slab[p]) = NULL <=>
            ~IsFreeRun(p) /\ \A s \in Shifts : ~HasRoom(p, s)
    BY HomeIs
  <2> QED BY <2>1, <2>2, <2>3 DEF TypeFor, IsMap
<1> QED BY <1>3, <1>4, <1>5, <1>6 DEF ListsExact

\* Each page is in the extent of one header.
LEMMA InvCovered ==
    Inv => PagesCovered
<1> SUFFICES ASSUME Inv, NEW p \in Pages
             PROVE  Cardinality({q \in Pages : Covers(q, p)}) = 1
  BY DEF PagesCovered
<1>1. \A q \in Pages : Covers(q, p) <=> p \in Extent(heap.slab[q], q)
  BY DEF Covers, Extent, IsMap
<1>2. /\ \E q \in Pages : p \in Extent(heap.slab[q], q)
      /\ \A q, r \in Pages :
            q # r => Extent(heap.slab[q], q) \cap Extent(heap.slab[r], r) = {}
  BY DEF Inv, PagesInv
<1>3. PICK q \in Pages : p \in Extent(heap.slab[q], q)
  BY <1>2
<1>4. {r \in Pages : Covers(r, p)} = {q}
  BY <1>1, <1>2, <1>3
<1> QED BY <1>4, FS_Singleton

\* The blocks of a page that is cut are its chunks in use.
LEMMA InvUsedMap ==
    ASSUME Inv, NEW p \in Pages, IsMap(p)
    PROVE  LET s == heap.slab[p].shift
               own == IF s < exactShift THEN 0..(Reserved(s) - 1) ELSE {}
               bitmapBytes == (pow2[PageShift - s] + 7) \div 8
           IN  /\ heap.slab[p].used = own \cup {ChunkOf(b) : b \in BlocksIn(p)}
               /\ Cardinality(heap.slab[p].used)
                    = Cardinality(own) + Cardinality(BlocksIn(p))
               /\ s < exactShift =>
                      \A b \in BlocksIn(p) : b.at % pageSize >= bitmapBytes
<1> DEFINE w == heap.slab[p]
           s == w.shift
           own == IF s < exactShift THEN 0..(Reserved(s) - 1) ELSE {}
           T == w.used \ Own(s)
           B == BlocksIn(p)
<1>1. /\ w \in Words /\ w.kind = "map" /\ s \in Shifts /\ w.used \in SUBSET Chunks(s)
      /\ Own(s) \subseteq w.used
  <2>1. w \in Words /\ w.kind = "map"
    BY HeaderParts DEF Inv, IsMap
  <2>2. s \in Shifts /\ w.used \in SUBSET Chunks(s)
    BY <2>1, WordParts
  <2> QED BY <2>1, <2>2, BlockParts DEF Inv
<1>2. own = Own(s)
  <2> DEFINE R == Reserved(s)
  <2>1. s >= exactShift => R = 0
    BY <1>1, OwnFacts
  <2>2. s < exactShift \/ s >= exactShift
    BY <1>1, Numbers
  <2>3. 0..(0 - 1) = {}
    OBVIOUS
  <2> HIDE DEF R
  <2> QED BY <2>1, <2>2, <2>3 DEF Own, R
<1>3. \A b \in B : b \in live /\ PageOf(b) = p
  BY DEF BlocksIn
<1>4. ASSUME NEW b \in B
      PROVE  /\ ChunkOf(b) \in T /\ ChunkOf(b) \in Chunks(s)
             /\ b.at = p * pageSize + ChunkOf(b) * pow2[s]
  <2>1. PICK m \in InUse(w, p) : b.at = m.at
    BY <1>3, HeldBy
  <2>2. PICK c \in w.used \ Own(s) :
            /\ c \in Chunks(s) /\ m.at = p * pageSize + c * pow2[s]
            /\ (m.at % pageSize) \div pow2[s] = c
    BY <1>1, MemoryOf
  <2>3. ChunkOf(b) = c
    BY <1>3, <2>1, <2>2 DEF ChunkOf
  <2> QED BY <2>1, <2>2, <2>3
<1>5. ASSUME NEW c \in T
      PROVE  \E b \in B : ChunkOf(b) = c
  <2> DEFINE m == ChunkMem(p, s, c)
  <2>1. m \in InUse(w, p) /\ c \in Chunks(s)
    BY <1>1 DEF InUse, ChunkMem
  <2>2. m.at = p * pageSize + c * pow2[s]
    BY DEF ChunkMem
  <2>3. PICK b \in live : b.at = m.at
    <3> HIDE DEF m
    <3> QED BY <2>1, BlockParts DEF Inv
  <2>4. /\ m.at \div pageSize = p /\ m.at % pageSize = c * pow2[s]
        /\ (c * pow2[s]) \div pow2[s] = c
    <3> HIDE DEF m
    <3> QED BY <1>1, <2>1, <2>2, ChunkAt
  <2>5. PageOf(b) = p
    BY <2>3, <2>4 DEF PageOf
  <2>6. ChunkOf(b) = c
    BY <2>3, <2>4, <2>5 DEF ChunkOf
  <2> QED BY <2>3, <2>5, <2>6 DEF BlocksIn
<1>6. w.used = own \cup {ChunkOf(b) : b \in B}
  <2>1. w.used = Own(s) \cup T
    BY <1>1
  <2>2. T = {ChunkOf(b) : b \in B}
    <3> HIDE DEF T, B
    <3> QED BY <1>4, <1>5
  <2> HIDE DEF own, T, B
  <2> QED BY <1>2, <2>1, <2>2
<1>7. Cardinality(w.used) = Cardinality(own) + Cardinality(B)
  <2>1. IsFiniteSet(w.used)
    <3>1. IsFiniteSet(Chunks(s))
      BY <1>1, ChunkFacts
    <3> QED BY <1>1, <3>1, FS_Subset
  <2>2. /\ IsFiniteSet(T)
        /\ Cardinality(T) = Cardinality(w.used) - Cardinality(w.used \cap Own(s))
    BY <2>1, FS_Difference
  <2>3. w.used \cap Own(s) = own
    BY <1>1, <1>2
  <2>4. IsFiniteSet(own) /\ Cardinality(own) \in Nat /\ Cardinality(w.used) \in Nat
    <3>1. own \in SUBSET w.used
      BY <1>1, <1>2
    <3>2. IsFiniteSet(own)
      BY <2>1, <3>1, FS_Subset
    <3> QED BY <2>1, <3>2, FS_CardinalityType
  <2> DEFINE f == [b \in B |-> ChunkOf(b)]
  <2>5. f \in [B -> T]
    BY <1>4
  <2>6. \A b, c \in B : f[b] = f[c] => b = c
    <3>1. ASSUME NEW b \in B, NEW c \in B, ChunkOf(b) = ChunkOf(c) PROVE b = c
      <4>1. b.at = c.at
        BY <1>4, <3>1
      <4> QED BY <1>3, <4>1, BlockParts DEF Inv
    <3> QED BY <3>1
  <2>7. \A t \in T : \E b \in B : f[b] = t
    BY <1>5
  <2> HIDE DEF f, T, B
  <2>8. f \in Injection(B, T) /\ f \in Surjection(B, T)
    <3>1. f \in Injection(B, T)
      BY <2>5, <2>6, Fun_IsInj
    <3>2. f \in Surjection(B, T)
      BY <2>5, <2>7, Fun_IsSurj
    <3> QED BY <3>1, <3>2
  <2>9. Cardinality(B) = Cardinality(T)
    BY <2>2, <2>8, FS_Injection
  <2>10. Cardinality(T) = Cardinality(w.used) - Cardinality(own)
    BY <2>2, <2>3
  <2> HIDE DEF own
  <2> QED BY <2>4, <2>9, <2>10
<1>8. ASSUME s < exactShift, NEW b \in B
      PROVE  b.at % pageSize >= (pow2[PageShift - s] + 7) \div 8
  <2> DEFINE c == ChunkOf(b)
             u == pow2[s]
             R == Reserved(s)
             e == (pow2[PageShift - s] + 7) \div 8
  <2>1. b.at % pageSize = c * u /\ c \in Nat /\ u \in Nat /\ u > 0
    <3>1. c \in Chunks(s) /\ b.at = p * pageSize + c * u
      BY <1>4
    <3> HIDE DEF c
    <3> QED BY <1>1, <3>1, ChunkAt DEF u
  <2>2. R \in Nat /\ e <= R * u
    BY <1>1, <1>8, OwnFacts
  <2>3. c \notin 0..(R - 1)
    BY <1>4 DEF Own
  <2>4. e \in Int
    <3>1. pow2[PageShift - s] \in Nat
      BY <1>1, ChunkFacts
    <3> QED BY <3>1
  <2> HIDE DEF c, u, R, e
  <2>5. c >= R
    BY <2>1, <2>2, <2>3
  <2>6. R * u \in Nat /\ c * u \in Nat /\ c * u >= R * u
    BY <2>1, <2>2, <2>5, Multiples
  <2>7. c * u >= e
    BY <2>2, <2>4, <2>6
  <2> QED BY <2>1, <2>7 DEF e
<1> HIDE DEF own, B
<1> QED BY <1>6, <1>7, <1>8 DEF own, B

\* The headers and bitmaps agree with the callers.
LEMMA InvUsed ==
    Inv => UsedIsLive
<1> SUFFICES ASSUME Inv, NEW p \in Pages, ~IsMap(p)
             PROVE  Cardinality(BlocksIn(p))
                        = IF heap.slab[p].kind = "start" THEN 1 ELSE 0
  BY InvUsedMap DEF UsedIsLive
<1> DEFINE w == heap.slab[p]
           B == BlocksIn(p)
<1>1. w \in Words /\ w.kind # "map" /\ HeadersInv(heap) /\ BlocksInv(heap, live)
  BY HeaderParts DEF Inv, IsMap
<1>2. \A b \in B : b \in live /\ \E m \in InUse(w, p) : b.at = m.at
  <2>1. \A b \in B : b \in live /\ PageOf(b) = p
    BY DEF BlocksIn
  <2> QED BY <2>1, HeldBy
<1>3. CASE w.kind = "start"
  <2>1. w.n \in 1..NPages
    BY <1>1, <1>3, WordParts
  <2> DEFINE m == [at |-> p * pageSize, len |-> w.n * pageSize]
  <2>2. InUse(w, p) = {m}
    BY <1>3 DEF InUse
  <2>3. m \in InUse(w, p)
    BY <2>2
  <2> HIDE DEF m, w
  <2>4. m.at \div pageSize = p
    BY <1>1, <2>3, MemoryOf
  <2>5. PICK b \in live : b.at = m.at
    BY <1>1, <2>3, BlockParts DEF w
  <2>6. b \in B
    BY <2>4, <2>5 DEF BlocksIn, PageOf
  <2>7. \A c \in B : c = b
    <3>1. \A c \in B : c \in live /\ c.at = b.at
      BY <1>2, <2>2, <2>5
    <3> QED BY <1>1, <3>1, BlockParts
  <2>8. B = {b}
    BY <2>6, <2>7
  <2> QED BY <1>3, <2>8, FS_Singleton DEF w
<1>4. CASE w.kind # "start"
  <2>1. InUse(w, p) = {}
    BY <1>1, <1>4 DEF InUse
  <2>2. B = {}
    BY <1>2, <2>1
  <2> QED BY <1>4, <2>2, FS_EmptySet
<1> QED BY <1>3, <1>4

\* allocLocked and freeLocked keep every list whole: each ends at its head, holds
\* exactly the pages with room (or the free runs), each once, and prev leads
\* back along next.
THEOREM SlabListsExact ==
    Spec => []ListsExact
<1> QED BY InvLists, SlabInvariant, PTL

\* Splitting runs, cutting pages and giving them back neither loses a page nor
\* lets two headers speak for it.
THEOREM SlabPagesCovered ==
    Spec => []PagesCovered
<1> QED BY InvCovered, SlabInvariant, PTL

\* The bitmaps and headers say in use what the callers hold, and no caller holds
\* a byte of a bitmap.
THEOREM SlabUsedIsLive ==
    Spec => []UsedIsLive
<1> QED BY InvUsed, SlabInvariant, PTL

=============================================================================
