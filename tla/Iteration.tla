------------------------------ MODULE Iteration -----------------------------
(***************************************************************************)
(* What follows from a step for all of an iteration: induction over        *)
(* numbers, stated for a set instead of a predicate, the functions that    *)
(* FoldLeft and FlattenSeq define by recursion, largest and smallest       *)
(* elements, and division with remainder.                                  *)
(***************************************************************************)
EXTENDS Integers, FiniteSets, FiniteSetsExt, Sequences, SequencesExt, TLAPS,
        NaturalsInduction, WellFoundedInduction, SequenceTheorems

\* A set that holds 0 and the successor of each of its numbers is all of Nat.
LEMMA InductiveSet ==
    ASSUME NEW T \in SUBSET Nat, 0 \in T, \A n \in T : n + 1 \in T
    PROVE  T = Nat
<1> SUFFICES ASSUME Nat \ T # {} PROVE FALSE
  OBVIOUS
<1>1. PICK m \in Nat \ T : \A y \in Nat \ T : ~ (<<y, m>> \in OpToRel(<, Nat))
  BY NatLessThanWellFounded, WFMin
<1>2. m \in Nat /\ m # 0 /\ m - 1 \in Nat /\ (m - 1) + 1 = m
  OBVIOUS
<1>3. m - 1 \in Nat \ T
  BY <1>2
<1>4. <<m - 1, m>> \in OpToRel(<, Nat)
  BY <1>2 DEF OpToRel
<1> QED BY <1>1, <1>3, <1>4

\* A nonempty set of numbers below a bound has a largest element.
LEMMA LargestIn ==
    ASSUME NEW n \in Nat, NEW S \in SUBSET (0..n), S # {}
    PROVE  Max(S) \in S /\ \A y \in S : y <= Max(S)
<1> DEFINE D == {n - y : y \in S}
<1>1. D \in SUBSET Nat /\ D # {}
  <2>1. ASSUME NEW y \in S PROVE n - y \in Nat
    <3>1. y \in 0..n
      OBVIOUS
    <3> QED BY <3>1
  <2> QED BY <2>1
<1>2. PICK d \in D : \A y \in D : ~ (<<y, d>> \in OpToRel(<, Nat))
  BY <1>1, NatLessThanWellFounded, WFMin
<1>3. PICK x \in S : d = n - x
  OBVIOUS
<1>4. ASSUME NEW y \in S PROVE x >= y
  <2>1. n - y \in D
    OBVIOUS
  <2>2. ~ (n - y < n - x)
    BY <1>1, <1>2, <1>3, <2>1 DEF OpToRel
  <2> QED BY <2>2
<1> QED BY <1>3, <1>4 DEF Max

\* A nonempty set of natural numbers has a smallest element.
LEMMA LeastIn ==
    ASSUME NEW S \in SUBSET Nat, S # {}
    PROVE  Min(S) \in S /\ \A y \in S : Min(S) <= y
<1>1. PICK x \in S : \A y \in S : ~ (<<y, x>> \in OpToRel(<, Nat))
  BY NatLessThanWellFounded, WFMin
<1>2. ASSUME NEW y \in S PROVE x <= y
  <2>1. ~ (y < x)
    BY <1>1 DEF OpToRel
  <2> QED BY <2>1
<1> QED BY <1>2 DEF Min

\* f has the recursive equation of FoldLeft, for step h from value b on over the
\* positions 1..n, and its values are in X.
IsFold(f, X, b, n, h) ==
    /\ f \in [SUBSET (1..n) -> X]
    /\ \A s \in SUBSET (1..n) :
          f[s] = IF s = {} THEN b ELSE h[<<f[s \ {Max(s)}], Max(s)>>]

\* There is a function with the equation of FoldLeft when the step keeps X.
LEMMA FoldExists ==
    ASSUME NEW X, NEW b \in X, NEW n \in Nat, NEW h \in [X \X (1..n) -> X]
    PROVE  \E f : IsFold(f, X, b, n, h)
<1> DEFINE Good(f, k) == \A s \in SUBSET (1..k) :
              f[s] = IF s = {} THEN b ELSE h[<<f[s \ {Max(s)}], Max(s)>>]
           T == {k \in Nat : k <= n => \E f \in [SUBSET (1..k) -> X] : Good(f, k)}
<1>1. 0 \in T
  <2> DEFINE f == [s \in SUBSET (1..0) |-> b]
  <2>1. f \in [SUBSET (1..0) -> X] /\ Good(f, 0)
    <3>1. 1..0 = {}
      OBVIOUS
    <3> QED BY <3>1
  <2> QED BY <2>1
<1>2. ASSUME NEW k \in T PROVE k + 1 \in T
  <2> SUFFICES ASSUME k + 1 <= n
               PROVE  \E g \in [SUBSET (1..(k + 1)) -> X] : Good(g, k + 1)
    <3>1. k + 1 \in Nat
      OBVIOUS
    <3> HIDE DEF Good
    <3> QED BY <3>1
  <2>1. PICK f \in [SUBSET (1..k) -> X] : Good(f, k)
    <3> HIDE DEF Good
    <3>1. k \in Nat /\ k <= n
      OBVIOUS
    <3> QED BY <3>1
  <2> DEFINE g == [s \in SUBSET (1..(k + 1)) |->
                      IF k + 1 \in s THEN h[<<f[s \ {k + 1}], k + 1>>] ELSE f[s]]
  <2>2. ASSUME NEW s \in SUBSET (1..(k + 1)) PROVE s \ {k + 1} \in SUBSET (1..k)
    OBVIOUS
  <2>3. g \in [SUBSET (1..(k + 1)) -> X]
    <3>1. ASSUME NEW s \in SUBSET (1..(k + 1)) PROVE g[s] \in X
      <4>1. CASE k + 1 \in s
        BY <2>2, <4>1
      <4>2. CASE k + 1 \notin s
        <5>1. s \ {k + 1} = s
          BY <4>2
        <5> QED BY <2>2, <4>2, <5>1
      <4> QED BY <4>1, <4>2
    <3> QED BY <3>1
  <2>4. ASSUME NEW s \in SUBSET (1..(k + 1))
        PROVE  g[s] = IF s = {} THEN b ELSE h[<<g[s \ {Max(s)}], Max(s)>>]
    <3>1. CASE k + 1 \in s
      <4>1. Max(s) = k + 1
        <5>1. s \in SUBSET (0..(k + 1)) /\ k + 1 \in Nat /\ s # {}
          BY <3>1
        <5>2. Max(s) \in s /\ \A y \in s : y <= Max(s)
          BY ONLY <5>1, LargestIn
        <5>3. Max(s) \in 1..(k + 1) /\ k + 1 <= Max(s)
          BY <5>2, <3>1
        <5> QED BY ONLY <5>3, k \in Nat
      <4>2. s \ {k + 1} \in SUBSET (1..(k + 1)) /\ k + 1 \notin (s \ {k + 1})
        OBVIOUS
      <4>3. g[s \ {k + 1}] = f[s \ {k + 1}]
        BY <4>2
      <4> QED BY <3>1, <4>1, <4>3
    <3>2. CASE k + 1 \notin s /\ s # {}
      <4>1. s \in SUBSET (1..k)
        BY <3>2, <2>2
      <4>2. s \in SUBSET (0..k) /\ k \in Nat
        BY <4>1
      <4>3. Max(s) \in s
        BY ONLY <3>2, <4>2, LargestIn
      <4>4. s \ {Max(s)} \in SUBSET (1..k) /\ k + 1 \notin (s \ {Max(s)})
        <5>1. \A y \in s : y # k + 1
          BY <3>2
        <5> HIDE DEF g
        <5> QED BY <4>1, <5>1
      <4>5. g[s] = f[s] /\ g[s \ {Max(s)}] = f[s \ {Max(s)}]
        BY <3>2, <4>1, <4>4
      <4> QED BY <2>1, <3>2, <4>1, <4>5
    <3>3. CASE s = {}
      <4>1. k + 1 \notin s /\ s \in SUBSET (1..k)
        BY <3>3
      <4> QED BY <2>1, <3>3, <4>1
    <3> QED BY <3>1, <3>2, <3>3
  <2>5. Good(g, k + 1)
    BY <2>4
  <2> HIDE DEF g, Good
  <2> QED BY <2>3, <2>5
<1>3. T = Nat
  <2> HIDE DEF T
  <2>1. T \in SUBSET Nat
    BY DEF T
  <2> QED BY <1>1, <1>2, <2>1, InductiveSet
<1>4. n \in T /\ n <= n
  <2> HIDE DEF T
  <2> QED BY <1>3
<1>5. \E f \in [SUBSET (1..n) -> X] : Good(f, n)
  <2> HIDE DEF Good
  <2> QED BY <1>4
<1> QED BY <1>5 DEF IsFold

\* What holds of position 0 and passes from each position to the next holds of
\* the last.
LEMMA UpTo ==
    ASSUME NEW n \in Nat, NEW T \in SUBSET (0..n), 0 \in T,
           \A i \in 1..n : i - 1 \in T => i \in T
    PROVE  \A i \in 0..n : i \in T
<1> DEFINE U == {k \in Nat : k <= n => k \in T}
<1>1. 0 \in U
  OBVIOUS
<1>2. ASSUME NEW k \in U PROVE k + 1 \in U
  <2>1. k \in Nat /\ k + 1 \in Nat /\ (k + 1) - 1 = k
    OBVIOUS
  <2>2. CASE k + 1 <= n
    <3>1. k \in T /\ k + 1 \in 1..n
      BY <2>1, <2>2
    <3> QED BY <2>1, <3>1
  <2>3. CASE ~ (k + 1 <= n)
    BY <2>1, <2>3
  <2> QED BY <2>2, <2>3
<1>3. U = Nat
  <2> HIDE DEF U
  <2>1. U \in SUBSET Nat
    BY DEF U
  <2> QED BY <1>1, <1>2, <2>1, InductiveSet
<1> QED BY <1>3

-----------------------------------------------------------------------------
\* RemoveFirst(s, e) for a sequence without duplicates: the other elements
\* remain, nothing is added, nothing appears twice, and what comes first stays
\* first.
LEMMA RemoveFirstKeeps ==
    ASSUME NEW S, NEW s \in Seq(S), NEW e,
           \A i, j \in 1..Len(s) : s[i] = s[j] => i = j
    PROVE  /\ RemoveFirst(s, e) \in Seq(S)
           /\ \A x : Contains(RemoveFirst(s, e), x) <=> Contains(s, x) /\ x # e
           /\ \A i, j \in 1..Len(RemoveFirst(s, e)) :
                  RemoveFirst(s, e)[i] = RemoveFirst(s, e)[j] => i = j
           /\ s # <<>> /\ s[1] # e =>
                  RemoveFirst(s, e) # <<>> /\ RemoveFirst(s, e)[1] = s[1]
<1> DEFINE n == Len(s)
           r == RemoveFirst(s, e)
<1>1. n \in Nat /\ \A i \in 1..n : s[i] \in S
  OBVIOUS
<1>2. CASE ~ \E i \in 1..n : s[i] = e
  <2>1. r = s
    BY <1>2 DEF RemoveFirst
  <2> QED BY <1>1, <1>2, <2>1, EmptySeq DEF Contains
<1>3. CASE \E i \in 1..n : s[i] = e
  <2> DEFINE I == {i \in 1..n : s[i] = e}
             k == Min(I)
  <2>1. k \in I
    <3>1. I \in SUBSET Nat /\ I # {}
      BY <1>3
    <3> QED BY <3>1, LeastIn
  <2>2. k \in 1..n /\ s[k] = e /\ \A i \in 1..n : s[i] = e => i = k
    BY <2>1
  <2>3. r = RemoveAt(s, k)
    BY <1>3 DEF RemoveFirst, SelectInSeq
  <2> HIDE DEF k, r, n
  <2> DEFINE a == SubSeq(s, 1, k - 1)
             z == SubSeq(s, k + 1, n)
  <2>4. /\ a \in Seq(S) /\ Len(a) = k - 1
        /\ \A i \in 1..(k - 1) : a[i] = s[i]
    BY <1>1, <2>2, SubSeqProperties
  <2>5. /\ z \in Seq(S) /\ Len(z) = n - k
        /\ \A i \in 1..(n - k) : z[i] = s[k + i]
    BY <1>1, <2>2, SubSeqProperties
  <2>6. r = a \o z
    BY <2>3 DEF RemoveAt, n
  <2> HIDE DEF a, z
  <2>7. /\ r \in Seq(S) /\ Len(r) = n - 1
        /\ \A i \in 1..(n - 1) : r[i] = IF i < k THEN s[i] ELSE s[i + 1]
    <3>1. r \in Seq(S) /\ Len(r) = n - 1
      <4>1. r \in Seq(S) /\ Len(r) = Len(a) + Len(z)
        BY <2>4, <2>5, <2>6, ConcatProperties
      <4> QED BY <1>1, <2>2, <2>4, <2>5, <4>1
    <3>2. ASSUME NEW i \in 1..(n - 1)
          PROVE  r[i] = IF i < k THEN s[i] ELSE s[i + 1]
      <4>1. i \in 1..(Len(a) + Len(z))
        BY <1>1, <2>2, <2>4, <2>5
      <4>2. r[i] = IF i <= Len(a) THEN a[i] ELSE z[i - Len(a)]
        BY <2>4, <2>5, <2>6, <4>1, ConcatProperties
      <4>3. CASE i < k
        BY <1>1, <2>2, <2>4, <4>2, <4>3
      <4>4. CASE ~ (i < k)
        <5>1. i - (k - 1) \in 1..(n - k) /\ k + (i - (k - 1)) = i + 1
          BY <1>1, <2>2, <4>4
        <5> QED BY <1>1, <2>2, <2>4, <2>5, <4>2, <4>4, <5>1
      <4> QED BY <4>3, <4>4
    <3> QED BY <3>1, <3>2
  <2>8. ASSUME NEW x PROVE Contains(r, x) <=> Contains(s, x) /\ x # e
    <3>1. ASSUME NEW i \in 1..(n - 1) PROVE Contains(s, r[i]) /\ r[i] # e
      <4>1. PICK j \in 1..n : j # k /\ r[i] = s[j]
        <5>1. CASE i < k
          BY <1>1, <2>2, <2>7, <5>1
        <5>2. CASE ~ (i < k)
          <6>1. i + 1 \in 1..n /\ i + 1 # k
            BY <1>1, <2>2, <5>2
          <6> QED BY <2>7, <5>2, <6>1
        <5> QED BY <5>1, <5>2
      <4> QED BY <2>2, <4>1 DEF Contains, n
    <3>2. ASSUME NEW j \in 1..n, s[j] # e PROVE Contains(r, s[j])
      <4>1. j # k
        BY <2>2, <3>2
      <4>2. PICK i \in 1..(n - 1) : r[i] = s[j]
        <5>1. CASE j < k
          <6>1. j \in 1..(n - 1)
            BY <1>1, <2>2, <5>1
          <6> QED BY <2>7, <5>1, <6>1
        <5>2. CASE ~ (j < k)
          <6>1. j - 1 \in 1..(n - 1) /\ ~ (j - 1 < k) /\ (j - 1) + 1 = j
            BY <1>1, <2>2, <4>1, <5>2
          <6> QED BY <2>7, <6>1
        <5> QED BY <5>1, <5>2
      <4> QED BY <2>7, <4>2 DEF Contains
    <3>3. ASSUME Contains(r, x) PROVE Contains(s, x) /\ x # e
      <4>1. PICK i \in 1..(n - 1) : r[i] = x
        BY <2>7, <3>3 DEF Contains
      <4> QED BY <3>1, <4>1
    <3>4. ASSUME Contains(s, x), x # e PROVE Contains(r, x)
      <4>1. PICK j \in 1..n : s[j] = x
        BY <3>4 DEF Contains, n
      <4> QED BY <3>2, <3>4, <4>1
    <3> QED BY <3>3, <3>4
  <2>9. ASSUME NEW i \in 1..(n - 1), NEW j \in 1..(n - 1), r[i] = r[j]
        PROVE  i = j
    <3> DEFINE p(m) == IF m < k THEN m ELSE m + 1
    <3>1. p(i) \in 1..n /\ p(j) \in 1..n /\ (p(i) = p(j) => i = j)
      BY <1>1, <2>2
    <3>2. r[i] = s[p(i)] /\ r[j] = s[p(j)]
      BY <2>7
    <3> QED BY <2>9, <3>1, <3>2 DEF n
  <2>10. ASSUME s # <<>>, s[1] # e PROVE r # <<>> /\ r[1] = s[1]
    <3>1. 1 \in 1..n /\ 1 < k /\ 1 \in 1..(n - 1)
      BY <1>1, <2>2, <2>10
    <3> QED BY <2>7, <3>1, EmptySeq
  <2> QED BY <2>7, <2>8, <2>9, <2>10 DEF r
<1> QED BY <1>2, <1>3

\* f starts with a and goes on by g.
IsChain(f, N, a, g) == \A i \in 0..N : f[i] = IF i = 0 THEN a ELSE g[f[i - 1]]

\* There is such a function.
LEMMA ChainExists ==
    ASSUME NEW N \in Nat, NEW a, NEW g
    PROVE  \E f : IsChain(f, N, a, g)
<1> DEFINE Sol(f, k) == \A i \in 0..k : f[i] = IF i = 0 THEN a ELSE g[f[i - 1]]
           T == {k \in 0..N : \E f : Sol(f, k)}
<1>1. 0 \in T
  <2> DEFINE f == [i \in {0} |-> a]
  <2>1. Sol(f, 0) /\ 0 \in 0..N
    OBVIOUS
  <2> QED BY <2>1
<1>2. ASSUME NEW k \in 1..N, k - 1 \in T PROVE k \in T
  <2>1. PICK f : Sol(f, k - 1)
    BY <1>2
  <2> DEFINE e == [i \in 0..k |-> IF i = k THEN g[f[k - 1]] ELSE f[i]]
  <2>2. k \in Nat /\ k # 0 /\ k \in 0..N
    OBVIOUS
  <2>3. ASSUME NEW i \in 0..k PROVE e[i] = IF i = 0 THEN a ELSE g[e[i - 1]]
    <3>1. CASE i = k
      <4>1. k - 1 \in 0..k /\ k - 1 # k
        BY <2>2
      <4> QED BY <2>2, <3>1, <4>1
    <3>2. CASE i # k
      <4>1. i \in 0..(k - 1) /\ (i # 0 => i - 1 \in 0..k /\ i - 1 # k)
        BY <2>2, <3>2
      <4> QED BY <2>1, <3>2, <4>1
    <3> QED BY <3>1, <3>2
  <2>4. Sol(e, k)
    <3> HIDE DEF e
    <3> QED BY <2>3
  <2> HIDE DEF e, Sol
  <2> QED BY <2>2, <2>4
<1>3. N \in T
  <2>1. T \in SUBSET (0..N) /\ N \in 0..N
    OBVIOUS
  <2> HIDE DEF T
  <2> QED BY <1>1, <1>2, <2>1, UpTo
<1>4. PICK f : Sol(f, N)
  BY <1>3
<1> QED BY <1>4 DEF IsChain

\* The same for a step that looks at the position and stays in a set.
IsAlong(f, N, X, a, g) ==
    /\ f \in [0..N -> X] /\ f[0] = a
    /\ \A i \in 1..N : f[i] = g[<<f[i - 1], i>>]

LEMMA ChainAlong ==
    ASSUME NEW N \in Nat, NEW X, NEW a \in X, NEW g \in [X \X (1..N) -> X]
    PROVE  \E f : IsAlong(f, N, X, a, g)
<1> DEFINE Sol(f, k) == /\ f \in [0..k -> X] /\ f[0] = a
                        /\ \A i \in 1..k : f[i] = g[<<f[i - 1], i>>]
           T == {k \in 0..N : \E f : Sol(f, k)}
<1>1. 0 \in T
  <2> DEFINE f == [i \in 0..0 |-> a]
  <2>1. Sol(f, 0) /\ 0 \in 0..N
    OBVIOUS
  <2> HIDE DEF f, Sol
  <2> QED BY <2>1
<1>2. ASSUME NEW k \in 1..N, k - 1 \in T PROVE k \in T
  <2>1. PICK f : Sol(f, k - 1)
    BY <1>2
  <2> DEFINE z == g[<<f[k - 1], k>>]
             e == [i \in 0..k |-> IF i = k THEN z ELSE f[i]]
  <2>2. k \in Nat /\ k # 0 /\ k \in 0..N /\ k - 1 \in 0..(k - 1)
    OBVIOUS
  <2>3. f[k - 1] \in X /\ z \in X
    BY <2>1, <2>2
  <2>4. e \in [0..k -> X] /\ e[0] = a
    <3> HIDE DEF z
    <3>1. \A i \in 0..k : i # k => i \in 0..(k - 1)
      BY <2>2
    <3> QED BY <2>1, <2>2, <2>3, <3>1
  <2>5. ASSUME NEW i \in 1..k PROVE e[i] = g[<<e[i - 1], i>>]
    <3>1. i - 1 \in 0..k /\ i - 1 # k /\ i \in 0..k
      BY <2>2
    <3>2. e[i - 1] = f[i - 1]
      BY <3>1
    <3>3. CASE i = k
      BY <3>1, <3>2, <3>3
    <3>4. CASE i # k
      <4>1. i \in 1..(k - 1)
        BY <2>2, <3>4
      <4> QED BY <2>1, <3>1, <3>2, <3>4, <4>1
    <3> QED BY <3>3, <3>4
  <2>6. Sol(e, k)
    <3> HIDE DEF e
    <3> QED BY <2>4, <2>5
  <2> HIDE DEF e, Sol
  <2> QED BY <2>2, <2>6
<1>3. N \in T
  <2>1. T \in SUBSET (0..N) /\ N \in 0..N
    OBVIOUS
  <2> HIDE DEF T
  <2> QED BY <1>1, <1>2, <2>1, UpTo
<1> QED BY <1>3 DEF IsAlong

-----------------------------------------------------------------------------
\* Numbers

\* A multiple and what remains of it.
LEMMA DivMod ==
    ASSUME NEW d \in Nat, d > 0
    PROVE  /\ \A p \in Nat : \A r \in 0..(d - 1) :
                (p * d + r) \div d = p /\ (p * d + r) % d = r
           /\ \A a \in Nat : /\ a \div d \in Nat /\ a % d \in 0..(d - 1)
                             /\ a = d * (a \div d) + (a % d)
<1>1. ASSUME NEW p \in Nat, NEW r \in 0..(d - 1)
      PROVE  (p * d + r) \div d = p /\ (p * d + r) % d = r
  BY SMT
<1>2. ASSUME NEW a \in Nat
      PROVE  a \div d \in Nat /\ a % d \in 0..(d - 1) /\ a = d * (a \div d) + (a % d)
  BY SMT
<1> QED BY <1>1, <1>2

\* Greater numbers have greater multiples.
LEMMA Multiples ==
    ASSUME NEW d \in Nat, NEW x \in Nat, NEW y \in Nat
    PROVE  /\ x * d \in Nat /\ x * d + d = (x + 1) * d
           /\ x <= y => x * d <= y * d
<1>1. ASSUME x <= y PROVE x * d <= y * d
  <2>1. y = x + (y - x) /\ y - x \in Nat
    BY <1>1
  <2>2. y * d = x * d + (y - x) * d
    BY <2>1
  <2>3. (y - x) * d \in Nat /\ x * d \in Nat
    BY <2>1
  <2> QED BY <2>2, <2>3
<1>2. x * d \in Nat /\ x * d + d = (x + 1) * d
  OBVIOUS
<1> QED BY <1>1, <1>2

-----------------------------------------------------------------------------
\* FlattenSeq

\* f joins the sequences of q from the front.
Joins(f, q) ==
    f[0] = <<>> /\ \A k \in 1..Len(q) : f[k] = f[k - 1] \o q[k]

LEMMA JoinExists ==
    ASSUME NEW S, NEW q \in Seq(Seq(S))
    PROVE  \E f \in [0..Len(q) -> Seq(S)] : Joins(f, q)
<1> DEFINE n == Len(q)
           X == Seq(S)
           g == [p \in X \X (1..n) |-> p[1] \o q[p[2]]]
<1>1. n \in Nat /\ <<>> \in X /\ \A k \in 1..n : q[k] \in X
  BY EmptySeq, LenProperties
<1>2. g \in [X \X (1..n) -> X]
  <2>1. ASSUME NEW p \in X \X (1..n) PROVE p[1] \o q[p[2]] \in X
    <3>1. p[1] \in Seq(S) /\ q[p[2]] \in Seq(S)
      BY <1>1
    <3> QED BY <3>1, ConcatProperties
  <2> HIDE DEF X, n
  <2> QED BY <2>1
<1>3. ASSUME NEW s \in X, NEW k \in 1..n PROVE g[<<s, k>>] = s \o q[k]
  OBVIOUS
<1> HIDE DEF g, n
<1>4. PICK f : IsAlong(f, n, X, <<>>, g)
  <2>1. n \in Nat /\ <<>> \in X
    BY <1>1
  <2> HIDE DEF X
  <2> QED BY ONLY <2>1, <1>2, ChainAlong
<1>5. ASSUME NEW k \in 1..n PROVE f[k] = f[k - 1] \o q[k]
  <2>1. k - 1 \in 0..n
    BY <1>1
  <2> HIDE DEF X
  <2>2. f[k - 1] \in X /\ f[k] = g[<<f[k - 1], k>>]
    BY <1>4, <2>1 DEF IsAlong
  <2> QED BY <1>3, <2>2
<1>6. f \in [0..n -> X] /\ f[0] = <<>>
  BY <1>4 DEF IsAlong
<1> QED BY <1>5, <1>6 DEF Joins, n

\* FlattenSeq ends where such a function ends.
LEMMA FlattenIs ==
    ASSUME NEW S, NEW q \in Seq(Seq(S)), NEW f \in [0..Len(q) -> Seq(S)], Joins(f, q)
    PROVE  FlattenSeq(q) = f[Len(q)] /\ FlattenSeq(q) \in Seq(S)
<1> DEFINE n == Len(q)
           Eq(e) == e = [i \in 1..n |-> IF i = 1 THEN q[i] ELSE e[i - 1] \o q[i]]
           c == CHOOSE e : Eq(e)
<1>1. /\ n \in Nat /\ (n = 0 => q = <<>>)
      /\ \A k \in 1..n : q[k] \in Seq(S) /\ f[k] = f[k - 1] \o q[k]
      /\ \A k \in 0..n : f[k] \in Seq(S)
      /\ f[0] = <<>>
  BY EmptySeq, LenProperties DEF Joins
<1>2. ASSUME 1 \in 1..n PROVE f[1] = q[1]
  <2>1. q[1] \in Seq(S) /\ f[1] = f[0] \o q[1]
    <3>1. 1 - 1 = 0
      OBVIOUS
    <3>2. q[1] \in Seq(S) /\ f[1] = f[1 - 1] \o q[1]
      BY <1>1, <1>2
    <3> QED BY <3>1, <3>2
  <2>2. <<>> \o q[1] = q[1]
    BY ONLY <2>1, ConcatEmptySeq
  <2> QED BY <1>1, <2>1, <2>2
<1>3. FlattenSeq(q) = IF n = 0 THEN q ELSE c[n]
  BY DEF FlattenSeq
<1> HIDE DEF n
<1>4. \E e : Eq(e)
  <2> DEFINE e == [i \in 1..n |-> f[i]]
  <2>1. ASSUME NEW i \in 1..n
        PROVE  e[i] = IF i = 1 THEN q[i] ELSE e[i - 1] \o q[i]
    <3>1. CASE i = 1
      BY <1>2, <3>1
    <3>2. CASE i # 1
      <4>1. i - 1 \in 1..n
        BY <1>1, <3>2
      <4> QED BY <1>1, <3>2, <4>1
    <3> QED BY <3>1, <3>2
  <2>2. Eq(e)
    BY <2>1
  <2> QED BY <2>2
<1>5. Eq(c)
  <2> HIDE DEF Eq
  <2> QED BY <1>4
<1> HIDE DEF c
<1>6. ASSUME NEW k \in 1..n PROVE c[k] = IF k = 1 THEN q[k] ELSE c[k - 1] \o q[k]
  BY ONLY <1>5
<1> DEFINE T == {k \in 0..n : k > 0 => c[k] = f[k]}
<1>7. ASSUME NEW k \in 1..n, k - 1 \in T PROVE k \in T
  <2>1. k \in 0..n /\ c[k] = IF k = 1 THEN q[k] ELSE c[k - 1] \o q[k]
    <3>1. n \in Nat
      BY <1>1
    <3>2. k \in 0..n
      BY ONLY <3>1, k \in 1..n
    <3> QED BY <1>6, <3>2
  <2>2. CASE k = 1
    BY <1>2, <2>1, <2>2
  <2>3. CASE k # 1
    <3>1. k - 1 > 0 /\ c[k - 1] = f[k - 1]
      BY <1>7, <2>3
    <3> QED BY <1>1, <2>1, <2>3, <3>1
  <2> QED BY <2>2, <2>3
<1>8. n \in T
  <2>1. T \in SUBSET (0..n) /\ n \in 0..n /\ 0 \in T
    BY <1>1
  <2> HIDE DEF T
  <2> QED BY <1>1, <1>7, <2>1, UpTo
<1>9. CASE n = 0
  BY <1>1, <1>3, <1>9, EmptySeq DEF n
<1>10. CASE n # 0
  <2>1. n > 0 /\ n \in 0..n
    BY <1>1, <1>10
  <2> QED BY <1>1, <1>3, <1>8, <1>10, <2>1 DEF n
<1> QED BY <1>9, <1>10

\* What is left of q from the front is the next sequence and what is left behind
\* it.
LEMMA FlattenFront ==
    ASSUME NEW S, NEW q \in Seq(Seq(S))
    PROVE  \E t \in [0..Len(q) -> Seq(S)] :
              /\ t[0] = FlattenSeq(q) /\ t[Len(q)] = <<>>
              /\ \A k \in 1..Len(q) : t[k - 1] = q[k] \o t[k]
<1> DEFINE n == Len(q)
           X == Seq(S)
           g == [p \in X \X (1..n) |-> q[n + 1 - p[2]] \o p[1]]
<1>1. n \in Nat /\ <<>> \in X /\ \A k \in 1..n : q[k] \in Seq(S)
  BY EmptySeq, LenProperties
<1>2. ASSUME NEW k \in 1..n PROVE n + 1 - k \in 1..n
  BY <1>1
<1>3. g \in [X \X (1..n) -> X]
  <2>1. ASSUME NEW p \in X \X (1..n) PROVE q[n + 1 - p[2]] \o p[1] \in X
    <3>1. p[1] \in Seq(S) /\ q[n + 1 - p[2]] \in Seq(S)
      BY <1>1, <1>2
    <3> QED BY <3>1, ConcatProperties
  <2> HIDE DEF X, n
  <2> QED BY <2>1
<1>4. ASSUME NEW s \in X, NEW k \in 1..n
      PROVE  g[<<s, k>>] = q[n + 1 - k] \o s
  OBVIOUS
<1> HIDE DEF g, n
<1>5. PICK b : IsAlong(b, n, X, <<>>, g)
  <2>1. n \in Nat /\ <<>> \in X
    BY <1>1
  <2> HIDE DEF X
  <2> QED BY ONLY <2>1, <1>3, ChainAlong
<1> DEFINE t == [k \in 0..n |-> b[n - k]]
<1>6. t \in [0..n -> X] /\ t[n] = <<>>
  <2>1. \A k \in 0..n : n - k \in 0..n
    BY <1>1
  <2>2. n \in 0..n /\ n - n = 0
    BY <1>1
  <2>3. b \in [0..n -> X] /\ b[0] = <<>>
    BY <1>5 DEF IsAlong
  <2> HIDE DEF X
  <2> QED BY <2>1, <2>2, <2>3
<1>7. ASSUME NEW k \in 1..n PROVE t[k - 1] = q[k] \o t[k]
  <2>1. /\ k - 1 \in 0..n /\ k \in 0..n
        /\ n - (k - 1) \in 1..n /\ n + 1 - (n - (k - 1)) = k
        /\ (n - (k - 1)) - 1 = n - k /\ n - k \in 0..n
    BY <1>1
  <2>2. t[k - 1] = b[n - (k - 1)] /\ t[k] = b[n - k]
    BY <2>1
  <2> HIDE DEF t, X
  <2>3. b[n - k] \in X
    BY <1>5, <2>1 DEF IsAlong
  <2>4. b[n - (k - 1)] = g[<<b[n - k], n - (k - 1)>>]
    BY <1>5, <2>1 DEF IsAlong
  <2> QED BY <1>4, <2>1, <2>2, <2>3, <2>4
<1> HIDE DEF t
<1>8. PICK f \in [0..n -> Seq(S)] : Joins(f, q)
  BY JoinExists DEF n
<1>9. FlattenSeq(q) = f[n]
  BY <1>8, FlattenIs DEF n
<1> DEFINE T == {k \in 0..n : f[k] \o t[k] = t[0]}
<1>10. /\ f[0] = <<>> /\ \A k \in 1..n : f[k] = f[k - 1] \o q[k]
       /\ \A k \in 0..n : f[k] \in Seq(S) /\ t[k] \in Seq(S)
  BY <1>6, <1>8 DEF Joins, n
<1>11. 0 \in T
  <2>1. 0 \in 0..n
    BY <1>1
  <2> QED BY <1>10, <2>1, ConcatEmptySeq
<1>12. ASSUME NEW k \in 1..n, k - 1 \in T PROVE k \in T
  <2>1. k \in 0..n /\ k - 1 \in 0..n
    BY <1>1
  <2> DEFINE x == f[k - 1]
             y == q[k]
             z == t[k]
  <2>2. x \in Seq(S) /\ y \in Seq(S) /\ z \in Seq(S)
    BY <1>1, <1>10, <2>1
  <2>3. f[k] = x \o y
    BY <1>10
  <2> HIDE DEF x, y, z
  <2>4. (x \o y) \o z = x \o (y \o z)
    BY ONLY <2>2, ConcatAssociative
  <2> QED BY <1>7, <1>12, <2>1, <2>3, <2>4 DEF x, y, z
<1>13. n \in T
  <2>1. T \in SUBSET (0..n) /\ n \in 0..n
    BY <1>1
  <2> HIDE DEF T
  <2> QED BY <1>1, <1>11, <1>12, <2>1, UpTo
<1>14. t[0] = FlattenSeq(q)
  <2>1. f[n] \o <<>> = f[n]
    BY <1>1, <1>10, ConcatEmptySeq
  <2> QED BY <1>6, <1>9, <1>13, <2>1
<1> QED BY <1>6, <1>7, <1>14 DEF n

\* One more sequence.
LEMMA FlattenAppend ==
    ASSUME NEW S, NEW q \in Seq(Seq(S)), NEW s \in Seq(S)
    PROVE  FlattenSeq(Append(q, s)) = FlattenSeq(q) \o s
<1> DEFINE n == Len(q)
           r == Append(q, s)
<1>1. /\ n \in Nat /\ r \in Seq(Seq(S)) /\ Len(r) = n + 1
      /\ \A k \in 1..n : r[k] = q[k]
      /\ r[n + 1] = s
  BY LenProperties, AppendProperties
<1> HIDE DEF n, r
<1>2. PICK f \in [0..(n + 1) -> Seq(S)] : Joins(f, r)
  BY <1>1, JoinExists
<1>3. FlattenSeq(r) = f[n + 1]
  BY <1>1, <1>2, FlattenIs
<1> DEFINE e == [k \in 0..n |-> f[k]]
<1>4. e \in [0..n -> Seq(S)]
  BY <1>1
<1>5. Joins(e, q)
  <2>1. 0 \in 0..n /\ f[0] = <<>>
    BY <1>1, <1>2 DEF Joins
  <2>2. ASSUME NEW k \in 1..n PROVE e[k] = e[k - 1] \o q[k]
    <3>1. k \in 0..n /\ k - 1 \in 0..n /\ k \in 1..(n + 1)
      BY <1>1
    <3>2. f[k] = f[k - 1] \o r[k]
      BY <1>1, <1>2, <3>1 DEF Joins
    <3> QED BY <1>1, <3>1, <3>2
  <2> QED BY <2>1, <2>2 DEF Joins, n
<1>6. FlattenSeq(q) = f[n]
  <2>1. FlattenSeq(q) = e[n]
    <3> HIDE DEF e
    <3> QED BY <1>4, <1>5, FlattenIs DEF n
  <2> QED BY <1>1, <2>1
<1>7. f[n + 1] = f[n] \o s
  <2>1. n + 1 \in 1..(n + 1) /\ (n + 1) - 1 = n
    <3>1. n \in Nat
      BY <1>1
    <3> QED BY ONLY <3>1
  <2> QED BY <1>1, <1>2, <2>1 DEF Joins
<1> QED BY <1>3, <1>6, <1>7 DEF r

=============================================================================
