---------------------------- MODULE LayoutProofs ----------------------------
(***************************************************************************)
(* Theorems about Layout and about the serialized form of Wire.            *)
(*                                                                         *)
(* What is written is read back piece by piece: a reader that is before    *)
(* the image of a number, a string, a message, a buffer, a pivot or a node *)
(* is behind it afterwards, with what was written as its value (the Reads  *)
(* lemmas).  The rest is about where in the file the images are.           *)
(***************************************************************************)
EXTENDS Layout, Iteration

-----------------------------------------------------------------------------
\* Numbers

\* The equation of pow.
LEMMA PowIs ==
    /\ pow[0] = 1
    /\ \A k \in 0..IntWidth : pow[k] \in Nat /\ pow[k] > 0
    /\ \A k \in 1..IntWidth : pow[k] = Base * pow[k - 1]
<1> DEFINE N == IntWidth
           X == Nat \ {0}
           g == [p \in X \X (1..N) |-> Base * p[1]]
           Eq(f) == f = [n \in 0..N |-> IF n = 0 THEN 1 ELSE Base * f[n - 1]]
           c == CHOOSE f : Eq(f)
<1>1. N \in Nat /\ Base \in Nat \ {0}
  BY WireAssumption
<1>2. g \in [X \X (1..N) -> X] /\ 1 \in X
  <2>1. ASSUME NEW p \in X \X (1..N) PROVE Base * p[1] \in X
    BY <1>1
  <2> QED BY <2>1
<1>3. ASSUME NEW x \in X, NEW k \in 1..N PROVE g[<<x, k>>] = Base * x
  OBVIOUS
<1> HIDE DEF g, N
<1>4. PICK f : IsAlong(f, N, X, 1, g)
  <2>1. N \in Nat
    BY <1>1
  <2> HIDE DEF X
  <2> QED BY ONLY <2>1, <1>2, ChainAlong
<1>5. /\ f \in [0..N -> X] /\ f[0] = 1
      /\ \A k \in 1..N : f[k] = Base * f[k - 1]
  <2>1. f \in [0..N -> X] /\ f[0] = 1 /\ \A k \in 1..N : f[k] = g[<<f[k - 1], k>>]
    BY <1>4 DEF IsAlong
  <2>2. ASSUME NEW k \in 1..N PROVE f[k] = Base * f[k - 1]
    <3>1. k - 1 \in 0..N
      BY <1>1
    <3>2. f[k - 1] \in X
      BY <2>1, <3>1
    <3> HIDE DEF X
    <3> QED BY <1>3, <2>1, <3>2
  <2> QED BY <2>1, <2>2
<1>6. \E e : Eq(e)
  <2>1. f = [n \in 0..N |-> IF n = 0 THEN 1 ELSE Base * f[n - 1]]
    <3>1. ASSUME NEW n \in 0..N
          PROVE  f[n] = IF n = 0 THEN 1 ELSE Base * f[n - 1]
      <4>1. n = 0 \/ n \in 1..N
        BY <1>1
      <4> QED BY <1>5, <4>1
    <3> QED BY <1>5, <3>1
  <2> QED BY <2>1
<1>7. Eq(c)
  <2> HIDE DEF Eq
  <2> QED BY <1>6
<1>8. pow = c
  BY DEF pow, N
<1> HIDE DEF c
<1>9. /\ 0 \in 0..N /\ \A k \in 1..N : k \in 0..N /\ k # 0 /\ k - 1 \in 0..N
  BY <1>1
<1>10. pow[0] = 1 /\ \A k \in 1..N : pow[k] = Base * pow[k - 1]
  BY <1>7, <1>8, <1>9
<1> DEFINE T == {k \in 0..N : pow[k] \in X}
<1>11. 0 \in T
  BY <1>9, <1>10
<1>12. ASSUME NEW k \in 1..N, k - 1 \in T PROVE k \in T
  <2>1. Base * pow[k - 1] \in X
    BY <1>1, <1>12
  <2> QED BY <1>9, <1>10, <2>1
<1>13. \A k \in 0..N : k \in T
  <2>1. T \in SUBSET (0..N) /\ N \in Nat
    BY <1>1
  <2> HIDE DEF T
  <2> QED BY <1>11, <1>12, <2>1, UpTo
<1> QED BY <1>10, <1>13 DEF N

\* uint32_t holds the types of messages, and strings may be empty.
LEMMA RangeFacts ==
    /\ IntRange \in Nat /\ IntRange > 3 /\ IntWidth \in Nat /\ Base \in Nat /\ Base > 0
    /\ 0 \in Byte /\ 1 \in Byte
    /\ IntRange \div 2 \in Nat /\ IntRange \div 2 > 0 /\ IntRange \div 2 < IntRange
<1>1. IntWidth \in Nat /\ IntWidth > 0 /\ Base \in Nat /\ Base > 3
  BY WireAssumption
<1>2. IntWidth \in 1..IntWidth /\ IntWidth - 1 \in 0..IntWidth
  BY <1>1
<1>3. IntRange = Base * pow[IntWidth - 1] /\ pow[IntWidth - 1] \in Nat /\ pow[IntWidth - 1] > 0
  BY <1>2, PowIs DEF IntRange
<1>4. IntRange \in Nat /\ IntRange > 3
  <2>1. \A p \in Nat : p > 0 => Base * p \in Nat /\ Base * p >= Base
    BY <1>1
  <2> QED BY <1>1, <1>3, <2>1
<1> QED BY <1>1, <1>4 DEF Byte

\* One digit more.
LEMMA DigitStep ==
    ASSUME NEW x \in Nat, NEW p \in Nat, p > 0, NEW b \in Nat, b > 0
    PROVE  x % (b * p) = (x % p) + ((x \div p) % b) * p
<1> DEFINE q == x \div p
           r == x % p
           h == q \div b
           d == q % b
<1>1. q \in Nat /\ r \in 0..(p - 1) /\ x = p * q + r
  BY DivMod
<1> HIDE DEF q, r
<1>2. h \in Nat /\ d \in 0..(b - 1) /\ q = b * h + d
  BY <1>1, DivMod
<1> HIDE DEF h, d
<1> DEFINE m == b * p
           e == d * p + r
<1>3. m \in Nat /\ m > 0
  OBVIOUS
<1>4. e \in 0..(m - 1)
  <2>1. d \in Nat /\ d + 1 \in Nat /\ d + 1 <= b
    BY <1>2
  <2>2. d * p \in Nat /\ d * p + p = (d + 1) * p /\ (d + 1) * p <= b * p
    BY <2>1, Multiples
  <2> QED BY <1>1, <1>3, <2>2
<1>5. x = h * m + e
  <2>1. p * q = p * (b * h) + p * d
    BY <1>2
  <2>2. p * (b * h) = h * (b * p) /\ p * d = d * p
    BY <1>2
  <2>3. d * p \in Nat /\ h * m \in Nat /\ r \in Nat
    BY <1>1, <1>2, <1>3
  <2> QED BY <1>1, <2>1, <2>2, <2>3
<1>6. x % m = e
  <2> HIDE DEF m, e
  <2> QED BY <1>2, <1>3, <1>4, <1>5, DivMod
<1>7. d * p \in Nat /\ r \in Nat
  BY <1>1, <1>2
<1> QED BY <1>6, <1>7 DEF q, r, d

\* The sum of a sequence of numbers, from the front.
LEMMA SumIs ==
    ASSUME NEW s \in Seq(Nat)
    PROVE  \E f \in [0..Len(s) -> Nat] :
              /\ f[0] = 0 /\ \A k \in 1..Len(s) : f[k] = f[k - 1] + s[k]
              /\ Sum(s) = f[Len(s)]
<1> DEFINE n == Len(s)
           h == [p \in Nat \X (1..n) |-> p[1] + s[p[2]]]
           Eq(F) == F = [t \in SUBSET (1..n) |->
                            IF t = {} THEN 0
                            ELSE F[t \ {Max(t)}] + s[Max(t)]]
           c == CHOOSE F : Eq(F)
<1>1. n \in Nat /\ DOMAIN s = 1..n /\ \A k \in 1..n : s[k] \in Nat
  BY LenProperties
<1>2. Sum(s) = c[1..n]
  BY <1>1 DEF Sum, FoldLeft, MapThenFoldSet
<1>3. h \in [Nat \X (1..n) -> Nat]
  <2>1. ASSUME NEW p \in Nat \X (1..n) PROVE p[1] + s[p[2]] \in Nat
    BY <1>1
  <2> QED BY <2>1
<1>4. ASSUME NEW x \in Nat, NEW k \in 1..n PROVE h[<<x, k>>] = x + s[k]
  OBVIOUS
<1> HIDE DEF h, n
<1>5. PICK F : IsFold(F, Nat, 0, n, h)
  <2>1. n \in Nat /\ 0 \in Nat
    BY <1>1
  <2> QED BY ONLY <2>1, <1>3, FoldExists
<1>6. ASSUME NEW t \in SUBSET (1..n), t # {}
      PROVE  Max(t) \in 1..n /\ t \ {Max(t)} \in SUBSET (1..n)
  <2>1. t \in SUBSET (0..n) /\ n \in Nat
    BY <1>1
  <2>2. Max(t) \in t
    BY ONLY <1>6, <2>1, LargestIn
  <2> QED BY <2>2
<1>7. \E e : Eq(e)
  <2>1. F \in [SUBSET (1..n) -> Nat] /\ F[{}] = 0
    BY <1>5 DEF IsFold
  <2>2. ASSUME NEW t \in SUBSET (1..n), t # {}
        PROVE  F[t] = F[t \ {Max(t)}] + s[Max(t)]
    <3>1. F[t] = h[<<F[t \ {Max(t)}], Max(t)>>]
      BY <1>5, <2>2 DEF IsFold
    <3>2. F[t \ {Max(t)}] \in Nat
      BY <1>6, <2>1, <2>2
    <3> QED BY <1>4, <1>6, <2>2, <3>1, <3>2
  <2>3. F = [t \in SUBSET (1..n) |-> IF t = {} THEN 0
                                     ELSE F[t \ {Max(t)}] + s[Max(t)]]
    BY <2>1, <2>2
  <2> QED BY <2>3
<1>8. Eq(c)
  <2> HIDE DEF Eq
  <2> QED BY <1>7
<1> HIDE DEF c
<1> DEFINE f == [k \in 0..n |-> c[1..k]]
<1>9. c[1..0] = 0
  <2>1. 1..0 = {} /\ {} \in SUBSET (1..n)
    OBVIOUS
  <2> QED BY <1>8, <2>1
<1>10. ASSUME NEW k \in 1..n PROVE c[1..k] = c[1..(k - 1)] + s[k]
  <2> DEFINE t == 1..k
  <2>1. k \in Nat /\ k > 0 /\ t \in SUBSET (1..n) /\ k \in t
    BY <1>1
  <2>2. Max(t) = k
    <3>1. t \in SUBSET (0..k)
      BY <2>1
    <3>2. Max(t) \in t /\ \A y \in t : y <= Max(t)
      BY ONLY <2>1, <3>1, LargestIn
    <3>3. Max(t) \in 1..k /\ k <= Max(t)
      BY <2>1, <3>2
    <3> HIDE DEF t
    <3> QED BY ONLY <2>1, <3>3
  <2>3. t \ {k} = 1..(k - 1)
    BY <2>1
  <2> HIDE DEF t
  <2>4. c[t] = c[t \ {Max(t)}] + s[Max(t)]
    BY <1>8, <2>1
  <2> QED BY <2>2, <2>3, <2>4 DEF t
<1>11. f[0] = 0 /\ \A k \in 1..n : f[k] = f[k - 1] + s[k]
  <2>1. 0 \in 0..n /\ \A k \in 1..n : k \in 0..n /\ k - 1 \in 0..n
    BY <1>1
  <2> QED BY <1>9, <1>10, <2>1
<1>12. f[n] = Sum(s)
  <2>1. n \in 0..n
    BY <1>1
  <2> QED BY <1>2, <2>1 DEF n
<1>13. f \in [0..n -> Nat]
  <2> DEFINE T == {k \in 0..n : f[k] \in Nat}
  <2> HIDE DEF f
  <2>1. 0 \in T
    BY <1>1, <1>11
  <2>2. ASSUME NEW k \in 1..n, k - 1 \in T PROVE k \in T
    <3>1. k \in 0..n /\ f[k - 1] \in Nat /\ s[k] \in Nat /\ f[k] = f[k - 1] + s[k]
      BY <1>1, <1>11, <2>2
    <3> QED BY <3>1
  <2>3. \A k \in 0..n : k \in T
    <3>1. T \in SUBSET (0..n) /\ n \in Nat
      BY <1>1
    <3> HIDE DEF T
    <3> QED BY <2>1, <2>2, <3>1, UpTo
  <2>4. \A k \in 0..n : f[k] \in Nat
    BY <2>3
  <2>5. f = [k \in 0..n |-> f[k]]
    BY DEF f
  <2> QED BY <2>4, <2>5
<1> HIDE DEF f
<1> QED BY <1>11, <1>12, <1>13 DEF n

-----------------------------------------------------------------------------
\* Reading what was written

\* A reader that has not failed.
Reader(rest, val) == [ok |-> TRUE, rest |-> rest, val |-> val]

LEMMA ReaderFields ==
    ASSUME NEW rest, NEW val
    PROVE  /\ Reader(rest, val).ok /\ Reader(rest, val).rest = rest
           /\ Reader(rest, val).val = val
           /\ \A v : [Reader(rest, val) EXCEPT !.val = v] = Reader(rest, v)
           /\ \A n, v : Took(Reader(rest, val), n, v)
                           = Reader(SubSeq(rest, n + 1, Len(rest)), v)
<1>1. /\ Reader(rest, val).ok /\ Reader(rest, val).rest = rest
      /\ Reader(rest, val).val = val
  BY DEF Reader
<1> DEFINE r == Reader(rest, val)
           P == {rest}
           V == {val}
<1>2. r \in [ok : BOOLEAN, rest : P, val : V]
  BY DEF Reader
<1>3. r.ok = TRUE /\ r.rest = rest
  BY DEF Reader
<1> HIDE DEF r, P, V
<1>4. ASSUME NEW v PROVE [r EXCEPT !.val = v] = Reader(rest, v)
  <2>1. [r EXCEPT !.val = v] = [ok |-> r.ok, rest |-> r.rest, val |-> v]
    BY <1>2
  <2> QED BY <1>3, <2>1 DEF Reader
<1>5. ASSUME NEW n, NEW v
      PROVE  Took(r, n, v) = Reader(SubSeq(rest, n + 1, Len(rest)), v)
  BY <1>3 DEF Took, Reader
<1> QED BY <1>1, <1>4, <1>5 DEF r

\* What is taken from the front and what remains.
LEMMA Halves ==
    ASSUME NEW a \in Seq(Byte), NEW b \in Seq(Byte), NEW n, n = Len(a)
    PROVE  /\ Len(a \o b) >= n /\ SubSeq(a \o b, 1, n) = a
           /\ SubSeq(a \o b, n + 1, Len(a \o b)) = b
<1> DEFINE c == a \o b
           x == SubSeq(c, 1, n)
           y == SubSeq(c, n + 1, Len(c))
           m == Len(b)
<1>1. /\ n \in Nat /\ m \in Nat /\ c \in Seq(Byte) /\ Len(c) = n + m
      /\ \A i \in 1..(n + m) : c[i] = IF i <= n THEN a[i] ELSE b[i - n]
  BY LenProperties, ConcatProperties
<1>2. \A i \in 1..(n + m) : c[i] \in Byte
  BY <1>1
<1> HIDE DEF c, m
<1>3. /\ x \in Seq(Byte) /\ Len(x) = n /\ \A i \in 1..n : x[i] = c[i]
  <2>1. \A i \in 1..n : c[i] \in Byte
    BY <1>1, <1>2
  <2>2. 1 \in Int /\ n \in Int /\ (1 <= n => n - 1 + 1 = n) /\ (~ (1 <= n) => n = 0)
    BY <1>1
  <2>3. /\ x \in Seq(Byte) /\ Len(x) = IF 1 <= n THEN n - 1 + 1 ELSE 0
        /\ \A i \in 1..(n - 1 + 1) : x[i] = c[1 + i - 1]
    BY ONLY <2>1, <2>2, SubSeqProperties
  <2>4. \A i \in 1..n : i \in 1..(n - 1 + 1) /\ 1 + i - 1 = i
    BY <1>1
  <2> QED BY <2>2, <2>3, <2>4
<1>4. /\ y \in Seq(Byte) /\ Len(y) = m /\ \A i \in 1..m : y[i] = c[n + i]
  <2>1. \A i \in (n + 1)..(n + m) : c[i] \in Byte
    BY <1>1, <1>2
  <2>2. n + 1 \in Int /\ n + m \in Int /\ Len(c) = n + m
    BY <1>1
  <2>3. /\ y \in Seq(Byte)
        /\ Len(y) = IF n + 1 <= n + m THEN (n + m) - (n + 1) + 1 ELSE 0
        /\ \A i \in 1..((n + m) - (n + 1) + 1) : y[i] = c[(n + 1) + i - 1]
    BY ONLY <2>1, <2>2, SubSeqProperties, SMTT(30)
  <2>4. /\ n + 1 <= n + m => (n + m) - (n + 1) + 1 = m
        /\ ~ (n + 1 <= n + m) => m = 0
        /\ \A i \in 1..m : i \in 1..((n + m) - (n + 1) + 1) /\ (n + 1) + i - 1 = n + i
    BY <1>1
  <2> QED BY <2>3, <2>4
<1> HIDE DEF x, y
<1>5. x = a
  <2>1. Len(a) = Len(x) /\ \A i \in 1..Len(x) : x[i] = a[i]
    <3>1. \A i \in 1..n : i \in 1..(n + m) /\ i <= n
      BY <1>1
    <3> QED BY <1>1, <1>3, <3>1
  <2> QED BY <1>3, <2>1, SeqEqual
<1>6. y = b
  <2>1. Len(b) = Len(y) /\ \A i \in 1..Len(y) : y[i] = b[i]
    <3>1. \A i \in 1..m : n + i \in 1..(n + m) /\ ~ (n + i <= n) /\ (n + i) - n = i
      BY <1>1
    <3> QED BY <1>1, <1>4, <3>1 DEF m
  <2> QED BY <1>4, <2>1, SeqEqual
<1>7. Len(c) >= n
  BY <1>1
<1> QED BY <1>5, <1>6, <1>7 DEF x, y, c

\* Byte strings are joined in any grouping.
LEMMA Regroup ==
    ASSUME NEW a \in Seq(Byte), NEW b \in Seq(Byte), NEW c \in Seq(Byte)
    PROVE  (a \o b) \o c = a \o (b \o c)
BY ConcatAssociative

\* The image of a number, and the number its digits make.
LEMMA Fixed32Facts ==
    ASSUME NEW x \in Nat
    PROVE  /\ Fixed32(x) \in Seq(Byte) /\ Len(Fixed32(x)) = IntWidth
           /\ \A i \in 1..IntWidth : Fixed32(x)[i] = (x \div pow[i - 1]) % Base
<1>1. IntWidth \in Nat /\ Base \in Nat /\ Base > 0
  BY WireAssumption
<1>2. ASSUME NEW i \in 1..IntWidth PROVE (x \div pow[i - 1]) % Base \in Byte
  <2>1. i - 1 \in 0..IntWidth
    BY <1>1
  <2>2. pow[i - 1] \in Nat /\ pow[i - 1] > 0
    BY <2>1, PowIs
  <2>3. x \div pow[i - 1] \in Nat
    BY <2>2, DivMod
  <2>4. (x \div pow[i - 1]) % Base \in 0..(Base - 1)
    BY <1>1, <2>3, DivMod
  <2> QED BY <2>4 DEF Byte
<1> DEFINE d == [i \in 1..IntWidth |-> (x \div pow[i - 1]) % Base]
<1>3. d \in [1..IntWidth -> Byte]
  BY <1>2
<1>4. \A i \in 1..IntWidth : d[i] = (x \div pow[i - 1]) % Base
  OBVIOUS
<1>5. Fixed32(x) = d
  BY DEF Fixed32
<1> HIDE DEF d
<1>6. d \in Seq(Byte) /\ Len(d) = IntWidth
  BY <1>1, <1>3
<1> QED BY <1>4, <1>5, <1>6

\* A number that was written.
LEMMA ReadsInt32 ==
    ASSUME NEW x \in 0..(IntRange - 1), NEW t \in Seq(Byte), NEW v
    PROVE  ReadInt32(Reader(Fixed32(x) \o t, v)) = Reader(t, x)
<1> DEFINE a == Fixed32(x)
           z == a \o t
           W == IntWidth
           s == [i \in 1..W |-> z[i] * pow[i - 1]]
<1>1. W \in Nat /\ x \in Nat /\ x < IntRange /\ IntRange \in Nat /\ Base \in Nat /\ Base > 0
  BY RangeFacts
<1>2. a \in Seq(Byte) /\ Len(a) = W /\ \A i \in 1..W : a[i] = (x \div pow[i - 1]) % Base
  BY <1>1, Fixed32Facts
<1> HIDE DEF a
<1>3. ASSUME NEW i \in 1..W PROVE z[i] = a[i]
  <2>1. Len(a) \in Nat /\ Len(t) \in Nat
    BY <1>2, LenProperties
  <2>2. i \in 1..(Len(a) + Len(t)) /\ i <= Len(a)
    BY <1>1, <1>2, <2>1
  <2> QED BY <1>2, <2>2, ConcatProperties
<1>4. Len(z) >= W /\ SubSeq(z, W + 1, Len(z)) = t
  BY ONLY <1>2, Halves
<1> HIDE DEF z
<1>5. \A i \in 1..W : pow[i - 1] \in Nat /\ pow[i - 1] > 0 /\ pow[i] = Base * pow[i - 1]
  <2>1. ASSUME NEW i \in 1..W
        PROVE  pow[i - 1] \in Nat /\ pow[i - 1] > 0 /\ pow[i] = Base * pow[i - 1]
    <3>1. i - 1 \in 0..W
      BY <1>1
    <3> QED BY <3>1, PowIs
  <2> QED BY <2>1
<1>6. \A i \in 1..W : s[i] = ((x \div pow[i - 1]) % Base) * pow[i - 1]
  BY <1>2, <1>3
<1>7. s \in Seq(Nat) /\ Len(s) = W
  <2>1. ASSUME NEW i \in 1..W PROVE s[i] \in Nat
    <3>1. pow[i - 1] \in Nat /\ pow[i - 1] > 0
      BY <1>5
    <3>2. x \div pow[i - 1] \in Nat
      BY ONLY <1>1, <3>1, DivMod
    <3>3. (x \div pow[i - 1]) % Base \in Nat /\ pow[i - 1] \in Nat
      <4>1. (x \div pow[i - 1]) % Base \in 0..(Base - 1)
        BY ONLY <1>1, <3>2, DivMod
      <4> QED BY ONLY <1>1, <3>1, <4>1
    <3> HIDE DEF s
    <3> QED BY ONLY <1>6, <3>3
  <2>2. s \in [1..W -> Nat]
    BY <2>1
  <2> HIDE DEF s
  <2> QED BY <1>1, <2>2
<1> HIDE DEF s
<1>8. PICK f \in [0..W -> Nat] :
         f[0] = 0 /\ (\A k \in 1..W : f[k] = f[k - 1] + s[k]) /\ Sum(s) = f[W]
  BY <1>7, SumIs
<1> DEFINE T == {k \in 0..W : f[k] = x % pow[k]}
<1>9. 0 \in T
  <2>1. x % 1 = 0
    BY <1>1
  <2>2. pow[0] = 1
    BY PowIs
  <2> QED BY <1>1, <1>8, <2>1, <2>2
<1>10. ASSUME NEW k \in 1..W, k - 1 \in T PROVE k \in T
  <2>1. k \in 0..W /\ f[k] = (x % pow[k - 1]) + ((x \div pow[k - 1]) % Base) * pow[k - 1]
    BY <1>1, <1>6, <1>8, <1>10
  <2>2. x % (Base * pow[k - 1]) = (x % pow[k - 1]) + ((x \div pow[k - 1]) % Base) * pow[k - 1]
    <3>1. pow[k - 1] \in Nat /\ pow[k - 1] > 0
      BY <1>5
    <3> QED BY ONLY <1>1, <3>1, DigitStep
  <2>3. pow[k] = Base * pow[k - 1]
    BY <1>5
  <2>4. f[k] = x % pow[k]
    BY ONLY <2>1, <2>2, <2>3
  <2> QED BY <2>1, <2>4
<1>11. W \in T
  <2>1. T \in SUBSET (0..W) /\ W \in 0..W
    BY <1>1
  <2> HIDE DEF T
  <2> QED BY <1>1, <1>9, <1>10, <2>1, UpTo
<1>12. Sum(s) = x
  <2>1. f[W] = x % IntRange
    BY <1>11 DEF IntRange
  <2>2. x % IntRange = x
    <3>1. 0 \in Nat /\ x \in 0..(IntRange - 1) /\ IntRange > 0
      BY <1>1
    <3>2. (0 * IntRange + x) % IntRange = x
      BY ONLY <1>1, <3>1, DivMod
    <3>3. 0 * IntRange + x = x
      BY ONLY <1>1
    <3> QED BY ONLY <3>2, <3>3
  <2>3. Sum(s) = f[W]
    BY ONLY <1>8
  <2> QED BY ONLY <2>1, <2>2, <2>3
<1> DEFINE r == Reader(z, v)
<1>13. r.rest = z
  BY ReaderFields
<1>14. Took(r, W, x) = Reader(SubSeq(z, W + 1, Len(z)), x)
  BY ONLY ReaderFields
<1> HIDE DEF r
<1>15. ReadInt32(r) = Took(r, W, Sum(s))
  BY <1>4, <1>13 DEF ReadInt32, s
<1>16. ReadInt32(r) = Reader(t, x)
  BY ONLY <1>4, <1>12, <1>14, <1>15
<1> QED BY <1>16 DEF r, z, a

\* A string that was written.
LEMMA StringFacts ==
    ASSUME NEW s \in Strings
    PROVE  /\ s \in Seq(Byte) /\ Len(s) \in 0..(IntRange - 1) /\ Len(s) < IntRange \div 2
           /\ String(s) \in Seq(Byte) /\ Len(String(s)) = IntWidth + Len(s)
           /\ Fixed32(Len(s)) \in Seq(Byte)
<1>1. s \in Seq(Byte) /\ Len(s) \in Nat /\ Len(s) < IntRange \div 2
  BY LenProperties DEF Strings
<1>2. Len(s) \in 0..(IntRange - 1)
  BY <1>1, RangeFacts
<1>3. Fixed32(Len(s)) \in Seq(Byte) /\ Len(Fixed32(Len(s))) = IntWidth
  BY <1>1, Fixed32Facts
<1> DEFINE a == Fixed32(Len(s))
<1> HIDE DEF a
<1>4. String(s) \in Seq(Byte) /\ Len(String(s)) = IntWidth + Len(s)
  BY <1>1, <1>3, ConcatProperties DEF String
<1> QED BY <1>1, <1>2, <1>3, <1>4

LEMMA ReadsString ==
    ASSUME NEW s \in Strings, NEW t \in Seq(Byte), NEW v
    PROVE  ReadString(Reader(String(s) \o t, v)) = Reader(t, s)
<1> DEFINE a == Fixed32(Len(s))
           n == Len(s)
           z == s \o t
<1>1. /\ s \in Seq(Byte) /\ n \in 0..(IntRange - 1) /\ n < IntRange \div 2
      /\ a \in Seq(Byte)
  BY StringFacts
<1>2. String(s) \o t = a \o z /\ z \in Seq(Byte)
  <2> HIDE DEF a
  <2>1. (a \o s) \o t = a \o (s \o t)
    BY ONLY <1>1, t \in Seq(Byte), Regroup
  <2>2. s \o t \in Seq(Byte)
    BY ONLY <1>1, t \in Seq(Byte), ConcatProperties
  <2> QED BY ONLY <2>1, <2>2 DEF String, a
<1>3. Len(z) >= n /\ SubSeq(z, 1, n) = s /\ SubSeq(z, n + 1, Len(z)) = t
  BY <1>1, Halves
<1> HIDE DEF z
<1>4. ReadInt32(Reader(a \o z, v)) = Reader(z, n)
  BY <1>1, <1>2, ReadsInt32
<1> HIDE DEF a, n
<1> DEFINE r == Reader(z, n)
<1>5. r.ok /\ r.rest = z /\ r.val = n
  BY ReaderFields
<1>6. Took(r, n, s) = Reader(SubSeq(z, n + 1, Len(z)), s)
  BY ONLY ReaderFields
<1> HIDE DEF r
<1>7. ReadString(Reader(a \o z, v)) = Took(r, n, SubSeq(z, 1, n))
  <2>1. ReadInt32(Reader(a \o z, v)) = r
    BY <1>4 DEF r
  <2> QED BY ONLY <1>1, <1>3, <1>5, <2>1 DEF ReadString
<1>8. ReadString(Reader(a \o z, v)) = Reader(t, s)
  BY ONLY <1>3, <1>6, <1>7
<1> QED BY ONLY <1>2, <1>8

\* A sequence of readable parts, one part more.
LEMMA PrefixStep ==
    ASSUME NEW S, NEW b \in Seq(S)
    PROVE  /\ SubSeq(b, 1, 0) = <<>> /\ SubSeq(b, 1, Len(b)) = b
           /\ \A i \in 1..Len(b) :
                 /\ SubSeq(b, 1, i - 1) \in Seq(S)
                 /\ Append(SubSeq(b, 1, i - 1), b[i]) = SubSeq(b, 1, i)
<1> DEFINE n == Len(b)
<1>1. n \in Nat /\ \A i \in 1..n : b[i] \in S
  BY LenProperties
<1>2. ASSUME NEW i \in 0..n
      PROVE  /\ SubSeq(b, 1, i) \in Seq(S) /\ Len(SubSeq(b, 1, i)) = i
             /\ \A j \in 1..i : SubSeq(b, 1, i)[j] = b[j]
  <2>1. \A j \in 1..i : b[j] \in S
    BY <1>1
  <2>2. 1 \in Int /\ i \in Int /\ (1 <= i => i - 1 + 1 = i) /\ (~ (1 <= i) => i = 0)
    BY <1>1
  <2>3. /\ SubSeq(b, 1, i) \in Seq(S)
        /\ Len(SubSeq(b, 1, i)) = IF 1 <= i THEN i - 1 + 1 ELSE 0
        /\ \A j \in 1..(i - 1 + 1) : SubSeq(b, 1, i)[j] = b[1 + j - 1]
    BY ONLY <2>1, <2>2, SubSeqProperties
  <2>4. \A j \in 1..i : j \in 1..(i - 1 + 1) /\ 1 + j - 1 = j
    BY <1>1
  <2> QED BY <2>2, <2>3, <2>4
<1>3. 0 \in 0..n /\ n \in 0..n
  BY <1>1
<1>4. SubSeq(b, 1, 0) = <<>>
  BY <1>2, <1>3, EmptySeq
<1>5. SubSeq(b, 1, n) = b
  BY <1>2, <1>3, SeqEqual
<1>6. ASSUME NEW i \in 1..n
      PROVE  /\ SubSeq(b, 1, i - 1) \in Seq(S)
             /\ Append(SubSeq(b, 1, i - 1), b[i]) = SubSeq(b, 1, i)
  <2> DEFINE x == SubSeq(b, 1, i - 1)
             y == SubSeq(b, 1, i)
             z == Append(x, b[i])
  <2>1. i - 1 \in 0..n /\ i \in 0..n /\ b[i] \in S
    BY <1>1
  <2>2. x \in Seq(S) /\ Len(x) = i - 1 /\ \A j \in 1..(i - 1) : x[j] = b[j]
    BY <1>2, <2>1
  <2>3. y \in Seq(S) /\ Len(y) = i /\ \A j \in 1..i : y[j] = b[j]
    BY <1>2, <2>1
  <2> HIDE DEF x, y
  <2>4. /\ z \in Seq(S) /\ Len(z) = Len(x) + 1 /\ z[Len(x) + 1] = b[i]
        /\ \A j \in 1..Len(x) : z[j] = x[j]
    BY <2>1, <2>2, AppendProperties
  <2> HIDE DEF z
  <2>5. Len(z) = Len(y) /\ \A j \in 1..Len(y) : y[j] = z[j]
    <3>1. Len(x) + 1 = i /\ \A j \in 1..i : j \in 1..(i - 1) \/ j = i
      BY <1>1, <2>2
    <3> QED BY <2>2, <2>3, <2>4, <3>1
  <2>6. z = y
    BY <2>3, <2>4, <2>5, SeqEqual
  <2> QED BY <2>2, <2>6 DEF x, y, z
<1> QED BY <1>4, <1>5, <1>6

\* A message that was written; its value is as long as its key.
LEMMA MsgFacts ==
    ASSUME NEW m \in Messages
    PROVE  /\ m.type \in {Put, Del} /\ m.type \in 0..(IntRange - 1)
           /\ m.key \in Strings /\ m.value \in Strings
           /\ m = [type |-> m.type, key |-> m.key, value |-> m.value]
           /\ m.type # Put => m.value = <<>>
           /\ MsgImage(m) \in Seq(Byte)
<1>1. /\ m.type \in {Put, Del} /\ m.key \in Strings
      /\ m = [type |-> m.type, key |-> m.key, value |-> m.value]
      /\ m.type = Put => m.value \in Strings
      /\ m.type # Put => m.value = <<>>
  BY DEF Messages, Put, Del
<1>2. m.type \in 0..(IntRange - 1)
  BY <1>1, RangeFacts DEF Put, Del
<1>3. m.value \in Strings
  <2>1. <<>> \in Strings
    BY EmptySeq, RangeFacts DEF Strings
  <2> QED BY <1>1, <2>1
<1> DEFINE a == Fixed32(m.type)
           b == String(m.key)
           c == Fixed32(Len(m.key)) \o m.value
           d == IF m.type = Put THEN c ELSE <<>>
<1>4. a \in Seq(Byte) /\ b \in Seq(Byte)
  BY <1>1, <1>2, Fixed32Facts, StringFacts
<1>5. c \in Seq(Byte)
  <2>1. Fixed32(Len(m.key)) \in Seq(Byte) /\ m.value \in Seq(Byte)
    BY <1>1, <1>3, StringFacts
  <2> QED BY <2>1, ConcatProperties
<1>6. d \in Seq(Byte)
  BY <1>5, EmptySeq
<1>7. MsgImage(m) = a \o b \o d
  BY DEF MsgImage
<1> HIDE DEF a, b, d
<1>8. MsgImage(m) \in Seq(Byte)
  BY <1>4, <1>6, <1>7, ConcatProperties
<1> QED BY <1>1, <1>2, <1>3, <1>8

LEMMA ReadsMsg ==
    ASSUME NEW m \in Messages, m.type = Put => Len(m.value) = Len(m.key),
           NEW t \in Seq(Byte), NEW v
    PROVE  ReadMsg(Reader(MsgImage(m) \o t, v)) = Reader(t, m)
<1> DEFINE a == Fixed32(m.type)
           b == String(m.key)
           d == IF m.type = Put THEN Fixed32(Len(m.key)) \o m.value ELSE <<>>
           y == d \o t
           z == b \o y
           r == Reader(MsgImage(m) \o t, v)
           ra == Reader(z, m.type)
           rb == Reader(y, m.key)
           rc == Reader(t, m.value)
           rm == Reader(t, m)
<1>1. /\ m.type \in {Put, Del} /\ m.type \in 0..(IntRange - 1)
      /\ m.key \in Strings /\ m.value \in Strings
      /\ m = [type |-> m.type, key |-> m.key, value |-> m.value]
      /\ m.type # Put => m.value = <<>>
  BY MsgFacts
<1>2. a \in Seq(Byte) /\ b \in Seq(Byte)
  BY <1>1, Fixed32Facts, StringFacts
<1>3. /\ m.type = Put => d = String(m.value)
      /\ m.type # Put => d = <<>>
  BY ONLY m.type = Put => Len(m.value) = Len(m.key) DEF String
<1>4. d \in Seq(Byte)
  <2>1. String(m.value) \in Seq(Byte)
    BY <1>1, StringFacts
  <2> QED BY <1>3, <2>1, EmptySeq
<1>5. MsgImage(m) = a \o b \o d
  BY DEF MsgImage
<1> HIDE DEF a, b, d
<1>6. MsgImage(m) \o t = a \o z /\ z \in Seq(Byte) /\ y \in Seq(Byte)
  <2> DEFINE e == b \o d
  <2>1. y \in Seq(Byte) /\ z \in Seq(Byte) /\ e \in Seq(Byte)
    BY <1>2, <1>4, ConcatProperties
  <2>2. a \o b \o d = a \o e
    <3>1. a \in Seq(Byte) /\ b \in Seq(Byte) /\ d \in Seq(Byte)
      BY <1>2, <1>4
    <3> QED BY ONLY <3>1, Regroup
  <2>3. e \o t = b \o y
    <3>1. b \in Seq(Byte) /\ d \in Seq(Byte) /\ t \in Seq(Byte)
      BY <1>2, <1>4
    <3> QED BY ONLY <3>1, Regroup
  <2> HIDE DEF e
  <2>4. (a \o e) \o t = a \o (e \o t)
    <3>1. a \in Seq(Byte) /\ e \in Seq(Byte) /\ t \in Seq(Byte)
      BY <1>2, <2>1
    <3> QED BY ONLY <3>1, Regroup
  <2> QED BY ONLY <1>5, <2>1, <2>2, <2>3, <2>4
<1>7. ReadInt32(r) = ra
  <2> HIDE DEF z
  <2>1. ReadInt32(Reader(Fixed32(m.type) \o z, v)) = Reader(z, m.type)
    BY ONLY <1>1, <1>6, ReadsInt32
  <2> QED BY ONLY <1>6, <2>1 DEF a
<1>8. ReadString(ra) = rb
  <2> HIDE DEF y
  <2>1. ReadString(Reader(String(m.key) \o y, m.type)) = Reader(y, m.key)
    BY ONLY <1>1, <1>6, ReadsString
  <2> QED BY ONLY <2>1 DEF b
<1>9. m.type = Put => ReadString(rb) = rc
  <2> SUFFICES ASSUME m.type = Put PROVE ReadString(rb) = rc
    OBVIOUS
  <2>1. ReadString(Reader(String(m.value) \o t, m.key)) = Reader(t, m.value)
    BY ONLY <1>1, ReadsString
  <2> QED BY <1>3, <2>1
<1>10. m.type # Put => [rb EXCEPT !.val = <<>>] = rc
  <2> SUFFICES ASSUME m.type # Put PROVE [rb EXCEPT !.val = <<>>] = rc
    OBVIOUS
  <2>1. <<>> \in Seq(Byte) /\ <<>> \o t = t
    BY EmptySeq, ConcatEmptySeq
  <2>2. y = t /\ m.value = <<>>
    BY <1>1, <1>3, <2>1
  <2>3. [Reader(t, m.key) EXCEPT !.val = <<>>] = Reader(t, <<>>)
    BY ONLY ReaderFields
  <2> QED BY ONLY <2>2, <2>3
<1>11. /\ ra.ok /\ ra.val = m.type /\ rb.ok /\ rb.val = m.key
       /\ rc.ok /\ rc.val = m.value
  BY ReaderFields
<1>12. [rc EXCEPT !.val = m] = rm
  BY ReaderFields
<1> HIDE DEF r, ra, rb, rc, rm
<1>13. ReadMsg(r) = rm
  <2>1. m = [type |-> ra.val, key |-> rb.val, value |-> rc.val]
    BY ONLY <1>1, <1>11
  <2>2. (IF rb.ok /\ ra.val = Put THEN ReadString(rb) ELSE [rb EXCEPT !.val = <<>>]) = rc
    BY ONLY <1>9, <1>10, <1>11
  <2> QED BY ONLY <1>7, <1>8, <1>11, <1>12, <2>1, <2>2 DEF ReadMsg
<1> QED BY <1>13 DEF r, rm

\* A buffer that was written.
Alike(b) == \A j \in DOMAIN b : b[j].type = Put => Len(b[j].value) = Len(b[j].key)

LEMMA BufFacts ==
    ASSUME NEW b \in MsgLists
    PROVE  /\ b \in Seq(Messages) /\ Len(b) \in 0..(IntRange - 1)
           /\ Fixed32(Len(b)) \in Seq(Byte) /\ BufImage(b) \in Seq(Byte)
           /\ \A i \in 1..Len(b) : b[i] \in Messages /\ MsgImage(b[i]) \in Seq(Byte)
           /\ [i \in DOMAIN b |-> MsgImage(b[i])] \in Seq(Seq(Byte))
           /\ Len([i \in DOMAIN b |-> MsgImage(b[i])]) = Len(b)
<1> DEFINE n == Len(b)
           q == [i \in DOMAIN b |-> MsgImage(b[i])]
<1>1. b \in Seq(Messages) /\ n \in Nat /\ n < IntRange /\ DOMAIN b = 1..n
  BY LenProperties DEF MsgLists
<1>2. n \in 0..(IntRange - 1)
  BY <1>1, RangeFacts
<1>3. ASSUME NEW i \in 1..n PROVE b[i] \in Messages /\ MsgImage(b[i]) \in Seq(Byte)
  <2>1. b[i] \in Messages
    BY <1>1
  <2> QED BY <2>1, MsgFacts
<1> DEFINE X == Seq(Byte)
<1>4. q \in Seq(X) /\ Len(q) = n
  <2>1. q \in [1..n -> X]
    BY <1>1, <1>3
  <2> HIDE DEF q, X
  <2> QED BY <1>1, <2>1
<1>5. Fixed32(n) \in Seq(Byte)
  BY <1>1, Fixed32Facts
<1>6. BufImage(b) \in Seq(Byte)
  <2>1. FlattenSeq(q) \in Seq(Byte)
    <3>1. \E f \in [0..Len(q) -> Seq(Byte)] : Joins(f, q)
      BY <1>4, JoinExists
    <3> QED BY <1>4, <3>1, FlattenIs
  <2> DEFINE x == FlattenSeq(q)
             y == Fixed32(n)
  <2>2. BufImage(b) = y \o x
    BY DEF BufImage
  <2> HIDE DEF x, y
  <2>3. x \in Seq(Byte) /\ y \in Seq(Byte)
    BY <1>5, <2>1 DEF x, y
  <2> QED BY ONLY <2>2, <2>3, ConcatProperties
<1> QED BY <1>1, <1>2, <1>3, <1>4, <1>5, <1>6

LEMMA ReadsBuf ==
    ASSUME NEW b \in MsgLists, Alike(b), NEW t \in Seq(Byte), NEW v
    PROVE  ReadBuf(Reader(BufImage(b) \o t, v)) = Reader(t, b)
<1> DEFINE n == Len(b)
           q == [i \in DOMAIN b |-> MsgImage(b[i])]
           a == Fixed32(n)
<1>1. /\ b \in Seq(Messages) /\ n \in 0..(IntRange - 1) /\ n \in Nat
      /\ a \in Seq(Byte) /\ q \in Seq(Seq(Byte)) /\ Len(q) = n
      /\ \A i \in 1..n : b[i] \in Messages /\ MsgImage(b[i]) \in Seq(Byte)
      /\ DOMAIN b = 1..n
  BY BufFacts, LenProperties
<1>2. \A i \in 1..n : q[i] = MsgImage(b[i])
  BY <1>1
<1>3. BufImage(b) = a \o FlattenSeq(q)
  BY DEF BufImage
<1> HIDE DEF q, a
<1>4. PICK u \in [0..n -> Seq(Byte)] :
         /\ u[0] = FlattenSeq(q) /\ u[n] = <<>>
         /\ \A k \in 1..n : u[k - 1] = q[k] \o u[k]
  <2>1. q \in Seq(Seq(Byte))
    BY <1>1
  <2>2. \E f \in [0..Len(q) -> Seq(Byte)] :
           /\ f[0] = FlattenSeq(q) /\ f[Len(q)] = <<>>
           /\ \A k \in 1..Len(q) : f[k - 1] = q[k] \o f[k]
    BY ONLY <2>1, FlattenFront
  <2>3. Len(q) = n
    BY <1>1
  <2> QED BY ONLY <2>2, <2>3
<1> DEFINE e(i) == u[i] \o t
           R(i) == Reader(e(i), SubSeq(b, 1, i))
<1>5. ASSUME NEW i \in 1..n
      PROVE  /\ e(i) \in Seq(Byte) /\ e(i - 1) = MsgImage(b[i]) \o e(i)
  <2> DEFINE x == u[i]
             y == MsgImage(b[i])
  <2>1. x \in Seq(Byte) /\ y \in Seq(Byte) /\ t \in Seq(Byte)
    <3>1. i \in 0..n
      BY <1>1
    <3>2. x \in Seq(Byte)
      BY ONLY <3>1, u \in [0..n -> Seq(Byte)]
    <3> QED BY <1>1, <3>2
  <2>2. u[i - 1] = y \o x
    BY <1>2, <1>4
  <2> HIDE DEF x, y
  <2>3. x \o t \in Seq(Byte)
    BY ONLY <2>1, ConcatProperties
  <2>4. (y \o x) \o t = y \o (x \o t)
    BY ONLY <2>1, Regroup
  <2> QED BY ONLY <2>2, <2>3, <2>4 DEF x, y
<1> DEFINE Turn(r) == LET s == ReadMsg(r) IN [s EXCEPT !.val = Append(r.val, s.val)]
<1> HIDE DEF e
<1>6. ASSUME NEW i \in 1..n PROVE R(i - 1).ok /\ Turn(R(i - 1)) = R(i)
  <2> DEFINE w == SubSeq(b, 1, i - 1)
             x == e(i)
             m == b[i]
  <2>1. m \in Messages /\ (m.type = Put => Len(m.value) = Len(m.key))
    BY <1>1 DEF Alike
  <2>2. x \in Seq(Byte) /\ e(i - 1) = MsgImage(m) \o x
    BY <1>5
  <2>3. Append(w, m) = SubSeq(b, 1, i)
    BY <1>1, PrefixStep
  <2> HIDE DEF w, x, m
  <2>4. ReadMsg(Reader(MsgImage(m) \o x, w)) = Reader(x, m)
    BY ONLY <2>1, <2>2, ReadsMsg
  <2> DEFINE r == Reader(MsgImage(m) \o x, w)
             s == Reader(x, m)
  <2>5. r.ok /\ r.val = w /\ s.val = m
    BY ReaderFields
  <2>6. [s EXCEPT !.val = Append(w, m)] = Reader(x, Append(w, m))
    <3> DEFINE y == Append(w, m)
    <3> HIDE DEF y
    <3>1. [s EXCEPT !.val = y] = Reader(x, y)
      BY ONLY ReaderFields
    <3> QED BY ONLY <3>1 DEF y
  <2>7. R(i - 1) = r
    <3>1. R(i - 1) = Reader(e(i - 1), w)
      BY DEF w
    <3> HIDE DEF R
    <3> QED BY ONLY <2>2, <3>1
  <2> HIDE DEF r, s
  <2>8. Turn(r) = Reader(x, Append(w, m))
    BY ONLY <2>4, <2>5, <2>6 DEF r, s
  <2> QED BY ONLY <2>3, <2>5, <2>7, <2>8 DEF x
<1> DEFINE c == Reader(u[0] \o t, n)
           Eq(F) == F = [i \in 0..n |->
                           IF i = 0 THEN [c EXCEPT !.val = <<>>]
                           ELSE IF F[i - 1].ok THEN Turn(F[i - 1]) ELSE F[i - 1]]
           f == CHOOSE F : Eq(F)
<1>7. Repeat(ReadMsg, c, n) = f[n]
  BY DEF Repeat
<1>8. [c EXCEPT !.val = <<>>] = R(0) /\ R(n) = Reader(t, b)
  <2>1. [c EXCEPT !.val = <<>>] = Reader(u[0] \o t, <<>>)
    BY ReaderFields
  <2>2. SubSeq(b, 1, 0) = <<>> /\ SubSeq(b, 1, n) = b
    BY <1>1, PrefixStep
  <2>3. <<>> \o t = t
    BY ConcatEmptySeq
  <2>4. e(0) = u[0] \o t /\ e(n) = t
    BY <1>4, <2>3 DEF e
  <2> HIDE DEF c
  <2> QED BY ONLY <2>1, <2>2, <2>4
<1>9. c.val = n /\ c.ok
  BY ReaderFields
<1> HIDE DEF R, Turn, c
<1>10. f[n] = R(n)
  <2>1. /\ 0 \in 0..n /\ n \in 0..n
        /\ \A i \in 0..n : i = 0 \/ i \in 1..n
        /\ \A i \in 1..n : i \in 0..n /\ i # 0 /\ i - 1 \in 0..n
    BY <1>1
  <2> DEFINE E == [i \in 0..n |-> R(i)]
  <2>2. Eq(E)
    <3>1. ASSUME NEW i \in 1..n
          PROVE  E[i] = IF E[i - 1].ok THEN Turn(E[i - 1]) ELSE E[i - 1]
      BY <1>6, <2>1
    <3>2. ASSUME NEW i \in 0..n
          PROVE  E[i] = IF i = 0 THEN [c EXCEPT !.val = <<>>]
                        ELSE IF E[i - 1].ok THEN Turn(E[i - 1]) ELSE E[i - 1]
      BY <1>8, <2>1, <3>1
    <3> QED BY <3>2
  <2>3. Eq(f)
    <3> HIDE DEF Eq, E
    <3> QED BY <2>2
  <2> HIDE DEF E, f
  <2> DEFINE T == {i \in 0..n : f[i] = R(i)}
  <2>4. 0 \in T
    BY <1>8, <2>1, <2>3
  <2>5. ASSUME NEW i \in 1..n, i - 1 \in T PROVE i \in T
    <3>1. f[i] = IF f[i - 1].ok THEN Turn(f[i - 1]) ELSE f[i - 1]
      BY <2>1, <2>3
    <3> QED BY <1>6, <2>1, <2>5, <3>1
  <2>6. T \in SUBSET (0..n)
    OBVIOUS
  <2> HIDE DEF T
  <2>7. n \in T
    BY ONLY <1>1, <2>1, <2>4, <2>5, <2>6, UpTo
  <2> QED BY <2>7 DEF T
<1> DEFINE z == u[0] \o t
<1>11. BufImage(b) \o t = a \o z /\ z \in Seq(Byte)
  <2> DEFINE x == u[0]
  <2>1. x \in Seq(Byte) /\ a \in Seq(Byte) /\ t \in Seq(Byte)
    <3>1. 0 \in 0..n
      BY <1>1
    <3> QED BY <1>1, <1>4, <3>1
  <2>2. BufImage(b) = a \o x
    BY <1>3, <1>4
  <2> HIDE DEF x
  <2>3. (a \o x) \o t = a \o (x \o t)
    BY ONLY <2>1, Regroup
  <2>4. x \o t \in Seq(Byte)
    BY ONLY <2>1, ConcatProperties
  <2> QED BY ONLY <2>2, <2>3, <2>4 DEF x
<1>12. ReadInt32(Reader(a \o z, v)) = c
  <2> HIDE DEF z
  <2>1. ReadInt32(Reader(Fixed32(n) \o z, v)) = Reader(z, n)
    BY ONLY <1>1, <1>11, ReadsInt32
  <2> QED BY ONLY <2>1 DEF a, c, z
<1> HIDE DEF f, z
<1>13. ReadBuf(Reader(a \o z, v)) = f[n]
  BY ONLY <1>7, <1>9, <1>12 DEF ReadBuf
<1> QED BY ONLY <1>8, <1>10, <1>11, <1>13

\* A pivot that was written.
LEMMA PivotFacts ==
    ASSUME NEW p \in Pivots
    PROVE  /\ p.childNid \in 0..(IntRange - 1) /\ p.leftKey \in Strings
           /\ p.msgs \in MsgLists
           /\ p = [childNid |-> p.childNid, leftKey |-> p.leftKey, msgs |-> p.msgs]
           /\ Fixed32(p.childNid) \in Seq(Byte) /\ String(p.leftKey) \in Seq(Byte)
           /\ BufImage(p.msgs) \in Seq(Byte) /\ PivotImage(p) \in Seq(Byte)
<1>1. /\ p.childNid \in 0..(IntRange - 1) /\ p.leftKey \in Strings
      /\ p.msgs \in MsgLists
      /\ p = [childNid |-> p.childNid, leftKey |-> p.leftKey, msgs |-> p.msgs]
  BY DEF Pivots
<1> DEFINE a == Fixed32(p.childNid)
           b == String(p.leftKey)
           d == BufImage(p.msgs)
<1>2. a \in Seq(Byte)
  <2>1. p.childNid \in Nat
    BY <1>1, RangeFacts
  <2> QED BY <2>1, Fixed32Facts
<1>3. b \in Seq(Byte) /\ d \in Seq(Byte)
  BY <1>1, StringFacts, BufFacts
<1>4. PivotImage(p) = a \o b \o d
  BY DEF PivotImage
<1> HIDE DEF a, b, d
<1>5. PivotImage(p) \in Seq(Byte)
  BY ONLY <1>2, <1>3, <1>4, ConcatProperties
<1> QED BY <1>1, <1>2, <1>3, <1>5 DEF a, b, d

LEMMA ReadsPivot ==
    ASSUME NEW p \in Pivots, Alike(p.msgs), NEW t \in Seq(Byte), NEW v
    PROVE  ReadPivot(Reader(PivotImage(p) \o t, v)) = Reader(t, p)
<1> DEFINE a == Fixed32(p.childNid)
           b == String(p.leftKey)
           d == BufImage(p.msgs)
           y == d \o t
           z == b \o y
           r == Reader(PivotImage(p) \o t, v)
           ra == Reader(z, p.childNid)
           rb == Reader(y, p.leftKey)
           rc == Reader(t, p.msgs)
           rp == Reader(t, p)
<1>1. /\ p.childNid \in 0..(IntRange - 1) /\ p.leftKey \in Strings
      /\ p.msgs \in MsgLists
      /\ p = [childNid |-> p.childNid, leftKey |-> p.leftKey, msgs |-> p.msgs]
  BY PivotFacts
<1>2. a \in Seq(Byte) /\ b \in Seq(Byte) /\ d \in Seq(Byte) /\ t \in Seq(Byte)
  BY PivotFacts
<1>3. PivotImage(p) = a \o b \o d
  BY DEF PivotImage
<1> HIDE DEF a, b, d
<1>4. PivotImage(p) \o t = a \o z /\ z \in Seq(Byte) /\ y \in Seq(Byte)
  <2> DEFINE e == b \o d
  <2>1. y \in Seq(Byte) /\ z \in Seq(Byte) /\ e \in Seq(Byte)
    BY ONLY <1>2, ConcatProperties
  <2>2. a \o b \o d = a \o e
    <3>1. a \in Seq(Byte) /\ b \in Seq(Byte) /\ d \in Seq(Byte)
      BY <1>2
    <3> QED BY ONLY <3>1, Regroup
  <2>3. e \o t = b \o y
    <3>1. b \in Seq(Byte) /\ d \in Seq(Byte) /\ t \in Seq(Byte)
      BY <1>2
    <3> QED BY ONLY <3>1, Regroup
  <2> HIDE DEF e
  <2>4. (a \o e) \o t = a \o (e \o t)
    <3>1. a \in Seq(Byte) /\ e \in Seq(Byte) /\ t \in Seq(Byte)
      BY <1>2, <2>1
    <3> QED BY ONLY <3>1, Regroup
  <2> QED BY ONLY <1>3, <2>1, <2>2, <2>3, <2>4
<1>5. ReadInt32(r) = ra
  <2> HIDE DEF z
  <2>1. ReadInt32(Reader(Fixed32(p.childNid) \o z, v)) = Reader(z, p.childNid)
    BY ONLY <1>1, <1>4, ReadsInt32
  <2> QED BY ONLY <1>4, <2>1 DEF a
<1>6. ReadString(ra) = rb
  <2> HIDE DEF y
  <2>1. ReadString(Reader(String(p.leftKey) \o y, p.childNid)) = Reader(y, p.leftKey)
    BY ONLY <1>1, <1>4, ReadsString
  <2> QED BY ONLY <2>1 DEF b
<1>7. ReadBuf(rb) = rc
  <2>1. ReadBuf(Reader(BufImage(p.msgs) \o t, p.leftKey)) = Reader(t, p.msgs)
    BY ONLY <1>1, <1>2, Alike(p.msgs), ReadsBuf
  <2> QED BY ONLY <2>1 DEF d
<1>8. /\ ra.ok /\ ra.val = p.childNid /\ rb.ok /\ rb.val = p.leftKey
      /\ rc.ok /\ rc.val = p.msgs
  BY ReaderFields
<1>9. [rc EXCEPT !.val = p] = rp
  BY ReaderFields
<1> HIDE DEF r, ra, rb, rc, rp
<1>10. ReadPivot(r) = rp
  <2>1. p = [childNid |-> ra.val, leftKey |-> rb.val, msgs |-> rc.val]
    BY ONLY <1>1, <1>8
  <2> QED BY ONLY <1>5, <1>6, <1>7, <1>8, <1>9, <2>1 DEF ReadPivot
<1> QED BY <1>10 DEF r, rp

LEMMA PivotsFacts ==
    ASSUME NEW b \in PivotLists
    PROVE  /\ b \in Seq(Pivots) /\ Len(b) \in 0..(IntRange - 1)
           /\ Fixed32(Len(b)) \in Seq(Byte) /\ PivotImages(b) \in Seq(Byte)
           /\ \A i \in 1..Len(b) : b[i] \in Pivots /\ PivotImage(b[i]) \in Seq(Byte)
           /\ [i \in DOMAIN b |-> PivotImage(b[i])] \in Seq(Seq(Byte))
           /\ Len([i \in DOMAIN b |-> PivotImage(b[i])]) = Len(b)
<1> DEFINE n == Len(b)
           q == [i \in DOMAIN b |-> PivotImage(b[i])]
           X == Seq(Byte)
<1>1. b \in Seq(Pivots) /\ n \in Nat /\ n < IntRange /\ DOMAIN b = 1..n
  BY LenProperties DEF PivotLists
<1>2. n \in 0..(IntRange - 1)
  BY <1>1, RangeFacts
<1>3. ASSUME NEW i \in 1..n PROVE b[i] \in Pivots /\ PivotImage(b[i]) \in Seq(Byte)
  <2>1. b[i] \in Pivots
    BY <1>1
  <2> QED BY <2>1, PivotFacts
<1>4. q \in Seq(X) /\ Len(q) = n
  <2>1. q \in [1..n -> X]
    BY <1>1, <1>3
  <2> HIDE DEF q, X
  <2> QED BY <1>1, <2>1
<1>5. Fixed32(n) \in Seq(Byte)
  BY <1>1, Fixed32Facts
<1>6. PivotImages(b) \in Seq(Byte)
  <2>1. FlattenSeq(q) \in Seq(Byte)
    <3>1. \E f \in [0..Len(q) -> Seq(Byte)] : Joins(f, q)
      BY <1>4, JoinExists
    <3> QED BY <1>4, <3>1, FlattenIs
  <2> QED BY <2>1 DEF PivotImages
<1> QED BY <1>1, <1>2, <1>3, <1>4, <1>5, <1>6

\* The pivots that were written, one after the other.
LEMMA ReadsPivots ==
    ASSUME NEW b \in PivotLists, \A i \in DOMAIN b : Alike(b[i].msgs), NEW v
    PROVE  Repeat(ReadPivot, Reader(PivotImages(b), v), Len(b)) = Reader(<<>>, b)
<1> DEFINE n == Len(b)
           q == [i \in DOMAIN b |-> PivotImage(b[i])]
<1>1. /\ b \in Seq(Pivots) /\ n \in Nat /\ q \in Seq(Seq(Byte)) /\ Len(q) = n
      /\ \A i \in 1..n : b[i] \in Pivots /\ PivotImage(b[i]) \in Seq(Byte)
      /\ DOMAIN b = 1..n
  BY PivotsFacts, LenProperties
<1>2. \A i \in 1..n : q[i] = PivotImage(b[i])
  BY <1>1
<1>3. PivotImages(b) = FlattenSeq(q)
  BY DEF PivotImages
<1> HIDE DEF q
<1>4. PICK u \in [0..n -> Seq(Byte)] :
         /\ u[0] = FlattenSeq(q) /\ u[n] = <<>>
         /\ \A k \in 1..n : u[k - 1] = q[k] \o u[k]
  <2>1. q \in Seq(Seq(Byte))
    BY <1>1
  <2>2. \E f \in [0..Len(q) -> Seq(Byte)] :
           /\ f[0] = FlattenSeq(q) /\ f[Len(q)] = <<>>
           /\ \A k \in 1..Len(q) : f[k - 1] = q[k] \o f[k]
    BY ONLY <2>1, FlattenFront
  <2>3. Len(q) = n
    BY <1>1
  <2> QED BY ONLY <2>2, <2>3
<1> DEFINE R(i) == Reader(u[i], SubSeq(b, 1, i))
           Turn(r) == LET s == ReadPivot(r) IN [s EXCEPT !.val = Append(r.val, s.val)]
<1>6. ASSUME NEW i \in 1..n PROVE R(i - 1).ok /\ Turn(R(i - 1)) = R(i)
  <2> DEFINE w == SubSeq(b, 1, i - 1)
             x == u[i]
             m == b[i]
  <2>1. m \in Pivots /\ Alike(m.msgs)
    BY <1>1
  <2>2. x \in Seq(Byte) /\ u[i - 1] = PivotImage(m) \o x
    <3>1. i \in 0..n
      BY <1>1
    <3>2. x \in Seq(Byte)
      BY ONLY <3>1, u \in [0..n -> Seq(Byte)]
    <3> QED BY <1>2, <1>4, <3>2
  <2>3. Append(w, m) = SubSeq(b, 1, i)
    BY <1>1, PrefixStep
  <2> HIDE DEF w, x, m
  <2>4. ReadPivot(Reader(PivotImage(m) \o x, w)) = Reader(x, m)
    BY ONLY <2>1, <2>2, ReadsPivot
  <2> DEFINE r == Reader(PivotImage(m) \o x, w)
             s == Reader(x, m)
  <2>5. r.ok /\ r.val = w /\ s.val = m
    BY ReaderFields
  <2>6. [s EXCEPT !.val = Append(w, m)] = Reader(x, Append(w, m))
    <3> DEFINE y == Append(w, m)
    <3> HIDE DEF y
    <3>1. [s EXCEPT !.val = y] = Reader(x, y)
      BY ONLY ReaderFields
    <3> QED BY ONLY <3>1 DEF y
  <2>7. R(i - 1) = r
    <3>1. R(i - 1) = Reader(u[i - 1], w)
      BY DEF w
    <3> HIDE DEF R
    <3> QED BY ONLY <2>2, <3>1
  <2> HIDE DEF r, s
  <2>8. Turn(r) = Reader(x, Append(w, m))
    BY ONLY <2>4, <2>5, <2>6 DEF r, s
  <2> QED BY ONLY <2>3, <2>5, <2>7, <2>8 DEF x
<1> DEFINE c == Reader(u[0], v)
           Eq(F) == F = [i \in 0..n |->
                           IF i = 0 THEN [c EXCEPT !.val = <<>>]
                           ELSE IF F[i - 1].ok THEN Turn(F[i - 1]) ELSE F[i - 1]]
           f == CHOOSE F : Eq(F)
<1>7. Repeat(ReadPivot, c, n) = f[n]
  BY DEF Repeat
<1>8. [c EXCEPT !.val = <<>>] = R(0) /\ R(n) = Reader(<<>>, b)
  <2>1. [c EXCEPT !.val = <<>>] = Reader(u[0], <<>>)
    BY ReaderFields
  <2>2. SubSeq(b, 1, 0) = <<>> /\ SubSeq(b, 1, n) = b
    BY <1>1, PrefixStep
  <2>3. u[n] = <<>>
    BY <1>4
  <2> HIDE DEF c
  <2> QED BY ONLY <2>1, <2>2, <2>3
<1> HIDE DEF R, Turn, c
<1>9. f[n] = R(n)
  <2>1. /\ 0 \in 0..n /\ n \in 0..n
        /\ \A i \in 0..n : i = 0 \/ i \in 1..n
        /\ \A i \in 1..n : i \in 0..n /\ i # 0 /\ i - 1 \in 0..n
    BY <1>1
  <2> DEFINE E == [i \in 0..n |-> R(i)]
  <2>2. Eq(E)
    <3>1. ASSUME NEW i \in 1..n
          PROVE  E[i] = IF E[i - 1].ok THEN Turn(E[i - 1]) ELSE E[i - 1]
      BY <1>6, <2>1
    <3>2. ASSUME NEW i \in 0..n
          PROVE  E[i] = IF i = 0 THEN [c EXCEPT !.val = <<>>]
                        ELSE IF E[i - 1].ok THEN Turn(E[i - 1]) ELSE E[i - 1]
      BY <1>8, <2>1, <3>1
    <3> QED BY <3>2
  <2>3. Eq(f)
    <3> HIDE DEF Eq, E
    <3> QED BY <2>2
  <2> HIDE DEF E, f
  <2> DEFINE T == {i \in 0..n : f[i] = R(i)}
  <2>4. 0 \in T
    BY <1>8, <2>1, <2>3
  <2>5. ASSUME NEW i \in 1..n, i - 1 \in T PROVE i \in T
    <3>1. f[i] = IF f[i - 1].ok THEN Turn(f[i - 1]) ELSE f[i - 1]
      BY <2>1, <2>3
    <3> QED BY <1>6, <2>1, <2>5, <3>1
  <2>6. T \in SUBSET (0..n)
    OBVIOUS
  <2> HIDE DEF T
  <2>7. n \in T
    BY ONLY <1>1, <2>1, <2>4, <2>5, <2>6, UpTo
  <2> QED BY <2>7 DEF T
<1>10. c = Reader(PivotImages(b), v)
  BY <1>3, <1>4 DEF c
<1> HIDE DEF f
<1> QED BY ONLY <1>7, <1>8, <1>9, <1>10

\* A node that was written.
LEMMA ReadsNode ==
    ASSUME NEW nd, nd.isLeaf \in {0, 1}, nd.self \in 0..(IntRange - 1),
           nd.pivots \in PivotLists, nd.pivots # <<>>, EqualLengths(nd)
    PROVE  ReadNode(NodeImage(nd))
             = [ok |-> TRUE, node |-> [isLeaf |-> nd.isLeaf, self |-> nd.self,
                                       pivots |-> nd.pivots]]
<1> DEFINE b == nd.pivots
           n == Len(b)
           w == <<nd.isLeaf>>
           a == Fixed32(nd.self)
           d == Fixed32(n)
           x == PivotImages(b)
           y == d \o x
           z == a \o y
           r == [ok |-> TRUE, rest |-> NodeImage(nd), val |-> 0]
           ra == Reader(z, nd.isLeaf)
           rb == Reader(y, nd.self)
           rc == Reader(x, n)
           rp == Reader(<<>>, b)
<1>1. /\ b \in Seq(Pivots) /\ n \in 0..(IntRange - 1) /\ x \in Seq(Byte)
      /\ d \in Seq(Byte)
  BY PivotsFacts
<1>2. n > 0 /\ n \in Nat
  BY <1>1, nd.pivots # <<>>, EmptySeq, LenProperties
<1>3. w \in Seq(Byte) /\ a \in Seq(Byte) /\ Len(w) = 1 /\ w[1] = nd.isLeaf
  <2>1. nd.isLeaf \in Byte
    BY RangeFacts
  <2>2. nd.self \in Nat
    BY RangeFacts
  <2> QED BY <2>1, <2>2, Fixed32Facts
<1>4. \A i \in DOMAIN b : Alike(b[i].msgs)
  BY DEF EqualLengths, Alike
<1>5. NodeImage(nd) = (w \o a \o d) \o x
  BY DEF NodeImage, HeadImage
<1> HIDE DEF w, a, d, x
<1>6. NodeImage(nd) = w \o z /\ z \in Seq(Byte) /\ y \in Seq(Byte)
  <2> DEFINE e == a \o d
  <2>1. y \in Seq(Byte) /\ z \in Seq(Byte) /\ e \in Seq(Byte)
    BY ONLY <1>1, <1>3, ConcatProperties
  <2>2. w \o a \o d = w \o e
    <3>1. w \in Seq(Byte) /\ a \in Seq(Byte) /\ d \in Seq(Byte)
      BY <1>1, <1>3
    <3> QED BY ONLY <3>1, Regroup
  <2>3. e \o x = a \o y
    <3>1. a \in Seq(Byte) /\ d \in Seq(Byte) /\ x \in Seq(Byte)
      BY <1>1, <1>3
    <3> QED BY ONLY <3>1, Regroup
  <2> HIDE DEF e
  <2>4. (w \o e) \o x = w \o (e \o x)
    <3>1. w \in Seq(Byte) /\ e \in Seq(Byte) /\ x \in Seq(Byte)
      BY <1>1, <1>3, <2>1
    <3> QED BY ONLY <3>1, Regroup
  <2> QED BY ONLY <1>5, <2>1, <2>2, <2>3, <2>4
<1>7. ReadInt8(r) = ra
  <2> HIDE DEF z
  <2> DEFINE g == w \o z
             s == Reader(g, 0)
  <2>1. 1 = Len(w)
    BY <1>3
  <2>2. Len(g) >= 1 /\ SubSeq(g, 1 + 1, Len(g)) = z
    BY ONLY <1>3, <1>6, <2>1, Halves
  <2>3. g[1] = nd.isLeaf
    <3>1. 1 \in 1..(Len(w) + Len(z)) /\ 1 <= Len(w)
      BY <1>3, <1>6, LenProperties
    <3> QED BY <1>3, <1>6, <3>1, ConcatProperties
  <2>4. r = s
    BY <1>6 DEF Reader
  <2> HIDE DEF g
  <2>5. s.rest = g /\ Took(s, 1, nd.isLeaf) = Reader(SubSeq(g, 1 + 1, Len(g)), nd.isLeaf)
    BY ReaderFields
  <2> HIDE DEF s, r
  <2> QED BY ONLY <2>2, <2>3, <2>4, <2>5 DEF ReadInt8
<1>8. ReadInt32(ra) = rb
  <2> HIDE DEF y
  <2>1. ReadInt32(Reader(Fixed32(nd.self) \o y, nd.isLeaf)) = Reader(y, nd.self)
    BY ONLY <1>6, nd.self \in 0..(IntRange - 1), ReadsInt32
  <2> QED BY ONLY <2>1 DEF a
<1>9. ReadInt32(rb) = rc
  <2>1. ReadInt32(Reader(Fixed32(n) \o x, nd.self)) = Reader(x, n)
    BY ONLY <1>1, ReadsInt32
  <2> QED BY ONLY <2>1 DEF d
<1>10. Repeat(ReadPivot, rc, n) = rp
  <2>1. Repeat(ReadPivot, Reader(PivotImages(b), n), Len(b)) = Reader(<<>>, b)
    BY ONLY <1>4, nd.pivots \in PivotLists, ReadsPivots
  <2> QED BY ONLY <2>1 DEF x
<1>11. /\ ra.ok /\ ra.val = nd.isLeaf /\ rb.ok /\ rb.val = nd.self
       /\ rc.ok /\ rc.val = n /\ rp.ok /\ rp.val = b
  BY ReaderFields
<1> HIDE DEF ra, rb, rc, rp, n
<1>12. ReadInt8([ok |-> TRUE, rest |-> NodeImage(nd), val |-> 0]) = ra
  BY ONLY <1>7
<1> HIDE DEF r, b
<1> QED BY ONLY <1>2, <1>8, <1>9, <1>10, <1>11, <1>12 DEF ReadNode, b

-----------------------------------------------------------------------------
\* Sizes

\* The bytes of two images and of three.
LEMMA JoinedLen ==
    ASSUME NEW a \in Seq(Byte), NEW b \in Seq(Byte)
    PROVE  /\ a \o b \in Seq(Byte) /\ Len(a \o b) = Len(a) + Len(b)
           /\ Len(a) \in Nat /\ Len(b) \in Nat
BY ConcatProperties, LenProperties

LEMMA JoinedLens ==
    ASSUME NEW a \in Seq(Byte), NEW b \in Seq(Byte), NEW c \in Seq(Byte)
    PROVE  /\ a \o b \o c \in Seq(Byte)
           /\ Len(a \o b \o c) = Len(a) + Len(b) + Len(c)
           /\ Len(a) \in Nat /\ Len(b) \in Nat /\ Len(c) \in Nat
<1> DEFINE x == a \o b
<1>1. /\ x \in Seq(Byte) /\ Len(x) = Len(a) + Len(b)
      /\ Len(a) \in Nat /\ Len(b) \in Nat
  BY JoinedLen
<1> HIDE DEF x
<1>2. /\ x \o c \in Seq(Byte) /\ Len(x \o c) = Len(x) + Len(c) /\ Len(c) \in Nat
  BY <1>1, JoinedLen
<1> QED BY <1>1, <1>2 DEF x

\* The bytes of several images, when there is a number no less for each.
LEMMA FlattenSize ==
    ASSUME NEW q \in Seq(Seq(Byte)), NEW s \in Seq(Nat), Len(s) = Len(q),
           \A k \in 1..Len(q) : Len(q[k]) <= s[k]
    PROVE  Len(FlattenSeq(q)) <= Sum(s) /\ Sum(s) \in Nat
<1> DEFINE n == Len(q)
<1>1. /\ n \in Nat /\ Len(s) = n /\ 0 \in 0..n /\ n \in 0..n
      /\ \A k \in 1..n : k \in 0..n /\ k - 1 \in 0..n
  BY LenProperties
<1>2. PICK f \in [0..n -> Seq(Byte)] : Joins(f, q)
  BY JoinExists
<1>3. FlattenSeq(q) = f[n]
  BY <1>2, FlattenIs
<1>4. PICK g \in [0..n -> Nat] :
         g[0] = 0 /\ (\A k \in 1..n : g[k] = g[k - 1] + s[k]) /\ Sum(s) = g[n]
  BY <1>1, SumIs
<1> DEFINE T == {k \in 0..n : Len(f[k]) <= g[k]}
<1>5. 0 \in T
  <2>1. f[0] = <<>> /\ g[0] = 0
    BY <1>2, <1>4 DEF Joins
  <2> QED BY <1>1, <2>1, EmptySeq
<1>6. ASSUME NEW k \in 1..n, k - 1 \in T PROVE k \in T
  <2> DEFINE x == f[k - 1]
             y == q[k]
  <2>1. f[k] = x \o y /\ g[k] = g[k - 1] + s[k] /\ Len(y) <= s[k]
    BY <1>2, <1>4 DEF Joins
  <2>2. k \in 0..n /\ k - 1 \in 0..n
    BY <1>1
  <2>3. x \in Seq(Byte) /\ Len(x) <= g[k - 1]
    BY <1>6, <2>2
  <2>4. y \in Seq(Byte) /\ s[k] \in Nat /\ g[k - 1] \in Nat
    <3>1. s[k] \in Nat
      BY <1>1
    <3>2. y \in Seq(Byte)
      OBVIOUS
    <3> QED BY <2>2, <3>1, <3>2
  <2> HIDE DEF x, y
  <2>5. Len(f[k]) = Len(x) + Len(y) /\ Len(x) \in Nat /\ Len(y) \in Nat
    BY ONLY <2>1, <2>3, <2>4, JoinedLen
  <2>6. Len(f[k]) <= g[k]
    <3> DEFINE lx == Len(x)
               ly == Len(y)
               lf == Len(f[k])
               gk == g[k]
               gp == g[k - 1]
               sk == s[k]
    <3> HIDE DEF lx, ly, lf, gk, gp, sk
    <3>1. lf = lx + ly /\ lx \in Nat /\ ly \in Nat /\ lx <= gp /\ ly <= sk
      BY ONLY <2>1, <2>3, <2>5 DEF lx, ly, lf, gp, sk
    <3>2. gk = gp + sk /\ sk \in Nat /\ gp \in Nat
      BY ONLY <2>1, <2>4 DEF gk, gp, sk
    <3>3. lf <= gk
      BY ONLY <3>1, <3>2
    <3> QED BY ONLY <3>3 DEF lf, gk
  <2> QED BY ONLY <2>2, <2>6
<1>7. n \in T
  <2>1. T \in SUBSET (0..n)
    OBVIOUS
  <2> HIDE DEF T
  <2> QED BY ONLY <1>1, <1>5, <1>6, <2>1, UpTo
<1> QED BY <1>1, <1>3, <1>4, <1>7

\* The length fields that MsgSize leaves out are at most two.
LEMMA MsgImageSize ==
    ASSUME NEW m \in Messages
    PROVE  /\ MsgSize(m) + 2 * IntWidth \in Nat
           /\ Len(MsgImage(m)) <= MsgSize(m) + 2 * IntWidth
<1> DEFINE a == Fixed32(m.type)
           b == String(m.key)
           k == Fixed32(Len(m.key))
           c == k \o m.value
           d == IF m.type = Put THEN c ELSE <<>>
           W == IntWidth
<1>1. /\ m.type \in 0..(IntRange - 1) /\ m.key \in Strings /\ m.value \in Strings
  BY MsgFacts
<1>2. W \in Nat
  BY RangeFacts
<1>3. /\ Len(m.key) \in Nat /\ Len(m.value) \in Nat /\ m.value \in Seq(Byte)
      /\ k \in Seq(Byte)
  BY <1>1, StringFacts, LenProperties
<1>4. a \in Seq(Byte) /\ Len(a) = W /\ b \in Seq(Byte) /\ Len(b) = W + Len(m.key)
  <2>1. m.type \in Nat
    BY <1>1, RangeFacts
  <2> QED BY <1>1, <2>1, Fixed32Facts, StringFacts
<1>5. c \in Seq(Byte) /\ Len(c) = W + Len(m.value)
  <2>1. Len(k) = W
    BY <1>3, Fixed32Facts
  <2> HIDE DEF k
  <2> QED BY <1>3, <2>1, ConcatProperties
<1>6. MsgImage(m) = a \o b \o d
  BY DEF MsgImage
<1> HIDE DEF a, b, c
<1>7. /\ d \in Seq(Byte)
      /\ Len(d) = IF m.type = Put THEN W + Len(m.value) ELSE 0
  BY <1>5, EmptySeq
<1> HIDE DEF d
<1>8. Len(MsgImage(m)) = Len(a) + Len(b) + Len(d)
  <2>1. a \in Seq(Byte) /\ b \in Seq(Byte) /\ d \in Seq(Byte)
    BY <1>4, <1>7
  <2>2. Len(a \o b \o d) = Len(a) + Len(b) + Len(d)
    BY ONLY <2>1, JoinedLens
  <2> QED BY ONLY <1>6, <2>2
<1> DEFINE lk == Len(m.key)
           lv == Len(m.value)
           l == Len(MsgImage(m))
<1> HIDE DEF lk, lv, l
<1>9. lk \in Nat /\ lv \in Nat
  BY <1>3 DEF lk, lv
<1>10. l = W + (W + lk) + IF m.type = Put THEN W + lv ELSE 0
  BY <1>4, <1>7, <1>8 DEF lk, lv, l
<1>11. MsgSize(m) = W + lk + IF m.type = Put THEN lv ELSE 0
  BY DEF MsgSize, lk, lv
<1>12. MsgSize(m) + 2 * W \in Nat /\ l <= MsgSize(m) + 2 * W
  BY ONLY <1>2, <1>9, <1>10, <1>11
<1> QED BY <1>12 DEF l

LEMMA BufImageSize ==
    ASSUME NEW b \in MsgLists
    PROVE  BufSize(b) \in Nat /\ Len(BufImage(b)) <= BufSize(b)
<1> DEFINE n == Len(b)
           q == [i \in DOMAIN b |-> MsgImage(b[i])]
           s == [i \in DOMAIN b |-> MsgSize(b[i]) + 2 * IntWidth]
           a == Fixed32(n)
           x == FlattenSeq(q)
<1>1. /\ n \in Nat /\ a \in Seq(Byte) /\ q \in Seq(Seq(Byte)) /\ Len(q) = n
      /\ \A i \in 1..n : b[i] \in Messages
      /\ DOMAIN b = 1..n
  BY BufFacts, LenProperties
<1>2. ASSUME NEW i \in 1..n
      PROVE  q[i] = MsgImage(b[i]) /\ s[i] \in Nat /\ Len(q[i]) <= s[i]
  <2>1. b[i] \in Messages
    BY <1>1
  <2>2. q[i] = MsgImage(b[i]) /\ s[i] = MsgSize(b[i]) + 2 * IntWidth
    BY <1>1
  <2> QED BY ONLY <2>1, <2>2, MsgImageSize
<1>3. s \in Seq(Nat) /\ Len(s) = n
  <2>1. s \in [1..n -> Nat]
    BY <1>1, <1>2
  <2> HIDE DEF s
  <2> QED BY <1>1, <2>1
<1>4. BufImage(b) = a \o x /\ BufSize(b) = IntWidth + Sum(s)
  BY DEF BufImage, BufSize
<1>5. Len(a) = IntWidth /\ IntWidth \in Nat
  BY <1>1, Fixed32Facts, RangeFacts
<1> HIDE DEF q, s, a
<1>6. Len(x) <= Sum(s) /\ Sum(s) \in Nat
  <2>1. Len(s) = Len(q) /\ \A k \in 1..Len(q) : Len(q[k]) <= s[k]
    BY <1>1, <1>2, <1>3
  <2> QED BY <1>1, <1>3, <2>1, FlattenSize
<1>7. x \in Seq(Byte)
  <2>1. \E f \in [0..Len(q) -> Seq(Byte)] : Joins(f, q)
    BY <1>1, JoinExists
  <2> QED BY <1>1, <2>1, FlattenIs
<1> HIDE DEF x
<1>8. Len(BufImage(b)) = Len(a) + Len(x) /\ Len(x) \in Nat
  BY <1>1, <1>4, <1>7, JoinedLen
<1> QED BY <1>4, <1>5, <1>6, <1>8

LEMMA PivotImageSize ==
    ASSUME NEW p \in Pivots
    PROVE  PivotSize(p) \in Nat /\ Len(PivotImage(p)) <= PivotSize(p)
<1> DEFINE a == Fixed32(p.childNid)
           b == String(p.leftKey)
           d == BufImage(p.msgs)
           W == IntWidth
<1>1. /\ a \in Seq(Byte) /\ b \in Seq(Byte) /\ d \in Seq(Byte)
      /\ p.childNid \in Nat /\ p.leftKey \in Strings /\ p.msgs \in MsgLists
  <2>1. p.childNid \in Nat
    BY PivotFacts, RangeFacts
  <2> QED BY <2>1, PivotFacts
<1>2. Len(a) = W /\ W \in Nat
  BY <1>1, Fixed32Facts, RangeFacts
<1>3. Len(b) = W + Len(p.leftKey) /\ Len(p.leftKey) \in Nat
  <2>1. p.leftKey \in Seq(Byte)
    BY <1>1, StringFacts
  <2> QED BY <1>1, <2>1, StringFacts, LenProperties
<1>4. BufSize(p.msgs) \in Nat /\ Len(d) <= BufSize(p.msgs)
  BY <1>1, BufImageSize
<1>5. PivotImage(p) = a \o b \o d
  BY DEF PivotImage
<1> HIDE DEF a, b, d
<1>6. Len(PivotImage(p)) = Len(a) + Len(b) + Len(d) /\ Len(d) \in Nat
  BY <1>1, <1>5, JoinedLens
<1> QED BY <1>2, <1>3, <1>4, <1>6 DEF PivotSize

\* Where the pivots begin in the image of a node.
LEMMA HeadFacts ==
    ASSUME NEW leaf \in {0, 1}, NEW self \in 0..(IntRange - 1), NEW n \in 0..(IntRange - 1)
    PROVE  /\ HeadImage(leaf, self, n) \in Seq(Byte)
           /\ Len(HeadImage(leaf, self, n)) = 1 + 2 * IntWidth
<1> DEFINE w == <<leaf>>
           a == Fixed32(self)
           d == Fixed32(n)
<1>1. w \in Seq(Byte) /\ Len(w) = 1
  <2>1. leaf \in Byte
    BY RangeFacts
  <2> QED BY <2>1
<1>2. /\ a \in Seq(Byte) /\ Len(a) = IntWidth
      /\ d \in Seq(Byte) /\ Len(d) = IntWidth /\ IntWidth \in Nat
  <2>1. self \in Nat /\ n \in Nat
    BY RangeFacts
  <2> QED BY <2>1, Fixed32Facts, RangeFacts
<1>3. HeadImage(leaf, self, n) = w \o a \o d
  BY DEF HeadImage
<1> HIDE DEF w, a, d
<1>4. /\ w \o a \o d \in Seq(Byte)
      /\ Len(w \o a \o d) = Len(w) + Len(a) + Len(d)
  BY ONLY <1>1, <1>2, JoinedLens
<1> QED BY <1>1, <1>2, <1>3, <1>4

\* The image of a node and what the cache counts it with.
LEMMA NodeImageFacts ==
    ASSUME NEW nd, nd.isLeaf \in {0, 1}, nd.self \in 0..(IntRange - 1),
           nd.pivots \in PivotLists
    PROVE  /\ NodeImage(nd) \in Seq(Byte)
           /\ Len(NodeImage(nd)) <= WriteBackSize(nd)
<1> DEFINE b == nd.pivots
           n == Len(b)
           q == [i \in DOMAIN b |-> PivotImage(b[i])]
           s == [i \in DOMAIN b |-> PivotSize(b[i])]
           a == HeadImage(nd.isLeaf, nd.self, n)
           x == PivotImages(b)
<1>1. /\ n \in Nat /\ n \in 0..(IntRange - 1) /\ x \in Seq(Byte)
      /\ q \in Seq(Seq(Byte)) /\ Len(q) = n
      /\ \A i \in 1..n : b[i] \in Pivots
      /\ DOMAIN b = 1..n
  BY PivotsFacts, LenProperties
<1>2. ASSUME NEW i \in 1..n
      PROVE  q[i] = PivotImage(b[i]) /\ s[i] \in Nat /\ Len(q[i]) <= s[i]
  <2>1. b[i] \in Pivots
    BY <1>1
  <2>2. q[i] = PivotImage(b[i]) /\ s[i] = PivotSize(b[i])
    BY <1>1
  <2> QED BY ONLY <2>1, <2>2, PivotImageSize
<1>3. s \in Seq(Nat) /\ Len(s) = n
  <2>1. s \in [1..n -> Nat]
    BY <1>1, <1>2
  <2> HIDE DEF s
  <2> QED BY <1>1, <2>1
<1>4. /\ a \in Seq(Byte) /\ Len(a) = 1 + 2 * IntWidth /\ IntWidth \in Nat
  BY <1>1, HeadFacts, RangeFacts
<1>5. /\ NodeImage(nd) = a \o x /\ x = FlattenSeq(q)
      /\ WriteBackSize(nd) = 1 + IntWidth + IntWidth + Sum(s)
  BY DEF NodeImage, PivotImages, WriteBackSize
<1> HIDE DEF q, s, a, x
<1>6. Len(x) <= Sum(s) /\ Sum(s) \in Nat
  <2>1. Len(s) = Len(q) /\ \A k \in 1..Len(q) : Len(q[k]) <= s[k]
    BY <1>1, <1>2, <1>3
  <2> QED BY <1>1, <1>3, <1>5, <2>1, FlattenSize
<1>7. /\ NodeImage(nd) \in Seq(Byte) /\ Len(x) \in Nat
      /\ Len(NodeImage(nd)) = Len(a) + Len(x)
  <2>1. a \in Seq(Byte) /\ x \in Seq(Byte)
    BY <1>1, <1>4
  <2>2. a \o x \in Seq(Byte) /\ Len(a \o x) = Len(a) + Len(x) /\ Len(x) \in Nat
    BY ONLY <2>1, JoinedLen
  <2> QED BY ONLY <1>5, <2>2
<1>8. Len(NodeImage(nd)) <= WriteBackSize(nd)
  BY ONLY <1>4, <1>5, <1>6, <1>7
<1> QED BY <1>7, <1>8

-----------------------------------------------------------------------------
\* The file

\* The regions of the nids follow one another, and no offset wraps around.
LEMMA OffsetFacts ==
    ASSUME NEW n \in Nids
    PROVE  /\ n \in Nat /\ n \in 0..(IntRange - 1) /\ n + 1 \in 1..MetaInit
           /\ Offset(n) = n * Region /\ Offset(n) \in Nat
           /\ \A m \in Nids : n < m => Offset(n) + Region <= Offset(m)
<1>1. Region \in Nat /\ Region > 0 /\ OffsetRange \in Nat
  BY SizesAssumption
<1>2. ASSUME NEW k \in Nids
      PROVE  /\ k \in Nat /\ k \in 0..(IntRange - 1) /\ k + 1 \in 1..MetaInit
             /\ Offset(k) = k * Region /\ Offset(k) \in Nat
  <2>1. k \in Nat /\ k < MetaInit /\ k < IntRange /\ (k + 1) * Region <= OffsetRange
    BY NidsAssumption
  <2> DEFINE o == k * Region
  <2>2. o \in Nat /\ o + Region = (k + 1) * Region
    BY ONLY <1>1, <2>1, Multiples
  <2>3. o < OffsetRange /\ OffsetRange > 0 /\ o \in 0..(OffsetRange - 1)
    <3> HIDE DEF o
    <3> QED BY ONLY <1>1, <2>1, <2>2
  <2>4. o % OffsetRange = o
    <3> HIDE DEF o
    <3>1. (0 * OffsetRange + o) % OffsetRange = o /\ 0 * OffsetRange + o = o
      BY ONLY <1>1, <2>2, <2>3, DivMod
    <3> QED BY ONLY <3>1
  <2>5. k \in 0..(IntRange - 1) /\ k + 1 \in 1..MetaInit
    BY <2>1, SizesAssumption, RangeFacts
  <2> QED BY <2>1, <2>2, <2>4, <2>5 DEF Offset
<1>3. ASSUME NEW m \in Nids, n < m PROVE Offset(n) + Region <= Offset(m)
  <2>1. n \in Nat /\ m \in Nat /\ n + 1 \in Nat /\ n + 1 <= m
    BY <1>2, <1>3
  <2>2. n * Region + Region = (n + 1) * Region /\ (n + 1) * Region <= m * Region
    BY ONLY <1>1, <2>1, Multiples
  <2> QED BY <1>2, <2>2
<1> QED BY <1>2, <1>3

\* File f holds data from offset o on.
Holds(f, o, data) ==
    o + Len(data) <= Len(f) /\ \A i \in 1..Len(data) : f[o + i] = data[i]

\* What a write puts into the file, and what it leaves alone before it.
LEMMA PwriteFacts ==
    ASSUME file \in Seq(Byte), NEW o \in Nat, NEW data \in Seq(Byte)
    PROVE  /\ Pwrite(o, data) \in Seq(Byte) /\ Holds(Pwrite(o, data), o, data)
           /\ \A p \in Nat, d \in Seq(Byte) :
                 p + Len(d) <= o /\ Holds(file, p, d) => Holds(Pwrite(o, data), p, d)
<1> DEFINE l == Len(file)
           k == Len(data)
           M == Max({l, o + k})
           f == Pwrite(o, data)
<1>1. /\ l \in Nat /\ k \in Nat /\ \A i \in 1..l : file[i] \in Byte
      /\ \A i \in 1..k : data[i] \in Byte
  BY LenProperties
<1> HIDE DEF l, k
<1>2. M \in Nat /\ l <= M /\ o + k <= M
  <2> DEFINE e == o + k
             P(x) == x \in {l, e} /\ \A y \in {l, e} : x >= y
  <2>1. e \in Nat
    BY <1>1
  <2>2. M = CHOOSE x : P(x)
    BY DEF Max
  <2> HIDE DEF e, M
  <2>3. \E x : P(x)
    <3>1. P(l) \/ P(e)
      BY <1>1, <2>1
    <3> QED BY <3>1
  <2>4. P(M)
    <3> HIDE DEF P
    <3> QED BY <2>2, <2>3
  <2> QED BY <1>1, <2>1, <2>4 DEF e
<1>3. f = [i \in 1..M |-> IF i \in (o + 1)..(o + k) THEN data[i - o]
                          ELSE IF i <= l THEN file[i] ELSE 0]
  BY DEF Pwrite, l, k
<1> HIDE DEF f, M
<1>4. ASSUME NEW i \in 1..M PROVE f[i] \in Byte
  <2>1. CASE i \in (o + 1)..(o + k)
    <3>1. i - o \in 1..k /\ f[i] = data[i - o]
      BY <1>1, <1>2, <1>3, <2>1
    <3> QED BY <1>1, <3>1
  <2>2. CASE i \notin (o + 1)..(o + k) /\ i <= l
    <3>1. i \in 1..l /\ f[i] = file[i]
      BY <1>1, <1>2, <1>3, <2>2
    <3> QED BY <1>1, <3>1
  <2>3. CASE i \notin (o + 1)..(o + k) /\ ~ (i <= l)
    <3>1. f[i] = 0
      BY <1>3, <2>3
    <3> QED BY <3>1, RangeFacts
  <2> QED BY <2>1, <2>2, <2>3
<1>5. f \in Seq(Byte) /\ Len(f) = M
  <2>1. f \in [1..M -> Byte]
    BY <1>3, <1>4
  <2> QED BY <1>2, <2>1
<1>6. Holds(f, o, data)
  <2>1. ASSUME NEW i \in 1..k PROVE f[o + i] = data[i]
    <3>1. o + i \in 1..M /\ o + i \in (o + 1)..(o + k) /\ o + i - o = i
      BY <1>1, <1>2
    <3> QED BY <1>3, <3>1
  <2> QED BY <1>2, <1>5, <2>1 DEF Holds, k
<1>7. ASSUME NEW p \in Nat, NEW d \in Seq(Byte), p + Len(d) <= o, Holds(file, p, d)
      PROVE  Holds(f, p, d)
  <2> DEFINE m == Len(d)
  <2>1. m \in Nat /\ p + m <= o /\ p + m <= l /\ \A i \in 1..m : file[p + i] = d[i]
    BY <1>7, LenProperties DEF Holds, l
  <2> HIDE DEF m
  <2>2. ASSUME NEW i \in 1..m PROVE f[p + i] = d[i]
    <3>1. p + i \in 1..M /\ p + i \notin (o + 1)..(o + k) /\ p + i <= l
      BY <1>1, <1>2, <2>1
    <3>2. f[p + i] = file[p + i]
      BY <1>3, <3>1
    <3> QED BY <2>1, <3>2
  <2>3. p + m <= M
    BY <1>1, <1>2, <2>1
  <2> QED BY <1>5, <2>2, <2>3 DEF Holds, m
<1> QED BY <1>5, <1>6, <1>7 DEF f

\* A read of what the file holds.
LEMMA ReadFileIs ==
    ASSUME file \in Seq(Byte), NEW o \in Nat, NEW data \in Seq(Byte), Holds(file, o, data)
    PROVE  ReadFile(o, Len(data)) = data
<1> DEFINE n == Len(data)
           x == SubSeq(file, o + 1, o + n)
<1>1. /\ n \in Nat /\ o + n <= Len(file) /\ \A i \in 1..n : file[o + i] = data[i]
      /\ \A i \in 1..Len(file) : file[i] \in Byte
      /\ Len(file) \in Nat
  BY LenProperties DEF Holds
<1> HIDE DEF n
<1>2. ReadFile(o, n) = x
  BY <1>1 DEF ReadFile
<1>3. x \in Seq(Byte) /\ Len(x) = n /\ \A i \in 1..n : x[i] = file[o + i]
  <2>1. \A i \in (o + 1)..(o + n) : file[i] \in Byte
    BY <1>1
  <2>2. o + 1 \in Int /\ o + n \in Int
    BY <1>1
  <2>3. /\ x \in Seq(Byte)
        /\ Len(x) = IF o + 1 <= o + n THEN (o + n) - (o + 1) + 1 ELSE 0
        /\ \A i \in 1..((o + n) - (o + 1) + 1) : x[i] = file[(o + 1) + i - 1]
    BY ONLY <2>1, <2>2, SubSeqProperties
  <2>4. (o + n) - (o + 1) + 1 = n /\ (~ (o + 1 <= o + n) => n = 0)
    BY <1>1
  <2>5. \A i \in 1..n : (o + 1) + i - 1 = o + i
    BY <1>1
  <2> QED BY ONLY <2>3, <2>4, <2>5
<1> HIDE DEF x
<1>4. x = data
  <2>1. Len(data) = Len(x) /\ \A i \in 1..Len(x) : x[i] = data[i]
    BY <1>1, <1>3 DEF n
  <2> QED BY <1>3, <2>1, SeqEqual
<1> QED BY <1>2, <1>4 DEF n

-----------------------------------------------------------------------------
\* The inductive invariant

\* What the types say of a node and of the contents a node can be given.
LEMMA NodeFacts ==
    ASSUME TypeOK, NodesInv, NEW n \in Nids
    PROVE  /\ node[n] \in NodeRecords /\ node[n].isLeaf \in {0, 1}
           /\ node[n].self = n /\ n \in 0..(IntRange - 1)
           /\ node[n].pivots \in PivotLists
<1>1. node[n] \in NodeRecords
  BY DEF TypeOK
<1>2. node[n].isLeaf \in {0, 1} /\ node[n].pivots \in PivotLists
  BY <1>1 DEF NodeRecords
<1> QED BY <1>1, <1>2, OffsetFacts DEF NodesInv

\* The smallest nid left.
LEMMA CurFacts ==
    ASSUME TypeOK, todo # {}
    PROVE  /\ cur \in todo /\ cur \in dirtyNodes /\ cur \in Nids /\ cur \in Nat
           /\ \A n \in todo \ {cur} : cur < n
<1>1. \A S \in SUBSET Nat : S # {} => \E x \in S : \A y \in S : x <= y
  BY LeastIn
<1>2. todo \in SUBSET Nat /\ todo \subseteq dirtyNodes /\ dirtyNodes \subseteq Nids
  BY OffsetFacts DEF TypeOK
<1>3. cur \in todo /\ \A y \in todo : cur <= y
  <2> DEFINE P(x) == x \in todo /\ \A y \in todo : x =< y
  <2>1. \E x : P(x)
    BY <1>1, <1>2
  <2>2. cur = CHOOSE x : P(x)
    BY DEF cur, Min
  <2> HIDE DEF P
  <2>3. P(cur)
    BY <2>1, <2>2
  <2> QED BY <2>3 DEF P
<1>4. ASSUME NEW n \in todo \ {cur} PROVE cur < n
  BY <1>2, <1>3
<1> QED BY <1>2, <1>3, <1>4

\* A node that was serialized.
LEMMA SavedFacts ==
    ASSUME TypeOK, SavedInv, NEW n \in Nids, saved[n] # [clean |-> FALSE]
    PROVE  /\ saved[n] \in [clean : BOOLEAN, node : NodeRecords]
           /\ saved[n].clean \in BOOLEAN /\ saved[n].node \in NodeRecords
           /\ saved[n].node.isLeaf \in {0, 1} /\ saved[n].node.self \in 0..(IntRange - 1)
           /\ saved[n].node.pivots \in PivotLists
           /\ saved[n].clean => n \in dirtyNodes /\ saved[n].node.self = n
<1>1. saved[n] \in [clean : BOOLEAN, node : NodeRecords]
  BY DEF TypeOK
<1>2. saved[n].clean \in BOOLEAN /\ saved[n].node \in NodeRecords
  BY <1>1
<1>3. /\ saved[n].node.isLeaf \in {0, 1} /\ saved[n].node.self \in Nids
      /\ saved[n].node.pivots \in PivotLists
  BY <1>2 DEF NodeRecords
<1> QED BY <1>1, <1>2, <1>3, OffsetFacts DEF SavedInv

\* What is clean was serialized.
LEMMA CleanFacts ==
    ASSUME TypeOK, SavedInv, NEW n \in Nids, saved[n].clean
    PROVE  saved[n] # [clean |-> FALSE]
OBVIOUS

\* One pivot more in a list of pivots and in its image.
LEMMA MorePivots ==
    ASSUME NEW b \in PivotLists, NEW p \in Pivots, Len(b) + 1 < IntRange
    PROVE  /\ Append(b, p) \in PivotLists /\ Len(Append(b, p)) = Len(b) + 1
           /\ Append(b, p) # <<>>
           /\ \A i \in 1..(Len(b) + 1) : Append(b, p)[i] = IF i <= Len(b) THEN b[i] ELSE p
           /\ PivotImages(Append(b, p)) = PivotImages(b) \o PivotImage(p)
<1> DEFINE c == Append(b, p)
           n == Len(b)
           q == [i \in DOMAIN b |-> PivotImage(b[i])]
           r == [i \in DOMAIN c |-> PivotImage(c[i])]
           x == PivotImage(p)
<1>1. /\ b \in Seq(Pivots) /\ n \in Nat /\ q \in Seq(Seq(Byte)) /\ Len(q) = n
      /\ DOMAIN b = 1..n /\ x \in Seq(Byte)
  BY PivotsFacts, PivotFacts, LenProperties
<1>2. c \in Seq(Pivots) /\ Len(c) = n + 1
  BY <1>1, AppendProperties
<1>3. \A i \in 1..(n + 1) : c[i] = IF i <= n THEN b[i] ELSE p
  BY <1>1, AppendProperties
<1>4. DOMAIN c = 1..(n + 1)
  BY <1>2, LenProperties
<1>5. c \in PivotLists /\ c # <<>>
  <2>1. n + 1 < IntRange
    OBVIOUS
  <2> HIDE DEF c
  <2> QED BY <1>1, <1>2, <2>1, EmptySeq DEF PivotLists
<1>6. r = Append(q, x)
  <2>1. r \in Seq(Seq(Byte)) /\ Len(r) = n + 1
    <3> HIDE DEF c
    <3> QED BY <1>2, <1>5, PivotsFacts
  <2>2. \A i \in 1..(n + 1) : r[i] = IF i <= n THEN q[i] ELSE x
    <3> HIDE DEF c
    <3>1. \A i \in 1..(n + 1) : r[i] = PivotImage(c[i])
      BY <1>4
    <3>2. \A i \in 1..(n + 1) : i <= n => i \in DOMAIN b /\ q[i] = PivotImage(b[i])
      BY <1>1
    <3> QED BY <1>3, <3>1, <3>2
  <2> DEFINE X == Seq(Byte)
             y == Append(q, x)
  <2> HIDE DEF q, r, x, X, n
  <2>3. q \in Seq(X) /\ x \in X /\ r \in Seq(X)
    BY <1>1, <2>1 DEF X
  <2>4. /\ y \in Seq(X) /\ Len(y) = Len(q) + 1 /\ y[Len(q) + 1] = x
        /\ \A i \in 1..Len(q) : y[i] = q[i]
    BY ONLY <2>3, AppendProperties
  <2> HIDE DEF y
  <2>5. Len(y) = Len(r) /\ \A i \in 1..Len(r) : r[i] = y[i]
    <3>1. \A i \in 1..(n + 1) : (i <= n /\ i \in 1..n) \/ (i = n + 1 /\ ~ (i <= n))
      BY <1>1
    <3> QED BY <1>1, <2>1, <2>2, <2>4, <3>1
  <2>6. r = y
    BY <2>3, <2>4, <2>5, SeqEqual
  <2> QED BY <2>6 DEF y
<1>7. PivotImages(c) = PivotImages(b) \o x
  <2>1. PivotImages(c) = FlattenSeq(r) /\ PivotImages(b) = FlattenSeq(q)
    BY DEF PivotImages
  <2> HIDE DEF q, r, x
  <2>2. FlattenSeq(Append(q, x)) = FlattenSeq(q) \o x
    BY ONLY <1>1, FlattenAppend
  <2> QED BY ONLY <1>6, <2>1, <2>2
<1> QED BY <1>2, <1>3, <1>5, <1>7

\* A node with one link.
LEMMA OneLinkFacts ==
    ASSUME NEW leaf \in {0, 1}, NEW c \in 0..(IntRange - 1), NEW n \in Nids
    PROVE  LET nd == Numbered(OneLink(leaf, c), n)
           IN  /\ nd \in NodeRecords /\ nd.self = n
               /\ Len(nd.pivots) = 1 /\ nd.pivots # <<>>
<1> DEFINE p == [childNid |-> c, leftKey |-> <<>>, msgs |-> <<>>]
           q == <<p>>
<1>1. p \in Pivots
  <2>1. <<>> \in Strings /\ <<>> \in MsgLists
    BY EmptySeq, RangeFacts DEF Strings, MsgLists
  <2> QED BY <2>1 DEF Pivots
<1> HIDE DEF p
<1>2. q \in Seq(Pivots) /\ Len(q) = 1 /\ q # <<>>
  BY <1>1
<1>3. Numbered(OneLink(leaf, c), n) = [isLeaf |-> leaf, self |-> n, pivots |-> q]
  BY DEF Numbered, OneLink, p
<1> HIDE DEF q
<1>4. q \in PivotLists
  BY <1>2, RangeFacts DEF PivotLists
<1> QED BY <1>2, <1>3, <1>4 DEF NodeRecords

\* The state the process starts with.
LEMMA FreshFacts ==
    /\ FirstNodes \in [Nids -> NodeRecords]
    /\ \A n \in Nids : FirstNodes[n].self = n
    /\ EmptyMetadata \in [1..MetaInit -> [offset : Nat, size : Nat]]
    /\ DOMAIN NothingSaved = Nids
    /\ \A n \in Nids : NothingSaved[n] = [clean |-> FALSE] /\ ~ NothingSaved[n].clean
<1>1. ASSUME NEW n \in Nids
      PROVE  FirstNodes[n] \in NodeRecords /\ FirstNodes[n].self = n
  <2>1. CASE n = 1
    <3>1. FirstNodes[n] = Numbered(OneLink(1, 0), n)
      BY <2>1 DEF FirstNodes
    <3>2. 0 \in 0..(IntRange - 1)
      BY RangeFacts
    <3>3. Numbered(OneLink(1, 0), n) \in NodeRecords /\ Numbered(OneLink(1, 0), n).self = n
      BY ONLY <3>2, n \in Nids, OneLinkFacts
    <3> QED BY <3>1, <3>3
  <2>2. CASE n # 1
    <3>1. FirstNodes[n] = [isLeaf |-> 1, self |-> n, pivots |-> <<>>]
      BY <2>2 DEF FirstNodes
    <3>2. <<>> \in PivotLists
      BY EmptySeq, RangeFacts DEF PivotLists
    <3> QED BY <3>1, <3>2 DEF NodeRecords
  <2> QED BY <2>1, <2>2
<1>2. FirstNodes \in [Nids -> NodeRecords]
  BY <1>1 DEF FirstNodes
<1>3. EmptyMetadata \in [1..MetaInit -> [offset : Nat, size : Nat]]
  BY DEF EmptyMetadata, NoPosition
<1>4. /\ DOMAIN NothingSaved = Nids
      /\ \A n \in Nids : NothingSaved[n] = [clean |-> FALSE] /\ ~ NothingSaved[n].clean
  BY DEF NothingSaved
<1> QED BY <1>1, <1>2, <1>3, <1>4

\* Init establishes the invariant.
LEMMA InitInv ==
    ASSUME Init
    PROVE  Inv
<1>1. /\ node = FirstNodes /\ making = {} /\ file = <<>> /\ metadata = EmptyMetadata
      /\ writeBuf = <<>> /\ dirtyNodes = {} /\ todo = {} /\ pc = "scan" /\ pivot = 0
      /\ pivots = 0 /\ size = 0 /\ saved = NothingSaved
  BY DEF Init
<1>2. TypeOK
  BY <1>1, FreshFacts, EmptySeq DEF TypeOK
<1>3. NodesInv
  BY <1>1, FreshFacts DEF NodesInv
<1>4. LoopInv /\ CurrentInv
  BY <1>1 DEF LoopInv, CurrentInv
<1>5. SavedInv /\ StoredInv
  BY <1>1, FreshFacts DEF SavedInv, StoredInv, Settled
<1> QED BY <1>2, <1>3, <1>4, <1>5 DEF Inv

\* A step that changes nothing but nodes: nodes in use stay in use, new roots
\* have one pivot, and the node that is being serialized loses none.
LEMMA NodeChangeInv ==
    ASSUME Inv, UNCHANGED <<file, metadata, writeBuf, loop, saved>>,
           node' \in [Nids -> NodeRecords], making' \subseteq Nids,
           \A n \in Nids : node'[n].self = n,
           \A n \in InUse : node'[n].pivots # <<>>,
           \A n \in making' : Len(node'[n].pivots) = 1,
           pivot > 0 => Len(node[cur].pivots) <= Len(node'[cur].pivots)
    PROVE  Inv'
<1>1. TypeOK /\ NodesInv /\ LoopInv /\ SavedInv /\ CurrentInv /\ StoredInv
  BY DEF Inv
<1>2. /\ file' = file /\ metadata' = metadata /\ writeBuf' = writeBuf /\ saved' = saved
      /\ dirtyNodes' = dirtyNodes /\ todo' = todo /\ pc' = pc /\ pivot' = pivot
      /\ pivots' = pivots /\ size' = size
  BY DEF loop
<1>3. cur' = cur
  BY <1>2 DEF cur
<1>4. TypeOK'
  BY <1>1, <1>2 DEF TypeOK
<1>5. NodesInv'
  <2>1. ASSUME NEW n \in dirtyNodes' PROVE n \in InUse'
    <3>1. n \in InUse /\ n \in Nids
      BY <1>1, <1>2, <2>1 DEF NodesInv, InUse
    <3> QED BY <3>1 DEF InUse
  <2> QED BY <2>1 DEF NodesInv
<1>6. LoopInv'
  <2>1. ASSUME pivot > 0
        PROVE  pc = "serialize" /\ pivot <= pivots /\ pivots <= Len(node'[cur].pivots)
    <3>1. /\ pc = "serialize" /\ pivot <= pivots /\ pivots <= Len(node[cur].pivots)
          /\ cur \in Nids /\ pivots \in Nat
      BY <1>1, <2>1, CurFacts DEF LoopInv, TypeOK
    <3>2. Len(node[cur].pivots) \in Nat /\ Len(node'[cur].pivots) \in Nat
      <4>1. node[cur].pivots \in PivotLists /\ node'[cur].pivots \in PivotLists
        BY <1>1, <3>1 DEF TypeOK, NodeRecords
      <4> QED BY <4>1, PivotsFacts, LenProperties
    <3> QED BY <2>1, <3>1, <3>2
  <2> QED BY <1>1, <1>2, <1>3, <2>1 DEF LoopInv
<1>7. SavedInv'
  BY <1>1, <1>2 DEF SavedInv
<1>8. CurrentInv'
  BY <1>1, <1>2, <1>3 DEF CurrentInv, InFile
<1>9. StoredInv'
  BY <1>1, <1>2 DEF StoredInv, InFile, Settled
<1> QED BY <1>4, <1>5, <1>6, <1>7, <1>8, <1>9 DEF Inv

\* A step that changes one node.
LEMMA OneNodeInv ==
    ASSUME Inv, UNCHANGED <<file, metadata, writeBuf, loop, saved>>,
           NEW n \in Nids, NEW nd \in NodeRecords, nd.self = n, nd.pivots # <<>>,
           node' = [node EXCEPT ![n] = nd],
           making' \subseteq making \cup {n},
           n \in making' => Len(nd.pivots) = 1,
           pivot > 0 /\ n = cur => Len(node[n].pivots) <= Len(nd.pivots)
    PROVE  Inv'
<1>1. node \in [Nids -> NodeRecords] /\ NodesInv /\ LoopInv /\ TypeOK /\ making \subseteq Nids
  BY DEF Inv, TypeOK
<1>2. node'[n] = nd /\ \A m \in Nids \ {n} : node'[m] = node[m]
  BY <1>1
<1>3. node' \in [Nids -> NodeRecords] /\ making' \subseteq Nids
  BY <1>1
<1>4. \A m \in Nids : node'[m].self = m
  BY <1>1, <1>2 DEF NodesInv
<1>5. \A m \in InUse : node'[m].pivots # <<>>
  BY <1>2 DEF InUse
<1>6. ASSUME NEW m \in making' PROVE Len(node'[m].pivots) = 1
  BY <1>1, <1>2, <1>3 DEF NodesInv
<1>7. pivot > 0 => Len(node[cur].pivots) <= Len(node'[cur].pivots)
  <2> SUFFICES ASSUME pivot > 0
               PROVE  Len(node[cur].pivots) <= Len(node'[cur].pivots)
    OBVIOUS
  <2>1. cur \in Nids
    BY <1>1, CurFacts DEF LoopInv
  <2>2. CASE n = cur
    BY <1>2, <2>2
  <2>3. CASE n # cur
    <3>1. node'[cur] = node[cur] /\ node[cur].pivots \in PivotLists
      BY <1>1, <1>2, <2>1, <2>3 DEF NodeRecords
    <3> QED BY <3>1, PivotsFacts, LenProperties
  <2> QED BY <2>2, <2>3
<1> QED BY <1>3, <1>4, <1>5, <1>6, <1>7, NodeChangeInv

\* The node that is being serialized is in use.
LEMMA CurInUse ==
    ASSUME Inv, pivot > 0
    PROVE  cur \in InUse /\ pc = "serialize"
<1>1. TypeOK /\ LoopInv /\ NodesInv
  BY DEF Inv
<1> QED BY <1>1, CurFacts DEF LoopInv, NodesInv

\* The contents of Shapes are nodes.
LEMMA ShapeFacts ==
    ASSUME NEW n \in Nids, NEW s \in Shapes
    PROVE  /\ Numbered(s, n) \in NodeRecords /\ Numbered(s, n).self = n
           /\ Numbered(s, n).pivots # <<>>
BY ContentsAssumption DEF Numbered, NodeRecords

LEMMA NewNodeInv ==
    ASSUME Inv, NEW n \in Nids, NEW s \in Shapes, NewNode(n, s)
    PROVE  Inv'
<1>1. /\ UNCHANGED <<file, metadata, writeBuf, loop, saved>> /\ n \notin InUse
      /\ node' = [node EXCEPT ![n] = Numbered(s, n)] /\ making' = making
  BY DEF NewNode, LayoutStays
<1>2. n \notin making
  <2>1. ~ (Len(<<>>) = 1) /\ node[n].pivots = <<>>
    BY <1>1 DEF InUse
  <2> QED BY <2>1 DEF Inv, NodesInv
<1>3. pivot > 0 => n # cur
  BY <1>1, CurInUse
<1> DEFINE nd == Numbered(s, n)
<1>4. nd \in NodeRecords /\ nd.self = n /\ nd.pivots # <<>>
  BY ShapeFacts
<1> HIDE DEF nd
<1>5. node' = [node EXCEPT ![n] = nd]
  BY <1>1 DEF nd
<1> QED BY <1>1, <1>2, <1>3, <1>4, <1>5, OneNodeInv

LEMMA RestructureInv ==
    ASSUME Inv, NEW n \in Nids, NEW s \in Shapes, Restructure(n, s)
    PROVE  Inv'
<1> DEFINE nd == Numbered(s, n)
<1>1. /\ UNCHANGED <<file, metadata, writeBuf, loop, saved>>
      /\ ~ (pc = "serialize" /\ n = cur) /\ n \notin making
      /\ node' = [node EXCEPT ![n] = nd] /\ making' = making
  BY DEF Restructure, LayoutStays
<1>2. nd \in NodeRecords /\ nd.self = n /\ nd.pivots # <<>>
  BY ShapeFacts
<1> HIDE DEF nd
<1>3. pivot > 0 => n # cur
  BY <1>1, CurInUse
<1> QED BY <1>1, <1>2, <1>3, OneNodeInv

LEMMA NewRootInv ==
    ASSUME Inv, NEW n \in Nids, NEW c \in Nids, NewRoot(n, c)
    PROVE  Inv'
<1> DEFINE nd == Numbered(OneLink(0, c), n)
<1>1. /\ UNCHANGED <<file, metadata, writeBuf, loop, saved>> /\ n \notin InUse
      /\ node' = [node EXCEPT ![n] = nd] /\ making' = making \cup {n}
  BY DEF NewRoot, LayoutStays
<1>2. c \in 0..(IntRange - 1)
  BY OffsetFacts
<1>3. nd \in NodeRecords /\ nd.self = n /\ nd.pivots # <<>> /\ Len(nd.pivots) = 1
  BY <1>2, OneLinkFacts
<1> HIDE DEF nd
<1>4. pivot > 0 => n # cur
  BY <1>1, CurInUse
<1> QED BY <1>1, <1>3, <1>4, OneNodeInv

\* One more pivot at the end of a list of pivots.
LEMMA AddSecondInv ==
    ASSUME Inv, AddSecond
    PROVE  Inv'
<1>1. PICK n \in making, c \in Children, key \in MiddleKeys : AddSecondPivot(n, c, key)
  BY DEF AddSecond
<1> DEFINE p == [childNid |-> c, leftKey |-> key, msgs |-> <<>>]
           q == node[n].pivots
           r == Append(q, p)
           nd == [node[n] EXCEPT !.pivots = r]
<1>2. /\ UNCHANGED <<file, metadata, writeBuf, loop, saved>>
      /\ node' = [node EXCEPT ![n] = nd] /\ making' = making \ {n}
  BY <1>1 DEF AddSecondPivot, LayoutStays
<1>3. n \in Nids /\ Len(q) = 1 /\ TypeOK /\ NodesInv
  BY DEF Inv, TypeOK, NodesInv
<1>4. node[n] \in NodeRecords /\ q \in PivotLists /\ node[n].self = n
  BY <1>3, NodeFacts
<1>5. p \in Pivots
  <2>1. key \in Strings
    <3>1. PICK s \in Shapes : \E i \in 2..Len(s.pivots) : key = s.pivots[i].leftKey
      BY DEF MiddleKeys
    <3>2. PICK i \in 2..Len(s.pivots) : key = s.pivots[i].leftKey
      BY <3>1
    <3>3. s.pivots \in PivotLists
      BY ContentsAssumption
    <3>4. /\ Len(s.pivots) \in Nat
          /\ \A j \in 1..Len(s.pivots) : s.pivots[j] \in Pivots
      BY <3>3, PivotsFacts, LenProperties
    <3>5. s.pivots[i] \in Pivots
      BY <3>2, <3>4
    <3> QED BY <3>2, <3>5 DEF Pivots
  <2>2. c \in 0..(IntRange - 1)
    BY SizesAssumption, OffsetFacts
  <2>3. <<>> \in MsgLists
    BY EmptySeq, RangeFacts DEF MsgLists
  <2> QED BY <2>1, <2>2, <2>3 DEF Pivots
<1> HIDE DEF p, q
<1>6. r \in PivotLists /\ r # <<>> /\ Len(r) = 2
  <2>1. Len(q) + 1 < IntRange
    BY <1>3, RangeFacts, WireAssumption
  <2>2. /\ Append(q, p) \in PivotLists /\ Append(q, p) # <<>>
        /\ Len(Append(q, p)) = Len(q) + 1
    BY ONLY <1>4, <1>5, <2>1, MorePivots
  <2> QED BY <1>3, <2>2
<1> HIDE DEF r
<1>7. nd \in NodeRecords /\ nd.self = n /\ nd.pivots = r
  BY <1>4, <1>6 DEF NodeRecords
<1> HIDE DEF nd
<1>8. Len(node[n].pivots) <= Len(nd.pivots)
  BY <1>3, <1>6, <1>7 DEF q
<1>9. making' \subseteq making \cup {n} /\ n \notin making'
  BY <1>2
<1> QED BY <1>2, <1>3, <1>6, <1>7, <1>8, <1>9, OneNodeInv

LEMMA ChangeBufInv ==
    ASSUME Inv, NEW n \in Nids, NEW i \in DOMAIN node[n].pivots, NEW b \in Bufs,
           ChangeBuf(n, i, b)
    PROVE  Inv'
<1> DEFINE q == node[n].pivots
           p == [q[i] EXCEPT !.msgs = b]
           r == [q EXCEPT ![i] = p]
           nd == [node[n] EXCEPT !.pivots = r]
<1>1. /\ UNCHANGED <<file, metadata, writeBuf, loop, saved>> /\ n \notin making
      /\ q # <<>> /\ node' = [node EXCEPT ![n] = nd] /\ making' = making
  BY DEF ChangeBuf, LayoutStays, InUse
<1>2. node[n] \in NodeRecords /\ q \in PivotLists /\ node[n].self = n
  BY NodeFacts DEF Inv
<1>3. p \in Pivots
  <2>1. q[i] \in Pivots /\ b \in MsgLists
    BY <1>2, ContentsAssumption DEF PivotLists
  <2> QED BY <2>1 DEF Pivots
<1> HIDE DEF q, p
<1>4. r \in PivotLists /\ Len(r) = Len(q) /\ Len(q) \in Nat /\ r # <<>>
  <2>1. q \in Seq(Pivots) /\ Len(q) < IntRange /\ i \in DOMAIN q
    BY <1>2 DEF PivotLists, q
  <2>2. r \in Seq(Pivots) /\ Len(r) = Len(q) /\ DOMAIN r = DOMAIN q
    BY <1>3, <2>1, ExceptSeq
  <2> QED BY <1>1, <1>2, <2>1, <2>2, LenProperties DEF PivotLists
<1> HIDE DEF r
<1>5. nd \in NodeRecords /\ nd.self = n /\ nd.pivots = r
  BY <1>2, <1>4 DEF NodeRecords
<1> HIDE DEF nd
<1>6. Len(node[n].pivots) <= Len(nd.pivots)
  BY <1>4, <1>5 DEF q
<1> QED BY <1>1, <1>4, <1>5, <1>6, OneNodeInv

LEMMA StartWriteInv ==
    ASSUME Inv, StartWrite
    PROVE  Inv'
<1>1. PICK S \in (SUBSET InUse) \ {{}} : dirtyNodes \subseteq S /\ dirtyNodes' = S
  BY DEF StartWrite
<1>2. /\ todo' = S /\ writeBuf' = <<>> /\ pc' = "serialize" /\ pivot' = 0
      /\ UNCHANGED <<node, making, file, metadata, pivots, size, saved>>
  BY <1>1 DEF StartWrite
<1>3. TypeOK /\ NodesInv /\ SavedInv
  BY DEF Inv
<1>4. TypeOK'
  <2>1. S \subseteq Nids
    BY DEF InUse
  <2> QED BY <1>1, <1>2, <1>3, <2>1, EmptySeq DEF TypeOK
<1>5. NodesInv'
  <2>1. dirtyNodes' \subseteq InUse'
    BY <1>1, <1>2 DEF InUse
  <2> QED BY <1>2, <1>3, <2>1 DEF NodesInv
<1>6. LoopInv'
  <2>1. todo' # {} /\ pc' # "scan" /\ ~ (pivot' > 0)
    BY <1>1, <1>2
  <2>2. dirtyNodes' \ todo' = {}
    BY <1>1, <1>2
  <2> QED BY <2>1, <2>2 DEF LoopInv
<1>7. SavedInv'
  BY <1>1, <1>2, <1>3 DEF SavedInv
<1>8. CurrentInv'
  BY <1>2 DEF CurrentInv
<1>9. StoredInv'
  BY <1>1, <1>2, <1>3 DEF StoredInv, SavedInv, Settled
<1> QED BY <1>4, <1>5, <1>6, <1>7, <1>8, <1>9 DEF Inv

LEMMA RestartInv ==
    ASSUME Inv, Restart
    PROVE  Inv'
<1>1. /\ node' = FirstNodes /\ making' = {} /\ metadata' = EmptyMetadata
      /\ writeBuf' = <<>> /\ dirtyNodes' = {} /\ todo' = {} /\ pc' = "scan"
      /\ pivot' = 0 /\ pivots' = 0 /\ size' = 0 /\ saved' = NothingSaved /\ file' = file
  BY DEF Restart
<1>2. TypeOK'
  <2>1. file \in Seq(Byte)
    BY DEF Inv, TypeOK
  <2> QED BY <1>1, <2>1, FreshFacts, EmptySeq DEF TypeOK
<1>3. NodesInv'
  BY <1>1, FreshFacts DEF NodesInv
<1>4. LoopInv' /\ CurrentInv'
  BY <1>1 DEF LoopInv, CurrentInv
<1>5. SavedInv' /\ StoredInv'
  BY <1>1, FreshFacts DEF SavedInv, StoredInv, Settled
<1> QED BY <1>2, <1>3, <1>4, <1>5 DEF Inv

LEMMA SerializeHeadInv ==
    ASSUME Inv, SerializeHead
    PROVE  Inv'
<1> DEFINE nd == node[cur]
           w == HeadImage(nd.isLeaf, nd.self, Len(nd.pivots))
           z == [nd EXCEPT !.pivots = <<>>]
           c == writeBuf = <<>>
           r == [clean |-> c, node |-> z]
<1>1. /\ pc = "serialize" /\ pivot = 0 /\ writeBuf' = writeBuf \o w
      /\ saved' = [saved EXCEPT ![cur] = r] /\ pivot' = 1 /\ pivots' = Len(nd.pivots)
      /\ UNCHANGED <<node, making, file, metadata, dirtyNodes, todo, pc, size>>
  BY DEF SerializeHead
<1>2. TypeOK /\ NodesInv /\ LoopInv /\ SavedInv /\ StoredInv
  BY DEF Inv
<1>3. /\ todo # {} /\ cur \in todo /\ cur \in dirtyNodes /\ cur \in Nids
  <2>1. todo # {}
    BY <1>1, <1>2 DEF LoopInv
  <2> QED BY <1>2, <2>1, CurFacts
<1>4. cur' = cur
  BY <1>1 DEF cur
<1>5. /\ nd \in NodeRecords /\ nd.isLeaf \in {0, 1} /\ nd.self = cur
      /\ cur \in 0..(IntRange - 1) /\ nd.pivots \in PivotLists /\ nd.pivots # <<>>
  <2>1. cur \in InUse
    BY <1>2, <1>3 DEF NodesInv
  <2> QED BY <1>2, <1>3, <2>1, NodeFacts DEF InUse
<1> HIDE DEF nd
<1>6. z \in NodeRecords /\ z.isLeaf = nd.isLeaf /\ z.self = cur /\ z.pivots = <<>>
  <2>1. <<>> \in PivotLists
    BY EmptySeq, RangeFacts DEF PivotLists
  <2> QED BY <1>5, <2>1 DEF NodeRecords
<1>7. Len(nd.pivots) \in 0..(IntRange - 1) /\ Len(nd.pivots) >= 1
  <2>1. nd.pivots \in Seq(Pivots) /\ Len(nd.pivots) \in 0..(IntRange - 1)
    BY <1>5, PivotsFacts
  <2> QED BY <1>5, <2>1, EmptySeq, LenProperties
<1>8. w \in Seq(Byte)
  BY <1>5, <1>7, HeadFacts
<1> HIDE DEF z, w, c
<1>9. r \in [clean : BOOLEAN, node : NodeRecords] /\ r.clean = c /\ r.node = z
  BY <1>6 DEF c
<1> HIDE DEF r
<1>10. saved'[cur] = r /\ \A n \in Nids \ {cur} : saved'[n] = saved[n]
  BY <1>1, <1>2, <1>3 DEF TypeOK
<1>11. TypeOK'
  <2>1. writeBuf' \in Seq(Byte)
    <3>1. writeBuf \in Seq(Byte)
      BY <1>2 DEF TypeOK
    <3> QED BY <1>1, <1>8, <3>1, ConcatProperties
  <2>2. \A n \in Nids : \/ saved'[n] = [clean |-> FALSE]
                         \/ saved'[n] \in [clean : BOOLEAN, node : NodeRecords]
    BY <1>2, <1>9, <1>10 DEF TypeOK
  <2>3. DOMAIN saved' = Nids
    BY <1>1, <1>2 DEF TypeOK
  <2> QED BY <1>1, <1>2, <1>7, <2>1, <2>2, <2>3 DEF TypeOK
<1>12. NodesInv'
  BY <1>1, <1>2 DEF NodesInv, InUse
<1>13. LoopInv'
  BY <1>1, <1>2, <1>4, <1>7 DEF LoopInv, nd
<1>14. SavedInv'
  BY <1>1, <1>2, <1>3, <1>6, <1>9, <1>10 DEF SavedInv
<1>15. CurrentInv'
  <2>1. saved'[cur] # [clean |-> FALSE]
    BY <1>9, <1>10
  <2>2. Len(<<>>) = 0 /\ DOMAIN z.pivots = {} /\ PivotImages(<<>>) = <<>>
    BY <1>6 DEF PivotImages, FlattenSeq
  <2>3. c => writeBuf' = w \o PivotImages(z.pivots)
    <3>1. <<>> \o w = w /\ w \o <<>> = w
      BY <1>8, ConcatEmptySeq
    <3> QED BY <1>1, <1>6, <2>2, <3>1 DEF c
  <2>4. w = HeadImage(z.isLeaf, cur, pivots')
    BY <1>1, <1>5, <1>6 DEF w
  <2>5. Len(z.pivots) = pivot' - 1
    BY <1>1, <1>6, <2>2
  <2> QED BY <1>1, <1>4, <1>9, <1>10, <2>1, <2>2, <2>3, <2>4, <2>5 DEF CurrentInv
<1>16. StoredInv'
  <2>1. ASSUME NEW n \in Nids, Settled(n)' PROVE n # cur /\ Settled(n) /\ saved'[n] = saved[n]
    <3>1. n \notin todo /\ saved'[n].clean
      BY <1>1, <2>1 DEF Settled
    <3>2. n # cur
      BY <1>3, <3>1
    <3>3. saved'[n] = saved[n]
      BY <1>10, <3>2
    <3> QED BY <3>1, <3>2, <3>3 DEF Settled
  <2>2. StoredInv /\ metadata' = metadata /\ file' = file
    BY <1>1, <1>2
  <2> QED BY ONLY <2>1, <2>2 DEF StoredInv, InFile
<1> QED BY <1>11, <1>12, <1>13, <1>14, <1>15, <1>16 DEF Inv

LEMMA SerializePivotInv ==
    ASSUME Inv, SerializePivot
    PROVE  Inv'
<1>0. PICK p \in AsRead(node[cur].pivots[pivot]) :
         /\ writeBuf' = writeBuf \o PivotImage(p)
         /\ saved' = [saved EXCEPT ![cur].node.pivots = Append(@, p)]
  BY DEF SerializePivot
<1> DEFINE nd == node[cur]
           n == pivots
           s == saved[cur]
           b == s.node.pivots
           z == [s.node EXCEPT !.pivots = Append(b, p)]
           r == [s EXCEPT !.node = z]
           x == PivotImage(p)
           w == HeadImage(z.isLeaf, cur, n)
<1>1. /\ pc = "serialize" /\ pivot > 0 /\ writeBuf' = writeBuf \o x
      /\ saved' = [saved EXCEPT ![cur] = r]
      /\ IF pivot = n THEN pc' = "write" /\ pivot' = 0 /\ pivots' = 0
         ELSE pc' = pc /\ pivot' = pivot + 1 /\ pivots' = pivots
      /\ UNCHANGED <<node, making, file, metadata, dirtyNodes, todo, size>>
  BY <1>0 DEF SerializePivot
<1>2. /\ TypeOK /\ NodesInv /\ LoopInv /\ SavedInv /\ CurrentInv /\ StoredInv
      /\ pivot \in Nat
  BY DEF Inv, TypeOK
<1>3. /\ todo # {} /\ cur \in todo /\ cur \in dirtyNodes /\ cur \in Nids
  <2>1. todo # {}
    BY <1>1, <1>2 DEF LoopInv
  <2> QED BY <1>2, <2>1, CurFacts
<1>4. cur' = cur
  BY <1>1 DEF cur
<1>5. nd.pivots \in PivotLists /\ cur \in 0..(IntRange - 1)
  BY <1>2, <1>3, NodeFacts
<1>6. pivot <= n /\ n <= Len(nd.pivots) /\ n \in Nat
  BY <1>1, <1>2 DEF LoopInv, TypeOK
<1>7. /\ s # [clean |-> FALSE] /\ Len(b) = pivot - 1
      /\ s.clean => writeBuf = HeadImage(s.node.isLeaf, cur, n) \o PivotImages(b)
  BY <1>1, <1>2 DEF CurrentInv
<1>8. /\ s \in [clean : BOOLEAN, node : NodeRecords] /\ s.node \in NodeRecords
      /\ s.node.isLeaf \in {0, 1} /\ b \in PivotLists
      /\ s.clean => s.node.self = cur
  BY <1>2, <1>3, <1>7, SavedFacts
<1>9. n \in 0..(IntRange - 1) /\ pivot \in 1..n /\ p \in Pivots
  <2>1. /\ Len(nd.pivots) \in 0..(IntRange - 1)
        /\ \A i \in 1..Len(nd.pivots) : nd.pivots[i] \in Pivots
    BY <1>5, PivotsFacts, LenProperties
  <2>2. n \in 0..(IntRange - 1) /\ pivot \in 1..n /\ pivot \in 1..Len(nd.pivots)
    BY <1>1, <1>2, <1>6, <2>1, RangeFacts
  <2>3. nd.pivots[pivot] \in Pivots
    BY <2>1, <2>2
  <2>4. \A c \in Stray : [nd.pivots[pivot] EXCEPT !.childNid = c] \in Pivots
    BY <2>3, SizesAssumption DEF Pivots
  <2> QED BY <1>0, <2>2, <2>3, <2>4 DEF AsRead
<1>10. /\ Append(b, p) \in PivotLists /\ Len(Append(b, p)) = pivot
       /\ Append(b, p) # <<>>
       /\ \A i \in 1..pivot : Append(b, p)[i] = IF i <= pivot - 1 THEN b[i] ELSE p
       /\ PivotImages(Append(b, p)) = PivotImages(b) \o x
       /\ DOMAIN Append(b, p) = 1..pivot
  <2>1. Len(b) + 1 < IntRange /\ Len(b) + 1 = pivot
    BY <1>2, <1>7, <1>9, RangeFacts
  <2> HIDE DEF b
  <2>2. /\ Append(b, p) \in PivotLists /\ Len(Append(b, p)) = Len(b) + 1
        /\ Append(b, p) # <<>>
        /\ \A i \in 1..(Len(b) + 1) : Append(b, p)[i] = IF i <= Len(b) THEN b[i] ELSE p
        /\ PivotImages(Append(b, p)) = PivotImages(b) \o PivotImage(p)
    BY ONLY <1>8, <1>9, <2>1, MorePivots
  <2>3. DOMAIN Append(b, p) = 1..Len(Append(b, p))
    <3>1. Append(b, p) \in Seq(Pivots)
      BY <2>2, PivotsFacts
    <3> QED BY <3>1, LenProperties
  <2> QED BY <1>7, <2>1, <2>2, <2>3
<1>11. /\ z \in NodeRecords /\ z.isLeaf = s.node.isLeaf /\ z.self = s.node.self
       /\ z.pivots = Append(b, p)
  BY <1>8, <1>10 DEF NodeRecords
<1> HIDE DEF b, z, w
<1>12. r \in [clean : BOOLEAN, node : NodeRecords] /\ r.clean = s.clean /\ r.node = z
  BY <1>8, <1>11
<1> HIDE DEF nd, n, s, r
<1>13. saved'[cur] = r /\ \A m \in Nids \ {cur} : saved'[m] = saved[m]
  BY <1>1, <1>2, <1>3 DEF TypeOK
<1>14. TypeOK'
  <2>1. writeBuf' \in Seq(Byte)
    <3>1. writeBuf \in Seq(Byte) /\ x \in Seq(Byte)
      BY <1>2, <1>9, PivotFacts DEF TypeOK
    <3> HIDE DEF x
    <3> QED BY <1>1, <3>1, ConcatProperties
  <2>2. \A m \in Nids : \/ saved'[m] = [clean |-> FALSE]
                         \/ saved'[m] \in [clean : BOOLEAN, node : NodeRecords]
    BY <1>2, <1>12, <1>13 DEF TypeOK
  <2>3. DOMAIN saved' = Nids /\ pivot' \in Nat /\ pc' \in {"serialize", "write"}
    BY <1>1, <1>2 DEF TypeOK
  <2> QED BY <1>1, <1>2, <2>1, <2>2, <2>3 DEF TypeOK
<1>15. NodesInv'
  BY <1>1, <1>2 DEF NodesInv, InUse
<1>16. LoopInv'
  <2>1. ASSUME pivot' > 0
        PROVE  /\ pc' = "serialize" /\ pivot' <= pivots'
               /\ pivots' <= Len(node'[cur'].pivots)
    <3>1. pivot # n /\ pivot' = pivot + 1 /\ pc' = pc /\ pivots' = n
      BY <1>1, <2>1 DEF n
    <3>2. node'[cur'] = nd
      BY <1>1, <1>4 DEF nd
    <3> QED BY <1>1, <1>2, <1>6, <1>9, <3>1, <3>2
  <2>2. pc' # "scan" /\ todo' # {} /\ \A m \in dirtyNodes' \ todo', k \in todo' : m < k
    BY <1>1, <1>2, <1>3 DEF LoopInv
  <2> QED BY <2>1, <2>2 DEF LoopInv
<1>17. SavedInv'
  <2>1. ASSUME NEW m \in Nids, saved'[m].clean
        PROVE  m \in dirtyNodes' /\ saved'[m].node.self = m
    <3>1. CASE m = cur
      BY <1>1, <1>3, <1>8, <1>11, <1>12, <1>13, <2>1, <3>1
    <3>2. CASE m # cur
      BY <1>1, <1>2, <1>13, <2>1, <3>2 DEF SavedInv
    <3> QED BY <3>1, <3>2
  <2> QED BY <2>1 DEF SavedInv
<1>18. ASSUME s.clean
       PROVE  writeBuf' = w \o PivotImages(z.pivots) /\ z.self = cur
  <2> DEFINE y == PivotImages(b)
  <2>1. writeBuf = w \o y
    BY <1>7, <1>11, <1>18 DEF w
  <2>2. w \in Seq(Byte) /\ x \in Seq(Byte) /\ y \in Seq(Byte)
    BY <1>5, <1>8, <1>9, <1>11, HeadFacts, PivotFacts, PivotsFacts DEF w
  <2> HIDE DEF x, y
  <2>3. (w \o y) \o x = w \o (y \o x)
    BY ONLY <2>2, Regroup
  <2>4. PivotImages(z.pivots) = y \o x
    BY <1>10, <1>11 DEF x, y
  <2>5. writeBuf' = w \o PivotImages(z.pivots)
    BY ONLY <1>1, <2>1, <2>3, <2>4
  <2> QED BY <1>8, <1>11, <1>18, <2>5
<1>19. r # [clean |-> FALSE] /\ Len(z.pivots) = pivot /\ z.pivots # <<>>
  <2>1. r # [clean |-> FALSE]
    BY ONLY <1>12
  <2>2. Len(z.pivots) = pivot /\ z.pivots # <<>>
    BY ONLY <1>10, <1>11
  <2> QED BY <2>1, <2>2
<1>20. CurrentInv'
  <2>1. saved'[cur'] = r
    BY <1>4, <1>13
  <2>2. CASE pivot = n
    <3>1. pc' = "write" /\ pivot' = 0
      BY <1>1, <2>2
    <3>2. s.clean => writeBuf' = NodeImage(z)
      BY <1>18, <1>19, <2>2 DEF NodeImage, w
    <3> QED BY <1>12, <1>19, <2>1, <3>1, <3>2 DEF CurrentInv
  <2>3. CASE pivot # n
    <3>1. pc' = "serialize" /\ pivot' = pivot + 1 /\ pivots' = n
      BY <1>1, <2>3 DEF n
    <3>2. Len(z.pivots) = pivot' - 1
      BY <1>2, <1>19, <3>1
    <3>3. s.clean => writeBuf' = HeadImage(z.isLeaf, cur', pivots') \o PivotImages(z.pivots)
      BY <1>4, <1>18, <3>1 DEF w
    <3> QED BY <1>12, <1>19, <2>1, <3>1, <3>2, <3>3 DEF CurrentInv
  <2> QED BY <2>2, <2>3
<1>21. StoredInv'
  <2>1. ASSUME NEW m \in Nids, Settled(m)'
        PROVE  m # cur /\ Settled(m) /\ saved'[m] = saved[m]
    BY <1>1, <1>3, <1>13, <2>1 DEF Settled
  <2> QED BY <1>1, <1>2, <2>1 DEF StoredInv, InFile
<1> QED BY <1>14, <1>15, <1>16, <1>17, <1>20, <1>21 DEF Inv

\* A node the loop has passed and that fits its region: its image, and that a
\* write for the node the loop is at does not reach it.
LEMMA StoredFacts ==
    ASSUME TypeOK, LoopInv, SavedInv, StoredInv, NEW n \in Nids, Settled(n),
           Fits(saved[n].node)
    PROVE  /\ NodeImage(saved[n].node) \in Seq(Byte) /\ Offset(n) \in Nat
           /\ Holds(file, Offset(n), NodeImage(saved[n].node))
           /\ todo # {} =>
                 Offset(n) + Len(NodeImage(saved[n].node)) <= Offset(cur)
<1> DEFINE nd == saved[n].node
           image == NodeImage(nd)
<1>1. saved[n].clean /\ n \notin todo
  BY DEF Settled
<1>2. /\ nd.isLeaf \in {0, 1} /\ nd.self \in 0..(IntRange - 1)
      /\ nd.pivots \in PivotLists /\ n \in dirtyNodes
  BY <1>1, CleanFacts, SavedFacts
<1>3. Len(image) <= Region /\ Holds(file, Offset(n), image)
  BY DEF StoredInv, InFile, Holds, Fits
<1> HIDE DEF nd
<1>4. image \in Seq(Byte) /\ Len(image) <= Region /\ Len(image) \in Nat
  BY <1>2, <1>3, NodeImageFacts, LenProperties
<1> HIDE DEF image
<1>5. Offset(n) \in Nat /\ \A m \in Nids : n < m => Offset(n) + Region <= Offset(m)
  BY OffsetFacts
<1>6. ASSUME todo # {} PROVE Offset(n) + Len(image) <= Offset(cur)
  <2>1. cur \in todo /\ cur \in Nids
    BY <1>6, CurFacts
  <2>2. n < cur
    BY <1>1, <1>2, <2>1 DEF LoopInv
  <2> DEFINE a == Offset(n)
             c == Offset(cur)
  <2>3. a + Region <= c /\ a \in Nat /\ c \in Nat /\ Region \in Nat
    BY <1>5, <2>1, <2>2, OffsetFacts, SizesAssumption
  <2> HIDE DEF a, c
  <2>4. a + Len(image) <= c
    BY ONLY <1>4, <2>3
  <2> QED BY <2>4 DEF a, c
<1> QED BY <1>3, <1>4, <1>5, <1>6 DEF nd, image

\* The steps that write for the node the loop is at and go on to its entry.
LEMMA WrittenInv ==
    ASSUME Inv, pc = "write", pc' = "metadata", size' = Len(writeBuf),
           UNCHANGED <<node, making, metadata, dirtyNodes, todo, pivot, pivots>>,
           writeBuf' \in Seq(Byte), file' \in Seq(Byte),
           \A o \in Nat, d \in Seq(Byte) :
              o + Len(d) <= Offset(cur) /\ Holds(file, o, d) => Holds(file', o, d),
           DOMAIN saved' = Nids, \A n \in Nids \ {cur} : saved'[n] = saved[n],
           saved'[cur] \in [clean : BOOLEAN, node : NodeRecords],
           saved'[cur].node = saved[cur].node,
           saved'[cur].clean =>
              saved[cur].clean /\ Holds(file', Offset(cur), writeBuf)
    PROVE  Inv'
<1>1. /\ TypeOK /\ NodesInv /\ LoopInv /\ SavedInv /\ CurrentInv /\ StoredInv
      /\ writeBuf \in Seq(Byte)
  BY DEF Inv, TypeOK
<1>2. /\ node' = node /\ making' = making /\ pivots' = pivots /\ metadata' = metadata
      /\ dirtyNodes' = dirtyNodes /\ todo' = todo
      /\ pivot' = pivot /\ pivot \in Nat /\ ~ (pivot > 0)
  BY <1>1 DEF TypeOK, LoopInv
<1>3. todo # {} /\ cur \in todo /\ cur \in Nids
  <2>1. todo # {}
    BY <1>1 DEF LoopInv
  <2> QED BY <1>1, <2>1, CurFacts
<1>4. cur' = cur
  BY <1>2 DEF cur
<1>5. TypeOK'
  <2>1. size' \in Nat
    BY <1>1, LenProperties
  <2>2. \A n \in Nids : \/ saved'[n] = [clean |-> FALSE]
                         \/ saved'[n] \in [clean : BOOLEAN, node : NodeRecords]
    BY <1>1 DEF TypeOK
  <2> QED BY <1>1, <1>2, <2>1, <2>2 DEF TypeOK
<1>6. NodesInv'
  BY <1>1, <1>2 DEF NodesInv, InUse
<1>7. LoopInv'
  BY <1>1, <1>2, <1>3 DEF LoopInv
<1>8. SavedInv'
  <2>1. ASSUME NEW n \in Nids, saved'[n].clean
        PROVE  n \in dirtyNodes' /\ saved'[n].node.self = n
    <3>1. saved[n].clean /\ saved'[n].node = saved[n].node
      BY <2>1
    <3> QED BY <1>1, <1>2, <3>1 DEF SavedInv
  <2> QED BY <2>1 DEF SavedInv
<1>9. CurrentInv'
  <2> DEFINE s == saved'[cur]
             image == NodeImage(s.node)
  <2>1. s # [clean |-> FALSE]
    BY ONLY saved'[cur] \in [clean : BOOLEAN, node : NodeRecords]
  <2>2. ASSUME s.clean
        PROVE  /\ s.node.pivots # <<>> /\ size' = Len(image)
               /\ Holds(file', Offset(cur), image)
    <3>1. saved[cur].clean /\ s.node = saved[cur].node /\ Holds(file', Offset(cur), writeBuf)
      BY <2>2
    <3>2. s.node.pivots # <<>> /\ writeBuf = image
      BY <1>1, <3>1 DEF CurrentInv
    <3> QED BY ONLY <3>1, <3>2, size' = Len(writeBuf)
  <2>3. saved'[cur'] = s /\ pc' = "metadata" /\ ~ (pivot' > 0)
    BY <1>2, <1>4
  <2> HIDE DEF s
  <2> QED BY <1>4, <2>1, <2>2, <2>3 DEF CurrentInv, InFile, Holds
<1>10. StoredInv'
  <2>1. ASSUME NEW n \in Nids, Settled(n)'
        PROVE  /\ saved'[n] = saved[n] /\ saved[n].node.pivots # <<>>
               /\ metadata'[n + 1] = [offset |-> Offset(n),
                                       size |-> Len(NodeImage(saved[n].node))]
               /\ Fits(saved[n].node) =>
                     Holds(file', Offset(n), NodeImage(saved[n].node))
    <3>1. n # cur /\ Settled(n) /\ saved'[n] = saved[n]
      BY <1>2, <1>3, <2>1 DEF Settled
    <3>2. /\ saved[n].node.pivots # <<>>
          /\ metadata'[n + 1] = [offset |-> Offset(n),
                                  size |-> Len(NodeImage(saved[n].node))]
      BY <1>1, <1>2, <3>1 DEF StoredInv
    <3> DEFINE image == NodeImage(saved[n].node)
    <3>3. ASSUME Fits(saved[n].node) PROVE Holds(file', Offset(n), image)
      <4>1. /\ image \in Seq(Byte) /\ Offset(n) \in Nat /\ Holds(file, Offset(n), image)
            /\ Offset(n) + Len(image) <= Offset(cur)
        BY <1>1, <1>3, <3>1, <3>3, StoredFacts
      <4> HIDE DEF image
      <4> QED BY <4>1
    <3> QED BY <3>1, <3>2, <3>3
  <2> QED BY <2>1 DEF StoredInv, InFile, Holds
<1> QED BY <1>5, <1>6, <1>7, <1>8, <1>9, <1>10 DEF Inv

LEMMA WriteFileInv ==
    ASSUME Inv, WriteFile
    PROVE  Inv'
<1> DEFINE o == Offset(cur)
           f == Pwrite(o, writeBuf)
<1>1. /\ pc = "write" /\ pc' = "metadata" /\ size' = Len(writeBuf) /\ writeBuf' = <<>>
      /\ file' = f
      /\ UNCHANGED <<node, making, metadata, dirtyNodes, todo, pivot, pivots, saved>>
  BY DEF WriteFile
<1>2. /\ TypeOK /\ LoopInv /\ SavedInv /\ CurrentInv
      /\ writeBuf \in Seq(Byte) /\ file \in Seq(Byte) /\ DOMAIN saved = Nids
  BY DEF Inv, TypeOK
<1>3. cur \in Nids /\ o \in Nat
  BY <1>1, <1>2, CurFacts, OffsetFacts DEF LoopInv
<1>4. /\ f \in Seq(Byte) /\ Holds(f, o, writeBuf)
      /\ \A a \in Nat, d \in Seq(Byte) :
            a + Len(d) <= o /\ Holds(file, a, d) => Holds(f, a, d)
  <2> HIDE DEF o
  <2> QED BY <1>2, <1>3, PwriteFacts
<1>5. saved[cur] \in [clean : BOOLEAN, node : NodeRecords]
  <2>1. saved[cur] # [clean |-> FALSE]
    BY <1>1, <1>2 DEF CurrentInv
  <2> QED BY <1>2, <1>3, <2>1, SavedFacts
<1>6. writeBuf' \in Seq(Byte) /\ file' \in Seq(Byte)
  BY <1>1, <1>4, EmptySeq
<1> HIDE DEF f
<1> QED BY <1>1, <1>2, <1>4, <1>5, <1>6, WrittenInv

LEMMA WriteFileFailsInv ==
    ASSUME Inv, WriteFileFails
    PROVE  Inv'
<1> DEFINE o == Offset(cur)
           s == saved[cur]
           r == [s EXCEPT !.clean = FALSE]
<1>1. PICK n \in Cuts :
         /\ n < Len(writeBuf)
         /\ file' = IF n = 0 THEN file ELSE Pwrite(o, SubSeq(writeBuf, 1, n))
  BY DEF WriteFileFails
<1> DEFINE data == SubSeq(writeBuf, 1, n)
<1>2. /\ pc = "write" /\ pc' = "metadata" /\ size' = Len(writeBuf) /\ writeBuf' = writeBuf
      /\ saved' = [saved EXCEPT ![cur] = r]
      /\ UNCHANGED <<node, making, metadata, dirtyNodes, todo, pivot, pivots>>
  BY DEF WriteFileFails
<1>3. /\ TypeOK /\ LoopInv /\ SavedInv /\ CurrentInv
      /\ writeBuf \in Seq(Byte) /\ file \in Seq(Byte) /\ DOMAIN saved = Nids
      /\ n \in Nat
  BY SizesAssumption DEF Inv, TypeOK
<1>4. cur \in Nids /\ o \in Nat
  BY <1>2, <1>3, CurFacts, OffsetFacts DEF LoopInv
<1>5. data \in Seq(Byte)
  <2>1. \A i \in 1..n : writeBuf[i] \in Byte
    <3>1. \A i \in 1..n : i \in 1..Len(writeBuf)
      BY <1>1, <1>3, LenProperties
    <3> QED BY <1>3, <3>1
  <2>2. 1 \in Int /\ n \in Int
    BY <1>3
  <2> QED BY ONLY <2>1, <2>2, SubSeqProperties
<1>6. /\ file' \in Seq(Byte)
      /\ \A a \in Nat, d \in Seq(Byte) :
            a + Len(d) <= o /\ Holds(file, a, d) => Holds(file', a, d)
  <2> HIDE DEF o, data
  <2>1. /\ Pwrite(o, data) \in Seq(Byte)
        /\ \A a \in Nat, d \in Seq(Byte) :
              a + Len(d) <= o /\ Holds(file, a, d) => Holds(Pwrite(o, data), a, d)
    BY <1>3, <1>4, <1>5, PwriteFacts
  <2>2. file' = file \/ file' = Pwrite(o, data)
    BY <1>1 DEF data
  <2> QED BY <1>3, <2>1, <2>2
<1>7. s \in [clean : BOOLEAN, node : NodeRecords]
  <2>1. s # [clean |-> FALSE]
    BY <1>2, <1>3 DEF CurrentInv
  <2> QED BY <1>3, <1>4, <2>1, SavedFacts
<1>8. r \in [clean : BOOLEAN, node : NodeRecords] /\ ~ r.clean /\ r.node = s.node
  BY <1>7
<1> HIDE DEF r
<1>9. /\ saved'[cur] = r /\ DOMAIN saved' = Nids
      /\ \A m \in Nids \ {cur} : saved'[m] = saved[m]
  BY <1>2, <1>3, <1>4
<1> HIDE DEF data
<1> QED BY <1>2, <1>3, <1>6, <1>8, <1>9, WrittenInv

LEMMA UpdateMetadataInv ==
    ASSUME Inv, UpdateMetadata
    PROVE  Inv'
<1> DEFINE p == [offset |-> Offset(cur), size |-> size]
<1>1. /\ pc = "metadata" /\ metadata' = Entered(cur, p) /\ todo' = todo \ {cur}
      /\ pc' = IF todo' = {} THEN "scan" ELSE "serialize"
      /\ size' = 0
      /\ UNCHANGED <<node, making, file, writeBuf, dirtyNodes, pivot, pivots, saved>>
  BY DEF UpdateMetadata
<1>2. /\ TypeOK /\ NodesInv /\ LoopInv /\ SavedInv /\ CurrentInv /\ StoredInv
      /\ pivot \in Nat /\ ~ (pivot > 0) /\ size \in Nat
  BY <1>1 DEF Inv, TypeOK, LoopInv
<1>3. /\ todo # {} /\ cur \in todo /\ cur \in dirtyNodes /\ cur \in Nids
      /\ \A n \in todo \ {cur} : cur < n
  <2>1. todo # {}
    BY <1>1, <1>2 DEF LoopInv
  <2> QED BY <1>2, <2>1, CurFacts
<1>4. /\ cur \in Nat /\ cur + 1 \in 1..MetaInit /\ Offset(cur) \in Nat
  BY <1>3, OffsetFacts
<1>5. /\ metadata \in [1..MetaInit -> [offset : Nat, size : Nat]]
      /\ metadata' = [metadata EXCEPT ![cur + 1] = p]
  <2>1. metadata \in [1..MetaInit -> [offset : Nat, size : Nat]] /\ MetaInit \in Nat
    BY <1>2, SizesAssumption DEF TypeOK
  <2>2. Len(metadata) = MetaInit
    BY <2>1
  <2> HIDE DEF p
  <2>3. ~ (cur > MetaInit)
    BY <1>4, <2>1
  <2> QED BY <1>1, <2>1, <2>2, <2>3 DEF Entered
<1>6. p \in [offset : Nat, size : Nat]
  BY <1>2, <1>4
<1>7. TypeOK'
  <2>1. metadata' \in [1..MetaInit -> [offset : Nat, size : Nat]]
    BY <1>4, <1>5, <1>6
  <2>2. todo' \subseteq dirtyNodes' /\ pc' \in {"scan", "serialize"} /\ size' \in Nat
    BY <1>1, <1>2 DEF TypeOK
  <2> QED BY <1>1, <1>2, <2>1, <2>2 DEF TypeOK
<1>8. NodesInv'
  BY <1>1, <1>2 DEF NodesInv, InUse
<1>9. LoopInv'
  <2>1. pc' = "scan" <=> todo' = {}
    BY <1>1
  <2>2. ASSUME NEW n \in dirtyNodes' \ todo', NEW m \in todo' PROVE n < m
    <3>1. CASE n = cur
      BY <1>1, <1>3, <3>1
    <3>2. CASE n # cur
      BY <1>1, <1>2, <3>2 DEF LoopInv
    <3> QED BY <3>1, <3>2
  <2>3. ~ (pivot' > 0)
    BY <1>1, <1>2
  <2> QED BY <2>1, <2>2, <2>3 DEF LoopInv
<1>10. SavedInv'
  BY <1>1, <1>2 DEF SavedInv
<1>11. CurrentInv'
  <2>1. pc' \notin {"write", "metadata"} /\ ~ (pivot' > 0)
    BY <1>1, <1>2
  <2> QED BY <2>1 DEF CurrentInv
<1>12. StoredInv'
  <2>1. ASSUME NEW n \in Nids, Settled(n)'
        PROVE  /\ saved[n].node.pivots # <<>>
               /\ metadata'[n + 1] = [offset |-> Offset(n),
                                       size |-> Len(NodeImage(saved[n].node))]
               /\ Fits(saved[n].node) => InFile(Offset(n), NodeImage(saved[n].node))
    <3>1. saved[n].clean /\ n + 1 \in 1..MetaInit /\ n \in Nat
      BY <1>1, <2>1, OffsetFacts DEF Settled
    <3>2. CASE n = cur
      <4>1. /\ saved[cur].node.pivots # <<>>
            /\ size = Len(NodeImage(saved[cur].node))
            /\ InFile(Offset(cur), NodeImage(saved[cur].node))
        BY <1>1, <1>2, <3>1, <3>2 DEF CurrentInv
      <4>2. metadata'[cur + 1] = p
        BY <1>4, <1>5
      <4> QED BY ONLY <3>2, <4>1, <4>2
    <3>3. CASE n # cur
      <4>1. Settled(n)
        BY <1>1, <2>1, <3>3 DEF Settled
      <4>2. metadata'[n + 1] = metadata[n + 1]
        BY <1>4, <1>5, <3>1, <3>3
      <4> QED BY <1>2, <4>1, <4>2 DEF StoredInv
    <3> QED BY <3>2, <3>3
  <2> QED BY <1>1, <2>1 DEF StoredInv, InFile
<1> QED BY <1>7, <1>8, <1>9, <1>10, <1>11, <1>12 DEF Inv

LEMMA NextInv ==
    ASSUME Inv, [Next]_vars
    PROVE  Inv'
<1>1. ASSUME NEW n \in Nids, NEW s \in Shapes, NewNode(n, s) \/ Restructure(n, s)
      PROVE  Inv'
  BY <1>1, NewNodeInv, RestructureInv
<1>2. ASSUME NEW n \in Nids, NEW c \in Children, NewRoot(n, c) PROVE Inv'
  BY <1>2, NewRootInv, SizesAssumption
<1>3. ASSUME NEW n \in Nids, NEW i \in DOMAIN node[n].pivots, NEW b \in Bufs,
             ChangeBuf(n, i, b)
      PROVE  Inv'
  BY <1>3, ChangeBufInv
<1>4. CASE AddSecond
  BY <1>4, AddSecondInv
<1>5. CASE WriteStep
  BY <1>5, StartWriteInv, SerializeHeadInv, SerializePivotInv, WriteFileInv,
     WriteFileFailsInv, UpdateMetadataInv DEF WriteStep
<1>6. CASE Restart
  BY <1>6, RestartInv
<1>7. CASE UNCHANGED vars
  <2>1. /\ UNCHANGED <<file, metadata, writeBuf, loop, saved>>
        /\ node' = node /\ making' = making
    BY <1>7 DEF vars
  <2>2. TypeOK /\ NodesInv /\ LoopInv
    BY DEF Inv
  <2>3. ASSUME pivot > 0 PROVE Len(node[cur].pivots) <= Len(node'[cur].pivots)
    <3>1. node[cur].pivots \in PivotLists
      BY <2>2, <2>3, CurFacts, NodeFacts DEF LoopInv
    <3> QED BY <2>1, <3>1, PivotsFacts, LenProperties
  <2> QED BY <2>1, <2>2, <2>3, NodeChangeInv DEF TypeOK, NodesInv, InUse
<1> QED BY <1>1, <1>2, <1>3, <1>4, <1>5, <1>6, <1>7 DEF Next

-----------------------------------------------------------------------------
\* What follows

\* The data file, metadata_, the bytes left in writeBuf_ and the node being
\* serialized agree at every step of Layout::write, although images may reach
\* out of their regions and a new root may get its second pivot while it is
\* serialized: Inv is inductive.
THEOREM LayoutInv == Spec => []Inv
<1>1. Init => Inv
  BY InitInv
<1>2. Inv /\ [Next]_vars => Inv'
  BY NextInv
<1> QED BY <1>1, <1>2, PTL DEF Spec

\* Node::writeBackSize never counts a node with fewer bytes than
\* Node::serialize writes for it.
THEOREM LayoutSizeCoversImage == Spec => []SizeCoversImage
<1>1. Inv => SizeCoversImage
  <2> SUFFICES ASSUME Inv, NEW n \in Nids
               PROVE  Len(NodeImage(node[n])) <= WriteBackSize(node[n])
    BY DEF SizeCoversImage
  <2>1. /\ node[n].isLeaf \in {0, 1} /\ node[n].self \in 0..(IntRange - 1)
        /\ node[n].pivots \in PivotLists
    BY NodeFacts DEF Inv
  <2> QED BY <2>1, NodeImageFacts
<1> QED BY <1>1, LayoutInv, PTL

\* A node whose own write went well and whose own image stayed in its region is
\* read back from the data file exactly as it was serialized, once Layout::write
\* has passed it, whatever failed or did not fit for other nodes.
THEOREM LayoutReadsBack == Spec => []ReadsBack
<1>1. Inv => ReadsBack
  <2> SUFFICES ASSUME Inv, NEW n \in Nids, Settled(n), Fits(saved[n].node),
                      EqualLengths(saved[n].node)
               PROVE  Read(n) = [ok |-> TRUE, node |-> saved[n].node]
    BY DEF ReadsBack
  <2> DEFINE nd == saved[n].node
             image == NodeImage(nd)
             o == Offset(n)
  <2>1. TypeOK /\ LoopInv /\ SavedInv /\ StoredInv /\ file \in Seq(Byte)
    BY DEF Inv, TypeOK
  <2>2. /\ nd \in NodeRecords /\ nd.isLeaf \in {0, 1} /\ nd.self \in 0..(IntRange - 1)
        /\ nd.pivots \in PivotLists
    BY <2>1, CleanFacts, SavedFacts DEF Settled
  <2>3. nd.pivots # <<>> /\ metadata[n + 1] = [offset |-> o, size |-> Len(image)]
    BY <2>1 DEF StoredInv
  <2>4. image \in Seq(Byte) /\ o \in Nat /\ Holds(file, o, image)
    BY <2>1, StoredFacts
  <2>5. ReadNode(image)
          = [ok |-> TRUE, node |-> [isLeaf |-> nd.isLeaf, self |-> nd.self,
                                    pivots |-> nd.pivots]]
    <3>1. EqualLengths(nd)
      OBVIOUS
    <3> HIDE DEF nd
    <3> QED BY ONLY <2>2, <2>3, <3>1, ReadsNode
  <2>6. nd = [isLeaf |-> nd.isLeaf, self |-> nd.self, pivots |-> nd.pivots]
    BY <2>2 DEF NodeRecords
  <2> HIDE DEF nd, image, o
  <2>7. ReadFile(o, Len(image)) = image
    BY <2>1, <2>4, ReadFileIs
  <2>8. Read(n) = ReadNode(image)
    BY <2>3, <2>7 DEF Read
  <2> QED BY <2>5, <2>6, <2>8 DEF nd
<1> QED BY <1>1, LayoutInv, PTL

=============================================================================
