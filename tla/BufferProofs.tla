---------------------------- MODULE BufferProofs ----------------------------
(***************************************************************************)
(* For every size of the vector and of the calls, the indices of a Buffer  *)
(* stay in order and the Buffer is a queue of bytes.                       *)
(***************************************************************************)
EXTENDS Buffer, TLAPS, SequenceTheorems

Content == SubSeq(bytes, reader + 1, writer)

\* What is copied into a vector is there, the rest is as before, and the
\* length is the same.
LEMMA CopiedFacts ==
    ASSUME NEW s \in Seq(Byte), NEW data \in Seq(Byte), NEW i \in Nat,
           i + Len(data) <= Len(s)
    PROVE  /\ Copied(s, i, data) \in Seq(Byte)
           /\ Len(Copied(s, i, data)) = Len(s)
           /\ \A k \in 1..Len(s) : Copied(s, i, data)[k] =
                IF k \in (i + 1)..(i + Len(data)) THEN data[k - i] ELSE s[k]
<1>1. Len(s) \in Nat /\ Len(data) \in Nat
  BY LenProperties
<1>2. ASSUME NEW k \in 1..Len(s)
      PROVE  (IF k \in (i + 1)..(i + Len(data)) THEN data[k - i] ELSE s[k]) \in Byte
  <2>1. CASE k \in (i + 1)..(i + Len(data))
    <3>1. k - i \in 1..Len(data)
      BY <1>1, <2>1
    <3> QED BY <2>1, <3>1, ElementOfSeq
  <2>2. CASE k \notin (i + 1)..(i + Len(data))
    BY <2>2, ElementOfSeq
  <2> QED BY <2>1, <2>2
<1> QED BY <1>1, <1>2, IsASeq DEF Copied

\* A resized vector begins as it did.
LEMMA ResizedFacts ==
    ASSUME NEW s \in Seq(Byte), NEW n \in Nat
    PROVE  /\ Resized(s, n) \in Seq(Byte)
           /\ Len(Resized(s, n)) = n
           /\ \A k \in 1..n : k <= Len(s) => Resized(s, n)[k] = s[k]
<1>1. ASSUME NEW k \in 1..n
      PROVE  (IF k <= Len(s) THEN s[k] ELSE Zero) \in Byte
  BY BufferAssumption, ElementOfSeq, LenProperties
<1> QED BY <1>1, IsASeq DEF Resized

\* The bytes of one call are a sequence.
LEMMA DataFacts ==
    ASSUME NEW data \in Data
    PROVE  data \in Seq(Byte) /\ Len(data) \in Nat
<1>1. PICK n \in 0..MaxLen : data \in [1..n -> Byte]
  BY DEF Data
<1>2. data \in Seq(Byte)
  BY <1>1, BufferAssumption, IsASeq
<1> QED BY <1>2, LenProperties

\* SubSeq read as a function of its position.
LEMMA SubSeqFacts ==
    ASSUME NEW s \in Seq(Byte), NEW i \in Nat, NEW j \in Nat,
           i <= j, j <= Len(s)
    PROVE  /\ SubSeq(s, i + 1, j) \in Seq(Byte)
           /\ Len(SubSeq(s, i + 1, j)) = j - i
           /\ \A k \in 1..(j - i) : SubSeq(s, i + 1, j)[k] = s[i + k]
<1>1. Len(s) \in Nat
  BY LenProperties
<1>2. SubSeq(s, i + 1, j) \in Seq(Byte)
  BY <1>1, SubSeqProperties
<1>3. Len(SubSeq(s, i + 1, j)) = j - i
  BY <1>1, SubSeqProperties
<1>4. ASSUME NEW k \in 1..(j - i)
      PROVE  SubSeq(s, i + 1, j)[k] = s[i + k]
  BY <1>1, <1>4, SubSeqProperties
<1> QED BY <1>2, <1>3, <1>4

\* A sequence that begins like a and goes on like data is a with data behind.
LEMMA ConcatIs ==
    ASSUME NEW a \in Seq(Byte), NEW data \in Seq(Byte), NEW b \in Seq(Byte),
           Len(b) = Len(a) + Len(data),
           \A k \in 1..Len(a) : b[k] = a[k],
           \A k \in 1..Len(data) : b[Len(a) + k] = data[k]
    PROVE  b = a \o data
<1> DEFINE c == a \o data
<1>1. /\ c \in Seq(Byte) /\ Len(c) = Len(a) + Len(data)
      /\ \A k \in 1..(Len(a) + Len(data)) :
            c[k] = IF k <= Len(a) THEN a[k] ELSE data[k - Len(a)]
  BY ConcatProperties, Zenon
<1>2. Len(a) \in Nat /\ Len(data) \in Nat
  BY LenProperties
<1> HIDE DEF c
<1>3. ASSUME NEW k \in 1..Len(b)
      PROVE  b[k] = c[k]
  <2>1. CASE k <= Len(a)
    BY <1>1, <1>2, <2>1
  <2>2. CASE ~(k <= Len(a))
    <3>1. k - Len(a) \in 1..Len(data) /\ Len(a) + (k - Len(a)) = k
      BY <1>2, <2>2
    <3> QED BY <1>1, <2>2, <3>1
  <2> QED BY <2>1, <2>2
<1>4. b = c
  BY <1>1, <1>3, SeqEqual
<1> QED BY <1>4 DEF c

-----------------------------------------------------------------------------
\* ensureWritableBytes makes the room it is asked for, keeps the indices in
\* order and the readable bytes as they are.
LEMMA EnsuredFacts ==
    ASSUME IndexOrder, NEW len \in Nat, NEW STATE e, e = Ensured(len)
    PROVE  /\ e.v \in Seq(Byte) /\ Len(e.v) \in Nat
           /\ e.r \in Nat /\ e.w \in Nat
           /\ kCheapPrepend <= e.r /\ e.r <= e.w /\ e.w + len <= Len(e.v)
           /\ e.w - e.r = writer - reader
           /\ \A k \in 1..(e.w - e.r) : e.v[e.r + k] = bytes[reader + k]
<1>1. /\ bytes \in Seq(Byte) /\ reader \in Nat /\ writer \in Nat
      /\ kCheapPrepend \in Nat /\ kCheapPrepend <= reader
      /\ reader <= writer /\ writer <= Len(bytes) /\ Len(bytes) \in Nat
  BY BufferAssumption, LenProperties DEF IndexOrder, size
<1>2. CASE writableBytes >= len
  <2>1. e = [v |-> bytes, r |-> reader, w |-> writer]
    BY <1>2 DEF Ensured
  <2> QED BY <1>1, <1>2, <2>1 DEF writableBytes, size
<1>3. CASE ~(writableBytes >= len) /\ MustGrow(len)
  <2>1. e = [v |-> Resized(bytes, writer + len), r |-> reader, w |-> writer]
    BY <1>3 DEF Ensured
  <2>2. Len(bytes) < writer + len /\ writer + len \in Nat
    BY <1>1, <1>3 DEF writableBytes, size
  <2>3. /\ e.v \in Seq(Byte) /\ Len(e.v) = writer + len
        /\ \A k \in 1..(writer + len) : k <= Len(bytes) => e.v[k] = bytes[k]
    <3> DEFINE g == Resized(bytes, writer + len)
    <3>1. /\ g \in Seq(Byte) /\ Len(g) = writer + len
          /\ \A k \in 1..(writer + len) : k <= Len(bytes) => g[k] = bytes[k]
      BY <1>1, <2>2, ResizedFacts
    <3> HIDE DEF g
    <3>2. e.v = g
      BY <2>1 DEF g
    <3> QED BY <3>1, <3>2
  <2>4. ASSUME NEW k \in 1..(writer - reader)
        PROVE  e.v[reader + k] = bytes[reader + k]
    <3>1. reader + k \in 1..(writer + len) /\ reader + k <= Len(bytes)
      BY <1>1, <2>2
    <3> QED BY <2>3, <3>1
  <2>5. e.r = reader /\ e.w = writer
    BY <2>1
  <2> QED BY <1>1, <2>2, <2>3, <2>4, <2>5
<1>4. CASE ~(writableBytes >= len) /\ ~MustGrow(len)
  <2> DEFINE d == SubSeq(bytes, reader + 1, writer)
  <2>1. /\ e.v = Copied(bytes, kCheapPrepend, d)
        /\ e.r = kCheapPrepend /\ e.w = kCheapPrepend + (writer - reader)
    BY <1>4 DEF Ensured, readableBytes
  <2>2. len + kCheapPrepend <= (Len(bytes) - writer) + reader
    BY <1>1, <1>4 DEF MustGrow, writableBytes, prependableBytes, size
  <2>3. /\ d \in Seq(Byte) /\ Len(d) = writer - reader
        /\ \A k \in 1..(writer - reader) : d[k] = bytes[reader + k]
    BY <1>1, SubSeqFacts
  <2> HIDE DEF d
  <2>4. kCheapPrepend + Len(d) <= Len(bytes)
    BY <1>1, <2>2, <2>3
  <2>5. /\ e.v \in Seq(Byte) /\ Len(e.v) = Len(bytes)
        /\ \A k \in 1..Len(bytes) : e.v[k] =
            IF k \in (kCheapPrepend + 1)..(kCheapPrepend + Len(d))
            THEN d[k - kCheapPrepend] ELSE bytes[k]
    <3> DEFINE g == Copied(bytes, kCheapPrepend, d)
    <3>1. /\ g \in Seq(Byte) /\ Len(g) = Len(bytes)
          /\ \A k \in 1..Len(bytes) : g[k] =
                IF k \in (kCheapPrepend + 1)..(kCheapPrepend + Len(d))
                THEN d[k - kCheapPrepend] ELSE bytes[k]
      <4>1. /\ bytes \in Seq(Byte) /\ d \in Seq(Byte) /\ kCheapPrepend \in Nat
            /\ kCheapPrepend + Len(d) <= Len(bytes)
        BY <1>1, <2>3, <2>4
      <4> QED BY ONLY <4>1, CopiedFacts
    <3> HIDE DEF g
    <3>2. e.v = g
      BY <2>1 DEF g
    <3> QED BY <3>1, <3>2
  <2>6. ASSUME NEW k \in 1..(writer - reader)
        PROVE  e.v[kCheapPrepend + k] = bytes[reader + k]
    <3>1. /\ kCheapPrepend + k \in 1..Len(bytes)
          /\ kCheapPrepend + k \in (kCheapPrepend + 1)..(kCheapPrepend + Len(d))
          /\ (kCheapPrepend + k) - kCheapPrepend = k
      BY <1>1, <2>3, <2>4
    <3> QED BY <2>3, <2>5, <3>1
  <2> QED BY <1>1, <2>1, <2>2, <2>5, <2>6
<1> QED BY <1>2, <1>3, <1>4

-----------------------------------------------------------------------------
\* What every step relies on.
LEMMA Bounds ==
    ASSUME IndexOrder
    PROVE  /\ bytes \in Seq(Byte) /\ Len(bytes) \in Nat
           /\ kCheapPrepend \in Nat /\ reader \in Nat /\ writer \in Nat
           /\ kCheapPrepend <= reader /\ reader <= writer
           /\ writer <= Len(bytes)
BY BufferAssumption, LenProperties DEF IndexOrder, size

\* ensureWritableBytes leaves the queue alone.
LEMMA EnsureStep ==
    ASSUME IndexOrder, NEW len \in Nat, EnsureWritableBytes(len)
    PROVE  IndexOrder' /\ Content' = Content
<1> DEFINE e == Ensured(len)
<1>1. /\ e.v \in Seq(Byte) /\ Len(e.v) \in Nat
      /\ e.r \in Nat /\ e.w \in Nat
      /\ kCheapPrepend <= e.r /\ e.r <= e.w /\ e.w + len <= Len(e.v)
      /\ e.w - e.r = writer - reader
      /\ \A k \in 1..(e.w - e.r) : e.v[e.r + k] = bytes[reader + k]
  BY EnsuredFacts
<1>2. bytes' = e.v /\ reader' = e.r /\ writer' = e.w
  BY DEF EnsureWritableBytes
<1> HIDE DEF e
<1>3. e.w <= Len(e.v)
  BY <1>1
<1>4. IndexOrder'
  BY <1>1, <1>2, <1>3 DEF IndexOrder, size
<1>5. Content' = Content
  <2> DEFINE a == SubSeq(bytes, reader + 1, writer)
             b == SubSeq(e.v, e.r + 1, e.w)
  <2>1. /\ a \in Seq(Byte) /\ Len(a) = writer - reader
        /\ \A k \in 1..(writer - reader) : a[k] = bytes[reader + k]
    BY Bounds, SubSeqFacts
  <2>2. /\ b \in Seq(Byte) /\ Len(b) = e.w - e.r
        /\ \A k \in 1..(e.w - e.r) : b[k] = e.v[e.r + k]
    <3> DEFINE s == e.v
               i == e.r
               j == e.w
    <3>1. s \in Seq(Byte) /\ i \in Nat /\ j \in Nat /\ i <= j /\ j <= Len(s)
      BY <1>1, <1>3
    <3>2. b = SubSeq(s, i + 1, j)
      OBVIOUS
    <3> HIDE DEF s, i, j, b
    <3>3. /\ b \in Seq(Byte) /\ Len(b) = j - i
          /\ \A k \in 1..(j - i) : b[k] = s[i + k]
      BY ONLY <3>1, <3>2, SubSeqFacts
    <3> QED BY <3>3 DEF s, i, j
  <2> HIDE DEF a, b
  <2>3. a = b
    <3>1. Len(b) = Len(a) /\ \A k \in 1..Len(a) : a[k] = b[k]
      BY <1>1, <2>1, <2>2
    <3>2. a \in Seq(Byte) /\ b \in Seq(Byte)
      BY <2>1, <2>2
    <3> QED BY <3>1, <3>2, SeqEqual
  <2> QED BY <1>2, <2>3 DEF Content, a, b
<1> QED BY <1>4, <1>5

\* append puts its bytes at the end of the queue.
LEMMA AppendStep ==
    ASSUME IndexOrder, NEW data \in Data, Append_(data)
    PROVE  IndexOrder' /\ Content' = Content \o data
<1> DEFINE l == Len(data)
           e == Ensured(l)
           v == Copied(e.v, e.w, data)
           d == writer - reader
<1>0. data \in Seq(Byte) /\ l \in Nat
  BY DataFacts
<1>1. /\ e.v \in Seq(Byte) /\ Len(e.v) \in Nat
      /\ e.r \in Nat /\ e.w \in Nat
      /\ kCheapPrepend <= e.r /\ e.r <= e.w /\ e.w + l <= Len(e.v)
      /\ e.w - e.r = d
      /\ \A k \in 1..(e.w - e.r) : e.v[e.r + k] = bytes[reader + k]
  BY <1>0, EnsuredFacts
<1>2. bytes' = v /\ reader' = e.r /\ writer' = e.w + l
  BY DEF Append_
<1> HIDE DEF e
<1>3. /\ v \in Seq(Byte) /\ Len(v) = Len(e.v)
      /\ \A k \in 1..Len(e.v) : v[k] =
            IF k \in (e.w + 1)..(e.w + Len(data)) THEN data[k - e.w] ELSE e.v[k]
  BY <1>0, <1>1, CopiedFacts
<1> HIDE DEF v
<1>4. IndexOrder'
  <2>1. e.r <= e.w + l /\ e.w + l \in Nat
    BY <1>0, <1>1
  <2> QED BY <1>1, <1>2, <1>3, <2>1 DEF IndexOrder, size
<1>5. d \in Nat /\ e.w = e.r + d /\ reader + d = writer
  BY <1>1, Bounds
<1> HIDE DEF d, l
<1>6. ASSUME NEW k \in 1..d
      PROVE  v[e.r + k] = bytes[reader + k]
  <2>1. e.r + k \in 1..Len(e.v) /\ ~(e.r + k \in (e.w + 1)..(e.w + Len(data)))
    BY <1>0, <1>1, <1>5, SMTT(30) DEF l
  <2> QED BY <1>1, <1>3, <2>1
<1>7. ASSUME NEW k \in 1..l
      PROVE  v[e.r + d + k] = data[k]
  <2>1. /\ e.w \in Nat /\ e.r \in Nat /\ e.w = e.r + d /\ Len(e.v) \in Nat
        /\ e.w + l <= Len(e.v)
    BY <1>1, <1>5
  <2>2. /\ e.w + k \in 1..Len(e.v) /\ (e.w + k) - e.w = k
        /\ e.w + k \in (e.w + 1)..(e.w + l)
    BY <1>0, <2>1, SMTT(30)
  <2>3. v[e.w + k] = data[k]
    BY <1>3, <2>2 DEF l
  <2> QED BY <2>1, <2>3
<1>8. Content' = Content \o data
  <2> DEFINE a == SubSeq(bytes, reader + 1, writer)
             b == SubSeq(v, e.r + 1, e.w + l)
  <2>1. a \in Seq(Byte) /\ Len(a) = d /\ \A k \in 1..d : a[k] = bytes[reader + k]
    BY Bounds, SubSeqFacts DEF d
  <2>2. /\ b \in Seq(Byte) /\ Len(b) = d + l
        /\ \A k \in 1..(d + l) : b[k] = v[e.r + k]
    <3>1. /\ e.w + l \in Nat /\ e.r <= e.w + l /\ e.w + l <= Len(v)
          /\ (e.w + l) - e.r = d + l
      BY <1>0, <1>1, <1>3, <1>5, SMTT(30)
    <3> QED BY <1>1, <1>3, <3>1, SubSeqFacts, SMTT(30)
  <2> HIDE DEF a, b
  <2>3. \A k \in 1..d : b[k] = a[k]
    <3>1. \A k \in 1..d : k \in 1..(d + l)
      BY <1>0, <1>5
    <3> QED BY <1>6, <2>1, <2>2, <3>1
  <2>4. ASSUME NEW k \in 1..l
        PROVE  b[d + k] = data[k]
    <3>1. d + k \in 1..(d + l) /\ e.r + (d + k) = e.r + d + k
      BY <1>0, <1>1, <1>5
    <3> QED BY <1>7, <2>2, <3>1
  <2>5. b = a \o data
    BY <1>0, <2>1, <2>2, <2>3, <2>4, ConcatIs DEF l
  <2> QED BY <1>2, <2>5 DEF Content, a, b
<1> QED BY <1>4, <1>8

\* pread and updateWriterIndex put the bytes at the end of the queue, and a
\* pread that fails changes nothing that is readable.
LEMMA FillStep ==
    ASSUME IndexOrder, NEW data \in Data, Fill(data) \/ FillFails(data)
    PROVE  /\ IndexOrder'
           /\ Content' = Content \o data \/ Content' = Content
<1> DEFINE l == Len(data)
           v == Copied(bytes, writer, data)
           d == writer - reader
<1>0. data \in Seq(Byte) /\ l \in Nat /\ writer + l <= Len(bytes)
  BY DataFacts, Bounds DEF Fill, FillFails, writableBytes, size
<1>1. /\ v \in Seq(Byte) /\ Len(v) = Len(bytes)
      /\ \A k \in 1..Len(bytes) : v[k] =
            IF k \in (writer + 1)..(writer + Len(data)) THEN data[k - writer]
            ELSE bytes[k]
  BY <1>0, Bounds, CopiedFacts
<1>2. bytes' = v /\ reader' = reader
  BY DEF Fill, FillFails
<1> HIDE DEF v
<1>3. d \in Nat /\ writer = reader + d
  BY Bounds
<1> HIDE DEF d, l
<1>4. ASSUME NEW k \in 1..d
      PROVE  v[reader + k] = bytes[reader + k]
  <2>1. /\ reader + k \in 1..Len(bytes)
        /\ ~(reader + k \in (writer + 1)..(writer + Len(data)))
    BY <1>0, <1>3, Bounds DEF l
  <2> QED BY <1>1, <2>1
<1>5. CASE Fill(data)
  <2>1. writer' = writer + l
    BY <1>5 DEF Fill, l
  <2>2. IndexOrder'
    <3>1. reader <= writer + l /\ writer + l \in Nat
      BY <1>0, Bounds
    <3> QED BY <1>0, <1>1, <1>2, <2>1, <3>1, Bounds DEF IndexOrder, size
  <2>3. ASSUME NEW k \in 1..l
        PROVE  v[reader + d + k] = data[k]
    <3>1. /\ reader + d + k \in 1..Len(bytes) /\ (reader + d + k) - writer = k
          /\ reader + d + k \in (writer + 1)..(writer + Len(data))
      BY <1>0, <1>3, Bounds, SMTT(30) DEF l
    <3> QED BY <1>1, <3>1
  <2>4. Content' = Content \o data
    <3> DEFINE a == SubSeq(bytes, reader + 1, writer)
               b == SubSeq(v, reader + 1, writer + l)
    <3>1. a \in Seq(Byte) /\ Len(a) = d /\ \A k \in 1..d : a[k] = bytes[reader + k]
      BY Bounds, SubSeqFacts DEF d
    <3>2. /\ b \in Seq(Byte) /\ Len(b) = d + l
          /\ \A k \in 1..(d + l) : b[k] = v[reader + k]
      <4>1. /\ writer + l \in Nat /\ reader <= writer + l /\ writer + l <= Len(v)
            /\ (writer + l) - reader = d + l
        BY <1>0, <1>1, <1>3, Bounds
      <4> QED BY <1>1, <4>1, Bounds, SubSeqFacts
    <3> HIDE DEF a, b
    <3>3. \A k \in 1..d : b[k] = a[k]
      <4>1. \A k \in 1..d : k \in 1..(d + l)
        BY <1>0, <1>3
      <4> QED BY <1>4, <3>1, <3>2, <4>1
    <3>4. ASSUME NEW k \in 1..l
          PROVE  b[d + k] = data[k]
      <4>1. d + k \in 1..(d + l) /\ reader + (d + k) = reader + d + k
        BY <1>0, <1>3, Bounds
      <4> QED BY <2>3, <3>2, <4>1
    <3>5. b = a \o data
      BY <1>0, <3>1, <3>2, <3>3, <3>4, ConcatIs DEF l
    <3> QED BY <1>2, <2>1, <3>5 DEF Content, a, b
  <2> QED BY <2>2, <2>4
<1>6. CASE FillFails(data)
  <2>1. writer' = writer
    BY <1>6 DEF FillFails
  <2>2. IndexOrder'
    BY <1>1, <1>2, <2>1, Bounds DEF IndexOrder, size
  <2>3. Content' = Content
    <3> DEFINE a == SubSeq(bytes, reader + 1, writer)
               b == SubSeq(v, reader + 1, writer)
    <3>1. a \in Seq(Byte) /\ Len(a) = d /\ \A k \in 1..d : a[k] = bytes[reader + k]
      BY Bounds, SubSeqFacts DEF d
    <3>2. b \in Seq(Byte) /\ Len(b) = d /\ \A k \in 1..d : b[k] = v[reader + k]
      BY <1>1, Bounds, SubSeqFacts DEF d
    <3> HIDE DEF a, b
    <3>3. a = b
      BY <1>4, <3>1, <3>2, SeqEqual
    <3> QED BY <1>2, <2>1, <3>3 DEF Content, a, b
  <2> QED BY <2>2, <2>3
<1> QED BY <1>5, <1>6

\* retrieveAll empties the queue.
LEMMA RetrieveAllStep ==
    ASSUME IndexOrder, RetrieveAll
    PROVE  IndexOrder' /\ Content' = <<>>
<1>1. bytes' = bytes /\ reader' = kCheapPrepend /\ writer' = kCheapPrepend
  BY DEF RetrieveAll
<1>2. IndexOrder'
  BY <1>1, Bounds DEF IndexOrder, size
<1>3. SubSeq(bytes, kCheapPrepend + 1, kCheapPrepend) = <<>>
  BY Bounds, SubSeqEmpty
<1> QED BY <1>1, <1>2, <1>3 DEF Content

\* retrieve takes bytes from the front of the queue, also when it resets the
\* indices because nothing is left.
LEMMA RetrieveStep ==
    ASSUME IndexOrder, NEW len \in Nat, Retrieve(len)
    PROVE  /\ IndexOrder'
           /\ len <= Len(Content)
           /\ Content' = SubSeq(Content, len + 1, Len(Content))
<1> DEFINE d == writer - reader
           c == SubSeq(bytes, reader + 1, writer)
<1>1. len <= d /\ d \in Nat
  BY Bounds DEF Retrieve, readableBytes
<1>2. c \in Seq(Byte) /\ Len(c) = d /\ \A k \in 1..d : c[k] = bytes[reader + k]
  BY Bounds, SubSeqFacts
<1> HIDE DEF c
<1>3. CASE len < readableBytes /\ reader' = reader + len /\ UNCHANGED <<bytes, writer>>
  <2>1. IndexOrder'
    BY <1>3, Bounds DEF IndexOrder, size, readableBytes
  <2>2. SubSeq(bytes, (reader + len) + 1, writer) = SubSeq(c, len + 1, d)
    <3> DEFINE f == d - len
               r == reader + len
    <3>1. f \in Nat /\ r \in Nat /\ r + f = writer /\ len + f = d
      BY <1>1, Bounds, SMTT(30)
    <3>2. ASSUME NEW k \in 1..f
          PROVE  bytes[r + k] = c[len + k]
      <4>1. len + k \in 1..d /\ reader + (len + k) = r + k
        BY <1>1, Bounds
      <4> QED BY <1>2, <4>1
    <3> HIDE DEF d, f, r
    <3> DEFINE a == SubSeq(bytes, r + 1, writer)
               b == SubSeq(c, len + 1, d)
    <3>3. a \in Seq(Byte) /\ Len(a) = f /\ \A k \in 1..f : a[k] = bytes[r + k]
      <4>1. r <= writer /\ writer - r = f
        BY <3>1
      <4> QED BY <3>1, <4>1, Bounds, SubSeqFacts, SMTT(30)
    <3>4. b \in Seq(Byte) /\ Len(b) = f /\ \A k \in 1..f : b[k] = c[len + k]
      <4>1. len <= d /\ d - len = f
        BY <1>1 DEF f
      <4> QED BY <1>1, <1>2, <4>1, SubSeqFacts
    <3> HIDE DEF a, b
    <3>5. a = b
      BY <3>2, <3>3, <3>4, SeqEqual
    <3> QED BY <3>5 DEF a, b, r
  <2> QED BY <1>1, <1>2, <1>3, <2>1, <2>2 DEF Content, c
<1>4. CASE len = readableBytes /\ RetrieveAll
  <2>1. len = d
    BY <1>4 DEF readableBytes
  <2>2. SubSeq(c, d + 1, d) = <<>>
    BY <1>1, SubSeqEmpty
  <2> QED BY <1>1, <1>2, <1>4, <2>1, <2>2, RetrieveAllStep DEF Content, c
<1> QED BY <1>3, <1>4 DEF Retrieve

-----------------------------------------------------------------------------
\* The empty buffer.
LEMMA InitFacts ==
    ASSUME Init
    PROVE  IndexOrder /\ Content = <<>>
<1>1. bytes \in Seq(Byte) /\ Len(bytes) = kCheapPrepend + kInitialSize
  BY BufferAssumption, IsASeq DEF Init
<1>2. IndexOrder
  BY <1>1, BufferAssumption DEF Init, IndexOrder, size
<1>3. SubSeq(bytes, kCheapPrepend + 1, kCheapPrepend) = <<>>
  BY BufferAssumption, SubSeqEmpty
<1> QED BY <1>2, <1>3 DEF Init, Content

\* Every step keeps the indices in order and is a step of the queue.
LEMMA StepFacts ==
    ASSUME IndexOrder, [Next]_vars
    PROVE  IndexOrder' /\ (Queue!Next \/ Content' = Content)
<1>1. CASE UNCHANGED vars
  BY <1>1 DEF vars, IndexOrder, size, Content
<1>2. ASSUME NEW len \in 0..MaxLen, EnsureWritableBytes(len)
      PROVE  IndexOrder' /\ Content' = Content
  BY <1>2, EnsureStep, BufferAssumption
<1>3. ASSUME NEW len \in 0..MaxLen, Retrieve(len)
      PROVE  IndexOrder' /\ Queue!Next
  <2>1. /\ IndexOrder' /\ len <= Len(Content)
        /\ Content' = SubSeq(Content, len + 1, Len(Content))
    BY <1>3, RetrieveStep, BufferAssumption
  <2>2. Queue!Take(len)
    BY <2>1 DEF Queue!Take, Content
  <2> QED BY <2>1, <2>2 DEF Queue!Next
<1>4. ASSUME NEW data \in Data, Content' = Content \o data
      PROVE  Queue!Next
  <2>1. Queue!Put(data)
    BY <1>4 DEF Queue!Put, Content
  <2>2. data \in Queue!Data
    BY DEF Data, Queue!Data
  <2> QED BY <2>1, <2>2 DEF Queue!Next
<1>5. ASSUME NEW data \in Data, Append_(data)
      PROVE  IndexOrder' /\ Queue!Next
  BY <1>4, <1>5, AppendStep
<1>6. ASSUME NEW data \in Data, Fill(data) \/ FillFails(data)
      PROVE  IndexOrder' /\ (Queue!Next \/ Content' = Content)
  BY <1>4, <1>6, FillStep
<1>7. CASE RetrieveAll
  <2>1. IndexOrder' /\ Content' = <<>>
    BY <1>7, RetrieveAllStep
  <2> QED BY <2>1 DEF Queue!Next, Queue!Drop, Content
<1> QED BY <1>1, <1>2, <1>3, <1>5, <1>6, <1>7 DEF Next

\* For every size of vector and call, no difference of two indices of a Buffer
\* passes below zero.
THEOREM IndicesInOrder == Spec => []IndexOrder
<1>1. Init => IndexOrder
  BY InitFacts
<1>2. IndexOrder /\ [Next]_vars => IndexOrder'
  BY StepFacts
<1> QED BY <1>1, <1>2, PTL DEF Spec

\* For every size of vector and call, the Buffer implements a queue of bytes.
THEOREM BufferIsQueue == Spec => ImplementsQueue
<1>1. Init => Queue!Init
  BY InitFacts DEF Queue!Init, Content
<1>2. IndexOrder /\ [Next]_vars => [Queue!Next]_(SubSeq(bytes, reader + 1, writer))
  BY StepFacts DEF Content
<1> QED BY <1>1, <1>2, IndicesInOrder, PTL DEF Spec, ImplementsQueue, Queue!Spec

=============================================================================
