---------------------------- MODULE CacheProofs ----------------------------
(***************************************************************************)
(* Proofs about the cache of decoded chunks, for any number of readers,    *)
(* any sizes of chunks, and any capacity.                                  *)
(***************************************************************************)
EXTENDS DecodeCache, SeqFacts

Entry == Keys \X Buffers

---------------------------------------------------------------------------
(* What the bytes of entries add up to.                                    *)

\* f[n] is what the first n entries of es add up to.
Sums(f, es) ==
  /\ f[0] = 0
  /\ \A n \in 1 .. Len(es) : f[n] = f[n - 1] + Size[es[n][1]]

LEMMA BytesDef ==
  ASSUME NEW es, Len(es) \in Nat
  PROVE  \E f : Bytes(es) = f[Len(es)] /\ Sums(f, es)
<1>. DEFINE Def(f, m) == f = [n \in 0 .. m |-> IF n = 0 THEN 0 ELSE f[n - 1] + Size[es[n][1]]]
            T == {m \in Nat : \E f : Def(f, m)}
<1>1. 0 \in T
  <2>1. Def([n \in 0 .. 0 |-> 0], 0)
    OBVIOUS
  <2>. QED
    BY <2>1
<1>2. ASSUME NEW m \in Nat, m \in T
      PROVE  m + 1 \in T
  <2>1. PICK f : Def(f, m)
    BY <1>2
  <2>. DEFINE g == [n \in 0 .. m + 1 |-> IF n = m + 1 THEN f[m] + Size[es[n][1]] ELSE f[n]]
  <2>2. \A n \in 0 .. m + 1 : g[n] = IF n = 0 THEN 0 ELSE g[n - 1] + Size[es[n][1]]
    <3>1. \A n \in 0 .. m : f[n] = IF n = 0 THEN 0 ELSE f[n - 1] + Size[es[n][1]]
      BY <2>1
    <3>. HIDE DEF Def
    <3>2. \A n \in 0 .. m : g[n] = f[n]
      OBVIOUS
    <3>. TAKE n \in 0 .. m + 1
    <3>3. CASE n = 0
      BY <3>1, <3>2, <3>3
    <3>4. CASE n \in 1 .. m
      BY <3>1, <3>2, <3>4
    <3>5. CASE n = m + 1
      BY <3>2, <3>5
    <3>. QED
      BY <3>3, <3>4, <3>5
  <2>3. DOMAIN g = 0 .. m + 1 /\ g = [n \in DOMAIN g |-> g[n]]
    OBVIOUS
  <2>. HIDE DEF g
  <2>4. Def(g, m + 1)
    BY <2>2, <2>3
  <2>. QED
    BY <2>4
<1>. HIDE DEF Def
<1>3. \E f : Def(f, Len(es))
  <2>1. Nat \subseteq T
    <3>. HIDE DEF T
    <3>. QED
      BY <1>1, <1>2, NatSteps
  <2>. QED
    BY <2>1
<1>. DEFINE h == CHOOSE f : Def(f, Len(es))
<1>4. Def(h, Len(es))
  BY <1>3
<1>5. Bytes(es) = h[Len(es)]
  BY DEF Bytes, Def
<1>. HIDE DEF h
<1>6. Sums(h, es)
  BY <1>4 DEF Def, Sums
<1>. QED
  BY <1>5, <1>6

\* Sums are natural numbers, and depend on what is summed up only.
LEMMA SumsAgree ==
  ASSUME NEW p \in Seq(Entry), NEW q \in Seq(Entry), NEW f, NEW g, Sums(f, p), Sums(g, q),
         NEW m \in Nat, m <= Len(p), m <= Len(q), \A n \in 1 .. m : p[n] = q[n]
  PROVE  f[m] = g[m] /\ f[m] \in Nat
<1>. DEFINE T == {n \in Nat : n <= m => f[n] = g[n] /\ f[n] \in Nat}
<1>1. 0 \in T
  BY DEF Sums
<1>2. ASSUME NEW n \in Nat, n \in T
      PROVE  n + 1 \in T
  <2>. SUFFICES ASSUME n + 1 <= m
                PROVE  f[n + 1] = g[n + 1] /\ f[n + 1] \in Nat
    OBVIOUS
  <2>1. n + 1 \in 1 .. Len(p) /\ n + 1 \in 1 .. Len(q) /\ n + 1 \in 1 .. m /\ (n + 1) - 1 = n
    OBVIOUS
  <2>2. f[n + 1] = f[n] + Size[p[n + 1][1]] /\ g[n + 1] = g[n] + Size[q[n + 1][1]]
    BY <2>1 DEF Sums
  <2>3. Size[p[n + 1][1]] \in Nat
    <3>1. p[n + 1] \in Entry
      BY <2>1
    <3>. QED
      BY <3>1, CacheAssumption DEF Entry
  <2>4. f[n] = g[n] /\ f[n] \in Nat
    BY <1>2
  <2>5. p[n + 1] = q[n + 1]
    BY <2>1
  <2>. QED
    BY <2>2, <2>3, <2>4, <2>5
<1>3. m \in T
  <2>. HIDE DEF T
  <2>. QED
    BY <1>1, <1>2, NatSteps
<1>. QED
  BY <1>3

LEMMA BytesNat ==
  ASSUME NEW p \in Seq(Entry)
  PROVE  Bytes(p) \in Nat
<1>1. Len(p) \in Nat
  OBVIOUS
<1>2. PICK f : Bytes(p) = f[Len(p)] /\ Sums(f, p)
  BY <1>1, BytesDef
<1>3. f[Len(p)] \in Nat
  BY <1>1, <1>2, SumsAgree
<1>. QED
  BY <1>2, <1>3

LEMMA BytesConcat ==
  ASSUME NEW p \in Seq(Entry), NEW q \in Seq(Entry)
  PROVE  Bytes(p \o q) = Bytes(p) + Bytes(q)
<1>. DEFINE r == p \o q
<1>1. /\ r \in Seq(Entry) /\ Len(p) \in Nat /\ Len(q) \in Nat /\ Len(r) = Len(p) + Len(q)
      /\ \A n \in 1 .. Len(p) : r[n] = p[n]
      /\ \A n \in 1 .. Len(q) : r[Len(p) + n] = q[n]
  OBVIOUS
<1>. HIDE DEF r
<1>2. PICK f : Bytes(p) = f[Len(p)] /\ Sums(f, p)
  BY <1>1, BytesDef
<1>3. PICK g : Bytes(q) = g[Len(q)] /\ Sums(g, q)
  BY <1>1, BytesDef
<1>4. Len(r) \in Nat
  BY <1>1
<1>5. PICK h : Bytes(r) = h[Len(r)] /\ Sums(h, r)
  BY <1>4, BytesDef
<1>6. f[Len(p)] = h[Len(p)] /\ f[Len(p)] \in Nat
  <2>1. Len(p) <= Len(p) /\ Len(p) <= Len(r) /\ \A n \in 1 .. Len(p) : p[n] = r[n]
    BY <1>1
  <2>. QED
    BY <1>1, <1>2, <1>5, <2>1, SumsAgree
<1>. DEFINE a == Len(p)
            T == {n \in Nat : n <= Len(q) => h[a + n] = h[a] + g[n]}
<1>7. 0 \in T
  <2>1. a + 0 = a /\ g[0] = 0 /\ h[a] \in Nat
    BY <1>1, <1>3, <1>6 DEF Sums
  <2>. QED
    BY <2>1
<1>8. ASSUME NEW n \in Nat, n \in T
      PROVE  n + 1 \in T
  <2>. SUFFICES ASSUME n + 1 <= Len(q)
                PROVE  h[a + (n + 1)] = h[a] + g[n + 1]
    OBVIOUS
  <2>1. /\ n + 1 \in 1 .. Len(q) /\ (n + 1) - 1 = n /\ n <= Len(q)
        /\ a + (n + 1) \in 1 .. Len(r) /\ (a + (n + 1)) - 1 = a + n
    BY <1>1
  <2>2. g[n + 1] = g[n] + Size[q[n + 1][1]]
    BY <1>3, <2>1 DEF Sums
  <2>3. h[a + (n + 1)] = h[a + n] + Size[r[a + (n + 1)][1]]
    BY <1>5, <2>1 DEF Sums
  <2>4. r[a + (n + 1)] = q[n + 1]
    BY <1>1, <2>1
  <2>5. Size[q[n + 1][1]] \in Nat
    <3>1. q[n + 1] \in Entry
      BY <2>1
    <3>. QED
      BY <3>1, CacheAssumption DEF Entry
  <2>6. h[a + n] = h[a] + g[n] /\ h[a] \in Nat
    BY <1>6, <1>8, <2>1
  <2>7. g[n] \in Nat
    BY <1>3, <2>1, SumsAgree
  <2>. HIDE DEF a
  <2>. QED
    BY <2>2, <2>3, <2>4, <2>5, <2>6, <2>7
<1>9. Len(q) \in T
  <2>. HIDE DEF T
  <2>. QED
    BY <1>1, <1>7, <1>8, NatSteps
<1>. QED
  BY <1>1, <1>2, <1>3, <1>5, <1>6, <1>9 DEF r

---------------------------------------------------------------------------
(* What getting and evicting do to the entries.                            *)

\* No two entries have the same buffer.
Distinct(es) == \A i, j \in 1 .. Len(es) : es[i][2] = es[j][2] => i = j

LEMMA BytesOne ==
  ASSUME NEW x \in Entry
  PROVE  Bytes(<<x>>) = Size[x[1]]
<1>1. <<x>> \in Seq(Entry) /\ Len(<<x>>) = 1 /\ <<x>>[1] = x
  OBVIOUS
<1>2. PICK f : Bytes(<<x>>) = f[1] /\ Sums(f, <<x>>)
  BY <1>1, BytesDef
<1>3. f[0] = 0 /\ f[1] = f[0] + Size[x[1]]
  BY <1>1, <1>2 DEF Sums
<1>4. Size[x[1]] \in Nat
  BY CacheAssumption DEF Entry
<1>. QED
  BY <1>2, <1>3, <1>4

\* What two sequences of entries, one after the other, are.
LEMMA Joined ==
  ASSUME NEW p \in Seq(Entry), NEW q \in Seq(Entry)
  PROVE  /\ p \o q \in Seq(Entry) /\ Len(p \o q) = Len(p) + Len(q)
         /\ Len(p) \in Nat /\ Len(q) \in Nat
         /\ \A n \in 1 .. Len(p) : (p \o q)[n] = p[n]
         /\ \A n \in 1 .. Len(q) : (p \o q)[Len(p) + n] = q[n]
OBVIOUS

LEMMA JoinIs ==
  ASSUME NEW p \in Seq(Entry), NEW q \in Seq(Entry), NEW s \in Seq(Entry),
         Len(s) = Len(p) + Len(q),
         \A n \in 1 .. Len(p) : s[n] = p[n],
         \A n \in 1 .. Len(q) : s[Len(p) + n] = q[n]
  PROVE  s = p \o q
<1>. DEFINE c == p \o q
<1>1. /\ c \in Seq(Entry) /\ Len(c) = Len(p) + Len(q)
      /\ Len(p) \in Nat /\ Len(q) \in Nat
      /\ \A n \in 1 .. Len(p) : c[n] = p[n]
      /\ \A n \in 1 .. Len(q) : c[Len(p) + n] = q[n]
  BY Joined
<1>. HIDE DEF c
<1>2. \A n \in 1 .. Len(s) : s[n] = c[n]
  <2>. TAKE n \in 1 .. Len(s)
  <2>1. n \in 1 .. Len(p) \/ (n - Len(p) \in 1 .. Len(q) /\ Len(p) + (n - Len(p)) = n)
    BY <1>1
  <2>. QED
    BY <1>1, <2>1
<1>3. Len(s) \in Nat /\ Len(s) = Len(c) /\ DOMAIN s = 1 .. Len(s) /\ DOMAIN c = 1 .. Len(c)
      /\ s = [n \in DOMAIN s |-> s[n]] /\ c = [n \in DOMAIN c |-> c[n]]
  BY <1>1
<1>4. s = c
  BY <1>2, <1>3
<1>. QED
  BY <1>4 DEF c

LEMMA BytesSplit ==
  ASSUME NEW es \in Seq(Entry), NEW n \in 0 .. Len(es)
  PROVE  /\ SubSeq(es, 1, n) \in Seq(Entry)
         /\ SubSeq(es, n + 1, Len(es)) \in Seq(Entry)
         /\ Bytes(es) = Bytes(SubSeq(es, 1, n)) + Bytes(SubSeq(es, n + 1, Len(es)))
<1>. DEFINE a == SubSeq(es, 1, n)
            b == SubSeq(es, n + 1, Len(es))
<1>1. /\ a \in Seq(Entry) /\ b \in Seq(Entry) /\ Len(es) \in Nat
      /\ Len(a) = n /\ \A i \in 1 .. n : a[i] = es[i]
      /\ Len(b) = Len(es) - n /\ \A i \in 1 .. Len(es) - n : b[i] = es[n + i]
  OBVIOUS
<1>. HIDE DEF a, b
<1>2. Len(es) = Len(a) + Len(b)
  BY <1>1
<1>3. es = a \o b
  <2>1. \A i \in 1 .. Len(a) : es[i] = a[i]
    BY <1>1
  <2>2. \A i \in 1 .. Len(b) : es[Len(a) + i] = b[i]
    BY <1>1
  <2>. QED
    BY <1>1, <1>2, <2>1, <2>2, JoinIs
<1>4. Bytes(a \o b) = Bytes(a) + Bytes(b)
  BY <1>1, BytesConcat
<1>. QED
  BY <1>1, <1>3, <1>4 DEF a, b

\* A hit moves to the back; nothing else changes.
LEMMA ToTheBack ==
  ASSUME NEW es \in Seq(Entry), NEW i \in 1 .. Len(es)
  PROVE  LET r == Append(RemoveAt(es, i), es[i])
         IN  /\ r \in Seq(Entry)
             /\ \A j \in 1 .. Len(r) : \E m \in 1 .. Len(es) : r[j] = es[m]
             /\ Distinct(es) => Distinct(r)
             /\ Bytes(r) = Bytes(es)
<1>. DEFINE a == SubSeq(es, 1, i - 1)
            b == SubSeq(es, i + 1, Len(es))
            x == es[i]
            one == <<x>>
            c == a \o b
            r == Append(RemoveAt(es, i), x)
            At(j) == IF j < i THEN j ELSE IF j < Len(es) THEN j + 1 ELSE i
<1>1. /\ a \in Seq(Entry) /\ b \in Seq(Entry) /\ x \in Entry /\ Len(es) \in Nat
      /\ Len(a) = i - 1 /\ \A j \in 1 .. i - 1 : a[j] = es[j]
      /\ Len(b) = Len(es) - i /\ \A j \in 1 .. Len(es) - i : b[j] = es[i + j]
  OBVIOUS
<1>2. r = Append(c, x)
  BY DEF RemoveAt
<1>. HIDE DEF a, b, x, r
<1>3. one \in Seq(Entry) /\ Len(one) = 1 /\ one[1] = x
  BY <1>1
<1>. HIDE DEF one
<1>4. /\ c \in Seq(Entry) /\ Len(c) = Len(a) + Len(b)
      /\ \A j \in 1 .. Len(a) : c[j] = a[j]
      /\ \A j \in 1 .. Len(b) : c[Len(a) + j] = b[j]
  BY <1>1, Joined
<1>. HIDE DEF c
<1>5. Len(c) = Len(es) - 1
  BY <1>1, <1>4
<1>6. /\ r \in Seq(Entry) /\ Len(r) = Len(c) + 1
      /\ \A j \in 1 .. Len(c) : r[j] = c[j]
      /\ r[Len(c) + 1] = x
  BY SMTT(30), <1>1, <1>2, <1>4
<1>7. \A j \in 1 .. Len(es) : r[j] = es[At(j)] /\ At(j) \in 1 .. Len(es)
  <2>. TAKE j \in 1 .. Len(es)
  <2>1. CASE j < i
    <3>1. j \in 1 .. Len(a) /\ j \in 1 .. Len(c) /\ j \in 1 .. i - 1
      BY <1>1, <1>5, <2>1
    <3>2. r[j] = es[j]
      BY <1>1, <1>4, <1>6, <3>1
    <3>. QED
      BY <2>1, <3>2
  <2>2. CASE ~(j < i) /\ j < Len(es)
    <3>. DEFINE k == j - (i - 1)
    <3>1. k \in 1 .. Len(b) /\ Len(a) + k = j /\ k \in 1 .. Len(es) - i /\ i + k = j + 1
      BY <1>1, <2>2
    <3>2. j \in 1 .. Len(c)
      BY <1>1, <1>5, <2>2
    <3>. HIDE DEF k
    <3>3. r[j] = es[j + 1]
      <4>1. c[Len(a) + k] = b[k] /\ b[k] = es[i + k]
        BY <1>1, <1>4, <3>1
      <4>. QED
        BY <1>6, <3>1, <3>2, <4>1
    <3>. QED
      BY <1>1, <2>2, <3>3
  <2>3. CASE ~(j < i) /\ ~(j < Len(es))
    <3>1. j = Len(es)
      <4>1. Len(es) \in Nat
        BY <1>1
      <4>. QED
        BY <2>3, <4>1
    <3>2. Len(c) + 1 = Len(es)
      BY <1>1, <1>5
    <3>3. r[Len(es)] = x
      BY <1>6, <3>2
    <3>. QED
      BY <2>3, <3>1, <3>3 DEF x
  <2>. QED
    BY <2>1, <2>2, <2>3
<1>8. Len(r) = Len(es)
  BY <1>1, <1>5, <1>6
<1>9. ASSUME Distinct(es)
      PROVE  Distinct(r)
  <2>. SUFFICES ASSUME NEW j \in 1 .. Len(es), NEW k \in 1 .. Len(es), r[j][2] = r[k][2]
                PROVE  j = k
    BY <1>8 DEF Distinct
  <2>1. es[At(j)][2] = es[At(k)][2] /\ At(j) \in 1 .. Len(es) /\ At(k) \in 1 .. Len(es)
    BY <1>7
  <2>2. At(j) = At(k)
    <3>. HIDE DEF At
    <3>. QED
      BY <1>9, <2>1 DEF Distinct
  <2>. QED
    BY <1>1, <2>2
<1>10. \A j \in 1 .. Len(r) : \E m \in 1 .. Len(es) : r[j] = es[m]
  <2>. HIDE DEF At
  <2>. QED
    BY <1>7, <1>8
<1>11. Bytes(r) = Bytes(es)
  <2>1. r = c \o one
    <3>1. Len(r) = Len(c) + Len(one)
      BY <1>3, <1>6
    <3>2. \A j \in 1 .. Len(one) : r[Len(c) + j] = one[j]
      BY <1>3, <1>6
    <3>. QED
      BY <1>3, <1>4, <1>6, <3>1, <3>2, JoinIs
  <2>. DEFINE d == one \o b
  <2>2. /\ d \in Seq(Entry) /\ Len(d) = Len(one) + Len(b)
        /\ \A j \in 1 .. Len(one) : d[j] = one[j]
        /\ \A j \in 1 .. Len(b) : d[Len(one) + j] = b[j]
    BY <1>1, <1>3, Joined
  <2>. HIDE DEF d
  <2>3. es = a \o d
    <3>1. Len(es) = Len(a) + Len(d)
      BY <1>1, <1>3, <2>2
    <3>2. \A j \in 1 .. Len(d) : es[Len(a) + j] = d[j]
      <4>. TAKE j \in 1 .. Len(d)
      <4>1. CASE j = 1
        <5>1. d[j] = x /\ Len(a) + j = i
          BY <1>1, <1>3, <2>2, <4>1
        <5>. QED
          BY <5>1 DEF x
      <4>2. CASE j # 1
        <5>1. j - 1 \in 1 .. Len(b) /\ 1 + (j - 1) = j /\ i + (j - 1) = Len(a) + j
          BY <1>1, <1>3, <2>2, <4>2
        <5>2. d[1 + (j - 1)] = b[j - 1] /\ b[j - 1] = es[i + (j - 1)]
          BY <1>1, <1>3, <2>2, <5>1
        <5>. QED
          BY <5>1, <5>2
      <4>. QED
        BY <4>1, <4>2
    <3>3. \A j \in 1 .. Len(a) : es[j] = a[j]
      BY <1>1
    <3>. QED
      BY <1>1, <2>2, <3>1, <3>2, <3>3, JoinIs
  <2>4. Bytes(r) = Bytes(c) + Bytes(one)
    BY <1>3, <1>4, <2>1, BytesConcat
  <2>5. Bytes(c) = Bytes(a) + Bytes(b)
    BY <1>1, BytesConcat DEF c
  <2>6. Bytes(es) = Bytes(a) + Bytes(d)
    BY <1>1, <2>2, <2>3, BytesConcat
  <2>7. Bytes(d) = Bytes(one) + Bytes(b)
    BY <1>1, <1>3, BytesConcat DEF d
  <2>8. Bytes(a) \in Nat /\ Bytes(b) \in Nat /\ Bytes(one) \in Nat
    BY <1>1, <1>3, BytesNat
  <2>. QED
    BY <2>4, <2>5, <2>6, <2>7, <2>8
<1>. QED
  BY <1>6, <1>9, <1>10, <1>11 DEF r, x

\* Some number of evictions makes room.
LEMMA Evicting ==
  ASSUME NEW es \in Seq(Entry)
  PROVE  LET n == Evictions(es, Bytes(es))
         IN  /\ n \in 0 .. Len(es)
             /\ Bytes(es) - Bytes(SubSeq(es, 1, n)) <= Capacity
<1>. DEFINE T == {n \in 0 .. Len(es) : Bytes(es) - Bytes(SubSeq(es, 1, n)) <= Capacity}
<1>1. Len(es) \in Nat /\ Len(es) \in 0 .. Len(es)
  OBVIOUS
<1>2. Len(es) \in T
  <2>. DEFINE a == SubSeq(es, 1, Len(es))
              b == SubSeq(es, Len(es) + 1, Len(es))
  <2>1. a \in Seq(Entry) /\ b \in Seq(Entry) /\ Bytes(es) = Bytes(a) + Bytes(b)
    BY <1>1, BytesSplit
  <2>2. Len(b) = 0
    BY <1>1
  <2>. HIDE DEF a, b
  <2>3. Bytes(b) = 0
    <3>1. PICK f : Bytes(b) = f[0] /\ Sums(f, b)
      BY <2>2, BytesDef
    <3>. QED
      BY <3>1 DEF Sums
  <2>4. Bytes(a) \in Nat
    BY <2>1, BytesNat
  <2>5. Bytes(es) - Bytes(a) <= Capacity
    BY <2>1, <2>3, <2>4, CacheAssumption
  <2>. QED
    BY <1>1, <2>5 DEF a
<1>3. T \subseteq Nat /\ T # {}
  BY <1>1, <1>2
<1>4. Min(T) \in T
  <2>. HIDE DEF T
  <2>1. \E x \in T : \A y \in T : x <= y
    BY <1>3, NatLeast
  <2>. QED
    BY <2>1 DEF Min
<1>. QED
  BY <1>4 DEF Evictions

---------------------------------------------------------------------------
(* The invariant.                                                          *)

LEMMA InitInv == Init => IInv
<1>. SUFFICES ASSUME Init
              PROVE  IInv
  OBVIOUS
<1>1. entries \in Seq(Keys \X Buffers) /\ Len(entries) = 0 /\ DOMAIN entries = {}
  BY DEF Init
<1>2. spare \in Seq(Buffers) /\ Len(spare) = 0 /\ DOMAIN spare = {}
  BY DEF Init
<1>3. TypeOK
  BY <1>1, <1>2 DEF Init, TypeOK, Labels
<1>4. \A r \in Readers : Wanting(r) /\ Private(r)
  BY DEF Init, Wanting, Private
<1>5. Apart
  BY <1>1, <1>2, CacheAssumption DEF Apart, IsInjective
<1>6. ChunksIntact
  BY <1>1 DEF Init, ChunksIntact
<1>7. BytesExact
  <2>1. PICK f : Bytes(entries) = f[0] /\ Sums(f, entries)
    BY <1>1, BytesDef
  <2>2. bytes = 0
    BY DEF Init
  <2>. QED
    BY <2>1, <2>2, CacheAssumption DEF BytesExact, Sums
<1>. QED
  BY <1>3, <1>4, <1>5, <1>6, <1>7 DEF IInv

LEMMA CallKeeps ==
  ASSUME IInv, NEW r \in Readers, Call(r)
  PROVE  IInv'
<1>1. PICK k \in Keys : key' = [key EXCEPT ![r] = k]
  BY DEF Call
<1>2. /\ pc[r] = "idle" /\ pc' = [pc EXCEPT ![r] = "get"]
      /\ entries' = entries /\ bytes' = bytes /\ spare' = spare
      /\ buffer' = buffer /\ content' = content
  BY DEF Call
<1>3. TypeOK /\ pc \in [Readers -> Labels] /\ key \in [Readers -> Keys \cup {NoKey}]
  BY DEF IInv, TypeOK
<1>4. /\ pc'[r] = "get" /\ key'[r] = k
      /\ \A o \in Readers \ {r} : pc'[o] = pc[o] /\ key'[o] = key[o]
  BY <1>1, <1>2, <1>3
<1>5. TypeOK'
  <2>1. pc' \in [Readers -> Labels]
    BY <1>2, <1>3 DEF Labels
  <2>2. key' \in [Readers -> Keys \cup {NoKey}]
    BY <1>1, <1>3
  <2>. QED
    BY <1>2, <1>3, <2>1, <2>2 DEF TypeOK
<1>6. \A o \in Readers : Wanting(o)' /\ Private(o)'
  <2>. TAKE o \in Readers
  <2>1. Wanting(o) /\ Private(o) /\ Wanting(r)
    BY DEF IInv
  <2>2. CASE o = r
    BY <1>2, <1>4, <2>1, <2>2 DEF Wanting, Private
  <2>3. CASE o # r
    BY <1>2, <1>4, <2>1, <2>3 DEF Wanting, Private, Cached
  <2>. QED
    BY <2>2, <2>3
<1>7. Apart'
  BY <1>2 DEF IInv, Apart, Cached, Held
<1>8. ChunksIntact'
  <2>1. ChunksIntact
    BY DEF IInv
  <2>. QED
    BY <1>2, <1>4, <2>1 DEF ChunksIntact
<1>9. BytesExact'
  BY <1>2 DEF IInv, BytesExact
<1>. QED
  BY <1>5, <1>6, <1>7, <1>8, <1>9 DEF IInv

\* A reader that drops what it has, and wants nothing more.
LEMMA DropKeeps ==
  ASSUME IInv, NEW r \in Readers,
         pc' = [pc EXCEPT ![r] = "idle"],
         key' = [key EXCEPT ![r] = NoKey],
         buffer' = [buffer EXCEPT ![r] = NoBuffer],
         UNCHANGED <<entries, bytes, spare, content>>
  PROVE  IInv'
<1>1. entries' = entries /\ bytes' = bytes /\ spare' = spare /\ content' = content
  OBVIOUS
<1>2. /\ TypeOK /\ pc \in [Readers -> Labels] /\ key \in [Readers -> Keys \cup {NoKey}]
      /\ buffer \in [Readers -> Buffers \cup {NoBuffer}]
      /\ spare \in Seq(Buffers) /\ \A i \in DOMAIN spare : spare[i] # NoBuffer
  <2>1. TypeOK /\ pc \in [Readers -> Labels] /\ key \in [Readers -> Keys \cup {NoKey}]
        /\ buffer \in [Readers -> Buffers \cup {NoBuffer}] /\ spare \in Seq(Buffers)
    BY DEF IInv, TypeOK
  <2>2. \A i \in DOMAIN spare : spare[i] \in Buffers
    BY <2>1
  <2>. QED
    BY <2>1, <2>2, CacheAssumption
<1>3. /\ pc'[r] = "idle" /\ key'[r] = NoKey /\ buffer'[r] = NoBuffer
      /\ \A o \in Readers \ {r} : pc'[o] = pc[o] /\ key'[o] = key[o] /\ buffer'[o] = buffer[o]
  BY <1>2
<1>4. TypeOK'
  <2>1. pc' \in [Readers -> Labels]
    BY <1>2 DEF Labels
  <2>2. key' \in [Readers -> Keys \cup {NoKey}]
    BY <1>2
  <2>3. buffer' \in [Readers -> Buffers \cup {NoBuffer}]
    BY <1>2
  <2>. QED
    BY <1>1, <1>2, <2>1, <2>2, <2>3 DEF TypeOK
<1>5. \A o \in Readers : Wanting(o)' /\ Private(o)'
  <2>. TAKE o \in Readers
  <2>1. Wanting(o) /\ Private(o)
    BY DEF IInv
  <2>2. CASE o = r
    BY <1>3, <2>2 DEF Wanting, Private
  <2>3. CASE o # r
    <3>1. Wanting(o)'
      BY <1>3, <2>1, <2>3 DEF Wanting
    <3>2. ASSUME pc[o] \in {"decode", "insert"}
          PROVE  buffer[o] # NoBuffer
      BY <2>1, <3>2 DEF Wanting
    <3>3. Private(o)'
      BY <1>1, <1>3, <2>1, <2>3, <3>2 DEF Private, Cached
    <3>. QED
      BY <3>1, <3>3
  <2>. QED
    BY <2>2, <2>3
<1>6. Apart'
  <2>1. Apart
    BY DEF IInv
  <2>2. \A i \in DOMAIN spare : ~Held(spare[i])'
    BY <1>1, <1>2, <1>3, <2>1 DEF Apart, Held
  <2>. QED
    BY <1>1, <2>1, <2>2 DEF Apart, Cached
<1>7. ChunksIntact'
  <2>1. ChunksIntact
    BY DEF IInv
  <2>. QED
    BY <1>1, <1>3, <2>1 DEF ChunksIntact
<1>8. BytesExact'
  BY <1>1 DEF IInv, BytesExact
<1>. QED
  BY <1>4, <1>5, <1>6, <1>7, <1>8 DEF IInv

\* A reader gets a buffer that is nobody else's, and something is in it.
LEMMA FreshKeeps ==
  ASSUME IInv, NEW r \in Readers, NEW b \in Buffers, NEW k \in Keys \cup {NoKey},
         NEW label \in {"decode", "insert"},
         pc[r] \in {"spare", "decode"},
         label = "insert" => k = key[r],
         ~Cached(b), \A o \in Readers \ {r} : buffer[o] # b,
         pc' = [pc EXCEPT ![r] = label],
         buffer' = [buffer EXCEPT ![r] = b],
         content' = [content EXCEPT ![b] = k],
         UNCHANGED <<entries, bytes, key>>,
         spare' \in Seq(Buffers), IsInjective(spare'), Len(spare') <= MaxSpares,
         Range(spare') \subseteq Range(spare), b \notin Range(spare')
  PROVE  IInv'
<1>1. entries' = entries /\ bytes' = bytes /\ key' = key
  OBVIOUS
<1>2. /\ TypeOK /\ pc \in [Readers -> Labels] /\ key \in [Readers -> Keys \cup {NoKey}]
      /\ buffer \in [Readers -> Buffers \cup {NoBuffer}]
      /\ content \in [Buffers -> Keys \cup {NoKey}]
      /\ entries \in Seq(Keys \X Buffers) /\ spare \in Seq(Buffers)
  BY DEF IInv, TypeOK
<1>3. /\ pc'[r] = label /\ buffer'[r] = b /\ content'[b] = k
      /\ \A o \in Readers \ {r} : pc'[o] = pc[o] /\ buffer'[o] = buffer[o]
      /\ \A c \in Buffers \ {b} : content'[c] = content[c]
  BY <1>2
<1>4. b # NoBuffer
  BY CacheAssumption
<1>5. TypeOK'
  <2>1. pc' \in [Readers -> Labels]
    BY <1>2 DEF Labels
  <2>2. buffer' \in [Readers -> Buffers \cup {NoBuffer}]
    BY <1>2
  <2>3. content' \in [Buffers -> Keys \cup {NoKey}]
    BY <1>2
  <2>. QED
    BY <1>1, <1>2, <2>1, <2>2, <2>3 DEF TypeOK
<1>6. \A o \in Readers : Wanting(o)' /\ Private(o)'
  <2>. TAKE o \in Readers
  <2>1. Wanting(o) /\ Private(o) /\ Wanting(r)
    BY DEF IInv
  <2>2. CASE o = r
    <3>1. Wanting(o)'
      BY <1>1, <1>3, <1>4, <2>1, <2>2 DEF Wanting
    <3>2. Private(o)'
      BY <1>1, <1>3, <2>2 DEF Private, Cached
    <3>. QED
      BY <3>1, <3>2
  <2>3. CASE o # r
    <3>1. Wanting(o)'
      BY <1>1, <1>3, <2>1, <2>3 DEF Wanting
    <3>2. Private(o)'
      BY <1>1, <1>3, <2>1, <2>3 DEF Private, Cached
    <3>. QED
      BY <3>1, <3>2
  <2>. QED
    BY <2>2, <2>3
<1>7. Apart'
  <2>1. Apart
    BY DEF IInv
  <2>2. \A x \in Range(spare) : ~Cached(x) /\ ~Held(x)
    BY <2>1 DEF Apart, Range
  <2>3. \A i \in DOMAIN spare' : spare'[i] \in Range(spare) /\ spare'[i] # b
    BY DEF Range
  <2>4. \A x \in Range(spare) : ~Cached(x)'
    BY <1>1, <2>2 DEF Cached
  <2>5. \A x \in Range(spare) : x # b => ~Held(x)'
    BY <1>3, <2>2 DEF Held
  <2>6. \A i \in DOMAIN spare' : (~Cached(spare[i]) /\ ~Held(spare[i]))'
    BY <2>3, <2>4, <2>5 DEF Cached, Held
  <2>. QED
    BY <1>1, <2>1, <2>6 DEF Apart
<1>8. ChunksIntact'
  <2>1. ChunksIntact
    BY DEF IInv
  <2>2. \A o \in Readers : pc'[o] \in {"insert", "copy"} => content'[buffer'[o]] = key'[o]
    <3>. SUFFICES ASSUME NEW o \in Readers, pc'[o] \in {"insert", "copy"}
                  PROVE  content'[buffer'[o]] = key'[o]
      OBVIOUS
    <3>1. CASE o = r
      BY <1>1, <1>3, <3>1
    <3>2. CASE o # r
      <4>1. Wanting(o) /\ pc[o] \in {"insert", "copy"} /\ buffer'[o] = buffer[o]
        BY <1>3, <3>2 DEF IInv
      <4>2. buffer[o] \in Buffers \ {b}
        BY <1>2, <3>2, <4>1 DEF Wanting
      <4>. QED
        BY <1>1, <1>3, <2>1, <4>1, <4>2 DEF ChunksIntact
    <3>. QED
      BY <3>1, <3>2
  <2>3. \A i \in DOMAIN entries : content'[entries[i][2]] = entries[i][1]
    <3>. TAKE i \in DOMAIN entries
    <3>1. entries[i] \in Keys \X Buffers
      BY <1>2
    <3>2. entries[i][2] \in Buffers /\ entries[i][2] # b
      BY <3>1 DEF Cached
    <3>. QED
      BY <1>3, <2>1, <3>2 DEF ChunksIntact
  <2>. QED
    BY <1>1, <2>2, <2>3 DEF ChunksIntact
<1>9. BytesExact'
  BY <1>1 DEF IInv, BytesExact
<1>. QED
  BY <1>5, <1>6, <1>7, <1>8, <1>9 DEF IInv

LEMMA UnusedIsFree ==
  ASSUME IInv, Unused # {}
  PROVE  LET b == CHOOSE u \in Unused : TRUE
         IN  /\ b \in Buffers /\ ~Cached(b) /\ b \notin Range(spare)
             /\ \A o \in Readers : buffer[o] # b
<1>. DEFINE b == CHOOSE u \in Unused : TRUE
<1>1. b \in Unused
  OBVIOUS
<1>. HIDE DEF b
<1>2. b \in Buffers /\ ~Cached(b) /\ ~Spare(b) /\ ~Held(b)
  BY <1>1 DEF Unused
<1>3. b \notin Range(spare)
  BY <1>2 DEF Spare, Range
<1>4. \A o \in Readers : buffer[o] # b
  BY <1>2 DEF Held
<1>. QED
  BY <1>2, <1>3, <1>4 DEF b

LEMMA TakeSpareKeeps ==
  ASSUME IInv, NEW r \in Readers, TakeSpare(r)
  PROVE  IInv'
<1>1. PICK b \in Buffers :
        /\ IF spare # << >>
           THEN b = Last(spare) /\ spare' = Front(spare)
           ELSE Unused # {} /\ b = (CHOOSE u \in Unused : TRUE) /\ UNCHANGED spare
        /\ buffer' = [buffer EXCEPT ![r] = b]
        /\ content' = [content EXCEPT ![b] = NoKey]
  BY DEF TakeSpare
<1>2. pc[r] = "spare" /\ pc' = [pc EXCEPT ![r] = "decode"] /\ UNCHANGED <<entries, bytes, key>>
  BY DEF TakeSpare
<1>3. /\ spare \in Seq(Buffers) /\ IsInjective(spare) /\ Len(spare) <= MaxSpares
      /\ \A i \in DOMAIN spare : ~Cached(spare[i]) /\ ~Held(spare[i])
  BY DEF IInv, TypeOK, Apart
<1>4. NoKey \in Keys \cup {NoKey}
  OBVIOUS
<1>5. CASE spare # << >>
  <2>1. /\ Range(spare) = {b} \cup Range(spare') /\ b \in Range(spare)
        /\ IsInjective(spare') /\ b \notin Range(spare')
    BY <1>1, <1>3, <1>5, FrontLastRange
  <2>2. spare' \in Seq(Buffers) /\ Len(spare') <= MaxSpares
    <3>1. Len(spare) \in Nat /\ Len(spare) > 0 /\ spare' = SubSeq(spare, 1, Len(spare) - 1)
      BY <1>1, <1>3, <1>5 DEF Front
    <3>2. spare' \in Seq(Buffers) /\ Len(spare') = Len(spare) - 1
      <4>1. \A q \in Seq(Buffers) : Len(q) > 0 =>
              SubSeq(q, 1, Len(q) - 1) \in Seq(Buffers) /\ Len(SubSeq(q, 1, Len(q) - 1)) = Len(q) - 1
        OBVIOUS
      <4>. QED
        BY <1>3, <3>1, <4>1
    <3>. QED
      BY <1>3, <3>1, <3>2, CacheAssumption
  <2>3. ~Cached(b) /\ ~Held(b)
    BY <1>3, <2>1 DEF Range
  <2>4. \A o \in Readers \ {r} : buffer[o] # b
    BY <2>3 DEF Held
  <2>5. Range(spare') \subseteq Range(spare)
    BY <2>1
  <2>. QED
    BY <1>1, <1>2, <1>4, <2>1, <2>2, <2>3, <2>4, <2>5, FreshKeeps
<1>6. CASE spare = << >>
  <2>1. Unused # {} /\ b = (CHOOSE u \in Unused : TRUE) /\ spare' = spare
    BY <1>1, <1>6
  <2>2. ~Cached(b) /\ b \notin Range(spare) /\ \A o \in Readers \ {r} : buffer[o] # b
    BY <2>1, UnusedIsFree
  <2>3. /\ spare' \in Seq(Buffers) /\ IsInjective(spare') /\ Len(spare') <= MaxSpares
        /\ Range(spare') \subseteq Range(spare) /\ b \notin Range(spare')
    BY <1>3, <2>1, <2>2
  <2>. QED
    BY <1>1, <1>2, <1>4, <2>2, <2>3, FreshKeeps
<1>. QED
  BY <1>5, <1>6

LEMMA DecodeKeeps ==
  ASSUME IInv, NEW r \in Readers, Decode(r)
  PROVE  IInv'
<1>1. pc[r] = "decode" /\ entries' = entries /\ bytes' = bytes /\ spare' = spare
  BY DEF Decode
<1>2. /\ buffer \in [Readers -> Buffers \cup {NoBuffer}] /\ spare \in Seq(Buffers)
      /\ key \in [Readers -> Keys \cup {NoKey}]
      /\ IsInjective(spare) /\ Len(spare) <= MaxSpares
      /\ \A i \in DOMAIN spare : ~Cached(spare[i]) /\ ~Held(spare[i])
      /\ Wanting(r) /\ Private(r)
  BY DEF IInv, TypeOK, Apart
<1>3. /\ spare' \in Seq(Buffers) /\ IsInjective(spare') /\ Len(spare') <= MaxSpares
      /\ Range(spare') \subseteq Range(spare)
  BY <1>1, <1>2
<1>4. PICK k \in Keys \cup {NoKey} : k = key[r]
  BY <1>2
<1>5. CASE /\ content' = [content EXCEPT ![buffer[r]] = key[r]]
           /\ pc' = [pc EXCEPT ![r] = "insert"]
           /\ UNCHANGED <<key, buffer>>
  <2>1. PICK b \in Buffers : b = buffer[r]
    BY <1>1, <1>2 DEF Wanting
  <2>2. ~Cached(b) /\ \A o \in Readers \ {r} : buffer[o] # b
    BY <1>1, <1>2, <2>1 DEF Private
  <2>3. b \notin Range(spare')
    BY <1>1, <1>2, <2>1 DEF Range, Held
  <2>4. buffer' = [buffer EXCEPT ![r] = b]
    BY <1>2, <1>5, <2>1
  <2>5. content' = [content EXCEPT ![b] = k] /\ UNCHANGED <<entries, bytes, key>>
    BY <1>1, <1>4, <1>5, <2>1
  <2>6. PICK label \in {"decode", "insert"} :
          pc' = [pc EXCEPT ![r] = label] /\ (label = "insert" => k = key[r])
    BY <1>4, <1>5
  <2>7. pc[r] \in {"spare", "decode"}
    BY <1>1
  <2>. QED
    BY <1>3, <2>2, <2>3, <2>4, <2>5, <2>6, <2>7, FreshKeeps
<1>6. CASE /\ Unused # {}
           /\ LET b == CHOOSE u \in Unused : TRUE IN
              /\ buffer' = [buffer EXCEPT ![r] = b]
              /\ content' = [content EXCEPT ![b] = key[r]]
           /\ pc' = [pc EXCEPT ![r] = "insert"]
           /\ UNCHANGED key
  <2>1. PICK b \in Buffers : b = CHOOSE u \in Unused : TRUE
    BY <1>6, UnusedIsFree
  <2>2. ~Cached(b) /\ b \notin Range(spare) /\ \A o \in Readers \ {r} : buffer[o] # b
    BY <1>6, <2>1, UnusedIsFree
  <2>3. /\ buffer' = [buffer EXCEPT ![r] = b]
        /\ content' = [content EXCEPT ![b] = k]
        /\ UNCHANGED <<entries, bytes, key>>
    BY <1>1, <1>4, <1>6, <2>1
  <2>4. b \notin Range(spare')
    BY <1>1, <2>2
  <2>5. PICK label \in {"decode", "insert"} :
          pc' = [pc EXCEPT ![r] = label] /\ (label = "insert" => k = key[r])
    BY <1>4, <1>6
  <2>6. pc[r] \in {"spare", "decode"}
    BY <1>1
  <2>. QED
    BY <1>3, <2>2, <2>3, <2>4, <2>5, <2>6, FreshKeeps
<1>7. CASE /\ pc' = [pc EXCEPT ![r] = "idle"]
           /\ key' = [key EXCEPT ![r] = NoKey]
           /\ buffer' = [buffer EXCEPT ![r] = NoBuffer]
           /\ UNCHANGED content
  BY <1>1, <1>7, DropKeeps
<1>. QED
  BY <1>5, <1>6, <1>7 DEF Decode

LEMMA GetKeeps ==
  ASSUME IInv, NEW r \in Readers, Get(r)
  PROVE  IInv'
<1>. DEFINE at == {i \in DOMAIN entries : entries[i][1] = key[r]}
<1>1. pc[r] = "get" /\ bytes' = bytes /\ spare' = spare /\ key' = key /\ content' = content
  BY DEF Get
<1>2. /\ TypeOK /\ pc \in [Readers -> Labels] /\ key \in [Readers -> Keys \cup {NoKey}]
      /\ buffer \in [Readers -> Buffers \cup {NoBuffer}]
      /\ entries \in Seq(Keys \X Buffers)
  BY DEF IInv, TypeOK
<1>3. CASE at = {} /\ pc' = [pc EXCEPT ![r] = "spare"] /\ UNCHANGED <<entries, buffer>>
  <2>1. entries' = entries /\ buffer' = buffer
    BY <1>3
  <2>2. pc'[r] = "spare" /\ \A o \in Readers \ {r} : pc'[o] = pc[o]
    BY <1>2, <1>3
  <2>3. TypeOK'
    <3>1. pc' \in [Readers -> Labels]
      BY <1>2, <1>3 DEF Labels
    <3>. QED
      BY <1>1, <1>2, <2>1, <3>1 DEF TypeOK
  <2>4. \A o \in Readers : Wanting(o)' /\ Private(o)'
    <3>. TAKE o \in Readers
    <3>1. Wanting(o) /\ Private(o) /\ Wanting(r)
      BY DEF IInv
    <3>2. CASE o = r
      BY <1>1, <2>1, <2>2, <3>1, <3>2 DEF Wanting, Private
    <3>3. CASE o # r
      BY <1>1, <2>1, <2>2, <3>1, <3>3 DEF Wanting, Private, Cached
    <3>. QED
      BY <3>2, <3>3
  <2>5. Apart'
    BY <1>1, <2>1 DEF IInv, Apart, Cached, Held
  <2>6. ChunksIntact'
    <3>1. ChunksIntact
      BY DEF IInv
    <3>. QED
      BY <1>1, <2>1, <2>2, <3>1 DEF ChunksIntact
  <2>7. BytesExact'
    BY <1>1, <2>1 DEF IInv, BytesExact
  <2>. QED
    BY <2>3, <2>4, <2>5, <2>6, <2>7 DEF IInv
<1>4. CASE /\ at # {}
           /\ entries' = Append(RemoveAt(entries, Min(at)), entries[Min(at)])
           /\ buffer' = [buffer EXCEPT ![r] = entries[Min(at)][2]]
           /\ pc' = [pc EXCEPT ![r] = "copy"]
  <2>1. PICK i \in at : i = Min(at)
    <3>1. at \subseteq Nat /\ at # {}
      BY <1>2, <1>4
    <3>. HIDE DEF at
    <3>2. \E x \in at : \A y \in at : x <= y
      BY <3>1, NatLeast
    <3>. QED
      BY <3>2 DEF Min
  <2>2. entries \in Seq(Entry) /\ DOMAIN entries = 1 .. Len(entries)
    BY <1>2 DEF Entry
  <2>3. i \in DOMAIN entries /\ i \in 1 .. Len(entries) /\ entries[i][1] = key[r]
    BY <2>1, <2>2
  <2>4. entries' = Append(RemoveAt(entries, i), entries[i])
    BY <1>4, <2>1
  <2>5. /\ entries' \in Seq(Entry)
        /\ \A j \in 1 .. Len(entries') : \E m \in 1 .. Len(entries) : entries'[j] = entries[m]
        /\ Distinct(entries) => Distinct(entries')
        /\ Bytes(entries') = Bytes(entries)
    BY <2>2, <2>3, <2>4, ToTheBack
  <2>6. DOMAIN entries' = 1 .. Len(entries')
    BY <2>5
  <2>7. \A x : Cached(x)' => Cached(x)
    BY <2>2, <2>5, <2>6 DEF Cached
  <2>8. PICK b \in Buffers : b = entries[i][2]
    <3>1. entries[i] \in Keys \X Buffers
      BY <1>2, <2>3
    <3>. QED
      BY <3>1
  <2>9. Cached(b) /\ b # NoBuffer
    BY <2>3, <2>8, CacheAssumption DEF Cached
  <2>10. buffer' = [buffer EXCEPT ![r] = b]
    BY <1>4, <2>1, <2>8
  <2>11. /\ pc'[r] = "copy" /\ buffer'[r] = b
         /\ \A o \in Readers \ {r} : pc'[o] = pc[o] /\ buffer'[o] = buffer[o]
    BY <1>2, <1>4, <2>10
  <2>12. TypeOK'
    <3>1. pc' \in [Readers -> Labels]
      BY <1>2, <1>4 DEF Labels
    <3>2. buffer' \in [Readers -> Buffers \cup {NoBuffer}]
      BY <1>2, <2>10
    <3>. QED
      BY <1>1, <1>2, <2>5, <3>1, <3>2 DEF TypeOK, Entry
  <2>13. \A o \in Readers : Wanting(o)' /\ Private(o)'
    <3>. TAKE o \in Readers
    <3>1. Wanting(o) /\ Private(o) /\ Wanting(r)
      BY DEF IInv
    <3>2. CASE o = r
      BY <1>1, <2>9, <2>11, <3>1, <3>2 DEF Wanting, Private
    <3>3. CASE o # r
      <4>1. Wanting(o)'
        BY <1>1, <2>11, <3>1, <3>3 DEF Wanting
      <4>2. SUFFICES ASSUME pc[o] \in {"decode", "insert"}
                     PROVE  /\ ~Cached(buffer[o])'
                            /\ \A other \in Readers \ {o} : buffer'[other] # buffer'[o]
        BY <2>11, <3>3, <4>1 DEF Private
      <4>3. ~Cached(buffer[o]) /\ \A other \in Readers \ {o} : buffer[other] # buffer[o]
        BY <3>1, <4>2 DEF Private
      <4>4. buffer'[o] = buffer[o] /\ buffer[o] # b
        BY <2>9, <2>11, <3>3, <4>3
      <4>5. ~Cached(buffer[o])'
        BY <2>7, <4>3, <4>4 DEF Cached
      <4>. QED
        BY <2>11, <4>3, <4>4, <4>5
    <3>. QED
      BY <3>2, <3>3
  <2>14. Apart'
    <3>1. Apart
      BY DEF IInv
    <3>2. Distinct(entries')
      BY <2>2, <2>5, <3>1 DEF Apart, Distinct
    <3>3. \A j \in DOMAIN spare : ~Cached(spare[j]) /\ ~Held(spare[j]) /\ spare[j] # b
      BY <2>9, <3>1 DEF Apart
    <3>4. \A j \in DOMAIN spare : (~Cached(spare[j]))'
      BY <1>1, <2>7, <3>3 DEF Cached
    <3>5. \A j \in DOMAIN spare : (~Held(spare[j]))'
      BY <1>1, <2>11, <3>3 DEF Held
    <3>. QED
      BY <1>1, <2>6, <3>1, <3>2, <3>4, <3>5 DEF Apart, Distinct
  <2>15. ChunksIntact'
    <3>1. ChunksIntact
      BY DEF IInv
    <3>2. content[b] = key[r]
      BY <2>3, <2>8, <3>1 DEF ChunksIntact
    <3>3. \A j \in DOMAIN entries' : content[entries'[j][2]] = entries'[j][1]
      BY <2>2, <2>5, <2>6, <3>1 DEF ChunksIntact
    <3>. QED
      BY <1>1, <2>11, <3>1, <3>2, <3>3 DEF ChunksIntact
  <2>16. BytesExact'
    BY <1>1, <2>5 DEF IInv, BytesExact
  <2>. QED
    BY <2>12, <2>13, <2>14, <2>15, <2>16 DEF IInv
<1>. QED
  BY <1>3, <1>4 DEF Get

\* What an insertion that is not refused does to the entries and the spares.
LEMMA Inserted ==
  ASSUME IInv, NEW r \in Readers, Insert(r),
         ~(Capacity = 0 \/ Size[key[r]] > Capacity \/ Raced(key[r]))
  PROVE  \E all \in Seq(Entry), n \in Nat, back \in Seq(Buffers), m \in Nat :
           /\ all = Append(entries, <<key[r], buffer[r]>>)
           /\ n <= Len(all)
           /\ entries' = SubSeq(all, n + 1, Len(all))
           /\ bytes' = Bytes(entries') /\ bytes' <= Capacity
           /\ spare' = spare \o SubSeq(back, 1, m)
           /\ m <= Len(back) /\ m <= MaxSpares - Len(spare)
           /\ Distinct(all) => IsInjective(back)
           /\ Range(back) \subseteq {all[i][2] : i \in 1 .. n} \cap {b \in Buffers : ~Held(b)}
<1>. DEFINE all == Append(entries, <<key[r], buffer[r]>>)
            total == bytes + Size[key[r]]
            n == Evictions(all, total)
            gone == SubSeq(all, 1, n)
            homes == [i \in 1 .. n |-> gone[i][2]]
            back == Retain(homes, {b \in Buffers : Unread(b)})
            m == Min({Len(back), MaxSpares - Len(spare)})
<1>1. /\ pc[r] = "insert"
      /\ entries' = SubSeq(all, n + 1, Len(all))
      /\ bytes' = total - Bytes(gone)
      /\ spare' = spare \o SubSeq(back, 1, m)
  BY DEF Insert, Less
<1>2. /\ entries \in Seq(Entry) /\ spare \in Seq(Buffers) /\ Wanting(r)
      /\ key \in [Readers -> Keys \cup {NoKey}] /\ buffer \in [Readers -> Buffers \cup {NoBuffer}]
      /\ bytes = Bytes(entries) /\ Len(spare) <= MaxSpares
  BY DEF IInv, TypeOK, Entry, BytesExact, Apart
<1>. DEFINE x == <<key[r], buffer[r]>>
<1>3. x \in Entry /\ x[1] = key[r]
  <2>1. key[r] \in Keys /\ buffer[r] \in Buffers
    BY <1>1, <1>2 DEF Wanting
  <2>. QED
    BY <2>1 DEF Entry
<1>4. all \in Seq(Entry) /\ Bytes(all) = total
  <2>. DEFINE one == <<x>>
  <2>. HIDE DEF x
  <2>1. all = Append(entries, x)
    BY DEF x
  <2>. HIDE DEF all
  <2>2. all \in Seq(Entry) /\ Len(all) = Len(entries) + 1 /\ Len(entries) \in Nat
        /\ all[Len(entries) + 1] = x /\ \A i \in 1 .. Len(entries) : all[i] = entries[i]
    BY <1>2, <1>3, <2>1
  <2>3. one \in Seq(Entry) /\ Len(one) = 1 /\ one[1] = x
    BY <1>3
  <2>. HIDE DEF one
  <2>4. all = entries \o one
    <3>1. Len(all) = Len(entries) + Len(one)
      BY <2>2, <2>3
    <3>2. \A i \in 1 .. Len(one) : all[Len(entries) + i] = one[i]
      BY <2>2, <2>3
    <3>. QED
      BY <1>2, <2>2, <2>3, <3>1, <3>2, JoinIs
  <2>5. Bytes(all) = Bytes(entries) + Bytes(one)
    BY <1>2, <2>3, <2>4, BytesConcat
  <2>6. Bytes(one) = Size[key[r]]
    BY <1>3, BytesOne DEF one
  <2>. QED
    BY <1>2, <2>2, <2>5, <2>6
<1>. HIDE DEF all
<1>5. n \in 0 .. Len(all) /\ Len(all) \in Nat /\ Bytes(all) - Bytes(SubSeq(all, 1, n)) <= Capacity
  BY <1>4, Evicting
<1>6. n \in Nat /\ n <= Len(all)
  BY <1>5
<1>. HIDE DEF n, total
<1>7. /\ gone \in Seq(Entry) /\ entries' \in Seq(Entry)
      /\ Bytes(all) = Bytes(gone) + Bytes(entries')
  BY <1>1, <1>4, <1>5, BytesSplit
<1>8. bytes' = Bytes(entries') /\ bytes' <= Capacity
  <2>1. Bytes(gone) \in Nat /\ Bytes(entries') \in Nat
    BY <1>7, BytesNat
  <2>2. bytes' = Bytes(all) - Bytes(gone)
    BY <1>1, <1>4
  <2>. QED
    BY <1>5, <1>7, <2>1, <2>2
<1>9. /\ \A i \in 1 .. n : gone[i] = all[i] /\ all[i] \in Entry
      /\ 1 .. n \subseteq 1 .. Len(all)
  BY <1>4, <1>5, <1>6
<1>. HIDE DEF gone
<1>10. /\ homes \in Seq(Buffers) /\ DOMAIN homes = 1 .. n
       /\ \A i \in 1 .. n : homes[i] = all[i][2]
  <2>1. \A i \in 1 .. n : gone[i][2] = all[i][2] /\ all[i][2] \in Buffers
    BY <1>9 DEF Entry
  <2>2. homes \in [1 .. n -> Buffers]
    BY <2>1
  <2>3. homes \in Seq(Buffers)
    <3>. HIDE DEF homes
    <3>. QED
      BY <1>6, <2>2
  <2>. QED
    BY <2>1, <2>3
<1>. HIDE DEF homes
<1>. DEFINE U == {b \in Buffers : Unread(b)}
<1>11. /\ back \in Seq(Buffers) /\ Range(back) = Range(homes) \cap U
       /\ IsInjective(homes) => IsInjective(back)
  <2>. HIDE DEF U
  <2>1. /\ Retain(homes, U) \in Seq(Buffers) /\ Range(Retain(homes, U)) = Range(homes) \cap U
        /\ IsInjective(homes) => IsInjective(Retain(homes, U))
    BY <1>10, RetainFacts
  <2>. QED
    BY <2>1 DEF U
<1>12. Distinct(all) => IsInjective(homes)
  BY <1>9, <1>10 DEF Distinct, IsInjective
<1>13. Range(homes) \subseteq {all[i][2] : i \in 1 .. n}
  BY <1>10 DEF Range
<1>14. U = {b \in Buffers : ~Held(b)}
  BY DEF Unread
<1>. HIDE DEF back, U
<1>15. m \in Nat /\ m <= Len(back) /\ m <= MaxSpares - Len(spare)
  <2>1. Len(back) \in Nat
    BY <1>11
  <2>2. MaxSpares - Len(spare) \in Nat
    BY <1>2, CacheAssumption
  <2>. QED
    BY <2>1, <2>2, MinOfTwo
<1>. HIDE DEF m
<1>16. Range(back) \subseteq {all[i][2] : i \in 1 .. n} \cap {b \in Buffers : ~Held(b)}
  BY <1>11, <1>13, <1>14
<1>17. all = Append(entries, <<key[r], buffer[r]>>)
  BY DEF all
<1>18. all \in Seq(Entry) /\ n \in Nat /\ back \in Seq(Buffers) /\ m \in Nat
  BY <1>4, <1>6, <1>11, <1>15
<1>19. /\ all = Append(entries, <<key[r], buffer[r]>>)
       /\ n <= Len(all)
       /\ entries' = SubSeq(all, n + 1, Len(all))
       /\ bytes' = Bytes(entries') /\ bytes' <= Capacity
       /\ spare' = spare \o SubSeq(back, 1, m)
       /\ m <= Len(back) /\ m <= MaxSpares - Len(spare)
       /\ Distinct(all) => IsInjective(back)
       /\ Range(back) \subseteq {all[i][2] : i \in 1 .. n} \cap {b \in Buffers : ~Held(b)}
  BY <1>1, <1>6, <1>8, <1>11, <1>12, <1>15, <1>16, <1>17
<1>. QED
  BY <1>18, <1>19, Zenon

LEMMA InsertKeeps ==
  ASSUME IInv, NEW r \in Readers, Insert(r)
  PROVE  IInv'
<1>1. /\ pc[r] = "insert" /\ pc' = [pc EXCEPT ![r] = "copy"]
      /\ key' = key /\ buffer' = buffer /\ content' = content
  BY DEF Insert
<1>2. /\ TypeOK /\ pc \in [Readers -> Labels] /\ key \in [Readers -> Keys \cup {NoKey}]
      /\ buffer \in [Readers -> Buffers \cup {NoBuffer}]
      /\ entries \in Seq(Entry) /\ spare \in Seq(Buffers)
  BY DEF IInv, TypeOK, Entry
<1>3. pc'[r] = "copy" /\ \A o \in Readers \ {r} : pc'[o] = pc[o]
  BY <1>1, <1>2
<1>4. pc' \in [Readers -> Labels]
  BY <1>1, <1>2 DEF Labels
<1>5. Apart /\ ChunksIntact /\ BytesExact /\ \A o \in Readers : Wanting(o) /\ Private(o)
  BY DEF IInv
<1>6. \A o \in Readers : Wanting(o)'
  <2>. TAKE o \in Readers
  <2>1. CASE o = r
    BY <1>1, <1>3, <1>5, <2>1 DEF Wanting
  <2>2. CASE o # r
    BY <1>1, <1>3, <1>5, <2>2 DEF Wanting
  <2>. QED
    BY <2>1, <2>2
<1>7. \A o \in Readers : pc'[o] \in {"insert", "copy"} => content'[buffer'[o]] = key'[o]
  BY <1>1, <1>3, <1>5 DEF ChunksIntact
<1>8. CASE Capacity = 0 \/ Size[key[r]] > Capacity \/ Raced(key[r])
  <2>1. entries' = entries /\ bytes' = bytes /\ spare' = spare
    BY <1>8 DEF Insert
  <2>2. TypeOK'
    BY <1>1, <1>2, <1>4, <2>1 DEF TypeOK
  <2>3. \A o \in Readers : Private(o)'
    BY <1>1, <1>3, <1>5, <2>1 DEF Private, Cached
  <2>4. Apart'
    BY <1>1, <1>5, <2>1 DEF Apart, Cached, Held
  <2>5. ChunksIntact'
    BY <1>1, <1>5, <1>7, <2>1 DEF ChunksIntact
  <2>6. BytesExact'
    BY <1>5, <2>1 DEF BytesExact
  <2>. QED
    BY <1>6, <2>2, <2>3, <2>4, <2>5, <2>6 DEF IInv
<1>9. CASE ~(Capacity = 0 \/ Size[key[r]] > Capacity \/ Raced(key[r]))
  <2>1. PICK all \in Seq(Entry), n \in Nat, back \in Seq(Buffers), m \in Nat :
           /\ all = Append(entries, <<key[r], buffer[r]>>)
           /\ n <= Len(all)
           /\ entries' = SubSeq(all, n + 1, Len(all))
           /\ bytes' = Bytes(entries') /\ bytes' <= Capacity
           /\ spare' = spare \o SubSeq(back, 1, m)
           /\ m <= Len(back) /\ m <= MaxSpares - Len(spare)
           /\ Distinct(all) => IsInjective(back)
           /\ Range(back) \subseteq {all[i][2] : i \in 1 .. n} \cap {b \in Buffers : ~Held(b)}
    BY <1>9, Inserted, Zenon
  <2>. DEFINE N == Len(entries)
              lent == SubSeq(back, 1, m)
  <2>2. PICK x \in Entry : x = <<key[r], buffer[r]>>
    <3>1. key[r] \in Keys /\ buffer[r] \in Buffers
      BY <1>1, <1>2, <1>5 DEF Wanting
    <3>. QED
      BY <3>1 DEF Entry
  <2>3. x[1] = key[r] /\ x[2] = buffer[r]
    BY <2>2
  <2>4. /\ N \in Nat /\ Len(all) = N + 1 /\ all[N + 1] = x
        /\ DOMAIN entries = 1 .. N /\ \A i \in 1 .. N : all[i] = entries[i]
    <3>1. all = Append(entries, x)
      BY <2>1, <2>2
    <3>. QED
      BY <1>2, <3>1
  <2>5. /\ entries' \in Seq(Entry) /\ DOMAIN entries' = 1 .. N + 1 - n
        /\ \A i \in 1 .. N + 1 - n : entries'[i] = all[n + i] /\ n + i \in 1 .. N + 1
    <3>1. n \in 0 .. Len(all) /\ entries' = SubSeq(all, n + 1, Len(all)) /\ Len(all) \in Nat
      BY <2>1
    <3>2. /\ entries' \in Seq(Entry) /\ DOMAIN entries' = 1 .. Len(all) - n
          /\ \A i \in 1 .. Len(all) - n : entries'[i] = all[n + i]
      BY <3>1
    <3>3. \A i \in 1 .. Len(all) - n : n + i \in 1 .. Len(all)
      BY <3>1
    <3>. QED
      BY <2>4, <3>2, <3>3
  <2>. HIDE DEF N
  <2>6. \A i \in 1 .. N + 1 : i \in 1 .. N \/ i = N + 1
    BY <2>4
  <2>7. Distinct(all)
    <3>. SUFFICES ASSUME NEW i \in 1 .. N + 1, NEW j \in 1 .. N + 1, all[i][2] = all[j][2]
                  PROVE  i = j
      BY <2>4 DEF Distinct
    <3>1. \A k \in 1 .. N : all[k][2] # x[2]
      BY <1>1, <1>5, <2>3, <2>4 DEF Private, Cached
    <3>2. CASE i \in 1 .. N /\ j \in 1 .. N
      BY <1>5, <2>4, <3>2 DEF Apart
    <3>3. CASE i = N + 1 \/ j = N + 1
      BY <2>4, <2>6, <3>1, <3>3
    <3>. QED
      BY <2>6, <3>2, <3>3
  <2>8. \A b : Cached(b)' => b = buffer[r] \/ Cached(b)
    <3>. SUFFICES ASSUME NEW i \in 1 .. N + 1 - n
                  PROVE  entries'[i][2] = buffer[r] \/ Cached(entries'[i][2])
      BY <2>5 DEF Cached
    <3>1. PICK k \in 1 .. N + 1 : entries'[i] = all[k]
      BY <2>5
    <3>. QED
      BY <2>3, <2>4, <2>6, <3>1 DEF Cached
  <2>9. TypeOK'
    <3>1. bytes' \in Nat
      BY <2>1, <2>5, BytesNat
    <3>2. spare' \in Seq(Buffers)
      BY <1>2, <2>1
    <3>. QED
      BY <1>1, <1>2, <1>4, <2>5, <3>1, <3>2 DEF TypeOK, Entry
  <2>10. \A o \in Readers : Private(o)'
    <3>. SUFFICES ASSUME NEW o \in Readers, pc'[o] \in {"decode", "insert"}
                  PROVE  ~Cached(buffer[o])' /\ \A other \in Readers \ {o} : buffer[other] # buffer[o]
      BY <1>1 DEF Private
    <3>1. o # r /\ pc[o] \in {"decode", "insert"}
      BY <1>3
    <3>2. ~Cached(buffer[o]) /\ \A other \in Readers \ {o} : buffer[other] # buffer[o]
      BY <1>5, <3>1 DEF Private
    <3>3. buffer[o] # buffer[r] /\ buffer'[o] = buffer[o]
      BY <1>1, <3>1, <3>2
    <3>4. ~Cached(buffer[o])'
      BY <2>8, <3>2, <3>3 DEF Cached
    <3>. QED
      BY <3>2, <3>4
  <2>11. Apart'
    <3>1. \A i, j \in DOMAIN entries' : entries'[i][2] = entries'[j][2] => i = j
      <4>. SUFFICES ASSUME NEW i \in 1 .. N + 1 - n, NEW j \in 1 .. N + 1 - n,
                           entries'[i][2] = entries'[j][2]
                    PROVE  i = j
        BY <2>5
      <4>1. PICK k \in 1 .. N + 1 : k = n + i /\ entries'[i] = all[k]
        BY <2>5
      <4>2. PICK l \in 1 .. N + 1 : l = n + j /\ entries'[j] = all[l]
        BY <2>5
      <4>3. k = l
        BY <2>4, <2>7, <4>1, <4>2 DEF Distinct
      <4>. QED
        BY <2>4, <4>1, <4>2, <4>3
    <3>2. /\ lent \in Seq(Buffers) /\ Len(lent) = m
          /\ \A i \in 1 .. m : lent[i] = back[i] /\ i \in DOMAIN back
      BY <2>1
    <3>3. IsInjective(lent) /\ Range(lent) \subseteq Range(back)
      <4>1. IsInjective(back) /\ DOMAIN lent = 1 .. m
        BY <2>1, <2>7, <3>2
      <4>. HIDE DEF lent
      <4>. QED
        BY <3>2, <4>1 DEF IsInjective, Range
    <3>4. spare' = spare \o lent /\ Len(spare) \in Nat /\ MaxSpares \in Nat
      BY <1>2, <2>1, CacheAssumption
    <3>. HIDE DEF lent
    <3>5. Len(spare') <= MaxSpares
      <4>1. Len(spare') = Len(spare) + m
        BY <1>2, <3>2, <3>4
      <4>. QED
        BY <2>1, <3>4, <4>1
    <3>6. \A b \in Range(back) : Cached(b) /\ ~Held(b) /\ ~Cached(b)'
      <4>. TAKE b \in Range(back)
      <4>1. PICK i \in 1 .. n : b = all[i][2]
        BY <2>1
      <4>2. ~Held(b) /\ b # buffer[r]
        BY <2>1 DEF Held
      <4>3. i \in 1 .. N + 1
        BY <2>1, <2>4
      <4>4. i \in 1 .. N
        BY <2>3, <2>4, <2>6, <4>1, <4>2, <4>3
      <4>5. Cached(b)
        BY <2>4, <4>1, <4>4 DEF Cached
      <4>6. ASSUME Cached(b)'
            PROVE  FALSE
        <5>1. PICK j \in 1 .. N + 1 - n : entries'[j][2] = b
          BY <2>5, <4>6 DEF Cached
        <5>2. all[n + j][2] = all[i][2] /\ n + j \in 1 .. N + 1
          BY <2>5, <4>1, <5>1
        <5>3. n + j = i
          BY <2>4, <2>7, <4>3, <5>2 DEF Distinct
        <5>. QED
          BY <5>3
      <4>. QED
        BY <4>2, <4>5, <4>6
    <3>7. \A b \in Range(spare) : ~Cached(b) /\ ~Held(b) /\ ~Cached(b)'
      <4>1. \A b \in Range(spare) : ~Cached(b) /\ ~Held(b)
        BY <1>5 DEF Apart, Range
      <4>. QED
        BY <2>8, <4>1 DEF Held
    <3>8. Range(spare) \cap Range(lent) = {}
      BY <3>3, <3>6, <3>7
    <3>9. IsInjective(spare') /\ Range(spare') = Range(spare) \cup Range(lent)
      <4>1. IsInjective(spare)
        BY <1>5 DEF Apart
      <4>. QED
        BY <1>2, <3>2, <3>3, <3>4, <3>8, <4>1, ConcatRange
    <3>10. \A b \in Range(spare') : ~Held(b) /\ ~Cached(b)'
      BY <3>3, <3>6, <3>7, <3>9
    <3>11. \A b : Held(b)' <=> Held(b)
      BY <1>1 DEF Held
    <3>12. \A i \in DOMAIN spare' : (~Cached(spare[i]) /\ ~Held(spare[i]))'
      <4>. TAKE i \in DOMAIN spare'
      <4>1. PICK b : b = spare'[i]
        OBVIOUS
      <4>2. b \in Range(spare')
        BY <4>1 DEF Range
      <4>. QED
        BY <3>10, <3>11, <4>1, <4>2 DEF Cached, Held
    <3>. QED
      BY <3>1, <3>5, <3>9, <3>12 DEF Apart
  <2>12. ChunksIntact'
    <3>1. \A i \in 1 .. N + 1 : content[all[i][2]] = all[i][1]
      <4>1. content[x[2]] = x[1]
        BY <1>1, <1>5, <2>3 DEF ChunksIntact
      <4>. QED
        BY <1>5, <2>4, <2>6, <4>1 DEF ChunksIntact
    <3>2. \A i \in DOMAIN entries' : content'[entries'[i][2]] = entries'[i][1]
      BY <1>1, <2>5, <3>1
    <3>. QED
      BY <1>7, <3>2 DEF ChunksIntact
  <2>13. BytesExact'
    BY <2>1 DEF BytesExact
  <2>. QED
    BY <1>6, <2>9, <2>10, <2>11, <2>12, <2>13 DEF IInv
<1>. QED
  BY <1>8, <1>9

LEMMA StepKeeps == IInv /\ [Next]_vars => IInv'
<1>. SUFFICES ASSUME IInv, [Next]_vars
              PROVE  IInv'
  OBVIOUS
<1>1. ASSUME NEW r \in Readers, Call(r)
      PROVE  IInv'
  BY <1>1, CallKeeps
<1>2. ASSUME NEW r \in Readers, Get(r)
      PROVE  IInv'
  BY <1>2, GetKeeps
<1>3. ASSUME NEW r \in Readers, TakeSpare(r)
      PROVE  IInv'
  BY <1>3, TakeSpareKeeps
<1>4. ASSUME NEW r \in Readers, Decode(r)
      PROVE  IInv'
  BY <1>4, DecodeKeeps
<1>5. ASSUME NEW r \in Readers, Insert(r)
      PROVE  IInv'
  BY <1>5, InsertKeeps
<1>6. ASSUME NEW r \in Readers, Copy(r)
      PROVE  IInv'
  BY <1>6, DropKeeps DEF Copy
<1>7. CASE UNCHANGED vars
  BY <1>7 DEF vars, IInv, TypeOK, Wanting, Private, Apart, ChunksIntact, BytesExact, Cached, Held
<1>. QED
  BY <1>1, <1>2, <1>3, <1>4, <1>5, <1>6, <1>7 DEF Next

---------------------------------------------------------------------------
(* The theorems.                                                           *)

LEMMA InvHolds == Spec => []IInv
  BY InitInv, StepKeeps, PTL DEF Spec

\* The cache's entries, spare buffers and byte count, and what every reader is
\* at, always have their types: the byte count never goes below zero.
THEOREM TypesHold == Spec => []TypeOK
<1>1. IInv => TypeOK
  BY DEF IInv
<1>. QED
  BY <1>1, InvHolds, PTL

\* However many connections decode, evict and copy at once, what a reader
\* copies out is the chunk it asked for: get, take_spare and insert never lend
\* out a buffer that somebody still reads, and never file a chunk under
\* another's key.
THEOREM ChunksStayIntact == Spec => []ChunksIntact
<1>1. IInv => ChunksIntact
  BY DEF IInv
<1>. QED
  BY <1>1, InvHolds, PTL

\* Lru.bytes is always the decoded bytes of the entries, and within the
\* capacity: two threads that decode the same chunk are not counted twice.
THEOREM BytesStayExact == Spec => []BytesExact
<1>1. IInv => BytesExact
  BY DEF IInv
<1>. QED
  BY <1>1, InvHolds, PTL
=============================================================================
