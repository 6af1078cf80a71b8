------------------------------ MODULE SeqFacts ------------------------------
(***************************************************************************)
(* What operations on a sequence do to the set of its elements, and when   *)
(* they keep the elements distinct; quotients and remainders; the strides  *)
(* of a shape.  The facts the other proofs share.                          *)
(***************************************************************************)
EXTENDS Vecs, Shapes, SequenceTheorems, WellFoundedInduction, TLAPS

\* The empty sequence, and one element.
LEMMA ShortSeqs ==
  /\ Range(<< >>) = {} /\ IsInjective(<< >>)
  /\ \A x : Range(<<x>>) = {x} /\ IsInjective(<<x>>)
BY DEF Range, IsInjective

\* An element of the range is at some position, and elements are of the set.
LEMMA RangeFacts ==
  ASSUME NEW S, NEW q \in Seq(S)
  PROVE  /\ Range(q) \subseteq S
         /\ \A x : x \in Range(q) <=> \E i \in 1 .. Len(q) : q[i] = x
         /\ Range(q) = {} <=> q = << >>
<1>1. DOMAIN q = 1 .. Len(q) /\ Len(q) \in Nat /\ (q = << >> <=> Len(q) = 0)
  OBVIOUS
<1>2. \A x : x \in Range(q) <=> \E i \in 1 .. Len(q) : q[i] = x
  BY <1>1, Zenon DEF Range
<1>3. Range(q) \subseteq S
  BY <1>2
<1>4. ASSUME q # << >>
      PROVE  q[1] \in Range(q)
  BY <1>1, <1>2, <1>4
<1>5. ASSUME q = << >>
      PROVE  Range(q) = {}
  BY <1>1, <1>2, <1>5
<1>. QED
  BY <1>2, <1>3, <1>4, <1>5

\* Without its first element.
LEMMA HeadTailRange ==
  ASSUME NEW S, NEW q \in Seq(S), q # << >>
  PROVE  /\ Head(q) \in Range(q)
         /\ Range(q) = {Head(q)} \cup Range(Tail(q))
         /\ IsInjective(q) => IsInjective(Tail(q)) /\ Head(q) \notin Range(Tail(q))
<1>1. /\ Len(q) \in Nat /\ Len(q) > 0 /\ DOMAIN q = 1 .. Len(q)
      /\ Head(q) = q[1]
      /\ Tail(q) \in Seq(S) /\ DOMAIN Tail(q) = 1 .. Len(q) - 1
      /\ \A i \in 1 .. Len(q) - 1 : Tail(q)[i] = q[i + 1]
  OBVIOUS
<1>2. Range(q) = {Head(q)} \cup Range(Tail(q))
  <2>1. \A i \in 1 .. Len(q) : i = 1 \/ (i - 1 \in 1 .. Len(q) - 1 /\ Tail(q)[i - 1] = q[i])
    BY <1>1
  <2>2. \A i \in 1 .. Len(q) - 1 : i + 1 \in 1 .. Len(q) /\ q[i + 1] = Tail(q)[i]
    BY <1>1
  <2>3. 1 \in 1 .. Len(q)
    BY <1>1
  <2>4. \A x : x \in Range(q) => x \in {Head(q)} \cup Range(Tail(q))
    <3>. SUFFICES ASSUME NEW i \in 1 .. Len(q), i # 1
                  PROVE  q[i] \in Range(Tail(q))
      BY <1>1 DEF Range
    <3>1. i - 1 \in DOMAIN Tail(q) /\ Tail(q)[i - 1] = q[i]
      BY <1>1, <2>1
    <3>. QED
      BY <3>1, Zenon DEF Range
  <2>5. \A x : x \in {Head(q)} \cup Range(Tail(q)) => x \in Range(q)
    BY <1>1, <2>2, <2>3 DEF Range
  <2>. QED
    BY <2>4, <2>5
<1>3. ASSUME IsInjective(q)
      PROVE  IsInjective(Tail(q)) /\ Head(q) \notin Range(Tail(q))
  BY <1>1, <1>3 DEF IsInjective, Range
<1>. QED
  BY <1>2, <1>3

\* Without its last element.
LEMMA FrontLastRange ==
  ASSUME NEW S, NEW q \in Seq(S), q # << >>
  PROVE  /\ Last(q) \in Range(q)
         /\ Range(q) = {Last(q)} \cup Range(Front(q))
         /\ IsInjective(q) => IsInjective(Front(q)) /\ Last(q) \notin Range(Front(q))
<1>1. /\ Len(q) \in Nat /\ Len(q) > 0 /\ DOMAIN q = 1 .. Len(q)
      /\ Last(q) = q[Len(q)]
      /\ DOMAIN Front(q) = 1 .. Len(q) - 1
      /\ \A i \in 1 .. Len(q) - 1 : Front(q)[i] = q[i]
  BY DEF Front, Last
<1>2. Range(q) = {Last(q)} \cup Range(Front(q))
  <2>1. \A i \in 1 .. Len(q) : i = Len(q) \/ (i \in 1 .. Len(q) - 1 /\ Front(q)[i] = q[i])
    <3>1. \A n \in Nat : \A i \in 1 .. n : i = n \/ i \in 1 .. n - 1
      OBVIOUS
    <3>. QED
      BY <1>1, <3>1
  <2>2. \A i \in 1 .. Len(q) - 1 : i \in 1 .. Len(q) /\ q[i] = Front(q)[i]
    BY <1>1
  <2>3. Len(q) \in 1 .. Len(q)
    BY <1>1
  <2>4. \A x : x \in Range(q) => x \in {Last(q)} \cup Range(Front(q))
    BY <1>1, <2>1 DEF Range
  <2>5. \A x : x \in {Last(q)} \cup Range(Front(q)) => x \in Range(q)
    BY <1>1, <2>2, <2>3 DEF Range
  <2>. QED
    BY <2>4, <2>5
<1>3. ASSUME IsInjective(q)
      PROVE  IsInjective(Front(q)) /\ Last(q) \notin Range(Front(q))
  BY <1>1, <1>3 DEF IsInjective, Range
<1>. QED
  BY <1>2, <1>3

\* Cut in two.
LEMMA SplitRange ==
  ASSUME NEW S, NEW q \in Seq(S), NEW n \in 0 .. Len(q)
  PROVE  LET a == SubSeq(q, 1, n)
             b == SubSeq(q, n + 1, Len(q))
         IN  /\ Range(q) = Range(a) \cup Range(b)
             /\ IsInjective(q) => IsInjective(a) /\ IsInjective(b) /\ Range(a) \cap Range(b) = {}
<1>. DEFINE a == SubSeq(q, 1, n)
            b == SubSeq(q, n + 1, Len(q))
<1>1. /\ Len(q) \in Nat /\ n \in Nat /\ DOMAIN q = 1 .. Len(q)
      /\ DOMAIN a = 1 .. n /\ \A i \in 1 .. n : a[i] = q[i]
      /\ DOMAIN b = 1 .. Len(q) - n /\ \A i \in 1 .. Len(q) - n : b[i] = q[n + i]
  OBVIOUS
<1>. HIDE DEF a, b
<1>2. Range(q) = Range(a) \cup Range(b)
  <2>1. \A i \in 1 .. Len(q) : \/ i \in 1 .. n /\ a[i] = q[i]
                               \/ i - n \in 1 .. Len(q) - n /\ b[i - n] = q[i]
    BY <1>1
  <2>2. \A i \in 1 .. n : i \in 1 .. Len(q) /\ q[i] = a[i]
    BY <1>1
  <2>3. \A i \in 1 .. Len(q) - n : n + i \in 1 .. Len(q) /\ q[n + i] = b[i]
    BY <1>1
  <2>4. \A x : x \in Range(q) => x \in Range(a) \cup Range(b)
    BY <1>1, <2>1 DEF Range
  <2>5. Range(a) \subseteq Range(q)
    BY <1>1, <2>2, SMTT(30) DEF Range
  <2>6. ASSUME NEW x \in Range(b)
        PROVE  x \in Range(q)
    <3>1. PICK i \in 1 .. Len(q) - n : x = b[i]
      BY <1>1 DEF Range
    <3>2. n + i \in DOMAIN q /\ q[n + i] = x
      BY <1>1, <2>3, <3>1
    <3>. QED
      BY <3>2, Zenon DEF Range
  <2>. QED
    BY <2>4, <2>5, <2>6
<1>3. ASSUME IsInjective(q)
      PROVE  IsInjective(a) /\ IsInjective(b) /\ Range(a) \cap Range(b) = {}
  <2>1. IsInjective(a)
    BY <1>1, <1>3 DEF IsInjective
  <2>2. IsInjective(b)
    BY <1>1, <1>3 DEF IsInjective
  <2>3. \A i \in 1 .. n : \A j \in 1 .. Len(q) - n : a[i] # b[j]
    BY <1>1, <1>3 DEF IsInjective
  <2>. QED
    BY <1>1, <2>1, <2>2, <2>3 DEF Range
<1>. QED
  BY <1>2, <1>3 DEF a, b

\* With one element more.
LEMMA AppendRange ==
  ASSUME NEW S, NEW q \in Seq(S), NEW x \in S
  PROVE  /\ Range(Append(q, x)) = Range(q) \cup {x}
         /\ IsInjective(q) /\ x \notin Range(q) => IsInjective(Append(q, x))
<1>. DEFINE a == Append(q, x)
<1>1. /\ Len(q) \in Nat /\ DOMAIN q = 1 .. Len(q) /\ DOMAIN a = 1 .. Len(q) + 1
      /\ \A i \in 1 .. Len(q) : a[i] = q[i]
      /\ a[Len(q) + 1] = x
  OBVIOUS
<1>. HIDE DEF a
<1>2. Range(a) = Range(q) \cup {x}
  <2>1. \A i \in 1 .. Len(q) + 1 : i = Len(q) + 1 \/ (i \in 1 .. Len(q) /\ a[i] = q[i])
    BY <1>1
  <2>2. Len(q) + 1 \in 1 .. Len(q) + 1 /\ \A i \in 1 .. Len(q) : i \in 1 .. Len(q) + 1
    BY <1>1
  <2>. QED
    BY <1>1, <2>1, <2>2, Zenon DEF Range
<1>3. ASSUME IsInjective(q), x \notin Range(q)
      PROVE  IsInjective(a)
  BY <1>1, <1>3 DEF IsInjective, Range
<1>. QED
  BY <1>2, <1>3 DEF a

\* One after the other.
LEMMA ConcatRange ==
  ASSUME NEW S, NEW p \in Seq(S), NEW q \in Seq(S)
  PROVE  /\ p \o q \in Seq(S)
         /\ Range(p \o q) = Range(p) \cup Range(q)
         /\ IsInjective(p) /\ IsInjective(q) /\ Range(p) \cap Range(q) = {}
              => IsInjective(p \o q)
<1>. DEFINE a == p \o q
<1>1. /\ Len(p) \in Nat /\ Len(q) \in Nat /\ DOMAIN p = 1 .. Len(p) /\ DOMAIN q = 1 .. Len(q)
      /\ a \in Seq(S) /\ DOMAIN a = 1 .. Len(p) + Len(q)
      /\ \A i \in 1 .. Len(p) : a[i] = p[i]
      /\ \A i \in 1 .. Len(q) : a[Len(p) + i] = q[i]
  OBVIOUS
<1>. HIDE DEF a
<1>2. Range(a) = Range(p) \cup Range(q)
  <2>1. \A i \in 1 .. Len(p) + Len(q) :
          \/ i \in 1 .. Len(p) /\ a[i] = p[i]
          \/ i - Len(p) \in 1 .. Len(q) /\ a[i] = q[i - Len(p)]
    BY <1>1
  <2>2. \A i \in 1 .. Len(p) : i \in 1 .. Len(p) + Len(q)
    BY <1>1
  <2>3. \A i \in 1 .. Len(q) : Len(p) + i \in 1 .. Len(p) + Len(q)
    BY <1>1
  <2>4. \A x : x \in Range(a) => x \in Range(p) \cup Range(q)
    BY <1>1, <2>1 DEF Range
  <2>5. \A x : x \in Range(p) \cup Range(q) => x \in Range(a)
    BY <1>1, <2>2, <2>3 DEF Range
  <2>. QED
    BY <2>4, <2>5
<1>3. ASSUME IsInjective(p), IsInjective(q), Range(p) \cap Range(q) = {}
      PROVE  IsInjective(a)
  <2>1. \A k \in 1 .. Len(p) + Len(q) :
          \/ k \in 1 .. Len(p) /\ a[k] = p[k]
          \/ k - Len(p) \in 1 .. Len(q) /\ a[k] = q[k - Len(p)]
    BY <1>1
  <2>2. \A i \in 1 .. Len(p) : \A j \in 1 .. Len(q) : p[i] # q[j]
    BY <1>1, <1>3 DEF Range
  <2>3. \A i, j \in 1 .. Len(p) : p[i] = p[j] => i = j
    BY <1>1, <1>3 DEF IsInjective
  <2>4. \A i, j \in 1 .. Len(q) : q[i] = q[j] => i = j
    BY <1>1, <1>3 DEF IsInjective
  <2>. SUFFICES ASSUME NEW i \in 1 .. Len(p) + Len(q), NEW j \in 1 .. Len(p) + Len(q),
                       a[i] = a[j]
                PROVE  i = j
    BY <1>1 DEF IsInjective
  <2>5. CASE i \in 1 .. Len(p) /\ a[i] = p[i]
    <3>1. CASE j \in 1 .. Len(p) /\ a[j] = p[j]
      BY <2>5, <3>1, <2>3
    <3>2. CASE j - Len(p) \in 1 .. Len(q) /\ a[j] = q[j - Len(p)]
      BY <2>5, <3>2, <2>2
    <3>. QED
      BY <2>1, <3>1, <3>2
  <2>6. CASE i - Len(p) \in 1 .. Len(q) /\ a[i] = q[i - Len(p)]
    <3>1. CASE j \in 1 .. Len(p) /\ a[j] = p[j]
      BY <2>6, <3>1, <2>2
    <3>2. CASE j - Len(p) \in 1 .. Len(q) /\ a[j] = q[j - Len(p)]
      <4>1. i - Len(p) = j - Len(p)
        BY <2>6, <3>2, <2>4
      <4>. QED
        BY <4>1, <1>1
    <3>. QED
      BY <2>1, <3>1, <3>2
  <2>. QED
    BY <2>1, <2>5, <2>6
<1>. QED
  BY <1>1, <1>2, <1>3 DEF a

---------------------------------------------------------------------------
(* Induction over the natural numbers, about sets of them.                 *)

LEMMA NatLeast ==
  ASSUME NEW T, T \subseteq Nat, T # {}
  PROVE  \E x \in T : \A y \in T : x <= y
<1>1. PICK x \in T : \A y \in T : ~(<<y, x>> \in OpToRel(<, Nat))
  <2>. DEFINE R == OpToRel(<, Nat)
  <2>1. IsWellFoundedOn(R, Nat)
    BY NatLessThanWellFounded
  <2>. HIDE DEF R
  <2>2. \E x \in T : \A y \in T : ~(<<y, x>> \in R)
    BY <2>1, WFMin
  <2>. QED
    BY <2>2 DEF R
<1>2. \A y \in T : ~(y < x)
  BY <1>1 DEF OpToRel
<1>. QED
  BY <1>2

\* A set with zero, and the successor of each natural number it has, has all.
LEMMA NatSteps ==
  ASSUME NEW T, 0 \in T, \A n \in Nat : n \in T => n + 1 \in T
  PROVE  Nat \subseteq T
<1>. SUFFICES ASSUME Nat \ T # {}
              PROVE  FALSE
  OBVIOUS
<1>1. PICK x \in Nat \ T : \A y \in Nat \ T : x <= y
  <2>1. Nat \ T \subseteq Nat
    OBVIOUS
  <2>. QED
    BY <2>1, NatLeast
<1>2. x # 0 /\ x - 1 \in Nat /\ x - 1 \in T
  BY <1>1
<1>3. (x - 1) + 1 \in T
  BY <1>2
<1>. QED
  BY <1>1, <1>2, <1>3

---------------------------------------------------------------------------
(* Operations of Vecs.                                                     *)

\* What upTo computes is what its definition says.
LEMMA RetainDef ==
  ASSUME NEW q, NEW S, Len(q) \in Nat
  PROVE  \E f : /\ Retain(q, S) = f[Len(q)]
                /\ \A i \in 0 .. Len(q) :
                     f[i] = IF i = 0 THEN << >>
                            ELSE IF q[i] \in S THEN Append(f[i - 1], q[i]) ELSE f[i - 1]
<1>. DEFINE Def(f, n) == f = [i \in 0 .. n |->
                                IF i = 0 THEN << >>
                                ELSE IF q[i] \in S THEN Append(f[i - 1], q[i]) ELSE f[i - 1]]
            T == {n \in Nat : \E f : Def(f, n)}
<1>1. 0 \in T
  <2>1. Def([i \in 0 .. 0 |-> << >>], 0)
    OBVIOUS
  <2>. QED
    BY <2>1
<1>2. ASSUME NEW n \in Nat, n \in T
      PROVE  n + 1 \in T
  <2>1. PICK f : Def(f, n)
    BY <1>2
  <2>. DEFINE g == [i \in 0 .. n + 1 |->
                      IF i = n + 1 THEN (IF q[i] \in S THEN Append(f[n], q[i]) ELSE f[n])
                      ELSE f[i]]
  <2>2. \A i \in 0 .. n + 1 :
          g[i] = IF i = 0 THEN << >>
                 ELSE IF q[i] \in S THEN Append(g[i - 1], q[i]) ELSE g[i - 1]
    <3>1. \A i \in 0 .. n :
            f[i] = IF i = 0 THEN << >>
                   ELSE IF q[i] \in S THEN Append(f[i - 1], q[i]) ELSE f[i - 1]
      BY <2>1
    <3>. HIDE DEF Def
    <3>2. \A i \in 0 .. n : g[i] = f[i]
      OBVIOUS
    <3>. TAKE i \in 0 .. n + 1
    <3>3. CASE i = 0
      BY <3>1, <3>2, <3>3
    <3>4. CASE i \in 1 .. n
      BY <3>1, <3>2, <3>4
    <3>5. CASE i = n + 1
      BY <3>2, <3>5
    <3>. QED
      BY <3>3, <3>4, <3>5
  <2>3. DOMAIN g = 0 .. n + 1 /\ g = [i \in DOMAIN g |-> g[i]]
    OBVIOUS
  <2>. HIDE DEF g
  <2>4. Def(g, n + 1)
    BY <2>2, <2>3
  <2>. QED
    BY SMTT(30), <2>4
<1>. HIDE DEF Def
<1>3. \E f : Def(f, Len(q))
  <2>1. Nat \subseteq T
    <3>. HIDE DEF T
    <3>. QED
      BY <1>1, <1>2, NatSteps
  <2>. QED
    BY <2>1
<1>. DEFINE h == CHOOSE f : Def(f, Len(q))
<1>4. Def(h, Len(q))
  BY <1>3
<1>5. Retain(q, S) = h[Len(q)]
  BY DEF Retain, Def
<1>. HIDE DEF h
<1>. QED
  BY <1>4, <1>5 DEF Def

\* Retain keeps what is to be kept, once if it was there once.
LEMMA RetainFacts ==
  ASSUME NEW X, NEW q \in Seq(X), NEW S
  PROVE  /\ Retain(q, S) \in Seq(X)
         /\ Len(Retain(q, S)) <= Len(q)
         /\ Range(Retain(q, S)) = Range(q) \cap S
         /\ IsInjective(q) => IsInjective(Retain(q, S))
<1>1. Len(q) \in Nat /\ DOMAIN q = 1 .. Len(q) /\ \A i \in 1 .. Len(q) : q[i] \in X
  OBVIOUS
<1>2. PICK f : /\ Retain(q, S) = f[Len(q)]
               /\ \A i \in 0 .. Len(q) :
                    f[i] = IF i = 0 THEN << >>
                           ELSE IF q[i] \in S THEN Append(f[i - 1], q[i]) ELSE f[i - 1]
  BY <1>1, RetainDef
<1>. DEFINE Seen(n) == {q[j] : j \in 1 .. n}
            Right(n) == /\ f[n] \in Seq(X) /\ Len(f[n]) <= n
                        /\ Range(f[n]) = Seen(n) \cap S
                        /\ IsInjective(q) => IsInjective(f[n])
            T == {n \in Nat : n <= Len(q) => Right(n)}
<1>3. 0 \in T
  <2>1. f[0] = << >> /\ Seen(0) = {}
    BY <1>1, <1>2
  <2>2. << >> \in Seq(X) /\ Len(<< >>) <= 0
    OBVIOUS
  <2>. QED
    BY <2>1, <2>2, ShortSeqs
<1>4. ASSUME NEW n \in Nat, n \in T
      PROVE  n + 1 \in T
  <2>. SUFFICES ASSUME n + 1 <= Len(q)
                PROVE  Right(n + 1)
    OBVIOUS
  <2>. DEFINE x == q[n + 1]
  <2>0. Right(n) /\ x \in X /\ n + 1 \in 1 .. Len(q)
    BY <1>1, <1>4
  <2>1. f[n + 1] = IF x \in S THEN Append(f[n], x) ELSE f[n]
    BY <1>1, <1>2
  <2>2. Seen(n + 1) = Seen(n) \cup {x}
    <3>1. \A j : j \in 1 .. n + 1 <=> j \in 1 .. n \/ j = n + 1
      OBVIOUS
    <3>. QED
      BY <3>1
  <2>3. IsInjective(q) => x \notin Seen(n)
    <3>1. \A j \in 1 .. n : j \in 1 .. Len(q) /\ j # n + 1
      BY <1>1
    <3>. QED
      BY <1>1, <2>0, <3>1 DEF IsInjective
  <2>4. f[n] \in Seq(X) /\ Len(f[n]) <= n /\ Range(f[n]) = Seen(n) \cap S
        /\ (IsInjective(q) => IsInjective(f[n]))
    BY <2>0
  <2>. HIDE DEF Seen, x
  <2>5. CASE x \notin S
    <3>1. f[n + 1] = f[n] /\ Len(f[n]) \in Nat
      BY <2>1, <2>4, <2>5
    <3>. QED
      BY <2>2, <2>4, <2>5, <3>1
  <2>6. CASE x \in S
    <3>1. f[n + 1] = Append(f[n], x)
      BY <2>1, <2>6
    <3>. DEFINE r == f[n]
    <3>2. r \in Seq(X)
      BY <2>4
    <3>. HIDE DEF r
    <3>3. /\ Append(r, x) \in Seq(X) /\ Len(Append(r, x)) = Len(r) + 1 /\ Len(r) \in Nat
          /\ Range(Append(r, x)) = Range(r) \cup {x}
          /\ IsInjective(r) /\ x \notin Range(r) => IsInjective(Append(r, x))
      BY <2>0, <3>2, AppendRange
    <3>. QED
      BY <2>2, <2>3, <2>4, <2>6, <3>1, <3>3 DEF r
  <2>. QED
    BY <2>5, <2>6
<1>5. Len(q) \in T
  <2>. HIDE DEF T
  <2>. QED
    BY <1>1, <1>3, <1>4, NatSteps
<1>6. Range(q) = Seen(Len(q))
  BY <1>1 DEF Range
<1>. HIDE DEF Seen
<1>. QED
  BY <1>1, <1>2, <1>5, <1>6

\* One more element is kept or not, and leaves what was kept before it.
LEMMA RetainAppend ==
  ASSUME NEW X, NEW q \in Seq(X), NEW x, NEW S
  PROVE  /\ Retain(<< >>, S) = << >>
         /\ Retain(Append(q, x), S) = IF x \in S THEN Append(Retain(q, S), x) ELSE Retain(q, S)
<1>. DEFINE r == Append(q, x)
<1>1. /\ Len(q) \in Nat /\ Len(r) = Len(q) + 1 /\ Len(r) \in Nat
      /\ \A i \in 1 .. Len(q) : r[i] = q[i]
      /\ r[Len(r)] = x
  OBVIOUS
<1>. HIDE DEF r
<1>2. PICK f : /\ Retain(q, S) = f[Len(q)]
               /\ \A i \in 0 .. Len(q) :
                    f[i] = IF i = 0 THEN << >>
                           ELSE IF q[i] \in S THEN Append(f[i - 1], q[i]) ELSE f[i - 1]
  BY <1>1, RetainDef
<1>3. PICK g : /\ Retain(r, S) = g[Len(r)]
               /\ \A i \in 0 .. Len(r) :
                    g[i] = IF i = 0 THEN << >>
                           ELSE IF r[i] \in S THEN Append(g[i - 1], r[i]) ELSE g[i - 1]
  BY <1>1, RetainDef
<1>. DEFINE T == {n \in Nat : n <= Len(q) => f[n] = g[n]}
<1>4. 0 \in T
  BY <1>1, <1>2, <1>3
<1>5. ASSUME NEW n \in Nat, n \in T
      PROVE  n + 1 \in T
  <2>. SUFFICES ASSUME n + 1 <= Len(q)
                PROVE  f[n + 1] = g[n + 1]
    OBVIOUS
  <2>1. f[n] = g[n] /\ n + 1 \in 1 .. Len(q) /\ n + 1 \in 0 .. Len(r) /\ (n + 1) - 1 = n /\ n + 1 # 0
    BY <1>1, <1>5
  <2>2. f[n + 1] = IF q[n + 1] \in S THEN Append(f[n], q[n + 1]) ELSE f[n]
    BY <1>2, <2>1
  <2>3. g[n + 1] = IF r[n + 1] \in S THEN Append(g[n], r[n + 1]) ELSE g[n]
    BY <1>3, <2>1
  <2>. QED
    BY <1>1, <2>1, <2>2, <2>3
<1>6. f[Len(q)] = g[Len(q)]
  <2>1. Nat \subseteq T
    <3>. HIDE DEF T
    <3>. QED
      BY <1>4, <1>5, NatSteps
  <2>. QED
    BY <1>1, <2>1
<1>7. g[Len(r)] = IF x \in S THEN Append(g[Len(q)], x) ELSE g[Len(q)]
  <2>1. Len(r) \in 0 .. Len(r) /\ Len(r) # 0 /\ Len(r) - 1 = Len(q)
    BY <1>1
  <2>. QED
    BY <1>1, <1>3, <2>1
<1>8. Retain(<< >>, S) = << >>
  <2>1. Len(<< >>) = 0 /\ 0 \in 0 .. 0
    OBVIOUS
  <2>. QED
    BY <2>1, RetainDef
<1>. QED
  BY <1>2, <1>3, <1>6, <1>7, <1>8 DEF r

\* Only what is in the sequence matters.
LEMMA RetainSame ==
  ASSUME NEW X, NEW q \in Seq(X), NEW S, NEW R, \A i \in 1 .. Len(q) : q[i] \in S <=> q[i] \in R
  PROVE  Retain(q, S) = Retain(q, R)
<1>1. Len(q) \in Nat
  OBVIOUS
<1>2. PICK f : /\ Retain(q, S) = f[Len(q)]
               /\ \A i \in 0 .. Len(q) :
                    f[i] = IF i = 0 THEN << >>
                           ELSE IF q[i] \in S THEN Append(f[i - 1], q[i]) ELSE f[i - 1]
  BY <1>1, RetainDef
<1>3. PICK g : /\ Retain(q, R) = g[Len(q)]
               /\ \A i \in 0 .. Len(q) :
                    g[i] = IF i = 0 THEN << >>
                           ELSE IF q[i] \in R THEN Append(g[i - 1], q[i]) ELSE g[i - 1]
  BY <1>1, RetainDef
<1>. DEFINE T == {n \in Nat : n <= Len(q) => f[n] = g[n]}
<1>4. 0 \in T
  BY <1>1, <1>2, <1>3
<1>5. ASSUME NEW n \in Nat, n \in T
      PROVE  n + 1 \in T
  <2>. SUFFICES ASSUME n + 1 <= Len(q)
                PROVE  f[n + 1] = g[n + 1]
    OBVIOUS
  <2>1. f[n] = g[n] /\ n + 1 \in 1 .. Len(q) /\ n + 1 \in 0 .. Len(q) /\ (n + 1) - 1 = n /\ n + 1 # 0
    BY <1>1, <1>5
  <2>2. f[n + 1] = IF q[n + 1] \in S THEN Append(f[n], q[n + 1]) ELSE f[n]
    BY <1>2, <2>1
  <2>3. g[n + 1] = IF q[n + 1] \in R THEN Append(g[n], q[n + 1]) ELSE g[n]
    BY <1>3, <2>1
  <2>. QED
    BY <2>1, <2>2, <2>3
<1>6. Len(q) \in T
  <2>. HIDE DEF T
  <2>. QED
    BY <1>1, <1>4, <1>5, NatSteps
<1>. QED
  BY <1>1, <1>2, <1>3, <1>6

\* All that is to be kept goes to the end.
LEMMA RetainConcat ==
  ASSUME NEW X, NEW q \in Seq(X), NEW r \in Seq(X), NEW S, \A i \in 1 .. Len(r) : r[i] \in S
  PROVE  Retain(q \o r, S) = Retain(q, S) \o r
<1>. DEFINE upTo(n) == SubSeq(r, 1, n)
            T == {n \in Nat : n <= Len(r) => Retain(q \o upTo(n), S) = Retain(q, S) \o upTo(n)}
<1>1. Len(r) \in Nat /\ Retain(q, S) \in Seq(X) /\ \A i \in 1 .. Len(r) : r[i] \in X
  BY RetainFacts
<1>2. 0 \in T
  <2>1. upTo(0) = << >> /\ q \o << >> = q /\ Retain(q, S) \o << >> = Retain(q, S)
    BY <1>1
  <2>. QED
    BY <2>1
<1>3. ASSUME NEW n \in Nat, n \in T
      PROVE  n + 1 \in T
  <2>. SUFFICES ASSUME n + 1 <= Len(r)
                PROVE  Retain(q \o upTo(n + 1), S) = Retain(q, S) \o upTo(n + 1)
    OBVIOUS
  <2>. DEFINE x == r[n + 1]
              u == upTo(n)
              k == Retain(q, S)
  <2>1. upTo(n + 1) = Append(u, x) /\ u \in Seq(X) /\ x \in X /\ x \in S
    BY <1>1
  <2>2. Retain(q \o u, S) = k \o u /\ k \in Seq(X)
    BY <1>1, <1>3
  <2>. HIDE DEF upTo, u, x, k
  <2>3. q \o Append(u, x) = Append(q \o u, x) /\ k \o Append(u, x) = Append(k \o u, x) /\ q \o u \in Seq(X)
    <3>1. q \o Append(u, x) = Append(q \o u, x)
      BY <2>1
    <3>2. k \o Append(u, x) = Append(k \o u, x)
      BY <2>1, <2>2
    <3>3. q \o u \in Seq(X)
      BY <2>1
    <3>. QED
      BY <3>1, <3>2, <3>3
  <2>4. Retain(Append(q \o u, x), S) = Append(Retain(q \o u, S), x)
    BY <2>1, <2>3, RetainAppend
  <2>. QED
    BY <2>1, <2>2, <2>3, <2>4 DEF k
<1>4. Len(r) \in T
  <2>. HIDE DEF T
  <2>. QED
    BY <1>1, <1>2, <1>3, NatSteps
<1>5. upTo(Len(r)) = r
  BY <1>1
<1>. HIDE DEF upTo
<1>6. Retain(q \o upTo(Len(r)), S) = Retain(q, S) \o upTo(Len(r))
  BY <1>1, <1>4
<1>. QED
  BY <1>5, <1>6

\* swap_remove takes out one element and no other.
LEMMA SwapRemoveFacts ==
  ASSUME NEW X, NEW q \in Seq(X), NEW i \in 1 .. Len(q)
  PROVE  /\ SwapRemove(q, i) \in Seq(X)
         /\ Len(SwapRemove(q, i)) = Len(q) - 1
         /\ IsInjective(q) => /\ IsInjective(SwapRemove(q, i))
                              /\ Range(SwapRemove(q, i)) = Range(q) \ {q[i]}
<1>. DEFINE n == Len(q)
            r == SwapRemove(q, i)
<1>1. n \in Nat /\ n > 0 /\ DOMAIN q = 1 .. n /\ Last(q) = q[n] /\ \A j \in 1 .. n : q[j] \in X
      /\ i \in 1 .. n
  BY DEF Last
<1>2. /\ r \in Seq(X) /\ Len(r) = n - 1 /\ DOMAIN r = 1 .. n - 1
      /\ \A j \in 1 .. n - 1 : r[j] = IF j = i THEN q[n] ELSE q[j]
  <2>. DEFINE p == [q EXCEPT ![i] = Last(q)]
  <2>1. p \in Seq(X) /\ Len(p) = n /\ \A j \in 1 .. n : p[j] = IF j = i THEN q[n] ELSE q[j]
    BY <1>1
  <2>. HIDE DEF p
  <2>2. r = SubSeq(p, 1, n - 1)
    BY DEF SwapRemove, p
  <2>. QED
    BY <1>1, <2>1, <2>2
<1>. HIDE DEF r, n
<1>3. ASSUME IsInjective(q)
      PROVE  IsInjective(r) /\ Range(r) = Range(q) \ {q[i]}
  <2>1. \A j, k \in 1 .. n : q[j] = q[k] => j = k
    BY <1>1, <1>3 DEF IsInjective
  <2>2. \A j \in 1 .. n - 1 : j \in 1 .. n /\ j # n
    BY <1>1
  <2>3. IsInjective(r)
    BY <1>1, <1>2, <2>1, <2>2 DEF IsInjective
  <2>4. ASSUME NEW x \in Range(r)
        PROVE  x \in Range(q) \ {q[i]}
    <3>1. PICK j \in 1 .. n - 1 : x = r[j]
      BY <1>2, <2>4 DEF Range
    <3>. QED
      BY <1>1, <1>2, <2>1, <2>2, <3>1 DEF Range
  <2>5. ASSUME NEW x \in Range(q) \ {q[i]}
        PROVE  x \in Range(r)
    <3>1. PICK j \in 1 .. n : x = q[j]
      BY <1>1, <2>5 DEF Range
    <3>2. j # i
      BY <2>5, <3>1
    <3>3. CASE j = n
      <4>1. i \in 1 .. n - 1 /\ r[i] = x
        BY <1>1, <1>2, <3>1, <3>2, <3>3
      <4>. QED
        BY <1>2, <4>1 DEF Range
    <3>4. CASE j # n
      <4>1. j \in 1 .. n - 1 /\ r[j] = x
        BY <1>1, <1>2, <3>1, <3>2, <3>4
      <4>. QED
        BY <1>2, <4>1 DEF Range
    <3>. QED
      BY <3>3, <3>4
  <2>. QED
    BY <2>3, <2>4, <2>5
<1>. QED
  BY <1>2, <1>3 DEF r, n

LEMMA LeastOf ==
  ASSUME NEW S, S \subseteq Nat, S # {}
  PROVE  Min(S) \in S /\ \A x \in S : Min(S) <= x
<1>1. \E x \in S : \A y \in S : x <= y
  BY NatLeast
<1>. QED
  BY <1>1 DEF Min

LEMMA GreatestOf ==
  ASSUME NEW S, NEW b \in Int, S \subseteq Int, S # {}, \A x \in S : x <= b
  PROVE  Max(S) \in S /\ \A x \in S : Max(S) >= x
<1>. DEFINE R == {b - x : x \in S}
<1>1. R \subseteq Nat /\ R # {}
  <2>1. \A x \in S : b - x \in Nat
    OBVIOUS
  <2>. QED
    BY <2>1
<1>2. PICK r \in R : \A y \in R : r <= y
  <2>. HIDE DEF R
  <2>. QED
    BY <1>1, NatLeast
<1>3. PICK x \in S : r = b - x
  BY <1>2
<1>4. \A y \in S : x >= y
  <2>. TAKE y \in S
  <2>1. b - y \in R
    OBVIOUS
  <2>2. b - x <= b - y /\ x \in Int /\ y \in Int
    BY <1>2, <1>3, <2>1
  <2>. QED
    BY <2>2
<1>. QED
  BY <1>4 DEF Max


LEMMA MinOfTwo ==
  ASSUME NEW a \in Int, NEW b \in Int
  PROVE  Min({a, b}) = IF a <= b THEN a ELSE b
<1>. DEFINE T == {a, b}
<1>1. \E x \in T : \A y \in T : x <= y
  OBVIOUS
<1>2. Min(T) \in T /\ \A y \in T : Min(T) <= y
  <2>. HIDE DEF T
  <2>. QED
    BY <1>1 DEF Min
<1>. QED
  BY <1>2

LEMMA MaxOfTwo ==
  ASSUME NEW a \in Int, NEW b \in Int
  PROVE  Max({a, b}) = IF a >= b THEN a ELSE b
<1>. DEFINE T == {a, b}
<1>1. \E x \in T : \A y \in T : x >= y
  OBVIOUS
<1>2. Max(T) \in T /\ \A y \in T : Max(T) >= y
  <2>. HIDE DEF T
  <2>. QED
    BY <1>1 DEF Max
<1>. QED
  BY <1>2

---------------------------------------------------------------------------
(* The product of a shape.                                                 *)

\* What upTo computes is what its definition says.
LEMMA ProductDef ==
  ASSUME NEW q, Len(q) \in Nat
  PROVE  \E f : /\ Product(q) = f[Len(q)]
                /\ \A a \in 0 .. Len(q) : f[a] = IF a = 0 THEN 1 ELSE f[a - 1] * q[a]
<1>. DEFINE Def(f, n) == f = [a \in 0 .. n |-> IF a = 0 THEN 1 ELSE f[a - 1] * q[a]]
            T == {n \in Nat : \E f : Def(f, n)}
<1>1. 0 \in T
  <2>1. Def([a \in 0 .. 0 |-> 1], 0)
    OBVIOUS
  <2>. QED
    BY <2>1
<1>2. ASSUME NEW n \in Nat, n \in T
      PROVE  n + 1 \in T
  <2>1. PICK f : Def(f, n)
    BY <1>2
  <2>. DEFINE g == [a \in 0 .. n + 1 |-> IF a = n + 1 THEN f[n] * q[a] ELSE f[a]]
  <2>2. \A a \in 0 .. n + 1 : g[a] = IF a = 0 THEN 1 ELSE g[a - 1] * q[a]
    <3>1. \A a \in 0 .. n : f[a] = IF a = 0 THEN 1 ELSE f[a - 1] * q[a]
      BY <2>1
    <3>. HIDE DEF Def
    <3>2. \A a \in 0 .. n : g[a] = f[a]
      OBVIOUS
    <3>. TAKE a \in 0 .. n + 1
    <3>3. CASE a = 0
      BY <3>1, <3>2, <3>3
    <3>4. CASE a \in 1 .. n
      BY <3>1, <3>2, <3>4
    <3>5. CASE a = n + 1
      BY <3>2, <3>5
    <3>. QED
      BY <3>3, <3>4, <3>5
  <2>3. DOMAIN g = 0 .. n + 1 /\ g = [a \in DOMAIN g |-> g[a]]
    OBVIOUS
  <2>. HIDE DEF g
  <2>4. Def(g, n + 1)
    BY <2>2, <2>3
  <2>. QED
    BY SMTT(30), <2>4
<1>. HIDE DEF Def
<1>3. \E f : Def(f, Len(q))
  <2>1. Nat \subseteq T
    <3>. HIDE DEF T
    <3>. QED
      BY <1>1, <1>2, NatSteps
  <2>. QED
    BY <2>1
<1>. DEFINE h == CHOOSE f : Def(f, Len(q))
<1>4. Def(h, Len(q))
  BY <1>3
<1>5. Product(q) = h[Len(q)]
  BY DEF Product, Def
<1>. HIDE DEF h
<1>. QED
  BY <1>4, <1>5 DEF Def

\* One axis more is one factor more.
LEMMA ProductAppend ==
  ASSUME NEW q \in Seq(Nat), NEW x \in Nat
  PROVE  Product(Append(q, x)) = Product(q) * x
<1>. DEFINE r == Append(q, x)
<1>1. /\ Len(q) \in Nat /\ Len(r) = Len(q) + 1 /\ Len(r) \in Nat
      /\ \A i \in 1 .. Len(q) : r[i] = q[i]
      /\ r[Len(r)] = x
  OBVIOUS
<1>. HIDE DEF r
<1>2. PICK f : /\ Product(q) = f[Len(q)]
               /\ \A a \in 0 .. Len(q) : f[a] = IF a = 0 THEN 1 ELSE f[a - 1] * q[a]
  BY <1>1, ProductDef
<1>3. PICK g : /\ Product(r) = g[Len(r)]
               /\ \A a \in 0 .. Len(r) : g[a] = IF a = 0 THEN 1 ELSE g[a - 1] * r[a]
  BY <1>1, ProductDef
<1>. DEFINE T == {n \in Nat : n <= Len(q) => f[n] = g[n]}
<1>4. 0 \in T
  BY <1>1, <1>2, <1>3
<1>5. ASSUME NEW n \in Nat, n \in T
      PROVE  n + 1 \in T
  <2>. SUFFICES ASSUME n + 1 <= Len(q)
                PROVE  f[n + 1] = g[n + 1]
    OBVIOUS
  <2>1. f[n] = g[n] /\ n + 1 \in 1 .. Len(q) /\ n + 1 \in 0 .. Len(r) /\ (n + 1) - 1 = n /\ n + 1 # 0
    BY <1>1, <1>5
  <2>2. f[n + 1] = f[n] * q[n + 1] /\ g[n + 1] = g[n] * r[n + 1]
    BY <1>2, <1>3, <2>1
  <2>. QED
    BY <1>1, <2>1, <2>2
<1>6. f[Len(q)] = g[Len(q)]
  <2>1. Nat \subseteq T
    <3>. HIDE DEF T
    <3>. QED
      BY <1>4, <1>5, NatSteps
  <2>. QED
    BY <1>1, <2>1
<1>7. g[Len(r)] = g[Len(q)] * x
  <2>1. Len(r) \in 0 .. Len(r) /\ Len(r) # 0 /\ Len(r) - 1 = Len(q)
    BY <1>1
  <2>. QED
    BY <1>1, <1>3, <2>1
<1>. QED
  BY <1>2, <1>3, <1>6, <1>7 DEF r

\* An array is empty exactly when one of its axes is.
LEMMA ProductFacts ==
  /\ Product(<< >>) = 1
  /\ \A q \in Seq(Nat) : /\ Product(q) \in Nat
                         /\ Product(q) = 0 <=> \E a \in 1 .. Len(q) : q[a] = 0
<1>1. Product(<< >>) = 1
  <2>1. Len(<< >>) = 0 /\ 0 \in 0 .. 0
    OBVIOUS
  <2>. QED
    BY <2>1, ProductDef
<1>2. ASSUME NEW q \in Seq(Nat)
      PROVE  Product(q) \in Nat /\ (Product(q) = 0 <=> \E a \in 1 .. Len(q) : q[a] = 0)
  <2>1. Len(q) \in Nat /\ \A a \in 1 .. Len(q) : q[a] \in Nat
    OBVIOUS
  <2>2. PICK f : /\ Product(q) = f[Len(q)]
                 /\ \A a \in 0 .. Len(q) : f[a] = IF a = 0 THEN 1 ELSE f[a - 1] * q[a]
    BY <2>1, ProductDef
  <2>. DEFINE Good(n) == f[n] \in Nat /\ (f[n] = 0 <=> \E a \in 1 .. n : q[a] = 0)
              T == {n \in Nat : n <= Len(q) => Good(n)}
  <2>3. 0 \in T
    BY <2>1, <2>2
  <2>4. ASSUME NEW n \in Nat, n \in T
        PROVE  n + 1 \in T
    <3>. SUFFICES ASSUME n + 1 <= Len(q)
                  PROVE  Good(n + 1)
      OBVIOUS
    <3>1. Good(n) /\ n + 1 \in 1 .. Len(q) /\ (n + 1) - 1 = n /\ n + 1 # 0 /\ q[n + 1] \in Nat
      BY <2>1, <2>4
    <3>2. f[n + 1] = f[n] * q[n + 1]
      BY <2>2, <3>1
    <3>3. f[n + 1] \in Nat /\ (f[n + 1] = 0 <=> f[n] = 0 \/ q[n + 1] = 0)
      <4>. DEFINE y == f[n]
                  z == q[n + 1]
      <4>1. y \in Nat /\ z \in Nat
        BY <3>1
      <4>. HIDE DEF y, z
      <4>2. y * z \in Nat /\ (y * z = 0 <=> y = 0 \/ z = 0)
        BY <4>1
      <4>. QED
        BY <3>2, <4>2 DEF y, z
    <3>4. (\E a \in 1 .. n + 1 : q[a] = 0) <=> (\E a \in 1 .. n : q[a] = 0) \/ q[n + 1] = 0
      <4>1. \A a : a \in 1 .. n + 1 <=> a \in 1 .. n \/ a = n + 1
        OBVIOUS
      <4>. QED
        BY <4>1
    <3>. QED
      BY <3>1, <3>3, <3>4
  <2>5. Len(q) \in T
    <3>. HIDE DEF T
    <3>. QED
      BY <2>1, <2>3, <2>4, NatSteps
  <2>. QED
    BY <2>1, <2>2, <2>5
<1>. QED
  BY <1>1, <1>2

---------------------------------------------------------------------------
(* Quotients and remainders.                                               *)

LEMMA Division ==
  ASSUME NEW n \in Nat, NEW d \in Nat \ {0}
  PROVE  n \div d \in Nat /\ (n \div d) * d <= n /\ n < (n \div d) * d + d
OBVIOUS

\* n is a whole number of d.
IsMultiple(n, d) == \E k \in Int : n = k * d

LEMMA MultipleIs ==
  ASSUME NEW n \in Int, NEW d \in Nat \ {0}
  PROVE  n % d = 0 <=> IsMultiple(n, d)
<1>1. n - (n % d) = (n \div d) * d /\ n \div d \in Int /\ n % d \in 0 .. d - 1 /\ (n \div d) * d \in Int
  OBVIOUS
<1>2. ASSUME n % d = 0
      PROVE  IsMultiple(n, d)
  <2>. DEFINE q == n \div d
  <2>1. n - 0 = q * d /\ q \in Int
    BY <1>1, <1>2
  <2>. HIDE DEF q
  <2>. QED
    BY <2>1 DEF IsMultiple
<1>3. ASSUME NEW k \in Int, n = k * d
      PROVE  n % d = 0
  <2>. DEFINE q == n \div d
  <2>1. q \in Int /\ q * d <= n /\ n < q * d + d
    BY <1>1
  <2>. HIDE DEF q
  <2>2. q = k
    <3>1. (k - q) * d < d /\ (k - q) * d >= 0
      BY <2>1, <1>3
    <3>. DEFINE r == k - q
    <3>2. r \in Int
      BY <2>1
    <3>. HIDE DEF r
    <3>3. r >= 1 => r * d >= d
      BY <3>2
    <3>4. r <= -1 => r * d <= -d
      BY <3>2
    <3>5. r * d < d /\ r * d >= 0
      BY <3>1 DEF r
    <3>6. r = 0
      BY <3>2, <3>3, <3>4, <3>5
    <3>. QED
      BY <2>1, <3>6 DEF r
  <2>. QED
    BY <1>1, <1>3, <2>2 DEF q
<1>. QED
  BY <1>2, <1>3 DEF IsMultiple

LEMMA MultiplesAdd ==
  ASSUME NEW d \in Int, NEW m \in Int, NEW n \in Int, IsMultiple(m, d), IsMultiple(n, d)
  PROVE  IsMultiple(m + n, d) /\ IsMultiple(m - n, d) /\ \A k \in Int : IsMultiple(k * m, d)
<1>1. PICK i \in Int : m = i * d
  BY DEF IsMultiple
<1>2. PICK j \in Int : n = j * d
  BY DEF IsMultiple
<1>3. m + n = (i + j) * d /\ i + j \in Int
  BY <1>1, <1>2
<1>4. m - n = (i - j) * d /\ i - j \in Int
  BY <1>1, <1>2
<1>5. \A k \in Int : k * m = (k * i) * d /\ k * i \in Int
  BY <1>1
<1>. QED
  BY <1>3, <1>4, <1>5 DEF IsMultiple

\* The remainder taken away leaves a multiple.
LEMMA RoundDown ==
  ASSUME NEW n \in Int, NEW d \in Nat \ {0}
  PROVE  n % d \in 0 .. d - 1 /\ IsMultiple(n - (n % d), d)
<1>1. n - (n % d) = (n \div d) * d /\ n \div d \in Int /\ n % d \in 0 .. d - 1
  OBVIOUS
<1>. QED
  BY <1>1 DEF IsMultiple

\* Dividing what divides evenly.
LEMMA DivideEvenly ==
  ASSUME NEW n \in Nat, NEW d \in Nat \ {0}, n % d = 0
  PROVE  n \div d \in Nat /\ n = (n \div d) * d /\ (n # 0 => n \div d \in Nat \ {0})
<1>. DEFINE q == n \div d
<1>1. n - (n % d) = q * d /\ q \in Nat
  OBVIOUS
<1>2. n = q * d
  BY <1>1
<1>. HIDE DEF q
<1>3. q = 0 => q * d = 0
  OBVIOUS
<1>. QED
  BY <1>1, <1>2, <1>3 DEF q

\* The quotient and the remainder are the only ones.
LEMMA DivisionUnique ==
  ASSUME NEW n \in Int, NEW d \in Nat \ {0}, NEW q \in Int, q * d <= n, n < q * d + d
  PROVE  n \div d = q /\ n % d = n - q * d
<1>. DEFINE p == n \div d
<1>1. n - (n % d) = p * d /\ p \in Int /\ n % d \in 0 .. d - 1 /\ p * d \in Int
  OBVIOUS
<1>2. p * d <= n /\ n < p * d + d
  BY <1>1
<1>. HIDE DEF p
<1>. DEFINE r == p - q
<1>3. r * d < d /\ r * d > -d /\ r \in Int
  BY <1>1, <1>2
<1>. HIDE DEF r
<1>4. r >= 1 => r * d >= d
  BY <1>3
<1>5. r <= -1 => r * d <= -d
  BY <1>3
<1>6. r = 0
  BY <1>3, <1>4, <1>5
<1>7. p = q
  BY <1>1, <1>6 DEF r
<1>. QED
  BY <1>1, <1>7 DEF p

\* One more, where the remainder has room for it.
LEMMA OneFurther ==
  ASSUME NEW n \in Nat, NEW d \in Nat \ {0}, (n % d) + 1 < d
  PROVE  (n + 1) % d = (n % d) + 1 /\ (n + 1) \div d = n \div d
<1>. DEFINE q == n \div d
            r == n % d
<1>1. n - r = q * d /\ q \in Int /\ r \in 0 .. d - 1 /\ q * d \in Int /\ r + 1 < d
  OBVIOUS
<1>. HIDE DEF q, r
<1>2. q * d <= n + 1 /\ n + 1 < q * d + d
  BY <1>1
<1>3. (n + 1) \div d = q /\ (n + 1) % d = n + 1 - q * d
  BY <1>1, <1>2, DivisionUnique
<1>. QED
  BY <1>1, <1>3 DEF q, r

\* Multiples of the divisor change the quotient alone.
LEMMA ShiftDivision ==
  ASSUME NEW n \in Int, NEW d \in Nat \ {0}, NEW k \in Int
  PROVE  (n + k * d) \div d = n \div d + k /\ (n + k * d) % d = n % d
<1>. DEFINE q == n \div d
            r == n % d
            m == n + k * d
<1>1. n - r = q * d /\ q \in Int /\ r \in 0 .. d - 1 /\ q * d \in Int /\ k * d \in Int
  OBVIOUS
<1>. HIDE DEF q, r
<1>2. (q + k) * d = q * d + k * d /\ q + k \in Int
  BY <1>1
<1>3. m \in Int /\ (q + k) * d <= m /\ m < (q + k) * d + d /\ m - (q + k) * d = r
  BY <1>1, <1>2
<1>. HIDE DEF m
<1>4. m \div d = q + k /\ m % d = m - (q + k) * d
  BY <1>2, <1>3, DivisionUnique
<1>. QED
  BY <1>3, <1>4 DEF q, r, m

\* Dividing by a product is dividing by one factor after the other.
LEMMA DivideTwice ==
  ASSUME NEW n \in Nat, NEW a \in Nat \ {0}, NEW b \in Nat \ {0}
  PROVE  n \div (a * b) = (n \div b) \div a
<1>. DEFINE m == n \div b
            q == m \div a
<1>1. m \in Nat /\ m * b <= n /\ n < m * b + b
  BY Division
<1>. HIDE DEF m
<1>2. q \in Nat /\ q * a <= m /\ m < q * a + a
  BY <1>1, Division
<1>. HIDE DEF q
<1>3. (q * a) * b <= m * b
  <2>. DEFINE x == q * a
  <2>1. x \in Nat /\ x <= m
    BY <1>1, <1>2
  <2>. HIDE DEF x
  <2>2. x * b <= m * b
    BY <1>1, <2>1
  <2>. QED
    BY <2>2 DEF x
<1>4. (m + 1) * b <= (q * a + a) * b
  <2>. DEFINE x == q * a + a
  <2>1. x \in Nat /\ m + 1 <= x
    BY <1>1, <1>2
  <2>. HIDE DEF x
  <2>2. (m + 1) * b <= x * b
    BY <1>1, <2>1
  <2>. QED
    BY <2>2 DEF x
<1>5. (q * a) * b = q * (a * b) /\ (q * a + a) * b = q * (a * b) + a * b /\ (m + 1) * b = m * b + b
  BY <1>1, <1>2
<1>. DEFINE d == a * b
<1>6. d \in Nat \ {0}
  OBVIOUS
<1>7. q * d <= n /\ n < q * d + d
  <2>1. m * b \in Nat /\ q * d \in Nat
    BY <1>1, <1>2, <1>6
  <2>2. q * d <= m * b /\ m * b + b <= q * d + d
    BY <1>3, <1>4, <1>5
  <2>. HIDE DEF d
  <2>. QED
    BY <1>1, <1>6, <2>1, <2>2
<1>. HIDE DEF d
<1>8. n \div d = q
  <2>1. n \in Int /\ q \in Int
    BY <1>2
  <2>. QED
    BY <1>6, <1>7, <2>1, DivisionUnique
<1>. QED
  BY <1>8 DEF q, m, d

---------------------------------------------------------------------------
(* The strides of a shape.                                                 *)

LEMMA SmallAppends ==
  ASSUME NEW a \in Nat, NEW b \in Nat, NEW c \in Nat
  PROVE  /\ << >> \in Seq(Nat) /\ <<a>> \in Seq(Nat) /\ <<a, b>> \in Seq(Nat)
         /\ <<a>> = Append(<< >>, a) /\ <<a, b>> = Append(<<a>>, b) /\ <<a, b, c>> = Append(<<a, b>>, c)
OBVIOUS

LEMMA SmallProducts ==
  ASSUME NEW a \in Nat, NEW b \in Nat, NEW c \in Nat
  PROVE  Product(<<a>>) = a /\ Product(<<a, b>>) = a * b /\ Product(<<a, b, c>>) = a * b * c
<1>1. /\ << >> \in Seq(Nat) /\ <<a>> \in Seq(Nat) /\ <<a, b>> \in Seq(Nat)
      /\ <<a>> = Append(<< >>, a) /\ <<a, b>> = Append(<<a>>, b) /\ <<a, b, c>> = Append(<<a, b>>, c)
  BY SmallAppends
<1>2. Product(<<a>>) = 1 * a
  BY <1>1, ProductAppend, ProductFacts
<1>3. Product(<<a, b>>) = Product(<<a>>) * b
  BY <1>1, ProductAppend
<1>4. Product(<<a, b, c>>) = Product(<<a, b>>) * c
  BY <1>1, ProductAppend
<1>. QED
  BY <1>2, <1>3, <1>4

LEMMA ProductConcat ==
  ASSUME NEW p \in Seq(Nat), NEW q \in Seq(Nat)
  PROVE  Product(p \o q) = Product(p) * Product(q)
<1>. DEFINE r == p \o q
            lp == Len(p)
            lq == Len(q)
<1>1. /\ lp \in Nat /\ lq \in Nat /\ Len(r) = lp + lq /\ Len(r) \in Nat
      /\ \A i \in 1 .. lp : r[i] = p[i] /\ p[i] \in Nat
      /\ \A i \in 1 .. lq : r[lp + i] = q[i] /\ q[i] \in Nat
  OBVIOUS
<1>2. PICK f : Product(p) = f[lp] /\ \A a \in 0 .. lp : f[a] = IF a = 0 THEN 1 ELSE f[a - 1] * p[a]
  BY <1>1, ProductDef
<1>3. PICK g : Product(q) = g[lq] /\ \A a \in 0 .. lq : g[a] = IF a = 0 THEN 1 ELSE g[a - 1] * q[a]
  BY <1>1, ProductDef
<1>4. PICK h : Product(r) = h[Len(r)] /\ \A a \in 0 .. Len(r) : h[a] = IF a = 0 THEN 1 ELSE h[a - 1] * r[a]
  BY <1>1, ProductDef
<1>. HIDE DEF r, lp, lq
<1>. DEFINE T == {n \in Nat : n <= lp => h[n] = f[n] /\ f[n] \in Nat}
            U == {n \in Nat : n <= lq => h[lp + n] = f[lp] * g[n] /\ g[n] \in Nat}
<1>5. 0 \in T
  BY <1>1, <1>2, <1>4
<1>6. ASSUME NEW n \in Nat, n \in T
      PROVE  n + 1 \in T
  <2>. SUFFICES ASSUME n + 1 <= lp
                PROVE  h[n + 1] = f[n + 1] /\ f[n + 1] \in Nat
    OBVIOUS
  <2>1. /\ h[n] = f[n] /\ f[n] \in Nat /\ n + 1 \in 1 .. lp /\ n + 1 \in 0 .. lp /\ n + 1 \in 0 .. Len(r)
        /\ (n + 1) - 1 = n /\ n + 1 # 0
    BY <1>1, <1>6
  <2>2. f[n + 1] = f[n] * p[n + 1] /\ h[n + 1] = h[n] * r[n + 1]
    BY <1>2, <1>4, <2>1
  <2>. QED
    BY <1>1, <2>1, <2>2
<1>7. Nat \subseteq T
  <2>. HIDE DEF T
  <2>. QED
    BY <1>5, <1>6, NatSteps
<1>8. h[lp] = f[lp] /\ f[lp] \in Nat
  BY <1>1, <1>7
<1>9. 0 \in U
  <2>1. g[0] = 1 /\ lp + 0 = lp
    BY <1>1, <1>3
  <2>. QED
    BY <1>8, <2>1
<1>10. ASSUME NEW n \in Nat, n \in U
       PROVE  n + 1 \in U
  <2>. SUFFICES ASSUME n + 1 <= lq
                PROVE  h[lp + (n + 1)] = f[lp] * g[n + 1] /\ g[n + 1] \in Nat
    OBVIOUS
  <2>1. /\ h[lp + n] = f[lp] * g[n] /\ g[n] \in Nat /\ n + 1 \in 1 .. lq /\ n + 1 \in 0 .. lq
        /\ lp + (n + 1) \in 0 .. Len(r) /\ (lp + (n + 1)) - 1 = lp + n /\ lp + (n + 1) # 0
        /\ (n + 1) - 1 = n /\ n + 1 # 0
    BY <1>1, <1>10
  <2>2. g[n + 1] = g[n] * q[n + 1] /\ h[lp + (n + 1)] = h[lp + n] * r[lp + (n + 1)] /\ r[lp + (n + 1)] = q[n + 1] /\ q[n + 1] \in Nat
    BY <1>1, <1>3, <1>4, <2>1
  <2>. DEFINE x == f[lp]
              y == g[n]
              z == q[n + 1]
  <2>3. x \in Nat /\ y \in Nat /\ z \in Nat /\ h[lp + (n + 1)] = (x * y) * z /\ g[n + 1] = y * z
    BY <1>8, <2>1, <2>2
  <2>. HIDE DEF x, y, z
  <2>4. (x * y) * z = x * (y * z) /\ y * z \in Nat
    BY <2>3
  <2>. QED
    BY <2>3, <2>4 DEF x
<1>11. Nat \subseteq U
  <2>. HIDE DEF U
  <2>. QED
    BY <1>9, <1>10, NatSteps
<1>12. h[lp + lq] = f[lp] * g[lq]
  BY <1>1, <1>11
<1>. QED
  BY <1>1, <1>2, <1>3, <1>4, <1>12 DEF r

\* The stride of an axis is that of any later one, times what is between.
LEMMA StrideSplit ==
  ASSUME NEW q \in Seq(Nat), \A a \in DOMAIN q : q[a] # 0, NEW x \in DOMAIN q
  PROVE  /\ Stride(q, x) \in Nat \ {0}
         /\ \A a \in DOMAIN q : a < x => \E k \in Nat \ {0} : Stride(q, a) = k * (q[x] * Stride(q, x))
<1>. DEFINE n == Len(q)
            part(b, c) == SubSeq(q, b, c)
<1>1. n \in Nat /\ DOMAIN q = 1 .. n /\ \A a \in 1 .. n : q[a] \in Nat \ {0}
  OBVIOUS
<1>2. ASSUME NEW b \in Nat \ {0}, NEW c \in 0 .. n
      PROVE  part(b, c) \in Seq(Nat) /\ Product(part(b, c)) \in Nat \ {0}
  <2>. DEFINE r == part(b, c)
  <2>0. \A i \in b .. c : q[i] \in Nat \ {0}
    BY <1>1
  <2>1. r \in Seq(Nat) /\ r \in Seq(Nat \ {0})
    BY <1>1, <2>0, SubSeqProperties
  <2>. HIDE DEF r
  <2>2. \A i \in 1 .. Len(r) : r[i] # 0
    BY <2>1
  <2>3. Product(r) \in Nat /\ Product(r) # 0
    BY <2>1, <2>2, ProductFacts
  <2>. QED
    BY <2>1, <2>3 DEF r
<1>3. Stride(q, x) = Product(part(x + 1, n)) /\ part(x + 1, n) \in Seq(Nat) /\ Stride(q, x) \in Nat \ {0}
  <2>1. x + 1 \in Nat \ {0} /\ n \in 0 .. n
    BY <1>1
  <2>. QED
    BY <1>2, <2>1 DEF Stride
<1>4. ASSUME NEW a \in DOMAIN q, a < x
      PROVE  \E k \in Nat \ {0} : Stride(q, a) = k * (q[x] * Stride(q, x))
  <2>. DEFINE mid == part(a + 1, x - 1)
              rest == part(x, n)
              one == <<q[x]>>
  <2>1. /\ mid \in Seq(Nat) /\ Product(mid) \in Nat \ {0} /\ rest \in Seq(Nat)
    <3>1. a + 1 \in Nat \ {0} /\ x \in Nat \ {0} /\ x - 1 \in 0 .. n /\ n \in 0 .. n
      BY <1>1, <1>4
    <3>. HIDE DEF part
    <3>. QED
      BY <1>2, <3>1
  <2>2. one \in Seq(Nat) /\ Product(one) = q[x]
    <3>1. q[x] \in Nat
      BY <1>1
    <3>. QED
      BY <3>1, SmallProducts, SmallAppends
  <2>3. rest = one \o part(x + 1, n)
    <3>1. x \in 1 .. Len(q) /\ Len(q) \in x .. Len(q)
      BY <1>1
    <3>. QED
      BY <3>1, SubSeqRecursiveFirst
  <2>4. part(a + 1, n) = mid \o rest
    <3>. DEFINE b == a + 1
                c == x - 1
    <3>1. b \in 1 .. Len(q) + 1 /\ c \in b - 1 .. Len(q) /\ Len(q) \in c .. Len(q) /\ c + 1 = x
      BY <1>1, <1>4
    <3>. HIDE DEF b, c
    <3>2. SubSeq(q, b, c) \o SubSeq(q, c + 1, Len(q)) = SubSeq(q, b, Len(q))
      BY <3>1, ConcatAdjacentSubSeq
    <3>. QED
      BY <3>1, <3>2 DEF b, c
  <2>5. Stride(q, a) = Product(part(a + 1, n))
    BY DEF Stride
  <2>. HIDE DEF mid, rest, part, one
  <2>6. Product(rest) = q[x] * Stride(q, x)
    BY <1>3, <2>2, <2>3, ProductConcat
  <2>7. Stride(q, a) = Product(mid) * (q[x] * Stride(q, x))
    BY <2>1, <2>4, <2>5, <2>6, ProductConcat
  <2>. QED
    BY <2>1, <2>7
<1>. QED
  BY <1>3, <1>4

\* From one axis to the one before.
LEMMA StrideStep ==
  ASSUME NEW q \in Seq(Nat)
  PROVE  /\ Stride(q, 0) = Product(q) /\ Stride(q, Len(q)) = 1
         /\ \A m \in 0 .. Len(q) - 1 : /\ Stride(q, m) = q[m + 1] * Stride(q, m + 1)
                                       /\ Stride(q, m) \in Nat /\ Stride(q, m + 1) \in Nat
<1>1. SubSeq(q, 0 + 1, Len(q)) = q /\ SubSeq(q, Len(q) + 1, Len(q)) = << >>
  OBVIOUS
<1>2. Stride(q, 0) = Product(q) /\ Stride(q, Len(q)) = 1
  BY <1>1, ProductFacts DEF Stride
<1>3. ASSUME NEW m \in 0 .. Len(q) - 1
      PROVE  /\ Stride(q, m) = q[m + 1] * Stride(q, m + 1)
             /\ Stride(q, m) \in Nat /\ Stride(q, m + 1) \in Nat
  <2>. DEFINE x == q[m + 1]
              t == SubSeq(q, (m + 1) + 1, Len(q))
              s == SubSeq(q, m + 1, Len(q))
  <2>1. x \in Nat /\ t \in Seq(Nat) /\ s \in Seq(Nat) /\ <<x>> \in Seq(Nat)
    OBVIOUS
  <2>2. s = <<x>> \o t
    OBVIOUS
  <2>3. Stride(q, m) = Product(s) /\ Stride(q, m + 1) = Product(t)
    BY DEF Stride
  <2>. HIDE DEF x, t, s
  <2>4. Product(<<x>>) = x
    BY <2>1, SmallProducts
  <2>5. Product(<<x>> \o t) = Product(<<x>>) * Product(t)
    BY <2>1, ProductConcat
  <2>6. Product(s) = x * Product(t) /\ Product(s) \in Nat /\ Product(t) \in Nat
    BY <2>1, <2>2, <2>4, <2>5, ProductFacts
  <2>. QED
    BY <2>3, <2>6 DEF x
<1>. QED
  BY <1>2, <1>3

LEMMA LastStrides ==
  ASSUME NEW q \in Seq(Nat), q # << >>
  PROVE  /\ Stride(q, Len(q)) = 1
         /\ Len(q) >= 2 => Stride(q, Len(q) - 1) = q[Len(q)]
<1>. DEFINE n == Len(q)
<1>1. n \in Nat \ {0} /\ q[n] \in Nat
  <2>1. n \in Nat \ {0} /\ n \in DOMAIN q
    OBVIOUS
  <2>. QED
    BY <2>1
<1>2. SubSeq(q, n + 1, n) = << >>
  <2>1. n + 1 \in Int /\ n \in Int /\ n < n + 1
    BY <1>1
  <2>. QED
    BY <2>1, SubSeqEmpty
<1>3. Stride(q, n) = 1
  BY <1>2, ProductFacts DEF Stride
<1>4. Stride(q, n - 1) = q[n]
  <2>1. (n - 1) + 1 = n /\ n \in 1 .. Len(q) /\ n \in n .. Len(q)
    BY <1>1
  <2>2. SubSeq(q, n, n) = <<q[n]>> \o SubSeq(q, n + 1, n)
    BY <2>1, SubSeqRecursiveFirst
  <2>3. <<q[n]>> \in Seq(Nat) /\ << >> \in Seq(Nat) /\ Product(<<q[n]>>) = q[n]
    BY <1>1, SmallProducts, SmallAppends
  <2>4. Product(SubSeq(q, n, n)) = q[n] * 1
    <3>1. Product(<<q[n]>> \o << >>) = Product(<<q[n]>>) * Product(<< >>)
      BY <2>3, ProductConcat
    <3>. QED
      BY <1>2, <2>2, <2>3, <3>1, ProductFacts
  <2>5. Stride(q, n - 1) = Product(SubSeq(q, n, n))
    BY <2>1 DEF Stride
  <2>. QED
    BY <1>1, <2>4, <2>5
<1>. QED
  BY <1>3, <1>4

---------------------------------------------------------------------------
(* Sums of terms.                                                          *)

\* What upTo computes is what its definition says.
LEMMA AddedDef ==
  ASSUME NEW q, Len(q) \in Nat
  PROVE  \E f : /\ Added(q) = f[Len(q)]
                /\ \A a \in 0 .. Len(q) : f[a] = IF a = 0 THEN 0 ELSE f[a - 1] + q[a]
<1>. DEFINE Def(f, n) == f = [a \in 0 .. n |-> IF a = 0 THEN 0 ELSE f[a - 1] + q[a]]
            T == {n \in Nat : \E f : Def(f, n)}
<1>1. 0 \in T
  <2>1. Def([a \in 0 .. 0 |-> 0], 0)
    OBVIOUS
  <2>. QED
    BY <2>1
<1>2. ASSUME NEW n \in Nat, n \in T
      PROVE  n + 1 \in T
  <2>1. PICK f : Def(f, n)
    BY <1>2
  <2>. DEFINE g == [a \in 0 .. n + 1 |-> IF a = n + 1 THEN f[n] + q[a] ELSE f[a]]
  <2>2. \A a \in 0 .. n + 1 : g[a] = IF a = 0 THEN 0 ELSE g[a - 1] + q[a]
    <3>1. \A a \in 0 .. n : f[a] = IF a = 0 THEN 0 ELSE f[a - 1] + q[a]
      BY <2>1
    <3>. HIDE DEF Def
    <3>2. \A a \in 0 .. n : g[a] = f[a]
      OBVIOUS
    <3>. TAKE a \in 0 .. n + 1
    <3>3. CASE a = 0
      BY <3>1, <3>2, <3>3
    <3>4. CASE a \in 1 .. n
      BY <3>1, <3>2, <3>4
    <3>5. CASE a = n + 1
      BY <3>2, <3>5
    <3>. QED
      BY <3>3, <3>4, <3>5
  <2>3. DOMAIN g = 0 .. n + 1 /\ g = [a \in DOMAIN g |-> g[a]]
    OBVIOUS
  <2>. HIDE DEF g
  <2>4. Def(g, n + 1)
    BY <2>2, <2>3
  <2>. QED
    BY SMTT(30), <2>4
<1>. HIDE DEF Def
<1>3. \E f : Def(f, Len(q))
  <2>1. Nat \subseteq T
    <3>. HIDE DEF T
    <3>. QED
      BY <1>1, <1>2, NatSteps
  <2>. QED
    BY <2>1
<1>. DEFINE h == CHOOSE f : Def(f, Len(q))
<1>4. Def(h, Len(q))
  BY <1>3
<1>5. Added(q) = h[Len(q)]
  BY DEF Added, Def
<1>. HIDE DEF h
<1>. QED
  BY <1>4, <1>5 DEF Def


\* A sum up to n and the next term.
LEMMA AddedStep ==
  ASSUME NEW q, NEW n \in Nat, \A a \in 1 .. n + 1 : q[a] \in Int
  PROVE  /\ Added([a \in 1 .. 0 |-> q[a]]) = 0
         /\ Added([a \in 1 .. n |-> q[a]]) \in Int
         /\ Added([a \in 1 .. n + 1 |-> q[a]]) = Added([a \in 1 .. n |-> q[a]]) + q[n + 1]
<1>. DEFINE s(m) == [a \in 1 .. m |-> q[a]]
<1>1. ASSUME NEW m \in Nat
      PROVE  /\ Len(s(m)) = m /\ \A a \in 1 .. m : s(m)[a] = q[a]
             /\ \E f : /\ Added(s(m)) = f[m]
                       /\ \A a \in 0 .. m : f[a] = IF a = 0 THEN 0 ELSE f[a - 1] + q[a]
  <2>1. Len(s(m)) = m /\ Len(s(m)) \in Nat /\ \A a \in 1 .. m : s(m)[a] = q[a]
    OBVIOUS
  <2>. DEFINE w == s(m)
  <2>. HIDE DEF s, w
  <2>2. PICK f : /\ Added(w) = f[Len(w)]
                 /\ \A a \in 0 .. Len(w) : f[a] = IF a = 0 THEN 0 ELSE f[a - 1] + w[a]
    BY <2>1, AddedDef DEF w
  <2>3. \A a \in 0 .. m : f[a] = IF a = 0 THEN 0 ELSE f[a - 1] + q[a]
    <3>. TAKE a \in 0 .. m
    <3>1. a # 0 => a \in 1 .. m
      OBVIOUS
    <3>. QED
      BY <2>1, <2>2, <3>1 DEF w
  <2>. QED
    BY <2>1, <2>2, <2>3 DEF w
<1>. HIDE DEF s
<1>2. PICK f : /\ Added(s(n)) = f[n]
               /\ \A a \in 0 .. n : f[a] = IF a = 0 THEN 0 ELSE f[a - 1] + q[a]
  BY <1>1
<1>3. PICK g : /\ Added(s(n + 1)) = g[n + 1]
               /\ \A a \in 0 .. n + 1 : g[a] = IF a = 0 THEN 0 ELSE g[a - 1] + q[a]
  BY <1>1
<1>. DEFINE T == {m \in Nat : m <= n => f[m] = g[m] /\ f[m] \in Int}
<1>4. 0 \in T
  BY <1>2, <1>3
<1>5. ASSUME NEW m \in Nat, m \in T
      PROVE  m + 1 \in T
  <2>. SUFFICES ASSUME m + 1 <= n
                PROVE  f[m + 1] = g[m + 1] /\ f[m + 1] \in Int
    OBVIOUS
  <2>1. f[m] = g[m] /\ f[m] \in Int /\ m + 1 \in 1 .. n /\ m + 1 \in 0 .. n + 1 /\ (m + 1) - 1 = m /\ m + 1 # 0
    BY <1>5
  <2>2. f[m + 1] = f[m] + q[m + 1] /\ g[m + 1] = g[m] + q[m + 1] /\ q[m + 1] \in Int
    BY <1>2, <1>3, <2>1
  <2>. QED
    BY <2>1, <2>2
<1>6. f[n] = g[n] /\ f[n] \in Int
  <2>1. Nat \subseteq T
    <3>. HIDE DEF T
    <3>. QED
      BY <1>4, <1>5, NatSteps
  <2>. QED
    BY <2>1
<1>7. g[n + 1] = g[n] + q[n + 1]
  <2>1. n + 1 \in 0 .. n + 1 /\ n + 1 # 0 /\ (n + 1) - 1 = n
    OBVIOUS
  <2>. QED
    BY <1>3, <2>1
<1>8. Added(s(0)) = 0
  BY <1>1
<1>. QED
  BY <1>2, <1>3, <1>6, <1>7, <1>8 DEF s

\* A sum is a number, and of nothing is nothing.
LEMMA AddedFacts ==
  /\ Added(<< >>) = 0
  /\ \A q \in Seq(Int) : Added(q) \in Int
<1>1. ASSUME NEW q \in Seq(Int)
      PROVE  Added(q) \in Int
  <2>. DEFINE n == Len(q)
              r == [a \in 1 .. n + 1 |-> IF a \in 1 .. n THEN q[a] ELSE 0]
  <2>1. n \in Nat /\ (\A a \in 1 .. n + 1 : r[a] \in Int) /\ q = [a \in 1 .. n |-> r[a]]
    OBVIOUS
  <2>. HIDE DEF n, r
  <2>. QED
    BY <2>1, AddedStep
<1>2. Added(<< >>) = 0
  <2>1. Len(<< >>) = 0 /\ 0 \in 0 .. 0
    OBVIOUS
  <2>. QED
    BY <2>1, AddedDef
<1>. QED
  BY <1>1, <1>2

\* The sum of the first n terms, for the proofs to step along.
SumTo(q, n) == Added([a \in 1 .. n |-> q[a]])

LEMMA SumToStep ==
  ASSUME NEW q, NEW n \in Nat, \A a \in 1 .. n + 1 : q[a] \in Int
  PROVE  /\ SumTo(q, 0) = 0 /\ SumTo(q, n) \in Int
         /\ SumTo(q, n + 1) = SumTo(q, n) + q[n + 1]
BY AddedStep DEF SumTo

LEMMA SumToInt ==
  ASSUME NEW q, NEW n \in Nat, \A a \in 1 .. n : q[a] \in Int
  PROVE  SumTo(q, n) \in Int
<1>. DEFINE r == [a \in 1 .. n |-> q[a]]
<1>1. r \in Seq(Int) /\ SumTo(q, n) = Added(r)
  <2>1. r \in [1 .. n -> Int]
    OBVIOUS
  <2>. QED
    BY <2>1 DEF SumTo
<1>. HIDE DEF r
<1>. QED
  BY <1>1, AddedFacts

\* Sums of terms that are small enough, one by one, are small enough.
LEMMA SumsAtMost ==
  ASSUME NEW p, NEW q, NEW u, NEW n \in Nat,
         \A a \in 1 .. n : p[a] \in Int /\ q[a] \in Int /\ u[a] \in Int /\ p[a] + q[a] <= u[a]
  PROVE  SumTo(p, n) \in Int /\ SumTo(q, n) \in Int /\ SumTo(u, n) \in Int
         /\ SumTo(p, n) + SumTo(q, n) <= SumTo(u, n)
<1>. DEFINE Good(m) == /\ SumTo(p, m) \in Int /\ SumTo(q, m) \in Int /\ SumTo(u, m) \in Int
                       /\ SumTo(p, m) + SumTo(q, m) <= SumTo(u, m)
            T == {m \in Nat : m <= n => Good(m)}
<1>1. 0 \in T
  <2>1. ASSUME NEW x
        PROVE  SumTo(x, 0) = 0
    <3>1. [a \in 1 .. 0 |-> x[a]] = << >>
      OBVIOUS
    <3>. QED
      BY <3>1, AddedFacts DEF SumTo
  <2>2. SumTo(p, 0) = 0 /\ SumTo(q, 0) = 0 /\ SumTo(u, 0) = 0
    BY <2>1
  <2>. QED
    BY <2>2
<1>2. ASSUME NEW m \in Nat, m \in T
      PROVE  m + 1 \in T
  <2>. SUFFICES ASSUME m + 1 <= n
                PROVE  Good(m + 1)
    OBVIOUS
  <2>1. Good(m) /\ m + 1 \in 1 .. n /\ \A a \in 1 .. m + 1 : a \in 1 .. n
    BY <1>2
  <2>. DEFINE ps == SumTo(p, m)
              qs == SumTo(q, m)
              us == SumTo(u, m)
              px == p[m + 1]
              qx == q[m + 1]
              ux == u[m + 1]
  <2>2. SumTo(p, m + 1) = ps + px /\ SumTo(q, m + 1) = qs + qx /\ SumTo(u, m + 1) = us + ux
    BY <2>1, SumToStep
  <2>3. ps \in Int /\ qs \in Int /\ us \in Int /\ ps + qs <= us /\ px \in Int /\ qx \in Int /\ ux \in Int /\ px + qx <= ux
    BY <2>1
  <2>. HIDE DEF ps, qs, us, px, qx, ux
  <2>4. ps + px \in Int /\ qs + qx \in Int /\ us + ux \in Int /\ (ps + px) + (qs + qx) <= us + ux
    BY <2>3
  <2>. QED
    BY <2>2, <2>4
<1>3. n \in T
  <2>. HIDE DEF T
  <2>. QED
    BY <1>1, <1>2, NatSteps
<1>. QED
  BY <1>3

LEMMA SumsAtLeast ==
  ASSUME NEW p, NEW q, NEW n \in Nat,
         \A a \in 1 .. n : p[a] \in Int /\ q[a] \in Int /\ p[a] + q[a] >= 0
  PROVE  SumTo(p, n) \in Int /\ SumTo(q, n) \in Int /\ SumTo(p, n) + SumTo(q, n) >= 0
<1>. DEFINE Good(m) == SumTo(p, m) \in Int /\ SumTo(q, m) \in Int /\ SumTo(p, m) + SumTo(q, m) >= 0
            T == {m \in Nat : m <= n => Good(m)}
<1>1. 0 \in T
  <2>1. ASSUME NEW x
        PROVE  SumTo(x, 0) = 0
    <3>1. [a \in 1 .. 0 |-> x[a]] = << >>
      OBVIOUS
    <3>. QED
      BY <3>1, AddedFacts DEF SumTo
  <2>2. SumTo(p, 0) = 0 /\ SumTo(q, 0) = 0
    BY <2>1
  <2>. QED
    BY <2>2
<1>2. ASSUME NEW m \in Nat, m \in T
      PROVE  m + 1 \in T
  <2>. SUFFICES ASSUME m + 1 <= n
                PROVE  Good(m + 1)
    OBVIOUS
  <2>1. Good(m) /\ m + 1 \in 1 .. n /\ \A a \in 1 .. m + 1 : a \in 1 .. n
    BY <1>2
  <2>. DEFINE ps == SumTo(p, m)
              qs == SumTo(q, m)
              px == p[m + 1]
              qx == q[m + 1]
  <2>2. SumTo(p, m + 1) = ps + px /\ SumTo(q, m + 1) = qs + qx
    BY <2>1, SumToStep
  <2>3. ps \in Int /\ qs \in Int /\ ps + qs >= 0 /\ px \in Int /\ qx \in Int /\ px + qx >= 0
    BY <2>1
  <2>. HIDE DEF ps, qs, px, qx
  <2>4. ps + px \in Int /\ qs + qx \in Int /\ (ps + px) + (qs + qx) >= 0
    BY <2>3
  <2>. QED
    BY <2>2, <2>4
<1>3. n \in T
  <2>. HIDE DEF T
  <2>. QED
    BY <1>1, <1>2, NatSteps
<1>. QED
  BY <1>3

\* A sequence of numbers has a greatest.
LEMMA SeqGreatest ==
  ASSUME NEW q \in Seq(Nat), q # << >>
  PROVE  /\ \E i \in 1 .. Len(q) : q[i] = Max(Range(q))
         /\ \A i \in 1 .. Len(q) : q[i] <= Max(Range(q))
<1>. DEFINE n == Len(q)
            T == {m \in Nat : m <= n => \E b \in Nat : \A i \in 1 .. m : q[i] <= b}
<1>1. n \in Nat /\ \A i \in 1 .. n : q[i] \in Nat
  OBVIOUS
<1>. HIDE DEF n
<1>2. 0 \in T
  OBVIOUS
<1>3. ASSUME NEW m \in Nat, m \in T
      PROVE  m + 1 \in T
  <2>. SUFFICES ASSUME m + 1 <= n
                PROVE  \E b \in Nat : \A i \in 1 .. m + 1 : q[i] <= b
    OBVIOUS
  <2>1. PICK b \in Nat : \A i \in 1 .. m : q[i] <= b
    BY <1>1, <1>3
  <2>2. q[m + 1] \in Nat
    BY <1>1
  <2>. DEFINE x == q[m + 1]
  <2>3. b + x \in Nat /\ \A i \in 1 .. m + 1 : q[i] <= b + x
    <3>1. x \in Nat
      BY <2>2
    <3>2. ASSUME NEW i \in 1 .. m + 1
          PROVE  q[i] <= b + x
      <4>1. CASE i = m + 1
        BY <3>1, <4>1
      <4>2. CASE i \in 1 .. m
        <5>1. q[i] <= b /\ q[i] \in Nat
          BY <1>1, <2>1, <4>2
        <5>. HIDE DEF x
        <5>. QED
          BY <3>1, <5>1
      <4>. QED
        BY <4>1, <4>2
    <3>. QED
      BY <3>1, <3>2
  <2>. QED
    BY <2>3
<1>4. \E b \in Nat : \A i \in 1 .. n : q[i] <= b
  <2>1. n \in T
    <3>. HIDE DEF T
    <3>. QED
      BY <1>1, <1>2, <1>3, NatSteps
  <2>. QED
    BY <1>1, <2>1
<1>5. PICK b \in Nat : \A i \in 1 .. n : q[i] <= b
  BY <1>4
<1>. DEFINE S == Range(q)
<1>6. S \subseteq Nat /\ S # {} /\ \A x : x \in S <=> \E i \in 1 .. n : q[i] = x
  BY RangeFacts DEF n
<1>. HIDE DEF S
<1>7. \A x \in S : x <= b
  BY <1>5, <1>6
<1>8. Max(S) \in S /\ \A x \in S : Max(S) >= x
  <2>1. S \subseteq Int /\ b \in Int
    BY <1>6
  <2>. QED
    BY <1>6, <1>7, <2>1, GreatestOf
<1>9. ASSUME NEW i \in 1 .. n
      PROVE  q[i] <= Max(S)
  <2>1. q[i] \in S
    BY <1>6
  <2>2. Max(S) >= q[i] /\ Max(S) \in Nat /\ q[i] \in Nat
    BY <1>6, <1>8, <2>1
  <2>. QED
    BY <2>2
<1>10. \E i \in 1 .. n : q[i] = Max(S)
  BY <1>6, <1>8
<1>. QED
  BY <1>9, <1>10 DEF S, n

\* r is q with x put in at i.
PutIn(r, q, i, x) ==
  /\ Len(r) = Len(q) + 1
  /\ \A a \in 1 .. Len(q) + 1 : r[a] = IF a < i THEN q[a] ELSE IF a = i THEN x ELSE q[a - 1]

LEMMA PutInFacts ==
  ASSUME NEW X, NEW q \in Seq(X), NEW x \in X, NEW i \in 1 .. Len(q) + 1
  PROVE  InsertAt(q, i, x) \in Seq(X) /\ PutIn(InsertAt(q, i, x), q, i, x)
<1>. DEFINE l == SubSeq(q, 1, i - 1)
            r == SubSeq(q, i, Len(q))
            lx == l \o <<x>>
            all == lx \o r
            n == Len(q)
<1>1. n \in Nat /\ i \in 1 .. n + 1
  OBVIOUS
<1>2. l \in Seq(X) /\ Len(l) = i - 1 /\ \A a \in 1 .. i - 1 : l[a] = q[a]
  OBVIOUS
<1>3. r \in Seq(X) /\ Len(r) = n + 1 - i /\ \A a \in 1 .. n + 1 - i : r[a] = q[a + i - 1]
  OBVIOUS
<1>4. InsertAt(q, i, x) = all
  BY DEF InsertAt
<1>. HIDE DEF l, r
<1>5. lx \in Seq(X) /\ Len(lx) = i /\ (\A a \in 1 .. i - 1 : lx[a] = q[a]) /\ lx[i] = x
  <2>1. lx = Append(l, x)
    BY <1>2
  <2>2. Append(l, x) \in Seq(X) /\ Len(Append(l, x)) = Len(l) + 1 /\ Append(l, x)[Len(l) + 1] = x
        /\ \A a \in 1 .. Len(l) : Append(l, x)[a] = l[a]
    BY <1>2
  <2>3. Len(l) + 1 = i
    BY <1>2
  <2>. HIDE DEF lx
  <2>. QED
    BY <1>2, <2>1, <2>2, <2>3
<1>. HIDE DEF lx
<1>6. all \in Seq(X) /\ Len(all) = Len(lx) + Len(r)
      /\ (\A a \in 1 .. Len(lx) : all[a] = lx[a])
      /\ \A a \in Len(lx) + 1 .. Len(lx) + Len(r) : all[a] = r[a - Len(lx)]
  BY <1>3, <1>5
<1>. HIDE DEF all
<1>7. Len(all) = n + 1
  <2>1. i + (n + 1 - i) = n + 1
    BY <1>1
  <2>. QED
    BY <1>3, <1>5, <1>6, <2>1
<1>8. ASSUME NEW a \in 1 .. n + 1
      PROVE  all[a] = IF a < i THEN q[a] ELSE IF a = i THEN x ELSE q[a - 1]
  <2>1. CASE a < i
    BY <1>1, <1>5, <1>6, <2>1
  <2>2. CASE a = i
    BY <1>1, <1>5, <1>6, <2>2
  <2>3. CASE a > i
    <3>1. a - i \in 1 .. n + 1 - i /\ (a - i) + i - 1 = a - 1 /\ a \in i + 1 .. n + 1 /\ i + (n + 1 - i) = n + 1
      BY <1>1, <2>3
    <3>2. all[a] = r[a - i]
      BY <1>3, <1>5, <1>6, <3>1
    <3>3. r[a - i] = q[a - 1]
      BY <1>3, <3>1
    <3>. QED
      BY <1>1, <2>3, <3>2, <3>3
  <2>. QED
    BY <1>1, <2>1, <2>2, <2>3
<1>. QED
  BY <1>4, <1>6, <1>7, <1>8 DEF n, PutIn

\* A term put in between is added.
LEMMA AddedInsert ==
  ASSUME NEW q \in Seq(Int), NEW x \in Int, NEW i \in 1 .. Len(q) + 1,
         NEW r \in Seq(Int), PutIn(r, q, i, x)
  PROVE  Added(r) = Added(q) + x
<1>. DEFINE n == Len(q)
<1>0. \A a \in 1 .. Len(r) : r[a] = IF a < i THEN q[a] ELSE IF a = i THEN x ELSE q[a - 1]
  BY DEF PutIn
<1>1. n \in Nat /\ n = Len(q) /\ i \in 1 .. n + 1 /\ Len(r) = n + 1 /\ \A a \in 1 .. n : q[a] \in Int
  BY DEF PutIn
<1>. HIDE DEF n
<1>2. PICK f : /\ Added(q) = f[n]
               /\ \A a \in 0 .. n : f[a] = IF a = 0 THEN 0 ELSE f[a - 1] + q[a]
  BY <1>1, AddedDef
<1>3. PICK g : /\ Added(r) = g[n + 1]
               /\ \A a \in 0 .. n + 1 : g[a] = IF a = 0 THEN 0 ELSE g[a - 1] + r[a]
  <2>1. Len(r) \in Nat
    BY <1>1
  <2>2. PICK g : /\ Added(r) = g[Len(r)]
                 /\ \A a \in 0 .. Len(r) : g[a] = IF a = 0 THEN 0 ELSE g[a - 1] + r[a]
    BY <2>1, AddedDef
  <2>. QED
    BY <1>1, <2>2
<1>. DEFINE Good(m) == f[m] \in Int /\ (m < i => g[m] = f[m]) /\ (m >= i - 1 => g[m + 1] = f[m] + x)
            T == {m \in Nat : m <= n => Good(m)}
<1>4. 0 \in T
  <2>1. f[0] = 0 /\ g[0] = 0
    BY <1>1, <1>2, <1>3
  <2>2. i = 1 => g[1] = x
    <3>1. g[1] = g[0] + r[1] /\ (i = 1 => r[1] = x)
      BY <1>0, <1>1, <1>3
    <3>. QED
      BY <2>1, <3>1
  <2>. QED
    BY <1>1, <2>1, <2>2
<1>5. ASSUME NEW m \in Nat, m \in T
      PROVE  m + 1 \in T
  <2>. SUFFICES ASSUME m + 1 <= n
                PROVE  Good(m + 1)
    OBVIOUS
  <2>1. Good(m) /\ m + 1 \in 1 .. n /\ m + 2 \in 1 .. n + 1 /\ (m + 1) + 1 = m + 2 /\ q[m + 1] \in Int
    BY <1>1, <1>5
  <2>2. f[m + 1] = f[m] + q[m + 1]
    BY <1>2, <2>1
  <2>3. g[m + 1] = g[m] + r[m + 1] /\ g[m + 2] = g[m + 1] + r[m + 2]
    <3>0. n \in Nat
      BY <1>1
    <3>1. m + 1 \in 0 .. n + 1 /\ m + 2 \in 0 .. n + 1 /\ m + 1 # 0 /\ m + 2 # 0 /\ (m + 1) - 1 = m /\ (m + 2) - 1 = m + 1
      <4>. HIDE DEF Good, T
      <4>. QED
        BY <3>0
    <3>. QED
      BY <1>3, <3>1
  <2>4. /\ r[m + 1] = IF m + 1 < i THEN q[m + 1] ELSE IF m + 1 = i THEN x ELSE q[m]
        /\ r[m + 2] = IF m + 2 < i THEN q[m + 2] ELSE IF m + 2 = i THEN x ELSE q[m + 1]
    <3>1. m + 1 \in 1 .. n + 1 /\ (m + 1) - 1 = m /\ (m + 2) - 1 = m + 1
      BY <1>1, <2>1
    <3>. QED
      BY <1>0, <1>1, <2>1, <3>1
  <2>5. m + 1 < i => g[m + 1] = f[m + 1]
    BY <1>1, <2>1, <2>2, <2>3, <2>4
  <2>0. f[m] \in Int /\ f[m + 1] \in Int /\ i \in Int /\ m + 1 \in Int /\ x \in Int
    <3>1. f[m] \in Int
      BY <2>1
    <3>. QED
      BY <1>1, <2>1, <2>2, <3>1
  <2>6. CASE m + 1 >= i
    <3>1. g[m + 1] = f[m] + x /\ r[m + 2] = q[m + 1]
      BY <1>1, <2>1, <2>4, <2>6
    <3>2. g[m + 2] = f[m + 1] + x /\ f[m + 1] \in Int /\ ~(m + 1 < i)
      <4>1. g[m + 2] = (f[m] + x) + q[m + 1]
        BY <2>3, <3>1
      <4>. HIDE DEF Good
      <4>. QED
        BY <2>0, <2>1, <2>2, <2>6, <4>1
    <3>. QED
      BY <2>1, <3>2
  <2>7. CASE m + 1 = i - 1
    <3>1. r[m + 2] = x
      BY <1>1, <2>1, <2>4, <2>7
    <3>. QED
      BY <1>1, <2>1, <2>2, <2>3, <2>5, <2>7, <3>1
  <2>8. CASE m + 1 < i - 1
    <3>1. m + 1 < i /\ ~(m + 1 >= i - 1) /\ f[m + 1] \in Int
      BY <2>0, <2>8
    <3>. QED
      BY <2>5, <3>1
  <2>. QED
    BY <1>1, <2>6, <2>7, <2>8
<1>6. n \in T
  <2>. HIDE DEF T
  <2>. QED
    BY <1>1, <1>4, <1>5, NatSteps
<1>. QED
  BY <1>1, <1>2, <1>3, <1>6

---------------------------------------------------------------------------
(* Sequences put one after another.                                        *)

\* What flatten computes is what its definition says.
LEMMA FlattenDef ==
  ASSUME NEW q, Len(q) \in Nat \ {0}
  PROVE  \E f : /\ FlattenSeq(q) = f[Len(q)]
                /\ \A i \in 1 .. Len(q) : f[i] = IF i = 1 THEN q[i] ELSE f[i - 1] \o q[i]
<1>. DEFINE Def(f, n) == f = [i \in 1 .. n |-> IF i = 1 THEN q[i] ELSE f[i - 1] \o q[i]]
            T == {n \in Nat : \E f : Def(f, n)}
<1>1. 0 \in T
  <2>1. Def([i \in 1 .. 0 |-> 1], 0)
    OBVIOUS
  <2>. QED
    BY <2>1
<1>2. ASSUME NEW n \in Nat, n \in T
      PROVE  n + 1 \in T
  <2>1. PICK f : Def(f, n)
    BY <1>2
  <2>. DEFINE g == [i \in 1 .. n + 1 |-> IF i = n + 1 THEN IF i = 1 THEN q[i] ELSE f[n] \o q[i] ELSE f[i]]
  <2>2. \A i \in 1 .. n + 1 : g[i] = IF i = 1 THEN q[i] ELSE g[i - 1] \o q[i]
    <3>1. \A i \in 1 .. n : f[i] = IF i = 1 THEN q[i] ELSE f[i - 1] \o q[i]
      BY <2>1
    <3>. HIDE DEF Def
    <3>2. \A i \in 1 .. n : g[i] = f[i]
      OBVIOUS
    <3>. TAKE i \in 1 .. n + 1
    <3>3. CASE i \in 1 .. n /\ i = 1
      BY <3>1, <3>2, <3>3
    <3>4. CASE i \in 1 .. n /\ i # 1
      <4>1. i - 1 \in 1 .. n
        BY <3>4
      <4>. HIDE DEF g
      <4>. QED
        BY <3>1, <3>2, <3>4, <4>1
    <3>5. CASE i = n + 1
      <4>1. i # 1 => i - 1 = n /\ n \in 1 .. n
        BY <3>5
      <4>2. g[i] = IF i = 1 THEN q[i] ELSE f[n] \o q[i]
        BY <3>5
      <4>. HIDE DEF g
      <4>. QED
        BY <3>2, <3>5, <4>1, <4>2
    <3>. QED
      BY <3>3, <3>4, <3>5
  <2>3. DOMAIN g = 1 .. n + 1 /\ g = [i \in DOMAIN g |-> g[i]]
    OBVIOUS
  <2>. HIDE DEF g
  <2>4. Def(g, n + 1)
    BY <2>2, <2>3
  <2>. HIDE DEF Def
  <2>. QED
    BY <2>4
<1>. HIDE DEF Def
<1>3. \E f : Def(f, Len(q))
  <2>1. Nat \subseteq T
    <3>. HIDE DEF T
    <3>. QED
      BY <1>1, <1>2, NatSteps
  <2>. QED
    BY <2>1
<1>. DEFINE h == CHOOSE f : Def(f, Len(q))
<1>4. Def(h, Len(q))
  BY <1>3
<1>5. FlattenSeq(q) = h[Len(q)]
  BY DEF FlattenSeq, Def
<1>. HIDE DEF h
<1>. QED
  BY <1>4, <1>5 DEF Def

\* One sequence more goes to the end.
LEMMA FlattenStep ==
  ASSUME NEW X, NEW q, NEW n \in Nat, \A a \in 1 .. n + 1 : q[a] \in Seq(X)
  PROVE  /\ FlattenSeq([a \in 1 .. 0 |-> q[a]]) = << >>
         /\ FlattenSeq([a \in 1 .. n |-> q[a]]) \in Seq(X)
         /\ FlattenSeq([a \in 1 .. n + 1 |-> q[a]]) = FlattenSeq([a \in 1 .. n |-> q[a]]) \o q[n + 1]
<1>. DEFINE s(m) == [a \in 1 .. m |-> q[a]]
<1>1. FlattenSeq(s(0)) = << >>
  <2>1. s(0) = << >> /\ Len(s(0)) = 0
    OBVIOUS
  <2>. QED
    BY <2>1 DEF FlattenSeq
<1>2. ASSUME NEW m \in Nat \ {0}
      PROVE  \E f : /\ FlattenSeq(s(m)) = f[m]
                    /\ \A a \in 1 .. m : f[a] = IF a = 1 THEN q[a] ELSE f[a - 1] \o q[a]
  <2>1. Len(s(m)) = m /\ Len(s(m)) \in Nat \ {0} /\ \A a \in 1 .. m : s(m)[a] = q[a]
    OBVIOUS
  <2>. DEFINE w == s(m)
  <2>. HIDE DEF s, w
  <2>2. PICK f : /\ FlattenSeq(w) = f[Len(w)]
                 /\ \A a \in 1 .. Len(w) : f[a] = IF a = 1 THEN w[a] ELSE f[a - 1] \o w[a]
    BY <2>1, FlattenDef DEF w
  <2>. QED
    BY <2>1, <2>2 DEF w
<1>. HIDE DEF s
<1>3. PICK g : /\ FlattenSeq(s(n + 1)) = g[n + 1]
               /\ \A a \in 1 .. n + 1 : g[a] = IF a = 1 THEN q[a] ELSE g[a - 1] \o q[a]
  <2>1. n + 1 \in Nat \ {0}
    OBVIOUS
  <2>. QED
    BY <1>2, <2>1
<1>4. CASE n = 0
  <2>1. g[n + 1] = q[n + 1] /\ q[n + 1] \in Seq(X)
    BY <1>3, <1>4
  <2>2. FlattenSeq(s(n)) = << >> /\ << >> \in Seq(X) /\ << >> \o q[n + 1] = q[n + 1]
    BY <1>1, <1>4, <2>1
  <2>. QED
    BY <1>1, <1>3, <2>1, <2>2 DEF s
<1>5. CASE n # 0
  <2>1. PICK f : /\ FlattenSeq(s(n)) = f[n]
                 /\ \A a \in 1 .. n : f[a] = IF a = 1 THEN q[a] ELSE f[a - 1] \o q[a]
    BY <1>2, <1>5
  <2>. DEFINE T == {m \in Nat : m + 1 <= n => f[m + 1] = g[m + 1] /\ f[m + 1] \in Seq(X)}
  <2>2. 0 \in T
    <3>1. 1 \in 1 .. n /\ 1 \in 1 .. n + 1
      BY <1>5
    <3>. QED
      BY <1>3, <2>1, <3>1
  <2>3. ASSUME NEW m \in Nat, m \in T
        PROVE  m + 1 \in T
    <3>. SUFFICES ASSUME m + 2 <= n
                  PROVE  f[m + 2] = g[m + 2] /\ f[m + 2] \in Seq(X)
      <4>1. (m + 1) + 1 = m + 2
        OBVIOUS
      <4>. QED
        BY <4>1
    <3>1. f[m + 1] = g[m + 1] /\ f[m + 1] \in Seq(X)
      BY <2>3
    <3>2. m + 2 \in 1 .. n /\ m + 2 \in 1 .. n + 1 /\ (m + 2) - 1 = m + 1 /\ m + 2 # 1
      OBVIOUS
    <3>3. f[m + 2] = f[m + 1] \o q[m + 2] /\ g[m + 2] = g[m + 1] \o q[m + 2] /\ q[m + 2] \in Seq(X)
      BY <1>3, <2>1, <3>2
    <3>. QED
      BY <3>1, <3>3
  <2>4. f[n] = g[n] /\ f[n] \in Seq(X)
    <3>1. Nat \subseteq T
      <4>. HIDE DEF T
      <4>. QED
        BY <2>2, <2>3, NatSteps
    <3>2. n - 1 \in Nat /\ (n - 1) + 1 = n
      BY <1>5
    <3>3. n - 1 \in T
      BY <3>1, <3>2
    <3>. QED
      BY <3>2, <3>3
  <2>5. g[n + 1] = g[n] \o q[n + 1]
    <3>1. n + 1 \in 1 .. n + 1 /\ n + 1 # 1 /\ (n + 1) - 1 = n
      BY <1>5
    <3>. QED
      BY <1>3, <3>1
  <2>. QED
    BY <1>1, <1>3, <2>1, <2>4, <2>5 DEF s
<1>. QED
  BY <1>4, <1>5

\* What is in one of the first n sequences is in `flat`.
HasAll(flat, q, n) ==
  \A a \in 1 .. n : \A j \in 1 .. Len(q[a]) : \E k \in 1 .. Len(flat) : flat[k] = q[a][j]

LEMMA FlattenHas ==
  ASSUME NEW X, NEW q, NEW n \in Nat, \A a \in 1 .. n : q[a] \in Seq(X)
  PROVE  /\ FlattenSeq([a \in 1 .. n |-> q[a]]) \in Seq(X)
         /\ HasAll(FlattenSeq([a \in 1 .. n |-> q[a]]), q, n)
<1>. DEFINE F(m) == FlattenSeq([b \in 1 .. m |-> q[b]])
            Good(m) == /\ F(m) \in Seq(X)
                       /\ \A a \in 1 .. m : \A j \in 1 .. Len(q[a]) : \E k \in 1 .. Len(F(m)) : F(m)[k] = q[a][j]
            T == {m \in Nat : m <= n => Good(m)}
<1>0. F(0) = << >>
  <2>1. [b \in 1 .. 0 |-> q[b]] = << >> /\ Len(<< >>) = 0
    OBVIOUS
  <2>. QED
    BY <2>1 DEF FlattenSeq
<1>4. ASSUME NEW m \in Nat, m + 1 <= n
      PROVE  F(m + 1) = F(m) \o q[m + 1]
  <2>1. \A a \in 1 .. m + 1 : q[a] \in Seq(X)
    BY <1>4
  <2>. QED
    BY <2>1, FlattenStep
<1>. HIDE DEF F
<1>1. 0 \in T
  <2>1. Good(0)
    <3>1. << >> \in Seq(X) /\ \A a \in 1 .. 0 : FALSE
      OBVIOUS
    <3>. QED
      BY <1>0, <3>1
  <2>. QED
    BY <2>1
<1>2. ASSUME NEW m \in Nat, m \in T
      PROVE  m + 1 \in T
  <2>. SUFFICES ASSUME m + 1 <= n
                PROVE  Good(m + 1)
    OBVIOUS
  <2>1. Good(m) /\ \A a \in 1 .. m + 1 : q[a] \in Seq(X)
    BY <1>2
  <2>2. F(m + 1) = F(m) \o q[m + 1]
    BY <1>4
  <2>. DEFINE u == F(m)
              v == q[m + 1]
  <2>3. u \in Seq(X) /\ v \in Seq(X)
    BY <2>1
  <2>. HIDE DEF u, v
  <2>4. /\ u \o v \in Seq(X)
        /\ \A k \in 1 .. Len(u) : k \in 1 .. Len(u \o v) /\ (u \o v)[k] = u[k]
        /\ \A k \in 1 .. Len(v) : Len(u) + k \in 1 .. Len(u \o v) /\ (u \o v)[Len(u) + k] = v[k]
    BY <2>3
  <2>5. ASSUME NEW a \in 1 .. m + 1, NEW j \in 1 .. Len(q[a])
        PROVE  \E k \in 1 .. Len(u \o v) : (u \o v)[k] = q[a][j]
    <3>1. CASE a \in 1 .. m
      <4>1. PICK k \in 1 .. Len(u) : u[k] = q[a][j]
        BY <2>1, <3>1 DEF u
      <4>. QED
        BY <2>4, <4>1
    <3>2. CASE a = m + 1
      BY <2>4, <3>2 DEF v
    <3>. QED
      BY <3>1, <3>2
  <2>6. F(m + 1) = u \o v
    BY <2>2 DEF u, v
  <2>7. F(m + 1) \in Seq(X)
    BY <2>4, <2>6
  <2>8. ASSUME NEW a \in 1 .. m + 1, NEW j \in 1 .. Len(q[a])
        PROVE  \E k \in 1 .. Len(F(m + 1)) : F(m + 1)[k] = q[a][j]
    <3>. DEFINE w == F(m + 1)
    <3>1. w = u \o v
      BY <2>6
    <3>. HIDE DEF w
    <3>2. \E k \in 1 .. Len(w) : w[k] = q[a][j]
      BY <2>5, <3>1
    <3>. QED
      BY <3>2 DEF w
  <2>. QED
    BY <2>7, <2>8
<1>3. n \in T
  <2>. HIDE DEF T
  <2>. QED
    BY <1>1, <1>2, NatSteps
<1>5. Good(n)
  BY <1>3
<1>. QED
  BY <1>5 DEF F, HasAll

---------------------------------------------------------------------------
(* Sums that wrap.                                                         *)

LEMMA WrapsLate ==
  ASSUME NEW w \in Nat \ {0}, NEW x \in Int, NEW a \in Int
  PROVE  ((x % w) + a) % w = (x + a) % w /\ (a + (x % w)) % w = (a + x) % w
<1>. DEFINE q == x \div w
            r == x % w
<1>1. x - r = q * w /\ q \in Int /\ r \in Int /\ q * w \in Int
  OBVIOUS
<1>. HIDE DEF q, r
<1>. DEFINE m == r + a
<1>2. x + a = m + q * w /\ a + x = m + q * w /\ m \in Int /\ a + r = m /\ r + a = m
  BY <1>1
<1>. HIDE DEF m
<1>3. (m + q * w) % w = m % w
  BY <1>1, <1>2, ShiftDivision
<1>4. ((x % w) + a) % w = m % w /\ (a + (x % w)) % w = m % w
  BY <1>2 DEF r
<1>. QED
  BY <1>2, <1>3, <1>4

LEMMA WrapsNot ==
  ASSUME NEW w \in Nat \ {0}, NEW x \in 0 .. w - 1
  PROVE  x % w = x
<1>1. x \in Int /\ 0 * w <= x /\ x < 0 * w + w /\ x - 0 * w = x
  OBVIOUS
<1>. QED
  BY <1>1, DivisionUnique
=============================================================================
