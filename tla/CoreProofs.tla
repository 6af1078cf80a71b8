------------------------------ MODULE CoreProofs ------------------------------
(***************************************************************************)
(* Proofs about the core crate: reductions, for selections of any shape    *)
(* and blocks of any size; reads of chunked arrays, for any array, grid of *)
(* chunks and range; attributes, for any value; and an open file, for any  *)
(* file, any number of arrays in it and any number of threads.             *)
(***************************************************************************)
EXTENDS Reduce, Store, SeqFacts, FiniteSetTheorems

---------------------------------------------------------------------------
(* Axes.                                                                   *)

\* Counting from the end is a remainder.
LEMMA FoldedIs ==
  ASSUME NEW ndim \in Nat, NEW a \in Int
  PROVE  /\ Folded(a, ndim) \in Int
         /\ Folded(a, ndim) \in 0 .. ndim - 1 <=> a \in -ndim .. ndim - 1
         /\ a \in -ndim .. ndim - 1 => Folded(a, ndim) = a % ndim
<1>1. Folded(a, ndim) = IF a < 0 THEN a + ndim ELSE a
  BY DEF Folded
<1>2. ASSUME a \in -ndim .. ndim - 1
      PROVE  Folded(a, ndim) = a % ndim
  <2>1. ndim \in Nat \ {0}
    BY <1>2
  <2>2. CASE a < 0
    <3>1. \E q \in Int : q * ndim <= a /\ a < q * ndim + ndim /\ a - q * ndim = a + ndim
      <4>1. /\ -1 \in Int /\ (-1) * ndim <= a /\ a < (-1) * ndim + ndim
            /\ a - (-1) * ndim = a + ndim
        BY <1>2, <2>2
      <4>. QED
        BY <4>1
    <3>. QED
      BY <1>1, <2>1, <2>2, <3>1, DivisionUnique
  <2>3. CASE a >= 0
    <3>1. a \in 0 .. ndim - 1
      BY <1>2, <2>3
    <3>. QED
      BY <1>1, <2>1, <2>3, <3>1, WrapsNot
  <2>. QED
    BY <2>2, <2>3
<1>. QED
  BY <1>1, <1>2

\* Whether a list of axes is taken, as the code checks it and as numpy does.
Taken(ndim, list) ==
  /\ \A i \in DOMAIN list : Folded(list[i], ndim) \in 0 .. ndim - 1
  /\ \A i, j \in DOMAIN list : i # j => Folded(list[i], ndim) # Folded(list[j], ndim)

TakenByNumpy(ndim, list) ==
  /\ \A i \in DOMAIN list : list[i] \in -ndim .. ndim - 1
  /\ \A i, j \in DOMAIN list : i # j => list[i] \notin {list[j] - ndim, list[j], list[j] + ndim}

LEMMA TakenAlike ==
  ASSUME NEW ndim \in Nat, NEW list \in Seq(Int)
  PROVE  Taken(ndim, list) <=> TakenByNumpy(ndim, list)
<1>1. \A i \in DOMAIN list : list[i] \in Int
  OBVIOUS
<1>2. \A i \in DOMAIN list : Folded(list[i], ndim) \in 0 .. ndim - 1 <=> list[i] \in -ndim .. ndim - 1
  BY <1>1, FoldedIs
<1>3. ASSUME NEW i \in DOMAIN list, NEW j \in DOMAIN list,
             list[i] \in -ndim .. ndim - 1, list[j] \in -ndim .. ndim - 1
      PROVE  Folded(list[i], ndim) # Folded(list[j], ndim)
               <=> list[i] \notin {list[j] - ndim, list[j], list[j] + ndim}
  BY <1>1, <1>3 DEF Folded
<1>. QED
  BY <1>2, <1>3 DEF Taken, TakenByNumpy

LEMMA SameTruth ==
  ASSUME NEW S, NEW f \in [S -> BOOLEAN], NEW g \in [S -> BOOLEAN], \A d \in S : f[d] <=> g[d]
  PROVE  f = g
<1>1. \A d \in S : f[d] \in BOOLEAN /\ g[d] \in BOOLEAN
  OBVIOUS
<1>2. \A d \in S : f[d] = g[d]
  BY <1>1
<1>. QED
  BY <1>2

\* And the axes that are then reduced.
LEMMA ReducedAlike ==
  ASSUME NEW ndim \in Nat, NEW list \in Seq(Int), Taken(ndim, list)
  PROVE  [d \in 1 .. ndim |-> \E i \in DOMAIN list : Folded(list[i], ndim) = d - 1]
           = [d \in 1 .. ndim |-> d \in {(list[i] % ndim) + 1 : i \in DOMAIN list}]
<1>1. ASSUME NEW i \in DOMAIN list
      PROVE  Folded(list[i], ndim) = list[i] % ndim /\ Folded(list[i], ndim) \in Int
  <2>1. list[i] \in Int /\ Folded(list[i], ndim) \in 0 .. ndim - 1
    BY DEF Taken
  <2>. QED
    BY <2>1, FoldedIs
<1>2. ASSUME NEW d \in 1 .. ndim
      PROVE  (\E i \in DOMAIN list : Folded(list[i], ndim) = d - 1)
               <=> d \in {(list[i] % ndim) + 1 : i \in DOMAIN list}
  <2>1. ASSUME NEW i \in DOMAIN list
        PROVE  Folded(list[i], ndim) = d - 1 <=> d = (list[i] % ndim) + 1
    BY <1>1
  <2>. QED
    BY <2>1
<1>. DEFINE f == [d \in 1 .. ndim |-> \E i \in DOMAIN list : Folded(list[i], ndim) = d - 1]
            g == [d \in 1 .. ndim |-> d \in {(list[i] % ndim) + 1 : i \in DOMAIN list}]
<1>3. f \in [1 .. ndim -> BOOLEAN] /\ g \in [1 .. ndim -> BOOLEAN]
  OBVIOUS
<1>4. \A d \in 1 .. ndim : f[d] <=> g[d]
  BY <1>2
<1>. HIDE DEF f, g
<1>5. f = g
  BY <1>3, <1>4, SameTruth
<1>. QED
  BY <1>5 DEF f, g

\* reduced_axes takes proper axes, and they are numpy's.
LEMMA AxesTaken ==
  ASSUME NEW ndim \in Nat, NEW axis, OverAxes(axis), NEW function
  PROVE  reduced_axes(ndim, axis, function) =
           IF ProperAxes(ndim, axis, function)
           THEN <<[d \in 1 .. ndim |-> d \in NumpyAxes(ndim, axis)]>> ELSE << >>
<1>. DEFINE list == IF axis.kind = "One" THEN <<axis.a>> ELSE axis.list
            chosen == [d \in 1 .. ndim |-> \E i \in DOMAIN list : Folded(list[i], ndim) = d - 1]
<1>1. CASE axis.kind = "All"
  <2>1. [d \in 1 .. ndim |-> TRUE] = [d \in 1 .. ndim |-> d \in 1 .. ndim]
    OBVIOUS
  <2>. QED
    BY <1>1, <2>1 DEF reduced_axes, ProperAxes, NumpyAxes
<1>2. CASE axis.kind = "Many" /\ function \in {"argmax", "argmin"}
  BY <1>2 DEF reduced_axes, ProperAxes
<1>3. CASE axis.kind = "One" \/ (axis.kind = "Many" /\ function \notin {"argmax", "argmin"})
  <2>1. list \in Seq(Int)
    BY <1>3 DEF OverAxes
  <2>2. reduced_axes(ndim, axis, function) = IF Taken(ndim, list) THEN <<chosen>> ELSE << >>
    BY <1>3 DEF reduced_axes, Taken
  <2>3. ProperAxes(ndim, axis, function) <=> TakenByNumpy(ndim, list)
    <3>1. CASE axis.kind = "One"
      <4>1. DOMAIN list = {1} /\ list[1] = axis.a
        BY <3>1
      <4>. QED
        BY <3>1, <4>1 DEF ProperAxes, TakenByNumpy
    <3>2. CASE axis.kind = "Many" /\ function \notin {"argmax", "argmin"}
      BY <3>2 DEF ProperAxes, TakenByNumpy
    <3>. QED
      BY <1>3, <3>1, <3>2
  <2>4. Taken(ndim, list) => NumpyAxes(ndim, axis) = {(list[i] % ndim) + 1 : i \in DOMAIN list}
    <3>1. CASE axis.kind = "One"
      <4>1. DOMAIN list = {1} /\ list[1] = axis.a
        BY <3>1
      <4>2. Taken(ndim, list) => ndim # 0
        BY <4>1 DEF Taken
      <4>. QED
        BY <3>1, <4>1, <4>2 DEF NumpyAxes
    <3>2. CASE axis.kind = "Many"
      BY <3>2 DEF NumpyAxes
    <3>. QED
      BY <1>3, <3>1, <3>2
  <2>5. Taken(ndim, list) => chosen = [d \in 1 .. ndim |-> d \in NumpyAxes(ndim, axis)]
    <3>1. Taken(ndim, list) => chosen = [d \in 1 .. ndim |-> d \in {(list[i] % ndim) + 1 : i \in DOMAIN list}]
      BY <2>1, ReducedAlike
    <3>. QED
      BY <2>4, <3>1
  <2>6. Taken(ndim, list) <=> ProperAxes(ndim, axis, function)
    BY <2>1, <2>3, TakenAlike
  <2>. HIDE DEF list, chosen
  <2>. QED
    BY <2>2, <2>5, <2>6
<1>. QED
  BY <1>1, <1>2, <1>3 DEF OverAxes

\* An array that has an axis has no scalar's.
LEMMA ProperOrNone ==
  ASSUME NEW ndim \in Nat, NEW axis, OverAxes(axis), NEW function, NEW kind
  PROVE  ProperAxes(ndim, axis, function)
           <=> NumpyTakes(ndim, axis, function, kind) /\ ~ScalarAxis(ndim, axis)
<1>1. ScalarAxis(ndim, axis) => ~ProperAxes(ndim, axis, function)
  BY DEF ScalarAxis, ProperAxes
<1>. QED
  BY <1>1 DEF NumpyTakes

\* reduced_axes: whatever axes a request names, and however it counts them, they
\* are taken or refused as numpy takes or refuses them, and those taken are
\* numpy's.  The one exception is an axis of a scalar, which is always refused.
THEOREM AxesAreNumpys ==
  ASSUME NEW ndim \in Nat, NEW axis, OverAxes(axis), NEW function, NEW kind
  PROVE  reduced_axes(ndim, axis, function) =
           IF NumpyTakes(ndim, axis, function, kind) /\ ~ScalarAxis(ndim, axis)
           THEN <<[d \in 1 .. ndim |-> d \in NumpyAxes(ndim, axis)]>> ELSE << >>
BY AxesTaken, ProperOrNone

---------------------------------------------------------------------------
(* The odometer.                                                           *)

\* The coordinate of element n along axis d.
Digit(n, shape, d) == (n \div Stride(shape, d)) % shape[d]

\* Coordinates are within their axes, and strides are products of those after.
LEMMA Placed ==
  ASSUME NEW shape \in Seq(Nat), NEW n \in Nat, n < Product(shape)
  PROVE  /\ Coords(n, shape) = [d \in DOMAIN shape |-> Digit(n, shape, d)]
         /\ \A d \in DOMAIN shape : /\ shape[d] \in Nat \ {0} /\ Stride(shape, d) \in Nat \ {0}
                                    /\ Digit(n, shape, d) \in 0 .. shape[d] - 1
<1>1. Coords(n, shape) = [d \in DOMAIN shape |-> Digit(n, shape, d)]
  BY DEF Coords, Digit
<1>2. \A d \in DOMAIN shape : shape[d] \in Nat \ {0}
  <2>1. Product(shape) \in Nat /\ Product(shape) # 0
    BY ProductFacts
  <2>2. ~\E d \in 1 .. Len(shape) : shape[d] = 0
    BY <2>1, ProductFacts
  <2>. QED
    BY <2>2
<1>3. \A d \in DOMAIN shape : Stride(shape, d) \in Nat \ {0}
  BY <1>2, StrideSplit
<1>4. ASSUME NEW d \in DOMAIN shape
      PROVE  Digit(n, shape, d) \in 0 .. shape[d] - 1
  <2>. DEFINE w == shape[d]
              m == n \div Stride(shape, d)
  <2>1. w \in Nat \ {0} /\ m \in Int
    BY <1>2, <1>3, Division
  <2>2. Digit(n, shape, d) = m % w
    BY DEF Digit
  <2>. HIDE DEF w, m
  <2>3. m % w \in 0 .. w - 1
    BY <2>1, RoundDown
  <2>. QED
    BY <2>2, <2>3 DEF w
<1>. QED
  BY <1>1, <1>2, <1>3, <1>4

LEMMA DivisionIs ==
  ASSUME NEW n \in Nat, NEW d \in Nat \ {0}
  PROVE  n \div d \in Nat /\ (n \div d) * d = n - (n % d) /\ n % d \in Int
OBVIOUS

\* What is left over by two axes is what is left over by each.
LEMMA DigitSplit ==
  ASSUME NEW n \in Nat, NEW a \in Nat \ {0}, NEW b \in Nat \ {0}
  PROVE  n % (a * b) = ((n \div b) % a) * b + (n % b)
<1>. DEFINE m == n \div b
            q == m \div a
            u == m % a
            v == n % b
<1>1. m \in Nat /\ m * b = n - v /\ v \in 0 .. b - 1
  OBVIOUS
<1>2. q \in Int /\ q * a = m - u /\ u \in 0 .. a - 1
  BY <1>1
<1>. HIDE DEF m, q, u, v
<1>3. (q * a) * b = (m - u) * b
  BY <1>2
<1>4. q * (a * b) = (q * a) * b /\ (m - u) * b = m * b - u * b /\ a * b \in Nat \ {0} /\ u * b \in Nat
  BY <1>1, <1>2
<1>5. n - q * (a * b) = u * b + v
  BY <1>1, <1>3, <1>4
<1>6. u * b <= (a - 1) * b /\ (a - 1) * b = a * b - b
  BY <1>2
<1>7. u * b + v >= 0 /\ u * b + v < a * b
  BY <1>1, <1>4, <1>6
<1>8. q * (a * b) <= n /\ n < q * (a * b) + a * b /\ q * (a * b) \in Int
  BY <1>2, <1>4, <1>5, <1>7
<1>. DEFINE w == a * b
<1>9. n % w = n - q * w
  <2>1. w \in Nat \ {0} /\ q \in Int /\ n \in Int /\ q * w <= n /\ n < q * w + w
    BY <1>2, <1>4, <1>8
  <2>. HIDE DEF w
  <2>. QED
    BY <2>1, DivisionUnique
<1>. QED
  BY <1>5, <1>9 DEF m, u, v

\* The last of the elements that share the coordinates up to axis s.
LastFrom(n, shape, s) == (n % Stride(shape, s)) + 1 = Stride(shape, s)

\* An element whose coordinates after axis s are all at their end.
LEMMA Carry ==
  ASSUME NEW shape \in Seq(Nat), NEW n \in Nat, n < Product(shape), NEW s \in 0 .. Len(shape),
         \A d \in s + 1 .. Len(shape) : Digit(n, shape, d) + 1 = shape[d]
  PROVE  \A d \in s .. Len(shape) : LastFrom(n, shape, d)
<1>. DEFINE N == Len(shape)
            T == {k \in Nat : k <= N - s => LastFrom(n, shape, N - k)}
<1>0. N \in Nat /\ DOMAIN shape = 1 .. N
  OBVIOUS
<1>1. 0 \in T
  <2>1. N - 0 = N /\ Stride(shape, N) = 1
    BY <1>0, StrideStep
  <2>2. (n % 1) + 1 = 1
    OBVIOUS
  <2>. QED
    BY <2>1, <2>2 DEF LastFrom
<1>2. ASSUME NEW k \in Nat, k \in T
      PROVE  k + 1 \in T
  <2>. SUFFICES ASSUME k + 1 <= N - s
                PROVE  LastFrom(n, shape, N - (k + 1))
    OBVIOUS
  <2>. DEFINE d == N - k
              a == shape[d]
              b == Stride(shape, d)
  <2>1. d \in s + 1 .. N /\ d \in 1 .. N /\ N - (k + 1) = d - 1 /\ d - 1 \in 0 .. N - 1 /\ k <= N - s
    BY <1>0
  <2>2. LastFrom(n, shape, d)
    BY <1>2, <2>1
  <2>3. (n % b) + 1 = b
    BY <2>2 DEF LastFrom
  <2>4. a \in Nat \ {0} /\ b \in Nat \ {0}
    BY <1>0, <2>1, Placed
  <2>5. ((n \div b) % a) + 1 = a
    BY <2>1 DEF Digit
  <2>6. Stride(shape, d - 1) = a * b
    <3>1. Stride(shape, d - 1) = shape[(d - 1) + 1] * Stride(shape, (d - 1) + 1)
      BY <2>1, StrideStep
    <3>2. (d - 1) + 1 = d
      BY <2>1
    <3>. QED
      BY <3>1, <3>2
  <2>. DEFINE u == (n \div b) % a
              v == n % b
  <2>7. n % (a * b) = u * b + v
    BY <2>4, DigitSplit
  <2>8. u = a - 1 /\ v = b - 1
    <3>1. u + 1 = a /\ v + 1 = b
      BY <2>3, <2>5
    <3>2. n \div b \in Int /\ v \in Int
      BY <2>4
    <3>3. u \in Int
      BY <2>4, <3>2
    <3>. HIDE DEF a, b, u, v
    <3>. QED
      BY <2>4, <3>1, <3>2, <3>3
  <2>. HIDE DEF a, b, u, v
  <2>9. (a - 1) * b + (b - 1) + 1 = a * b
    BY <2>4
  <2>10. (n % (a * b)) + 1 = a * b
    BY <2>7, <2>8, <2>9
  <2>. QED
    BY <2>1, <2>6, <2>10 DEF LastFrom
<1>. HIDE DEF T
<1>3. Nat \subseteq T
  BY <1>1, <1>2, NatSteps
<1>4. ASSUME NEW d \in s .. N
      PROVE  LastFrom(n, shape, d)
  <2>1. N - d \in Nat /\ N - d <= N - s /\ N - (N - d) = d
    BY <1>0
  <2>. QED
    BY <1>3, <2>1 DEF T
<1>. QED
  BY <1>4

\* Where the odometer stops carrying, and what it carried over.
LEMMA StopIs ==
  ASSUME NEW shape \in Seq(Nat), NEW n \in Nat, n < Product(shape)
  PROVE  LET stop == Carries(Coords(n, shape), shape)
         IN  /\ stop \in 0 .. Len(shape)
             /\ stop # 0 => Digit(n, shape, stop) + 1 < shape[stop]
             /\ \A d \in stop + 1 .. Len(shape) : Digit(n, shape, d) + 1 = shape[d]
<1>. DEFINE ix == Coords(n, shape)
            N == Len(shape)
            S == {0} \cup {d \in DOMAIN ix : ix[d] + 1 < shape[d]}
            stop == Carries(ix, shape)
<1>0. N \in Nat /\ DOMAIN shape = 1 .. N
  OBVIOUS
<1>1. DOMAIN ix = 1 .. N /\ \A d \in 1 .. N : ix[d] = Digit(n, shape, d)
  BY <1>0, Placed
<1>2. \A d \in 1 .. N : Digit(n, shape, d) \in 0 .. shape[d] - 1 /\ shape[d] \in Nat
  BY <1>0, Placed
<1>3. S \subseteq Int /\ S # {} /\ \A x \in S : x <= N
  BY <1>0, <1>1
<1>4. stop = Max(S)
  BY DEF Carries
<1>. HIDE DEF ix, stop
<1>5. stop \in S /\ \A x \in S : stop >= x
  <2>1. N \in Int
    BY <1>0
  <2>. HIDE DEF S, N
  <2>2. Max(S) \in S /\ \A x \in S : Max(S) >= x
    BY <1>3, <2>1, GreatestOf
  <2>. QED
    BY <1>4, <2>2
<1>6. stop \in 0 .. N /\ (stop # 0 => Digit(n, shape, stop) + 1 < shape[stop])
  BY <1>0, <1>1, <1>5
<1>7. ASSUME NEW d \in stop + 1 .. N
      PROVE  Digit(n, shape, d) + 1 = shape[d]
  <2>1. d \in 1 .. N /\ d \notin S
    BY <1>0, <1>5, <1>6
  <2>2. ~(Digit(n, shape, d) + 1 < shape[d])
    BY <1>1, <2>1
  <2>. QED
    BY <1>2, <2>1, <2>2
<1>. QED
  BY <1>6, <1>7 DEF ix, stop

\* The element after one: the axis where the carry stops moves by one, those
\* after it begin again and those before it stay.
LEMMA NextDigits ==
  ASSUME NEW shape \in Seq(Nat), NEW n \in Nat, n + 1 < Product(shape), NEW s \in 0 .. Len(shape),
         s # 0 => Digit(n, shape, s) + 1 < shape[s],
         \A d \in s + 1 .. Len(shape) : Digit(n, shape, d) + 1 = shape[d]
  PROVE  /\ s # 0
         /\ \A d \in DOMAIN shape :
              Digit(n + 1, shape, d) = IF d < s THEN Digit(n, shape, d)
                                       ELSE IF d = s THEN Digit(n, shape, d) + 1 ELSE 0
<1>. DEFINE N == Len(shape)
<1>0. N \in Nat /\ DOMAIN shape = 1 .. N /\ Product(shape) \in Nat /\ n < Product(shape)
  BY ProductFacts
<1>1. \A d \in s .. N : LastFrom(n, shape, d)
  BY <1>0, Carry
<1>2. \A d \in DOMAIN shape : shape[d] \in Nat \ {0} /\ Stride(shape, d) \in Nat \ {0}
  BY <1>0, Placed
<1>3. s # 0
  <2>. SUFFICES ASSUME s = 0
                PROVE  FALSE
    OBVIOUS
  <2>1. LastFrom(n, shape, 0) /\ Stride(shape, 0) = Product(shape)
    BY <1>0, <1>1, StrideStep
  <2>2. n % Product(shape) = n
    BY <1>0, WrapsNot
  <2>. QED
    BY <1>0, <2>1, <2>2 DEF LastFrom
<1>. DEFINE b == Stride(shape, s)
            m == n \div b
<1>4. s \in DOMAIN shape /\ b \in Nat \ {0} /\ shape[s] \in Nat \ {0}
  BY <1>0, <1>2, <1>3
<1>5. m \in Nat /\ (n + 1) \div b = m + 1 /\ (n + 1) % b = 0
  <2>1. (n % b) + 1 = b
    BY <1>0, <1>1, <1>4 DEF LastFrom
  <2>2. m \in Nat /\ m * b = n - (n % b) /\ n % b \in Int
    BY <1>4, DivisionIs
  <2>. HIDE DEF b, m
  <2>3. (m + 1) * b = n + 1 /\ m + 1 \in Int /\ n + 1 \in Int /\ (m + 1) * b \in Int
    BY <1>4, <2>1, <2>2
  <2>4. (m + 1) * b <= n + 1 /\ n + 1 < (m + 1) * b + b /\ (n + 1) - (m + 1) * b = 0
    BY <1>4, <2>3
  <2>5. (n + 1) \div b = m + 1 /\ (n + 1) % b = (n + 1) - (m + 1) * b
    BY <1>4, <2>3, <2>4, DivisionUnique
  <2>. QED
    BY <2>2, <2>4, <2>5
<1>6. (m % shape[s]) + 1 < shape[s]
  BY <1>3 DEF Digit
<1>7. (m + 1) % shape[s] = (m % shape[s]) + 1 /\ (m + 1) \div shape[s] = m \div shape[s]
  <2>. DEFINE w == shape[s]
  <2>. HIDE DEF w, m
  <2>1. (m % w) + 1 < w /\ w \in Nat \ {0} /\ m \in Nat
    BY <1>4, <1>5, <1>6 DEF w
  <2>2. (m + 1) % w = (m % w) + 1 /\ (m + 1) \div w = m \div w
    BY <2>1, OneFurther
  <2>. QED
    BY <2>2 DEF w
<1>8. Digit(n + 1, shape, s) = Digit(n, shape, s) + 1
  BY <1>5, <1>7 DEF Digit
<1>9. ASSUME NEW d \in DOMAIN shape, d < s
      PROVE  Digit(n + 1, shape, d) = Digit(n, shape, d)
  <2>1. PICK k \in Nat \ {0} : Stride(shape, d) = k * (shape[s] * Stride(shape, s))
    BY <1>2, <1>4, <1>9, StrideSplit
  <2>. DEFINE w == shape[s]
              c == k * w
  <2>2. c \in Nat \ {0} /\ w \in Nat \ {0}
    BY <1>4
  <2>3. Stride(shape, d) = c * b
    BY <2>1, <1>4
  <2>. HIDE DEF b
  <2>4. n \div (c * b) = m \div c /\ (n + 1) \div (c * b) = (m + 1) \div c
    <3>1. n + 1 \in Nat
      OBVIOUS
    <3>. HIDE DEF c
    <3>2. n \div (c * b) = (n \div b) \div c
      BY <1>4, <2>2, DivideTwice
    <3>3. (n + 1) \div (c * b) = ((n + 1) \div b) \div c
      BY <1>4, <2>2, <3>1, DivideTwice
    <3>. QED
      BY <1>5, <3>2, <3>3
  <2>. HIDE DEF m, w
  <2>5. m \div c = (m \div w) \div k /\ (m + 1) \div c = ((m + 1) \div w) \div k
    <3>1. m + 1 \in Nat
      BY <1>5
    <3>. QED
      BY <1>5, <2>2, <3>1, DivideTwice
  <2>6. (m + 1) \div w = m \div w
    BY <1>7 DEF w
  <2>7. (n + 1) \div Stride(shape, d) = n \div Stride(shape, d)
    BY <2>3, <2>4, <2>5, <2>6
  <2>. QED
    BY <2>7 DEF Digit
<1>10. ASSUME NEW d \in DOMAIN shape, d > s
       PROVE  Digit(n + 1, shape, d) = 0
  <2>. DEFINE a == shape[d]
              e == Stride(shape, d)
              q == (n + 1) \div e
              p == n \div e
  <2>1. a \in Nat \ {0} /\ e \in Nat \ {0} /\ d \in s .. N
    BY <1>0, <1>2, <1>10
  <2>2. (n % e) + 1 = e
    BY <1>1, <2>1 DEF LastFrom
  <2>3. (p % a) + 1 = a
    BY <1>0, <1>10 DEF Digit
  <2>4. p \in Nat /\ p * e = n - (n % e) /\ n % e \in Int
    BY <2>1, DivisionIs
  <2>5. q = p + 1
    <3>. HIDE DEF e, p
    <3>1. (p + 1) * e = n + 1 /\ p + 1 \in Int /\ n + 1 \in Int
      BY <2>1, <2>2, <2>4
    <3>2. (p + 1) * e <= n + 1 /\ n + 1 < (p + 1) * e + e
      BY <2>1, <3>1
    <3>3. (n + 1) \div e = p + 1
      BY <2>1, <3>1, <3>2, DivisionUnique
    <3>. QED
      BY <3>3
  <2>. HIDE DEF q, p, e
  <2>6. (p + 1) % a = 0
    <3>. DEFINE t == p \div a
    <3>0. a \in Nat \ {0} /\ p \in Nat
      BY <2>1, <2>4
    <3>. HIDE DEF a
    <3>1. p \div a \in Nat /\ (p \div a) * a = p - (p % a) /\ p % a \in Int
      BY <3>0, DivisionIs
    <3>11. t \in Int
      BY <3>1
    <3>12. t * a = p - (p % a)
      BY <3>1
    <3>. HIDE DEF t
    <3>2. (t + 1) * a = p + 1 /\ t + 1 \in Int /\ p + 1 \in Int
      BY <2>1, <2>3, <2>4, <3>1, <3>11, <3>12
    <3>3. (t + 1) * a <= p + 1 /\ p + 1 < (t + 1) * a + a /\ (p + 1) - (t + 1) * a = 0
      BY <2>1, <3>2
    <3>4. (p + 1) % a = (p + 1) - (t + 1) * a
      BY <2>1, <3>2, <3>3, DivisionUnique
    <3>. QED
      BY <3>3, <3>4
  <2>7. q % a = 0
    BY <2>5, <2>6
  <2>. QED
    BY <2>7 DEF Digit, q, a, e
<1>11. \A d \in DOMAIN shape : d \in Int
  BY <1>0
<1>. QED
  BY <1>3, <1>8, <1>9, <1>10, <1>11

---------------------------------------------------------------------------
(* The cell.                                                               *)

\* What changes a sum is the sum of what changes its terms.
LEMMA SumsMove ==
  ASSUME NEW p, NEW q, NEW u, NEW v, NEW n \in Nat,
         \A a \in 1 .. n : /\ p[a] \in Int /\ q[a] \in Int /\ u[a] \in Int /\ v[a] \in Int
                           /\ p[a] = q[a] + u[a] - v[a]
  PROVE  /\ SumTo(p, n) \in Int /\ SumTo(q, n) \in Int /\ SumTo(u, n) \in Int /\ SumTo(v, n) \in Int
         /\ SumTo(p, n) = SumTo(q, n) + SumTo(u, n) - SumTo(v, n)
<1>. DEFINE Good(m) == /\ SumTo(p, m) \in Int /\ SumTo(q, m) \in Int /\ SumTo(u, m) \in Int /\ SumTo(v, m) \in Int
                       /\ SumTo(p, m) = SumTo(q, m) + SumTo(u, m) - SumTo(v, m)
            T == {m \in Nat : m <= n => Good(m)}
<1>1. 0 \in T
  <2>1. ASSUME NEW x
        PROVE  SumTo(x, 0) = 0
    <3>1. [a \in 1 .. 0 |-> x[a]] = << >>
      OBVIOUS
    <3>. QED
      BY <3>1, AddedFacts DEF SumTo
  <2>2. SumTo(p, 0) = 0 /\ SumTo(q, 0) = 0 /\ SumTo(u, 0) = 0 /\ SumTo(v, 0) = 0
    BY <2>1
  <2>. QED
    BY <2>2
<1>2. ASSUME NEW m \in Nat, m \in T
      PROVE  m + 1 \in T
  <2>. SUFFICES ASSUME m + 1 <= n
                PROVE  Good(m + 1)
    OBVIOUS
  <2>1. Good(m) /\ m + 1 \in 1 .. n /\ \A a \in 1 .. m + 1 : a \in 1 .. n
    BY <1>2
  <2>. DEFINE ps == SumTo(p, m)
              qs == SumTo(q, m)
              us == SumTo(u, m)
              vs == SumTo(v, m)
              px == p[m + 1]
              qx == q[m + 1]
              ux == u[m + 1]
              vx == v[m + 1]
  <2>2. /\ SumTo(p, m + 1) = ps + px /\ SumTo(q, m + 1) = qs + qx
        /\ SumTo(u, m + 1) = us + ux /\ SumTo(v, m + 1) = vs + vx
    BY <2>1, SumToStep
  <2>3. /\ ps \in Int /\ qs \in Int /\ us \in Int /\ vs \in Int /\ ps = qs + us - vs
        /\ px \in Int /\ qx \in Int /\ ux \in Int /\ vx \in Int /\ px = qx + ux - vx
    BY <2>1
  <2>. HIDE DEF ps, qs, us, vs, px, qx, ux, vx
  <2>4. /\ ps + px \in Int /\ qs + qx \in Int /\ us + ux \in Int /\ vs + vx \in Int
        /\ ps + px = (qs + qx) + (us + ux) - (vs + vx)
    BY <2>3
  <2>. QED
    BY <2>2, <2>4
<1>3. n \in T
  <2>. HIDE DEF T
  <2>. QED
    BY <1>1, <1>2, NatSteps
<1>. QED
  BY <1>3

\* q are the terms of the number whose coordinates in `dims` are e.
Terms(q, dims, e) ==
  /\ \A d \in 1 .. Len(dims) : dims[d] \in Nat \ {0} /\ e[d] \in 0 .. dims[d] - 1
  /\ \A d \in 1 .. Len(dims) : q[d] = Stride(dims, d) * e[d]

\* The terms up to one axis make a multiple of its stride, and those up to the
\* next add less than that.
LEMMA TermStep ==
  ASSUME NEW dims \in Seq(Nat), NEW q, NEW e, Terms(q, dims, e), NEW m \in 0 .. Len(dims) - 1
  PROVE  /\ SumTo(q, m) \in Int /\ SumTo(q, m + 1) \in Int
         /\ SumTo(q, m) <= SumTo(q, m + 1)
         /\ SumTo(q, m + 1) + Stride(dims, m + 1) <= SumTo(q, m) + Stride(dims, m)
         /\ \A x \in Nat : SumTo(q, m) = x * Stride(dims, m) =>
              SumTo(q, m + 1) = (x * dims[m + 1] + e[m + 1]) * Stride(dims, m + 1)
<1>. DEFINE N == Len(dims)
            k == dims[m + 1]
            t == e[m + 1]
            s == Stride(dims, m + 1)
            c == SumTo(q, m)
<1>0. N \in Nat /\ DOMAIN dims = 1 .. N /\ m \in Nat /\ m + 1 \in 1 .. N /\ \A a \in 1 .. m + 1 : a \in 1 .. N
  OBVIOUS
<1>1. \A d \in 1 .. N : dims[d] \in Nat \ {0}
  BY DEF Terms
<1>2. \A d \in 1 .. N : Stride(dims, d) \in Nat \ {0}
  BY <1>0, <1>1, StrideSplit
<1>3. \A d \in 1 .. N : q[d] \in Int
  <2>1. ASSUME NEW d \in 1 .. N
        PROVE  q[d] \in Int
    <3>1. e[d] \in Int /\ Stride(dims, d) \in Int /\ q[d] = Stride(dims, d) * e[d]
      BY <1>2 DEF Terms
    <3>. QED
      BY <3>1
  <2>. QED
    BY <2>1
<1>4. c \in Int /\ SumTo(q, m + 1) = c + q[m + 1]
  BY <1>0, <1>3, SumToStep
<1>5. Stride(dims, m) = k * s
  BY StrideStep
<1>6. k \in Nat \ {0} /\ t \in 0 .. k - 1 /\ s \in Nat \ {0} /\ q[m + 1] = s * t
  BY <1>0, <1>2 DEF Terms
<1>. HIDE DEF k, t, s, c
<1>7. s * t >= 0 /\ s * t \in Int /\ (t + 1) * s <= k * s /\ (t + 1) * s = s * t + s /\ k * s \in Int
  BY <1>6
<1>8. c + s * t \in Int /\ c <= c + s * t /\ (c + s * t) + s <= c + k * s
  BY <1>4, <1>6, <1>7
<1>9. ASSUME NEW x \in Nat, c = x * (k * s)
      PROVE  c + s * t = (x * k + t) * s
  <2>1. x * (k * s) = (x * k) * s /\ x * k \in Int
    BY <1>6
  <2>2. (x * k + t) * s = (x * k) * s + t * s /\ t * s = s * t
    BY <1>6, <2>1
  <2>. QED
    BY <1>9, <2>1, <2>2
<1>. QED
  BY <1>4, <1>5, <1>6, <1>8, <1>9 DEF k, t, s, c

\* A number put together from coordinates has them.
LEMMA Composed ==
  ASSUME NEW dims \in Seq(Nat), NEW q, NEW e, Terms(q, dims, e)
  PROVE  /\ SumTo(q, Len(dims)) \in 0 .. Product(dims) - 1
         /\ \A d \in DOMAIN dims : Digit(SumTo(q, Len(dims)), dims, d) = e[d]
<1>. DEFINE N == Len(dims)
            c(n) == SumTo(q, n)
            above(n) == c(n) + Stride(dims, n)
            Good(n) == /\ c(n) \in Int /\ Stride(dims, n) \in Nat
                       /\ \E x \in Nat : c(n) = x * Stride(dims, n) /\ (n # 0 => x % dims[n] = e[n])
                       /\ \A m \in 0 .. n : c(m) <= c(n) /\ above(n) <= above(m)
            T == {n \in Nat : n <= N => \A m \in 0 .. n : Good(m)}
<1>0. N \in Nat /\ DOMAIN dims = 1 .. N
  OBVIOUS
<1>1. Stride(dims, 0) = Product(dims) /\ Stride(dims, N) = 1 /\ Product(dims) \in Nat
  BY StrideStep, ProductFacts
<1>2. c(0) = 0
  <2>1. [a \in 1 .. 0 |-> q[a]] = << >>
    OBVIOUS
  <2>. QED
    BY <2>1, AddedFacts DEF SumTo
<1>3. 0 \in T
  <2>1. Good(0)
    <3>1. 0 = 0 * Stride(dims, 0) /\ 0 \in Nat /\ 0 .. 0 = {0}
      BY <1>1
    <3>2. c(0) \in Int /\ Stride(dims, 0) \in Nat
      BY <1>1, <1>2
    <3>. QED
      BY <1>1, <1>2, <3>1, <3>2
  <2>. HIDE DEF Good
  <2>. QED
    BY <2>1
<1>4. ASSUME NEW n \in Nat, n \in T
      PROVE  n + 1 \in T
  <2>. SUFFICES ASSUME n + 1 <= N
                PROVE  \A m \in 0 .. n + 1 : Good(m)
    BY DEF T
  <2>1. \A m \in 0 .. n : Good(m)
    BY <1>4
  <2>2. n \in 0 .. N - 1 /\ n + 1 \in 1 .. N /\ n \in 0 .. n /\ n + 1 # 0
    BY <1>0
  <2>3. /\ c(n) \in Int /\ c(n + 1) \in Int /\ c(n) <= c(n + 1) /\ above(n + 1) <= above(n)
        /\ \A x \in Nat : c(n) = x * Stride(dims, n) =>
             c(n + 1) = (x * dims[n + 1] + e[n + 1]) * Stride(dims, n + 1)
    BY <2>2, TermStep
  <2>4. Stride(dims, n + 1) \in Nat /\ Stride(dims, n) \in Nat
    BY <2>2, StrideStep
  <2>5. dims[n + 1] \in Nat \ {0} /\ e[n + 1] \in 0 .. dims[n + 1] - 1
    BY <2>2 DEF Terms
  <2>6. \E x \in Nat : c(n + 1) = x * Stride(dims, n + 1) /\ x % dims[n + 1] = e[n + 1]
    <3>1. PICK x \in Nat : c(n) = x * Stride(dims, n)
      BY <2>1, <2>2
    <3>. DEFINE k == dims[n + 1]
                t == e[n + 1]
                y == x * k + t
    <3>2. c(n + 1) = y * Stride(dims, n + 1)
      BY <2>3, <3>1
    <3>. HIDE DEF k, t
    <3>3. k \in Nat \ {0} /\ t \in 0 .. k - 1
      BY <2>5 DEF k, t
    <3>4. y \in Int /\ x \in Int /\ x * k <= y /\ y < x * k + k /\ y - x * k = t
      BY <3>3
    <3>. HIDE DEF y
    <3>5. y % k = y - x * k
      BY <3>3, <3>4, DivisionUnique
    <3>. QED
      BY <3>2, <3>4, <3>5 DEF k, t
  <2>7. ASSUME NEW m \in 0 .. n + 1
        PROVE  c(m) <= c(n + 1) /\ above(n + 1) <= above(m)
    <3>1. CASE m = n + 1
      BY <2>3, <2>4, <3>1
    <3>2. CASE m \in 0 .. n
      <4>1. c(m) <= c(n) /\ above(n) <= above(m) /\ c(m) \in Int /\ Stride(dims, m) \in Nat
        BY <2>1, <2>2, <3>2
      <4>2. above(m) \in Int /\ above(n) \in Int /\ above(n + 1) \in Int
        BY <2>3, <2>4, <4>1
      <4>. HIDE DEF above, c
      <4>. QED
        BY <2>3, <4>1, <4>2
    <3>. QED
      BY <3>1, <3>2
  <2>8. Good(n + 1)
    <3>. HIDE DEF c, above
    <3>. QED
      BY <2>2, <2>3, <2>4, <2>6, <2>7
  <2>9. \A m \in 0 .. n + 1 : m \in 0 .. n \/ m = n + 1
    OBVIOUS
  <2>. HIDE DEF Good
  <2>. QED
    BY <2>1, <2>8, <2>9
<1>5. \A m \in 0 .. N : Good(m)
  <2>. HIDE DEF Good
  <2>1. Nat \subseteq T
    <3>. HIDE DEF T
    <3>. QED
      BY <1>3, <1>4, NatSteps
  <2>. QED
    BY <1>0, <2>1
<1>. HIDE DEF T
<1>6. c(N) \in Int /\ \A m \in 0 .. N : c(m) <= c(N) /\ above(N) <= above(m)
  BY <1>0, <1>5
<1>7. c(N) \in 0 .. Product(dims) - 1
  <2>1. 0 \in 0 .. N /\ above(N) = c(N) + 1 /\ above(0) = Product(dims)
    BY <1>0, <1>1, <1>2
  <2>2. 0 <= c(N) /\ c(N) + 1 <= Product(dims)
    BY <1>2, <1>6, <2>1
  <2>. HIDE DEF c
  <2>. QED
    BY <1>1, <1>6, <2>2
<1>8. ASSUME NEW d \in DOMAIN dims
      PROVE  Digit(c(N), dims, d) = e[d]
  <2>. DEFINE s == Stride(dims, d)
              n == c(N)
  <2>1. d \in 0 .. N /\ d # 0 /\ d \in 1 .. N /\ \A a \in DOMAIN dims : dims[a] # 0
    BY <1>0 DEF Terms
  <2>2. PICK x \in Nat : c(d) = x * s /\ x % dims[d] = e[d]
    BY <1>5, <2>1
  <2>3. s \in Nat \ {0}
    BY <2>1, StrideSplit
  <2>4. c(d) <= n /\ n + 1 <= c(d) + s
    <3>1. above(N) = n + 1 /\ above(d) = c(d) + s
      BY <1>1
    <3>. QED
      BY <1>6, <2>1, <3>1
  <2>5. n \in Int
    BY <1>6
  <2>. HIDE DEF s, n, c
  <2>6. x * s <= n /\ n < x * s + s /\ x \in Int
    BY <2>2, <2>3, <2>4, <2>5
  <2>7. n \div s = x
    BY <2>3, <2>5, <2>6, DivisionUnique
  <2>. QED
    BY <2>2, <2>7 DEF Digit, s, n, c
<1>. QED
  BY <1>7, <1>8

\* Which axes are reduced.
Flags(shape) == [1 .. Len(shape) -> BOOLEAN]

LEMMA KeptFacts ==
  ASSUME NEW shape \in Seq(Nat), NEW reduced \in Flags(shape)
  PROVE  /\ KeptShape(shape, reduced) \in Seq(Nat)
         /\ Len(KeptShape(shape, reduced)) = Len(shape)
         /\ DOMAIN shape = 1 .. Len(shape)
         /\ \A d \in DOMAIN shape :
              KeptShape(shape, reduced)[d] = IF reduced[d] THEN 1 ELSE shape[d]
<1>. DEFINE K == [d \in 1 .. Len(shape) |-> IF reduced[d] THEN 1 ELSE shape[d]]
<1>1. Len(shape) \in Nat /\ DOMAIN shape = 1 .. Len(shape)
  OBVIOUS
<1>2. K \in [1 .. Len(shape) -> Nat]
  <2>1. \A d \in 1 .. Len(shape) : shape[d] \in Nat
    BY <1>1
  <2>. QED
    BY <2>1
<1>3. K \in Seq(Nat) /\ Len(K) = Len(shape)
  BY <1>1, <1>2
<1>4. KeptShape(shape, reduced) = K
  BY <1>1 DEF KeptShape
<1>. QED
  BY <1>1, <1>3, <1>4

\* What a walk is made of.
LEMMA WalkParts ==
  ASSUME NEW shape \in Seq(Nat), NEW reduced \in Flags(shape), NEW axis, NEW to,
         NEW w, w = WalkOver(shape, reduced, axis, to)
  PROVE  /\ w.shape = shape /\ w.out = to
         /\ w.cells = Product(KeptShape(shape, reduced)) /\ w.cells \in Nat
         /\ \A d \in 1 .. Len(shape) :
              w.stride[d] = IF reduced[d] THEN 0 ELSE Stride(KeptShape(shape, reduced), d)
         /\ \A d \in 1 .. Len(shape) : w.stride[d] \in Nat
<1>1. \A d \in DOMAIN shape : Stride(KeptShape(shape, reduced), d) \in Nat
  <2>. SUFFICES ASSUME NEW d \in DOMAIN shape
                PROVE  Stride(KeptShape(shape, reduced), d) \in Nat
    OBVIOUS
  <2>. DEFINE K == KeptShape(shape, reduced)
  <2>1. K \in Seq(Nat) /\ d - 1 \in 0 .. Len(K) - 1 /\ (d - 1) + 1 = d
    BY KeptFacts
  <2>. HIDE DEF K
  <2>2. Stride(K, (d - 1) + 1) \in Nat
    BY <2>1, StrideStep
  <2>. QED
    BY <2>1, <2>2 DEF K
<1>2. Product(KeptShape(shape, reduced)) \in Nat
  BY KeptFacts, ProductFacts
<1>3. DOMAIN shape = 1 .. Len(shape)
  BY KeptFacts
<1>. QED
  BY <1>1, <1>2, <1>3 DEF WalkOver, StrideOf

\* The steps the odometer has taken, in cells.
Steps(w, ix) == Added([d \in DOMAIN w.shape |-> w.stride[d] * ix[d]])

\* Those steps lead to the cell that has the element's coordinates on the axes
\* that are kept, and there is one.
LEMMA CellIs ==
  ASSUME NEW shape \in Seq(Nat), NEW reduced \in Flags(shape), NEW axis, NEW to,
         NEW n \in Nat, n < Product(shape), NEW w, w = WalkOver(shape, reduced, axis, to)
  PROVE  /\ Steps(w, Coords(n, shape)) \in 0 .. w.cells - 1
         /\ Coords(Steps(w, Coords(n, shape)), KeptShape(shape, reduced)) =
              [d \in DOMAIN shape |-> IF reduced[d] THEN 0 ELSE Coords(n, shape)[d]]
<1>. DEFINE N == Len(shape)
            K == KeptShape(shape, reduced)
            ix == Coords(n, shape)
            q == [d \in 1 .. N |-> w.stride[d] * ix[d]]
            e == [d \in 1 .. N |-> IF reduced[d] THEN 0 ELSE ix[d]]
<1>1. /\ N \in Nat /\ DOMAIN shape = 1 .. N /\ K \in Seq(Nat) /\ Len(K) = N /\ DOMAIN K = 1 .. N
      /\ \A d \in 1 .. N : K[d] = IF reduced[d] THEN 1 ELSE shape[d]
  BY KeptFacts
<1>2. \A d \in 1 .. N : shape[d] \in Nat \ {0} /\ ix[d] \in 0 .. shape[d] - 1
  BY <1>1, Placed
<1>3. /\ w.shape = shape /\ w.cells = Product(K)
      /\ \A d \in 1 .. N : w.stride[d] = IF reduced[d] THEN 0 ELSE Stride(K, d)
  BY <1>1, WalkParts
<1>4. \A d \in 1 .. N : K[d] \in Nat \ {0} /\ e[d] \in 0 .. K[d] - 1
  <2>. HIDE DEF ix, K
  <2>. QED
    BY <1>1, <1>2
<1>5. \A d \in 1 .. N : q[d] = Stride(K, d) * e[d]
  <2>. SUFFICES ASSUME NEW d \in 1 .. N
                PROVE  w.stride[d] * ix[d] = Stride(K, d) * (IF reduced[d] THEN 0 ELSE ix[d])
    OBVIOUS
  <2>1. Stride(K, d) \in Nat \ {0} /\ ix[d] \in Nat
    <3>1. /\ K \in Seq(Nat) /\ d \in 1 .. Len(K) /\ d \in DOMAIN K
          /\ \A a \in DOMAIN K : K[a] \in Nat \ {0}
      BY <1>1, <1>4
    <3>. HIDE DEF K, ix
    <3>2. Stride(K, d) \in Nat \ {0}
      BY <3>1, StrideSplit
    <3>. QED
      BY <1>2, <3>2
  <2>. HIDE DEF K, ix
  <2>. QED
    BY <1>3, <2>1
<1>6. Terms(q, K, e)
  <2>. HIDE DEF q, K, e
  <2>. QED
    BY <1>1, <1>4, <1>5 DEF Terms
<1>7. Steps(w, ix) = SumTo(q, N)
  <2>1. [d \in 1 .. N |-> q[d]] = q
    OBVIOUS
  <2>2. [d \in DOMAIN w.shape |-> w.stride[d] * ix[d]] = q
    BY <1>1, <1>3
  <2>. HIDE DEF q
  <2>. QED
    BY <2>1, <2>2 DEF Steps, SumTo
<1>. HIDE DEF q, ix
<1>8. SumTo(q, N) \in 0 .. Product(K) - 1 /\ \A d \in DOMAIN K : Digit(SumTo(q, N), K, d) = e[d]
  <2>. HIDE DEF K, e
  <2>. QED
    BY <1>1, <1>6, Composed
<1>9. Coords(SumTo(q, N), K) = [d \in 1 .. N |-> e[d]]
  <2>. HIDE DEF K, e, N
  <2>. QED
    BY <1>1, <1>8 DEF Coords, Digit
<1>. QED
  BY <1>1, <1>3, <1>7, <1>8, <1>9 DEF ix

\* One step of the odometer is one element further.
LEMMA OdometerStep ==
  ASSUME NEW shape \in Seq(Nat), NEW reduced \in Flags(shape), NEW axis, NEW to,
         NEW n \in Nat, n + 1 < Product(shape), NEW w, w = WalkOver(shape, reduced, axis, to)
  PROVE  /\ NextIndex(Coords(n, shape), shape) = Coords(n + 1, shape)
         /\ NextCell(w, Coords(n, shape), Steps(w, Coords(n, shape))) = Steps(w, Coords(n + 1, shape))
<1>. DEFINE N == Len(shape)
            ix == Coords(n, shape)
            iy == Coords(n + 1, shape)
            s == Carries(ix, shape)
<1>0. N \in Nat /\ DOMAIN shape = 1 .. N /\ n < Product(shape) /\ n + 1 \in Nat
  BY ProductFacts
<1>1. /\ s \in 0 .. N /\ (s # 0 => Digit(n, shape, s) + 1 < shape[s])
      /\ \A d \in s + 1 .. N : Digit(n, shape, d) + 1 = shape[d]
  BY <1>0, StopIs
<1>2. /\ ix = [d \in DOMAIN shape |-> Digit(n, shape, d)]
      /\ iy = [d \in DOMAIN shape |-> Digit(n + 1, shape, d)]
      /\ \A d \in 1 .. N : shape[d] \in Nat \ {0} /\ ix[d] \in 0 .. shape[d] - 1 /\ ix[d] = Digit(n, shape, d)
  <2>1. /\ ix = [d \in DOMAIN shape |-> Digit(n, shape, d)]
        /\ \A d \in 1 .. N : shape[d] \in Nat \ {0} /\ ix[d] \in 0 .. shape[d] - 1
    BY <1>0, Placed
  <2>. DEFINE m == n + 1
  <2>2. m \in Nat /\ m < Product(shape)
    BY <1>0
  <2>. HIDE DEF m
  <2>3. Coords(m, shape) = [d \in DOMAIN shape |-> Digit(m, shape, d)]
    BY <2>2, Placed
  <2>. HIDE DEF ix, N
  <2>. QED
    BY <1>0, <2>1, <2>3 DEF m, N
<1>3. \A d \in 1 .. N : Digit(n + 1, shape, d) = IF d < s THEN Digit(n, shape, d)
                                                 ELSE IF d = s THEN Digit(n, shape, d) + 1 ELSE 0
  <2>. HIDE DEF s
  <2>. QED
    BY <1>0, <1>1, NextDigits
<1>4. NextIndex(ix, shape) = iy
  <2>1. NextIndex(ix, shape) = [d \in DOMAIN ix |-> IF d < s THEN ix[d] ELSE IF d = s THEN ix[d] + 1 ELSE 0]
    BY DEF NextIndex
  <2>2. DOMAIN ix = 1 .. N /\ DOMAIN shape = 1 .. N
    BY <1>0, <1>2
  <2>. DEFINE next(d) == IF d < s THEN ix[d] ELSE IF d = s THEN ix[d] + 1 ELSE 0
  <2>3. ASSUME NEW d \in 1 .. N
        PROVE  next(d) = Digit(n + 1, shape, d)
    <3>. HIDE DEF s, ix
    <3>. QED
      BY <1>2, <1>3
  <2>4. NextIndex(ix, shape) = [d \in 1 .. N |-> next(d)]
    BY <2>1, <2>2
  <2>5. iy = [d \in 1 .. N |-> Digit(n + 1, shape, d)]
    BY <1>2, <2>2
  <2>. HIDE DEF next, ix, iy
  <2>. QED
    BY <2>3, <2>4, <2>5
<1>5. w.shape = shape /\ \A d \in 1 .. N : w.stride[d] \in Nat
  BY <1>0, WalkParts
<1>. DEFINE q == [d \in 1 .. N |-> w.stride[d] * ix[d]]
            p == [d \in 1 .. N |-> w.stride[d] * iy[d]]
            u == [d \in 1 .. N |-> IF d >= s THEN w.stride[d] ELSE 0]
            v == [d \in 1 .. N |-> IF d > s THEN w.stride[d] * shape[d] ELSE 0]
<1>6. ASSUME NEW d \in 1 .. N
      PROVE  /\ p[d] \in Int /\ q[d] \in Int /\ u[d] \in Int /\ v[d] \in Int
             /\ p[d] = q[d] + u[d] - v[d]
  <2>. DEFINE st == w.stride[d]
              x == ix[d]
              y == iy[d]
              k == shape[d]
  <2>1. st \in Nat /\ x \in Nat /\ k \in Nat /\ s \in Int /\ d \in Int
    <3>1. st \in Nat
      BY <1>5
    <3>2. s \in Int /\ d \in Int
      BY <1>1
    <3>3. k \in Nat /\ x \in 0 .. k - 1
      <4>. HIDE DEF ix
      <4>. QED
        BY <1>2
    <3>. HIDE DEF st, x, k, s
    <3>. QED
      BY <3>1, <3>2, <3>3
  <2>2. y = IF d < s THEN x ELSE IF d = s THEN x + 1 ELSE 0
    BY <1>0, <1>2, <1>3
  <2>3. d > s => x + 1 = k
    BY <1>1, <1>2
  <2>4. /\ p[d] = st * y /\ q[d] = st * x /\ u[d] = (IF d >= s THEN st ELSE 0)
        /\ v[d] = (IF d > s THEN st * k ELSE 0)
    OBVIOUS
  <2>. HIDE DEF st, x, y, k, s, p, q, u, v
  <2>5. st * x \in Int /\ st * k \in Int /\ st * 0 = 0 /\ st * (x + 1) = st * x + st
    BY <2>1
  <2>6. CASE d < s
    BY <2>1, <2>2, <2>4, <2>5, <2>6
  <2>7. CASE d = s
    BY <2>1, <2>2, <2>4, <2>5, <2>7
  <2>8. CASE d > s
    <3>1. st * (x + 1) = st * k
      BY <2>3, <2>8
    <3>2. y = 0 /\ p[d] = 0
      BY <2>1, <2>2, <2>4, <2>5, <2>8
    <3>3. u[d] = st /\ v[d] = st * k
      BY <2>1, <2>4, <2>8
    <3>. DEFINE a == st * x
                b == st * k
    <3>4. a \in Int /\ b \in Int /\ b = a + st
      BY <2>1, <2>5, <3>1
    <3>5. q[d] = a /\ v[d] = b
      BY <2>4, <3>3
    <3>. HIDE DEF a, b
    <3>. QED
      BY <2>1, <3>2, <3>3, <3>4, <3>5
  <2>. QED
    BY <2>1, <2>6, <2>7, <2>8
<1>7. /\ Steps(w, ix) = SumTo(q, N) /\ Steps(w, iy) = SumTo(p, N)
      /\ Ahead(w, s) = SumTo(u, N) /\ Back(w, s) = SumTo(v, N)
  <2>1. /\ [d \in 1 .. N |-> q[d]] = q /\ [d \in 1 .. N |-> p[d]] = p
        /\ [d \in 1 .. N |-> u[d]] = u /\ [d \in 1 .. N |-> v[d]] = v
    OBVIOUS
  <2>2. DOMAIN w.shape = 1 .. N /\ w.shape = shape
    BY <1>0, <1>5
  <2>3. /\ [d \in DOMAIN w.shape |-> w.stride[d] * ix[d]] = q
        /\ [d \in DOMAIN w.shape |-> w.stride[d] * iy[d]] = p
        /\ [d \in DOMAIN w.shape |-> IF d >= s THEN w.stride[d] ELSE 0] = u
        /\ [d \in DOMAIN w.shape |-> IF d > s THEN w.stride[d] * w.shape[d] ELSE 0] = v
    BY <2>2
  <2>. HIDE DEF p, q, u, v, ix, iy, s
  <2>. QED
    BY <2>1, <2>3 DEF Steps, Ahead, Back, SumTo
<1>8. SumTo(p, N) = SumTo(q, N) + SumTo(u, N) - SumTo(v, N)
  <2>. HIDE DEF p, q, u, v, N, s, ix, iy
  <2>1. \A a \in 1 .. N : /\ p[a] \in Int /\ q[a] \in Int /\ u[a] \in Int /\ v[a] \in Int
                         /\ p[a] = q[a] + u[a] - v[a]
    BY <1>6
  <2>2. N \in Nat
    BY <1>0
  <2>. QED
    BY <2>1, <2>2, SumsMove
<1>9. NextCell(w, ix, Steps(w, ix)) = Steps(w, ix) + Ahead(w, s) - Back(w, s)
  BY <1>5 DEF NextCell
<1>. HIDE DEF p, q, u, v, s, ix, iy
<1>10. NextCell(w, ix, Steps(w, ix)) = Steps(w, iy)
  BY <1>7, <1>8, <1>9
<1>. QED
  BY <1>4, <1>10 DEF ix, iy

\* It begins at the first element, in the first cell.
LEMMA OdometerBegins ==
  ASSUME NEW shape \in Seq(Nat), NEW reduced \in Flags(shape), NEW axis, NEW to,
         0 < Product(shape), NEW w, w = WalkOver(shape, reduced, axis, to)
  PROVE  [d \in DOMAIN shape |-> 0] = Coords(0, shape) /\ Steps(w, Coords(0, shape)) = 0
<1>. DEFINE N == Len(shape)
            ix == Coords(0, shape)
            q == [d \in 1 .. N |-> w.stride[d] * ix[d]]
<1>1. N \in Nat /\ DOMAIN shape = 1 .. N
  OBVIOUS
<1>2. /\ ix = [d \in 1 .. N |-> Digit(0, shape, d)]
      /\ \A d \in 1 .. N : shape[d] \in Nat \ {0} /\ Stride(shape, d) \in Nat \ {0}
  BY <1>1, Placed
<1>3. ASSUME NEW d \in 1 .. N
      PROVE  Digit(0, shape, d) = 0
  <2>. DEFINE a == shape[d]
              b == Stride(shape, d)
  <2>1. a \in Nat \ {0} /\ b \in Nat \ {0}
    BY <1>2
  <2>. HIDE DEF a, b
  <2>2. 0 \div b = 0
    <3>1. 0 * b <= 0 /\ 0 < 0 * b + b
      BY <2>1
    <3>. QED
      BY <2>1, <3>1, DivisionUnique
  <2>3. 0 % a = 0
    BY <2>1, WrapsNot
  <2>. QED
    BY <2>2, <2>3 DEF Digit, a, b
<1>4. ix = [d \in DOMAIN shape |-> 0]
  <2>. HIDE DEF ix
  <2>. QED
    BY <1>1, <1>2, <1>3
<1>5. w.shape = shape /\ \A d \in 1 .. N : w.stride[d] \in Nat
  BY <1>1, WalkParts
<1>6. \A d \in 1 .. N : q[d] = 0
  <2>. HIDE DEF ix
  <2>. QED
    BY <1>1, <1>4, <1>5
<1>7. \A m \in Nat : m <= N => SumTo(q, m) = 0
  <2>. DEFINE T == {m \in Nat : m <= N => SumTo(q, m) = 0}
  <2>. HIDE DEF q
  <2>1. 0 \in T
    <3>1. [a \in 1 .. 0 |-> q[a]] = << >>
      OBVIOUS
    <3>. QED
      BY <3>1, AddedFacts DEF SumTo
  <2>2. ASSUME NEW m \in Nat, m \in T
        PROVE  m + 1 \in T
    <3>. SUFFICES ASSUME m + 1 <= N
                  PROVE  SumTo(q, m + 1) = 0
      OBVIOUS
    <3>1. SumTo(q, m) = 0 /\ m + 1 \in 1 .. N /\ \A a \in 1 .. m + 1 : q[a] \in Int
      BY <1>1, <1>6, <2>2
    <3>2. SumTo(q, m + 1) = SumTo(q, m) + q[m + 1]
      BY <3>1, SumToStep
    <3>. QED
      BY <1>6, <3>1, <3>2
  <2>3. Nat \subseteq T
    <3>. HIDE DEF T
    <3>. QED
      BY <2>1, <2>2, NatSteps
  <2>. QED
    BY <2>3
<1>8. Steps(w, ix) = SumTo(q, N)
  <2>1. [d \in 1 .. N |-> q[d]] = q /\ [d \in DOMAIN w.shape |-> w.stride[d] * ix[d]] = q
    BY <1>1, <1>5
  <2>. HIDE DEF q, ix
  <2>. QED
    BY <2>1 DEF Steps, SumTo
<1>. QED
  BY <1>1, <1>4, <1>7, <1>8

---------------------------------------------------------------------------
(* The invariant.                                                          *)

\* Sequences of one element, one after the other.
Ones(q, g, n) == \A a \in 1 .. n : q[a] = <<g[a]>>

LEMMA FlattenOnes ==
  ASSUME NEW X, NEW n \in Nat, NEW q \in [1 .. n -> Seq(X)], NEW g \in [1 .. n -> X], Ones(q, g, n)
  PROVE  FlattenSeq(q) = g
<1>. DEFINE F(m) == FlattenSeq([a \in 1 .. m |-> q[a]])
            G(m) == [a \in 1 .. m |-> g[a]]
            T == {m \in Nat : m <= n => F(m) = G(m)}
<1>1. 0 \in T
  <2>1. [a \in 1 .. 0 |-> q[a]] = << >> /\ G(0) = << >> /\ Len(<< >>) = 0
    OBVIOUS
  <2>2. F(0) = << >>
    BY <2>1 DEF FlattenSeq
  <2>. QED
    BY <2>1, <2>2
<1>2. ASSUME NEW m \in Nat, m \in T
      PROVE  m + 1 \in T
  <2>. SUFFICES ASSUME m + 1 <= n
                PROVE  F(m + 1) = G(m + 1)
    OBVIOUS
  <2>1. \A a \in 1 .. m + 1 : a \in 1 .. n /\ g[a] \in X /\ q[a] = <<g[a]>> /\ q[a] \in Seq(X)
    <3>1. \A a \in 1 .. m + 1 : a \in 1 .. n
      OBVIOUS
    <3>. QED
      BY <3>1 DEF Ones
  <2>2. F(m + 1) = F(m) \o q[m + 1]
    BY <2>1, FlattenStep
  <2>3. F(m) = G(m) /\ q[m + 1] = <<g[m + 1]>>
    BY <1>2, <2>1
  <2>4. G(m) \o <<g[m + 1]>> = G(m + 1)
    <3>1. G(m) \in Seq(X) /\ Len(G(m)) = m
      BY <2>1
    <3>. QED
      BY <2>1, <3>1
  <2>. HIDE DEF F, G
  <2>. QED
    BY <2>2, <2>3, <2>4
<1>3. n \in T
  <2>. HIDE DEF T
  <2>. QED
    BY <1>1, <1>2, NatSteps
<1>4. [a \in 1 .. n |-> q[a]] = q /\ [a \in 1 .. n |-> g[a]] = g
  OBVIOUS
<1>. QED
  BY <1>3, <1>4

\* The axes reduced, as the code keeps them.
AsFlags(shape, axes) == [d \in 1 .. Len(shape) |-> d \in axes]

\* The shape of numpy's result when it keeps the axes is the one cells are
\* counted in.
LEMMA ResultKept ==
  ASSUME NEW shape \in Seq(Nat), NEW axes
  PROVE  NumpyResultShape(shape, axes, TRUE) = KeptShape(shape, AsFlags(shape, axes))
<1>. DEFINE N == Len(shape)
            q == [a \in 1 .. N |-> IF a \notin axes THEN <<shape[a]>> ELSE <<1>>]
            g == [a \in 1 .. N |-> IF a \in axes THEN 1 ELSE shape[a]]
<1>1. N \in Nat /\ DOMAIN shape = 1 .. N
  OBVIOUS
<1>2. \A a \in 1 .. N : g[a] \in Nat /\ q[a] = <<g[a]>>
  BY <1>1
<1>3. NumpyResultShape(shape, axes, TRUE) = FlattenSeq(q)
  BY <1>1 DEF NumpyResultShape
<1>4. KeptShape(shape, AsFlags(shape, axes)) = g
  BY <1>1 DEF KeptShape, AsFlags
<1>5. q \in [1 .. N -> Seq(Nat)] /\ g \in [1 .. N -> Nat]
  BY <1>1
<1>. HIDE DEF q, g, N
<1>6. FlattenSeq(q) = g
  <2>1. N \in Nat
    BY <1>1
  <2>2. Ones(q, g, N)
    BY <1>2 DEF Ones
  <2>. QED
    BY <1>5, <2>1, <2>2, FlattenOnes
<1>. QED
  BY <1>3, <1>4, <1>6

\* What is reduced.
LEMMA InputFacts ==
  ASSUME NEW x \in Inputs
  PROVE  /\ x.shape \in Seq(Nat) /\ x.data \in Seq(Range(x.data)) /\ Len(x.data) = Product(x.shape)
         /\ Len(x.data) \in Nat /\ x.dtype.size \in Nat \ {0} /\ x.dtype.size <= BLOCK_BYTES
         /\ BLOCK_BYTES \in Nat
<1>1. /\ x.shape \in Seq(Nat) /\ x.data \in [1 .. Product(x.shape) -> Range(x.data)]
      /\ x.dtype.size \in 1 .. BLOCK_BYTES /\ BLOCK_BYTES \in Nat
  BY ReduceAssumption
<1>2. Product(x.shape) \in Nat
  BY <1>1, ProductFacts
<1>. QED
  BY <1>1, <1>2

LEMMA AcceptedAxes ==
  ASSUME NEW shape \in Seq(Nat), NEW axis, OverAxes(axis), NEW function,
         NEW reduced, reduced = reduced_axes(Len(shape), axis, function), reduced # << >>
  PROVE  /\ ProperAxes(Len(shape), axis, function)
         /\ reduced[1] = AsFlags(shape, NumpyAxes(Len(shape), axis))
         /\ reduced[1] \in Flags(shape)
<1>1. Len(shape) \in Nat
  OBVIOUS
<1>2. ProperAxes(Len(shape), axis, function) /\ reduced = <<AsFlags(shape, NumpyAxes(Len(shape), axis))>>
  BY <1>1, AxesTaken DEF AsFlags
<1>3. AsFlags(shape, NumpyAxes(Len(shape), axis)) \in Flags(shape)
  BY DEF AsFlags, Flags
<1>. QED
  BY <1>2, <1>3

\* A reduction under way, in the terms of the lemmas above.
LEMMA UnderWay ==
  ASSUME input \in Inputs, Planned
  PROVE  /\ Reduced[1] = AsFlags(input.shape, NumpyAxes(Len(input.shape), request.axis))
         /\ Reduced[1] \in Flags(input.shape) /\ walk.shape = input.shape
         /\ walk = WalkOver(input.shape, Reduced[1], request.axis, result_dtype(request.name, input.dtype))
         /\ Turned <=> (flat < Len(input.data) =>
                          idx = Coords(flat, input.shape) /\ cell = Steps(walk, idx))
<1>1. input.shape \in Seq(Nat)
  BY InputFacts
<1>2. /\ OverAxes(request.axis) /\ Reduced # << >>
      /\ walk = WalkOver(input.shape, Reduced[1], request.axis, result_dtype(request.name, input.dtype))
  BY DEF Planned
<1>3. /\ Reduced[1] = AsFlags(input.shape, NumpyAxes(Len(input.shape), request.axis))
      /\ Reduced[1] \in Flags(input.shape)
  BY <1>1, <1>2, AcceptedAxes DEF Reduced
<1>4. walk.shape = input.shape
  BY <1>1, <1>2, <1>3, WalkParts
<1>. QED
  BY <1>2, <1>3, <1>4 DEF Turned, Steps

LEMMA InvHolds == ReduceInv => OdometerInStep
<1>. SUFFICES ASSUME ReduceInv, stage = "fold"
              PROVE  OdometerInStep
  BY DEF OdometerInStep
<1>. DEFINE axes == NumpyAxes(Len(input.shape), request.axis)
            K == KeptShape(input.shape, Reduced[1])
            L == Len(input.data)
<1>1. input \in Inputs /\ Planned /\ Buffered /\ Turned /\ buf # << >>
  BY DEF ReduceInv
<1>2. /\ input.shape \in Seq(Nat) /\ L = Product(input.shape) /\ L \in Nat
  BY <1>1, InputFacts
<1>3. /\ Reduced[1] = AsFlags(input.shape, axes) /\ Reduced[1] \in Flags(input.shape)
      /\ walk = WalkOver(input.shape, Reduced[1], request.axis, result_dtype(request.name, input.dtype))
      /\ flat < L => idx = Coords(flat, input.shape) /\ cell = Steps(walk, idx)
  BY <1>1, UnderWay
<1>4. flat \in Nat /\ flat < L /\ Head(buf) = input.data[flat + 1]
  <2>1. /\ flat \in Nat /\ buf \in Seq(Range(input.data)) /\ flat + Len(buf) <= L
        /\ \A i \in 1 .. Len(buf) : buf[i] = input.data[flat + i]
    BY <1>1 DEF Buffered
  <2>2. Len(buf) \in Nat \ {0} /\ Head(buf) = buf[1] /\ 1 \in 1 .. Len(buf)
    BY <1>1, <2>1
  <2>. QED
    BY <1>2, <2>1, <2>2
<1>5. /\ Steps(walk, idx) \in 0 .. walk.cells - 1
      /\ Coords(Steps(walk, idx), K) = [d \in DOMAIN input.shape |-> IF Reduced[1][d] THEN 0 ELSE idx[d]]
  <2>. DEFINE red == Reduced[1]
              to == result_dtype(request.name, input.dtype)
  <2>1. flat < Product(input.shape) /\ idx = Coords(flat, input.shape)
    BY <1>2, <1>3, <1>4
  <2>. HIDE DEF red, to
  <2>2. walk = WalkOver(input.shape, red, request.axis, to) /\ red \in Flags(input.shape)
    BY <1>3 DEF red, to
  <2>3. /\ Steps(walk, Coords(flat, input.shape)) \in 0 .. walk.cells - 1
        /\ Coords(Steps(walk, Coords(flat, input.shape)), KeptShape(input.shape, red)) =
             [d \in DOMAIN input.shape |-> IF red[d] THEN 0 ELSE Coords(flat, input.shape)[d]]
    BY <1>2, <1>4, <2>1, <2>2, CellIs
  <2>. QED
    BY <2>1, <2>3 DEF red
<1>6. K = NumpyResultShape(input.shape, axes, TRUE)
  BY <1>2, <1>3, ResultKept
<1>7. \A d \in DOMAIN input.shape : Reduced[1][d] <=> d \in axes
  <2>. DEFINE red == Reduced[1]
              N == Len(input.shape)
  <2>1. red = [d \in 1 .. N |-> d \in axes] /\ DOMAIN input.shape = 1 .. N
    BY <1>2, <1>3 DEF AsFlags
  <2>. HIDE DEF red, N, axes
  <2>2. \A d \in 1 .. N : red[d] = (d \in axes)
    BY <2>1, Zenon
  <2>. QED
    BY <2>1, <2>2, Zenon DEF red
<1>8. [d \in DOMAIN input.shape |-> IF Reduced[1][d] THEN 0 ELSE idx[d]]
        = [d \in DOMAIN input.shape |-> IF d \in axes THEN 0 ELSE idx[d]]
  <2>. HIDE DEF axes
  <2>. QED
    BY <1>7
<1>. QED
  BY <1>3, <1>4, <1>5, <1>6, <1>8 DEF OdometerInStep
---------------------------------------------------------------------------
(* Its steps.                                                              *)

LEMMA ReductionBegins ==
  ASSUME ReduceInv, stage = "idle", NEW r \in Requests, Apply(r), stage' # "done"
  PROVE  stage' = "read" /\ buf' = << >> /\ input' = input /\ Planned' /\ Buffered' /\ Turned'
<1>. DEFINE function == from_name(r.name)
            reduced == reduced_axes(Len(input.shape), r.axis, function)
            to == result_dtype(function, input.dtype)
            w == WalkOver(input.shape, reduced[1], r.axis, to)
            L == Len(input.data)
            S == Range(input.data)
<1>1. /\ input \in Inputs /\ function \in Functions /\ reduced # << >> /\ Begin(r, function, w)
  BY DEF ReduceInv, Apply, Refuse, Checked
<1>0. ~Denied(w, reduced[1], function)
  BY DEF Apply, Refuse, Checked
<1>2. /\ input.shape \in Seq(Nat) /\ input.data \in Seq(S)
      /\ L = Product(input.shape) /\ L \in Nat /\ input.dtype.size \in Nat
  BY <1>1, InputFacts
<1>3. OverAxes(r.axis) /\ r \in [name : STRING, axis : {r.axis}, keepdims : BOOLEAN, ddof : Int]
  BY ReduceAssumption
<1>4. request'.axis = r.axis /\ request'.name = function
  BY <1>1, <1>3 DEF Begin
<1>5. /\ input' = input /\ stage' = "read" /\ walk' = w /\ buf' = << >> /\ offset' = 0
      /\ flat' = 0 /\ cell' = 0 /\ idx' = [d \in DOMAIN input.shape |-> 0]
      /\ DOMAIN acc' = 1 .. w.cells
  BY <1>1 DEF Begin
<1>6. Reduced' = reduced
  BY <1>4, <1>5 DEF Reduced
<1>. HIDE DEF function, reduced, to
<1>7. Planned'
  <2>1. OverAxes(request'.axis) /\ request'.name \in Functions /\ Reduced' # << >>
    BY <1>1, <1>3, <1>4, <1>6
  <2>2. walk' = WalkOver(input'.shape, Reduced'[1], request'.axis, result_dtype(request'.name, input'.dtype))
    BY <1>4, <1>5, <1>6 DEF to
  <2>3. ~Denied(walk', Reduced'[1], request'.name)
    BY <1>0, <1>4, <1>5, <1>6
  <2>. QED
    BY <1>5, <2>1, <2>2, <2>3 DEF Planned, Denied
<1>8. Buffered'
  <2>1. flat' \in Nat /\ buf' \in Seq(S) /\ Len(buf') = 0 /\ 0 * input.dtype.size = 0
    BY <1>2, <1>5
  <2>2. flat' + Len(buf') = 0 /\ flat' + Len(buf') <= L
    BY <1>2, <1>5, <2>1
  <2>3. offset' = (flat' + Len(buf')) * input.dtype.size
    BY <1>5, <2>1, <2>2
  <2>4. \A i \in 1 .. Len(buf') : buf'[i] = input.data[flat' + i]
    BY <2>1
  <2>. QED
    BY <1>5, <2>1, <2>2, <2>3, <2>4 DEF Buffered
<1>9. Turned'
  <2>. SUFFICES ASSUME 0 < L
                PROVE  /\ idx' = Coords(0, input.shape)
                       /\ 0 = Added([d \in DOMAIN input.shape |-> walk'.stride[d] * idx'[d]])
    BY <1>5 DEF Turned
  <2>1. reduced = reduced_axes(Len(input.shape), r.axis, function)
    BY DEF reduced
  <2>. DEFINE red == reduced[1]
  <2>2. red \in Flags(input.shape)
    BY <1>1, <1>2, <1>3, <2>1, AcceptedAxes
  <2>. HIDE DEF red
  <2>3. w = WalkOver(input.shape, red, r.axis, to)
    BY DEF red
  <2>. HIDE DEF w
  <2>4. [d \in DOMAIN input.shape |-> 0] = Coords(0, input.shape) /\ Steps(w, Coords(0, input.shape)) = 0
    BY <1>2, <2>2, <2>3, OdometerBegins
  <2>5. w.shape = input.shape
    BY <1>2, <2>2, <2>3, WalkParts
  <2>. QED
    BY <1>5, <2>4, <2>5 DEF Steps
<1>. QED
  BY <1>5, <1>7, <1>8, <1>9

\* Another block: a whole number of elements, and at least one.
LEMMA BlockIsRead ==
  ASSUME ReduceInv, ReadBlock
  PROVE  Buffered' /\ buf' # << >> /\ flat' = flat
<1>. DEFINE s == input.dtype.size
            L == Len(input.data)
            S == Range(input.data)
            most == BLOCK_BYTES \div s
            left == L - flat
            k == IF left <= most THEN left ELSE most
            q == input.data
<1>1. /\ input \in Inputs /\ Buffered /\ buf = << >>
  BY DEF ReduceInv, ReadBlock
<1>2. /\ q \in Seq(S) /\ L \in Nat /\ s \in Nat \ {0} /\ s <= BLOCK_BYTES /\ BLOCK_BYTES \in Nat
  BY <1>1, InputFacts
<1>3. flat \in Nat /\ flat <= L /\ offset = flat * s
  BY <1>1, <1>2 DEF Buffered
<1>4. /\ buf' = SubSeq(q, offset \div s + 1, (offset + Min({L * s - offset, most * s})) \div s)
      /\ offset' = offset + Min({L * s - offset, most * s})
      /\ offset < L * s /\ input' = input /\ flat' = flat
  BY DEF ReadBlock, total, block
<1>5. most \in Nat \ {0}
  <2>. HIDE DEF s
  <2>1. most \in Nat /\ most * s <= BLOCK_BYTES /\ BLOCK_BYTES < most * s + s
    BY <1>2, Division
  <2>. HIDE DEF most
  <2>2. most = 0 => most * s = 0
    BY <1>2
  <2>. QED
    BY <1>2, <2>1, <2>2
<1>. HIDE DEF s, L, most, q
<1>6. flat < L /\ k \in Nat \ {0} /\ k <= left /\ left \in Nat
  <2>1. flat = L => flat * s = L * s
    OBVIOUS
  <2>2. flat * s \in Int /\ L * s \in Int
    BY <1>2, <1>3
  <2>3. flat # L
    BY <1>3, <1>4, <2>1, <2>2
  <2>. QED
    BY <1>2, <1>3, <1>5, <2>3
<1>7. Min({L * s - offset, most * s}) = k * s
  <2>1. L * s - offset = left * s /\ left * s \in Int /\ most * s \in Int
    BY <1>2, <1>3, <1>5
  <2>2. left <= most => left * s <= most * s
    BY <1>2, <1>5, <1>6
  <2>3. left > most => left * s > most * s
    <3>1. left > most => (left - most) * s > 0
      <4>. DEFINE x == left - most
      <4>1. left > most => x \in Nat \ {0}
        BY <1>5, <1>6
      <4>. HIDE DEF x
      <4>2. x \in Nat \ {0} => x * s > 0
        BY <1>2
      <4>. QED
        BY <4>1, <4>2 DEF x
    <3>2. (left - most) * s = left * s - most * s
      BY <1>2, <1>5, <1>6
    <3>. QED
      BY <2>1, <3>1, <3>2
  <2>. DEFINE a == left * s
              b == most * s
  <2>4. a \in Int /\ b \in Int
    BY <2>1
  <2>5. Min({a, b}) = IF a <= b THEN a ELSE b
    <3>. HIDE DEF a, b
    <3>. QED
      BY <2>4, MinOfTwo
  <2>6. a <= b <=> left <= most
    BY <1>5, <1>6, <2>1, <2>2, <2>3
  <2>7. L * s - offset = a
    BY <2>1
  <2>. QED
    BY <2>5, <2>6, <2>7
<1>. HIDE DEF k, left
<1>8. offset \div s = flat /\ (offset + k * s) \div s = flat + k /\ offset' = (flat + k) * s
  <2>1. /\ flat \in Int /\ flat * s <= flat * s /\ flat * s < flat * s + s /\ flat * s \in Int
    BY <1>2, <1>3
  <2>2. (flat * s) \div s = flat
    BY <1>2, <2>1, DivisionUnique
  <2>. DEFINE t == flat + k
  <2>3. flat * s + k * s = t * s /\ t \in Int /\ t * s \in Int
    BY <1>2, <1>3, <1>6
  <2>. HIDE DEF t
  <2>4. t * s <= t * s /\ t * s < t * s + s
    BY <1>2, <2>3
  <2>5. (t * s) \div s = t
    BY <1>2, <2>3, <2>4, DivisionUnique
  <2>. QED
    BY <1>3, <1>4, <1>7, <2>2, <2>3, <2>5 DEF t
<1>9. buf' = SubSeq(q, flat + 1, flat + k)
  BY <1>4, <1>7, <1>8
<1>10. flat + k <= L /\ flat + k \in Nat
  BY <1>2, <1>3, <1>6 DEF left
<1>11. /\ buf' \in Seq(S) /\ Len(buf') = k /\ \A i \in 1 .. k : buf'[i] = q[flat + i]
  <2>. DEFINE part == SubSeq(q, flat + 1, flat + k)
  <2>. HIDE DEF S
  <2>0. L = Len(q)
    BY DEF L, q
  <2>1. part \in Seq(S) /\ Len(part) = k /\ \A i \in 1 .. k : part[i] = q[flat + i]
    <3>1. Len(q) \in Nat /\ flat + k <= Len(q)
      BY <1>2, <1>10, <2>0
    <3>2. \A i \in 1 .. Len(q) : q[i] \in S
      BY <1>2
    <3>. QED
      BY <1>2, <1>3, <1>6, <3>1, <3>2
  <2>. QED
    BY <1>9, <2>1
<1>12. buf' # << >>
  <2>1. Len(buf') # 0
    BY <1>6, <1>11
  <2>. QED
    BY <2>1
<1>13. Buffered'
  <2>. HIDE DEF S
  <2>1. input'.data = q /\ Len(q) = L /\ input'.dtype.size = s /\ Range(input'.data) = S
    BY <1>4 DEF q, L, s, S
  <2>2. flat' \in Nat /\ buf' \in Seq(Range(input'.data))
    BY <1>3, <1>4, <1>11, <2>1
  <2>3. flat' + Len(buf') = flat + k
    BY <1>4, <1>11
  <2>4. flat' + Len(buf') <= Len(input'.data) /\ offset' = (flat' + Len(buf')) * input'.dtype.size
    BY <1>8, <1>10, <2>1, <2>3
  <2>5. \A i \in 1 .. Len(buf') : buf'[i] = input'.data[flat' + i]
    BY <1>4, <1>11, <2>1
  <2>. QED
    BY <2>2, <2>4, <2>5 DEF Buffered
<1>. QED
  BY <1>4, <1>12, <1>13

\* An element is folded: what is left of the block follows it, and the odometer
\* is one element further.
LEMMA ElementIsFolded ==
  ASSUME ReduceInv, Fold
  PROVE  /\ Planned' /\ Buffered' /\ Turned'
         /\ stage' \in {"read", "fold"} /\ (stage' = "read" <=> buf' = << >>) /\ input' = input
<1>. DEFINE s == input.dtype.size
            L == Len(input.data)
            S == Range(input.data)
            q == input.data
            b == buf
            t == Tail(buf)
<1>1. /\ input \in Inputs /\ Planned /\ Buffered /\ Turned /\ b # << >>
  BY DEF ReduceInv, Fold
<1>2. q \in Seq(S) /\ L \in Nat /\ s \in Nat \ {0} /\ input.shape \in Seq(Nat) /\ L = Product(input.shape)
  BY <1>1, InputFacts
<1>3. /\ flat \in Nat /\ b \in Seq(S) /\ flat + Len(b) <= L /\ offset = (flat + Len(b)) * s
      /\ \A i \in 1 .. Len(b) : b[i] = q[flat + i]
  BY <1>1 DEF Buffered
<1>4. /\ flat' = flat + 1 /\ buf' = t /\ cell' = NextCell(walk, idx, cell)
      /\ idx' = NextIndex(idx, walk.shape) /\ offset' = offset /\ input' = input
      /\ request' = request /\ walk' = walk /\ DOMAIN acc' = DOMAIN acc
      /\ stage' = IF Len(b) = 1 THEN "read" ELSE "fold"
  BY DEF Fold
<1>5. /\ t \in Seq(S) /\ Len(b) \in Nat \ {0} /\ Len(t) = Len(b) - 1
      /\ \A i \in 1 .. Len(t) : i + 1 \in 1 .. Len(b) /\ t[i] = b[i + 1]
  <2>. HIDE DEF S, b
  <2>. QED
    BY <1>1, <1>3 DEF b
<1>6. t = << >> <=> Len(b) = 1
  <2>. HIDE DEF S, t
  <2>1. t = << >> <=> Len(t) = 0
    BY <1>5
  <2>. QED
    BY <1>5, <2>1
<1>7. Planned'
  <2>1. Reduced' = Reduced
    BY <1>4 DEF Reduced
  <2>. QED
    BY <1>1, <1>4, <2>1 DEF Planned
<1>8. Buffered'
  <2>. HIDE DEF S, t, b, q, L, s
  <2>0. input'.data = q /\ Len(input'.data) = L /\ input'.dtype.size = s /\ Range(input'.data) = S
    BY <1>4 DEF q, L, s, S
  <2>1. flat' \in Nat /\ buf' \in Seq(Range(input'.data))
    BY <1>3, <1>4, <1>5, <2>0
  <2>2. flat' + Len(buf') = flat + Len(b)
    BY <1>3, <1>4, <1>5
  <2>3. flat' + Len(buf') <= Len(input'.data) /\ offset' = (flat' + Len(buf')) * input'.dtype.size
    BY <1>3, <1>4, <2>0, <2>2
  <2>4. ASSUME NEW i \in 1 .. Len(t)
        PROVE  t[i] = q[(flat + 1) + i]
    <3>1. i + 1 \in 1 .. Len(b) /\ t[i] = b[i + 1] /\ flat + (i + 1) = (flat + 1) + i
      BY <1>3, <1>5
    <3>. QED
      BY <1>3, <3>1
  <2>5. \A i \in 1 .. Len(buf') : buf'[i] = input'.data[flat' + i]
    BY <1>4, <2>0, <2>4
  <2>. QED
    BY <2>1, <2>3, <2>5 DEF Buffered
<1>9. Turned'
  <2>. DEFINE red == Reduced[1]
              to == result_dtype(request.name, input.dtype)
              shape == input.shape
              axis == request.axis
  <2>1. /\ red \in Flags(shape) /\ walk.shape = shape /\ walk = WalkOver(shape, red, axis, to)
        /\ flat < L => idx = Coords(flat, shape) /\ cell = Steps(walk, idx)
    BY <1>1, UnderWay
  <2>. HIDE DEF red, to, axis
  <2>2. flat < L
    BY <1>2, <1>3, <1>5
  <2>3. ASSUME flat + 1 < L
        PROVE  /\ NextIndex(Coords(flat, shape), shape) = Coords(flat + 1, shape)
               /\ NextCell(walk, Coords(flat, shape), Steps(walk, Coords(flat, shape)))
                    = Steps(walk, Coords(flat + 1, shape))
    <3>. HIDE DEF shape
    <3>1. shape \in Seq(Nat) /\ flat + 1 < Product(shape)
      BY <1>2, <2>3 DEF shape
    <3>. QED
      BY <1>3, <2>1, <3>1, OdometerStep
  <2>4. ASSUME flat' < L
        PROVE  /\ idx' = Coords(flat', shape) /\ cell' = Steps(walk, idx')
    BY <1>4, <2>1, <2>2, <2>3, <2>4
  <2>5. walk'.shape = shape /\ input'.shape = shape /\ Len(input'.data) = L
    BY <1>4, <2>1
  <2>6. Steps(walk, idx') = Added([d \in DOMAIN input'.shape |-> walk'.stride[d] * idx'[d]])
    BY <1>4, <2>5 DEF Steps
  <2>. QED
    BY <2>4, <2>5, <2>6 DEF Turned
<1>. QED
  BY <1>4, <1>6, <1>7, <1>8, <1>9

LEMMA StillUnderWay ==
  ASSUME Planned, Turned, UNCHANGED <<input, request, walk, idx, cell, flat, acc>>
  PROVE  Planned' /\ Turned'
<1>1. Reduced' = Reduced
  BY DEF Reduced
<1>. QED
  BY <1>1 DEF Planned, Turned

LEMMA InvStep == ReduceInv /\ [ReduceNext]_reduceVars => ReduceInv'
<1>. SUFFICES ASSUME ReduceInv, [ReduceNext]_reduceVars
              PROVE  ReduceInv'
  OBVIOUS
<1>0. input \in Inputs
  BY DEF ReduceInv
<1>1. CASE \E r \in Requests : Apply(r)
  <2>1. PICK r \in Requests : Apply(r)
    BY <1>1
  <2>2. stage = "idle"
    BY <2>1 DEF Apply
  <2>3. CASE stage' = "done"
    <3>1. input' = input
      BY <2>1 DEF Apply, Checked, Refuse, Begin
    <3>. QED
      BY <1>0, <2>3, <3>1 DEF ReduceInv
  <2>4. CASE stage' # "done"
    <3>1. stage' = "read" /\ buf' = << >> /\ input' = input /\ Planned' /\ Buffered' /\ Turned'
      BY <2>1, <2>2, <2>4, ReductionBegins
    <3>. QED
      BY <1>0, <3>1 DEF ReduceInv
  <2>. QED
    BY <2>3, <2>4
<1>2. CASE ReadBlock
  <2>1. stage' = "fold" /\ input' = input /\ UNCHANGED <<input, request, walk, idx, cell, flat, acc>>
    BY <1>2 DEF ReadBlock
  <2>2. Planned /\ Turned
    BY <1>2 DEF ReduceInv, ReadBlock
  <2>3. Planned' /\ Turned'
    BY <2>1, <2>2, StillUnderWay
  <2>4. Buffered' /\ buf' # << >>
    BY <1>2, BlockIsRead
  <2>. QED
    BY <1>0, <2>1, <2>3, <2>4 DEF ReduceInv
<1>3. CASE ReadFails
  BY <1>0, <1>3 DEF ReduceInv, ReadFails
<1>4. CASE Fold
  <2>1. /\ Planned' /\ Buffered' /\ Turned' /\ input' = input
        /\ stage' \in {"read", "fold"} /\ (stage' = "read" <=> buf' = << >>)
    BY <1>4, ElementIsFolded
  <2>. QED
    BY <1>0, <2>1 DEF ReduceInv
<1>5. CASE Finish
  <2>1. stage' = "done" /\ input' = input
    BY <1>5 DEF Finish
  <2>. QED
    BY <1>0, <2>1 DEF ReduceInv
<1>6. CASE Answer
  BY <1>0, <1>6 DEF ReduceInv, Answer
<1>7. CASE UNCHANGED reduceVars
  <2>1. UNCHANGED <<stage, input, request, walk, offset, buf, idx, cell, flat, acc>>
    BY <1>7 DEF reduceVars
  <2>2. Reduced' = Reduced
    BY <2>1 DEF Reduced
  <2>. QED
    BY <2>1, <2>2 DEF ReduceInv, Planned, Buffered, Turned
<1>. QED
  BY <1>1, <1>2, <1>3, <1>4, <1>5, <1>6, <1>7 DEF ReduceNext

\* Whatever the shape of the selection, the axes and the size of a block: an
\* element is folded into the cell that numpy has it in (fold, Walk).
THEOREM OdometerStaysInStep == ReduceSpec => []OdometerInStep
<1>1. ReduceInit => ReduceInv
  BY DEF ReduceInit, ReduceInv
<1>2. ReduceInv /\ [ReduceNext]_reduceVars => ReduceInv'
  BY InvStep
<1>3. ReduceInv => OdometerInStep
  BY InvHolds
<1>. QED
  BY <1>1, <1>2, <1>3, PTL DEF ReduceSpec

---------------------------------------------------------------------------
(* What is answered.                                                       *)

\* The result has the element type that numpy gives it.
LEMMA TypesAreNumpys ==
  ASSUME NEW x \in Inputs, NEW function \in Functions
  PROVE  result_dtype(function, x.dtype) = NumpyDType(function, x.dtype)
<1>. DEFINE dtype == x.dtype
<1>1. /\ dtype \in [kind : {"Bool", "Int", "Uint", "Float", "Complex"}, size : 1 .. BLOCK_BYTES]
      /\ dtype.kind = "Complex" => dtype.size \in {8, 16}
  BY ReduceAssumption
<1>. HIDE DEF dtype
<1>2. dtype = [kind |-> dtype.kind, size |-> dtype.size]
  BY <1>1
<1>3. dtype.kind \in {"Bool", "Int", "Uint", "Float", "Complex"}
  BY <1>1
<1>4. Integral(dtype.kind) <=> dtype.kind \in {"Bool", "Int", "Uint"}
  BY DEF Integral
<1>5. CASE function \in {"sum", "prod", "nansum"}
  BY <1>3, <1>4, <1>5 DEF result_dtype, NumpyDType, dtype
<1>6. CASE function \in {"mean", "nanmean"}
  BY <1>6 DEF result_dtype, NumpyDType, dtype
<1>7. CASE function \in {"std", "var"}
  <2>1. /\ result_dtype(function, dtype) = CASE dtype.kind = "Float" -> dtype
                 [] dtype = [kind |-> "Complex", size |-> 8] -> [kind |-> "Float", size |-> 4]
                 [] OTHER -> [kind |-> "Float", size |-> 8]
        /\ NumpyDType(function, dtype) =
             [kind |-> "Float", size |-> IF Integral(dtype.kind) THEN 8
                                         ELSE IF dtype.kind = "Complex" THEN dtype.size \div 2
                                         ELSE dtype.size]
    BY <1>7 DEF result_dtype, NumpyDType
  <2>2. CASE dtype.kind = "Float"
    BY <1>2, <1>4, <2>1, <2>2 DEF dtype
  <2>3. CASE dtype.kind = "Complex"
    <3>1. CASE dtype.size = 8
      <4>1. 8 \div 2 = 4 /\ dtype = [kind |-> "Complex", size |-> 8]
        BY <1>2, <2>3, <3>1
      <4>. QED
        BY <1>4, <2>1, <2>3, <3>1, <4>1 DEF dtype
    <3>2. CASE dtype.size = 16
      <4>1. 16 \div 2 = 8 /\ dtype # [kind |-> "Complex", size |-> 8]
        BY <3>2
      <4>. QED
        BY <1>4, <2>1, <2>3, <3>2, <4>1 DEF dtype
    <3>. QED
      BY <1>1, <2>3, <3>1, <3>2
  <2>4. CASE dtype.kind \in {"Bool", "Int", "Uint"}
    <3>1. dtype # [kind |-> "Complex", size |-> 8]
      BY <2>4
    <3>. QED
      BY <1>4, <2>1, <2>4, <3>1 DEF dtype
  <2>. QED
    BY <1>3, <2>2, <2>3, <2>4
<1>8. CASE function \in {"max", "min", "nanmax", "nanmin", "all", "any", "argmax", "argmin"}
  BY <1>8 DEF result_dtype, NumpyDType
<1>. QED
  BY <1>5, <1>6, <1>7, <1>8 DEF Functions

\* The axes numpy takes are axes.
LEMMA AxesWithin ==
  ASSUME NEW ndim \in Nat, NEW axis, OverAxes(axis), NEW function, ProperAxes(ndim, axis, function)
  PROVE  NumpyAxes(ndim, axis) \subseteq 1 .. ndim
<1>1. ASSUME NEW a \in Int, a \in -ndim .. ndim - 1
      PROVE  (a % ndim) + 1 \in 1 .. ndim
  <2>1. ndim \in Nat \ {0}
    BY <1>1
  <2>2. a % ndim \in 0 .. ndim - 1
    BY <2>1, RoundDown
  <2>. QED
    BY <2>2
<1>2. CASE axis.kind = "All"
  BY <1>2 DEF NumpyAxes
<1>3. CASE axis.kind = "One"
  BY <1>1, <1>3 DEF NumpyAxes, ProperAxes, OverAxes
<1>4. CASE axis.kind = "Many"
  <2>1. \A i \in DOMAIN axis.list : axis.list[i] \in Int /\ axis.list[i] \in -ndim .. ndim - 1
    BY <1>4 DEF ProperAxes, OverAxes
  <2>. QED
    BY <1>1, <1>4, <2>1 DEF NumpyAxes
<1>. QED
  BY <1>2, <1>3, <1>4 DEF OverAxes

\* A cell has no element when an axis that is reduced has no position.
LEMMA EmptyCells ==
  ASSUME NEW shape \in Seq(Nat), NEW axes, axes \subseteq 1 .. Len(shape)
  PROVE  PerCell(shape, AsFlags(shape, axes)) = 0 <=> \E a \in axes : shape[a] = 0
<1>. DEFINE N == Len(shape)
            c == [a \in 1 .. N |-> IF a \in axes THEN shape[a] ELSE 1]
<1>1. N \in Nat /\ DOMAIN shape = 1 .. N /\ \A a \in 1 .. N : shape[a] \in Nat
  OBVIOUS
<1>2. CellShape(shape, AsFlags(shape, axes)) = c
  BY <1>1 DEF CellShape, AsFlags
<1>3. c \in Seq(Nat) /\ Len(c) = N
  BY <1>1
<1>4. \A a \in 1 .. N : c[a] = IF a \in axes THEN shape[a] ELSE 1
  OBVIOUS
<1>. HIDE DEF c
<1>5. Product(c) = 0 <=> \E a \in 1 .. N : c[a] = 0
  BY <1>3, ProductFacts
<1>6. (\E a \in 1 .. N : c[a] = 0) <=> \E a \in axes : shape[a] = 0
  BY <1>4
<1>. QED
  BY <1>2, <1>5, <1>6 DEF PerCell

\* Why a request whose axes are taken may yet be refused, in numpy's terms.
Excess(shape, axes, to, function) ==
  LET cells == Product(NumpyResultShape(shape, axes, TRUE))
  IN  \/ cells * to.size > MaxBytes
      \/ cells > 0 /\ needs_an_element(function) /\ \E a \in axes : shape[a] = 0

LEMMA DeniedIs ==
  ASSUME NEW shape \in Seq(Nat), NEW axis, OverAxes(axis), NEW function, NEW to,
         NEW reduced, reduced = reduced_axes(Len(shape), axis, function), reduced # << >>,
         NEW w, w = WalkOver(shape, reduced[1], axis, to)
  PROVE  /\ Denied(w, reduced[1], function) <=> Excess(shape, NumpyAxes(Len(shape), axis), to, function)
         /\ w.cells = Product(NumpyResultShape(shape, NumpyAxes(Len(shape), axis), TRUE))
<1>. DEFINE axes == NumpyAxes(Len(shape), axis)
            red == reduced[1]
<1>1. ProperAxes(Len(shape), axis, function) /\ red = AsFlags(shape, axes) /\ red \in Flags(shape)
  BY AcceptedAxes
<1>2. axes \subseteq 1 .. Len(shape)
  BY <1>1, AxesWithin
<1>. HIDE DEF axes, red
<1>3. w = WalkOver(shape, red, axis, to)
  BY DEF red
<1>4. w.shape = shape /\ w.out = to /\ w.cells = Product(KeptShape(shape, red))
  BY <1>1, <1>3, WalkParts
<1>5. w.cells = Product(NumpyResultShape(shape, axes, TRUE))
  BY <1>1, <1>4, ResultKept
<1>6. PerCell(w.shape, red) = 0 <=> \E a \in axes : shape[a] = 0
  BY <1>1, <1>2, <1>4, EmptyCells
<1>. QED
  BY <1>4, <1>5, <1>6 DEF Denied, Excess, axes, red

LEMMA ShapesAlike ==
  ASSUME NEW shape \in Seq(Nat), NEW axes, NEW keepdims
  PROVE  OutShapeOf(shape, AsFlags(shape, axes), keepdims) = NumpyResultShape(shape, axes, keepdims)
<1>1. DOMAIN shape = 1 .. Len(shape)
  OBVIOUS
<1>2. \A d \in DOMAIN shape : AsFlags(shape, axes)[d] = (d \in axes)
  BY <1>1 DEF AsFlags
<1>3. [d \in DOMAIN shape |->
        IF ~AsFlags(shape, axes)[d] THEN <<shape[d]>> ELSE IF keepdims THEN <<1>> ELSE << >>]
      = [d \in DOMAIN shape |-> IF d \notin axes THEN <<shape[d]>> ELSE IF keepdims THEN <<1>> ELSE << >>]
  BY <1>2, Zenon
<1>. QED
  BY <1>3 DEF OutShapeOf, NumpyResultShape

\* What may be refused, and what an answer is: ShapedLikeNumpy, step by step.
Answers(r, answer) ==
  LET function == from_name(r.name)
      axes == NumpyAxes(Len(input.shape), r.axis)
  IN  /\ answer = Bad <=> \/ ~Takes(r) \/ OfNoAxis(r)
                       \/ Excess(input.shape, axes, NumpyDType(function, input.dtype), function)
      /\ answer # Bad =>
           /\ answer.dtype = NumpyDType(function, input.dtype)
           /\ answer.shape = NumpyResultShape(input.shape, axes, r.keepdims)
           /\ DOMAIN answer.data = 1 .. Product(NumpyResultShape(input.shape, axes, TRUE))

\* Requests whose axes are proper are those that numpy takes, but for a scalar's.
LEMMA TakesIs ==
  ASSUME NEW r, OverAxes(r.axis), Len(input.shape) \in Nat
  PROVE  Takes(r) /\ ~OfNoAxis(r)
           <=> /\ from_name(r.name) \in Functions
               /\ ProperAxes(Len(input.shape), r.axis, from_name(r.name))
BY ProperOrNone DEF Takes, OfNoAxis

LEMMA ShapedIs == ShapedLikeNumpy <=> (stage = "done" => Answers(request, result))
BY DEF ShapedLikeNumpy, Answers, Excess

LEMMA RefusedRightly ==
  ASSUME ReduceInv, stage = "idle", NEW r \in Requests, Apply(r), stage' = "done"
  PROVE  request' = r /\ result' = Bad /\ input' = input /\ Answers(r, Bad)
<1>. DEFINE function == from_name(r.name)
            reduced == reduced_axes(Len(input.shape), r.axis, function)
            to == result_dtype(function, input.dtype)
            w == WalkOver(input.shape, reduced[1], r.axis, to)
            axes == NumpyAxes(Len(input.shape), r.axis)
<1>1. input \in Inputs /\ input.shape \in Seq(Nat) /\ Len(input.shape) \in Nat
  BY InputFacts DEF ReduceInv
<1>2. OverAxes(r.axis)
  BY ReduceAssumption
<1>3. Refuse(r) /\ (function \notin Functions \/ reduced = << >> \/ Denied(w, reduced[1], function))
  BY DEF Apply, Checked, Begin
<1>4. reduced = << >> => ~ProperAxes(Len(input.shape), r.axis, function)
  <2>1. reduced = IF ProperAxes(Len(input.shape), r.axis, function)
                  THEN <<[d \in 1 .. Len(input.shape) |-> d \in axes]>> ELSE << >>
    BY <1>1, <1>2, AxesTaken
  <2>2. <<[d \in 1 .. Len(input.shape) |-> d \in axes]>> # << >>
    OBVIOUS
  <2>. HIDE DEF reduced
  <2>. QED
    BY <2>1, <2>2
<1>5. ASSUME function \in Functions, reduced # << >>, Denied(w, reduced[1], function)
      PROVE  Excess(input.shape, axes, NumpyDType(function, input.dtype), function)
  <2>1. to = NumpyDType(function, input.dtype)
    BY <1>1, <1>5, TypesAreNumpys
  <2>2. reduced = reduced_axes(Len(input.shape), r.axis, function) /\ w = WalkOver(input.shape, reduced[1], r.axis, to)
    OBVIOUS
  <2>. DEFINE shape == input.shape
              axis == r.axis
  <2>. HIDE DEF reduced, function, to, w, shape, axis
  <2>3. /\ reduced = reduced_axes(Len(shape), axis, function) /\ reduced # << >>
        /\ w = WalkOver(shape, reduced[1], axis, to) /\ shape \in Seq(Nat) /\ OverAxes(axis)
    BY <1>1, <1>2, <1>5, <2>2 DEF shape, axis
  <2>4. Denied(w, reduced[1], function) <=> Excess(shape, NumpyAxes(Len(shape), axis), to, function)
    BY <2>3, DeniedIs
  <2>. QED
    BY <1>5, <2>1, <2>4 DEF shape, axis
<1>6. \/ ~Takes(r) \/ OfNoAxis(r)
      \/ Excess(input.shape, axes, NumpyDType(function, input.dtype), function)
  <2>1. Takes(r) /\ ~OfNoAxis(r) <=> function \in Functions /\ ProperAxes(Len(input.shape), r.axis, function)
    BY <1>1, <1>2, TakesIs
  <2>. HIDE DEF function, reduced, w, axes
  <2>. QED
    BY <1>3, <1>4, <1>5, <2>1
<1>. QED
  BY <1>3, <1>6 DEF Refuse, Answers

LEMMA AnsweredRightly ==
  ASSUME ReduceInv, Finish
  PROVE  request' = request /\ input' = input /\ Answers(request, result')
<1>. DEFINE function == request.name
            axes == NumpyAxes(Len(input.shape), request.axis)
            red == Reduced[1]
            to == result_dtype(function, input.dtype)
            keepdims == request.keepdims
<1>1. input \in Inputs /\ Planned /\ input.shape \in Seq(Nat)
  BY InputFacts DEF ReduceInv, Finish
<1>2. /\ OverAxes(request.axis) /\ function \in Functions /\ Reduced # << >>
      /\ walk = WalkOver(input.shape, red, request.axis, to)
      /\ ~Denied(walk, red, function) /\ DOMAIN acc = 1 .. walk.cells
  BY <1>1 DEF Planned
<1>3. /\ request' = request /\ input' = input /\ result'.kind = "Reduced" /\ result'.dtype = walk.out
      /\ result'.shape = OutShapeOf(input.shape, red, keepdims)
      /\ DOMAIN result'.data = DOMAIN acc
  BY DEF Finish, Reduced, Map
<1>4. result' # Bad
  BY <1>3 DEF Bad
<1>5. from_name(function) = function
  BY <1>2 DEF Functions, from_name
<1>6. Reduced = reduced_axes(Len(input.shape), request.axis, function)
  BY DEF Reduced
<1>. HIDE DEF function, to, keepdims
<1>7. ProperAxes(Len(input.shape), request.axis, function) /\ red = AsFlags(input.shape, axes) /\ red \in Flags(input.shape)
  BY <1>1, <1>2, <1>6, AcceptedAxes
<1>8. /\ Denied(walk, red, function) <=> Excess(input.shape, axes, to, function)
      /\ walk.cells = Product(NumpyResultShape(input.shape, axes, TRUE))
  BY <1>1, <1>2, <1>6, DeniedIs
<1>9. to = NumpyDType(function, input.dtype)
  BY <1>1, <1>2, TypesAreNumpys DEF to
<1>12. Takes(request) /\ ~OfNoAxis(request)
  <2>1. Takes(request) /\ ~OfNoAxis(request)
          <=> /\ from_name(request.name) \in Functions
              /\ ProperAxes(Len(input.shape), request.axis, from_name(request.name))
    BY <1>1, <1>2, TakesIs
  <2>2. from_name(request.name) = function
    BY <1>5 DEF function
  <2>. QED
    BY <1>2, <1>7, <2>1, <2>2
<1>. HIDE DEF red, axes
<1>10. walk.out = to
  BY <1>1, <1>2, <1>7, WalkParts
<1>11. result'.shape = NumpyResultShape(input.shape, axes, keepdims)
  BY <1>1, <1>3, <1>7, ShapesAlike
<1>. QED
  BY <1>2, <1>3, <1>4, <1>5, <1>7, <1>8, <1>9, <1>10, <1>11, <1>12 DEF Answers, function, axes, keepdims

LEMMA ShapedStep == ReduceInv /\ ShapedLikeNumpy /\ [ReduceNext]_reduceVars => ShapedLikeNumpy'
<1>. SUFFICES ASSUME ReduceInv, ShapedLikeNumpy, [ReduceNext]_reduceVars, stage' = "done"
              PROVE  ShapedLikeNumpy'
  BY DEF ShapedLikeNumpy
<1>1. ASSUME NEW r \in Requests, Apply(r)
      PROVE  ShapedLikeNumpy'
  <2>1. stage = "idle"
    BY <1>1 DEF Apply
  <2>2. request' = r /\ result' = Bad /\ input' = input /\ Answers(r, Bad)
    BY <1>1, <2>1, RefusedRightly
  <2>3. Answers(request, result)'
    BY <2>2 DEF Answers, Takes, OfNoAxis
  <2>. QED
    BY <2>3 DEF ShapedLikeNumpy, Answers, Excess
<1>2. CASE Finish
  <2>1. request' = request /\ input' = input /\ Answers(request, result')
    BY <1>2, AnsweredRightly
  <2>2. Answers(request, result)'
    BY <2>1 DEF Answers, Takes, OfNoAxis
  <2>. QED
    BY <2>2 DEF ShapedLikeNumpy, Answers, Excess
<1>3. CASE ReadBlock \/ ReadFails \/ Fold \/ Answer
  BY <1>3 DEF ReadBlock, ReadFails, Fold, Answer
<1>4. CASE UNCHANGED reduceVars
  BY <1>4 DEF reduceVars, ShapedLikeNumpy, Takes, OfNoAxis
<1>. QED
  BY <1>1, <1>2, <1>3, <1>4 DEF ReduceNext

\* A request is refused exactly when numpy refuses it, when it names an axis of a
\* scalar, which numpy lets some functions do, or when its result is over the
\* limit, and every result has numpy's element type, shape and number of cells
\* (apply_function, reduced_axes, result_dtype, reduce).
THEOREM ShapesAreNumpys == ReduceSpec => []ShapedLikeNumpy
<1>1. ReduceInit => ReduceInv /\ ShapedLikeNumpy
  BY DEF ReduceInit, ReduceInv, ShapedLikeNumpy
<1>2. ReduceInv /\ ShapedLikeNumpy /\ [ReduceNext]_reduceVars => (ReduceInv /\ ShapedLikeNumpy)'
  BY InvStep, ShapedStep
<1>. QED
  BY <1>1, <1>2, PTL DEF ReduceSpec

---------------------------------------------------------------------------
(* Chunks.                                                                 *)

\* Linear, unfolded an axis at a time.
LEMMA LinearDef ==
  ASSUME NEW coords, NEW dims, Len(dims) \in Nat
  PROVE  \E f : /\ Linear(coords, dims) = f[Len(dims)]
                /\ \A a \in 0 .. Len(dims) : f[a] = IF a = 0 THEN 0 ELSE f[a - 1] * dims[a] + coords[a]
<1>. DEFINE n == Len(dims)
            T == {m \in Nat : \E f : /\ DOMAIN f = 0 .. m
                                     /\ f = [a \in 0 .. m |-> IF a = 0 THEN 0 ELSE f[a - 1] * dims[a] + coords[a]]}
<1>1. 0 \in T
  <2>. DEFINE f == [a \in 0 .. 0 |-> 0]
  <2>1. f = [a \in 0 .. 0 |-> IF a = 0 THEN 0 ELSE f[a - 1] * dims[a] + coords[a]]
    OBVIOUS
  <2>. QED
    BY <2>1
<1>2. ASSUME NEW m \in Nat, m \in T
      PROVE  m + 1 \in T
  <2>1. PICK f : /\ DOMAIN f = 0 .. m
                 /\ f = [a \in 0 .. m |-> IF a = 0 THEN 0 ELSE f[a - 1] * dims[a] + coords[a]]
    BY <1>2
  <2>. DEFINE g == [a \in 0 .. m + 1 |-> IF a = m + 1 THEN f[m] * dims[m + 1] + coords[m + 1] ELSE f[a]]
  <2>2. g = [a \in 0 .. m + 1 |-> IF a = 0 THEN 0 ELSE g[a - 1] * dims[a] + coords[a]]
    <3>1. ASSUME NEW a \in 0 .. m + 1
          PROVE  g[a] = IF a = 0 THEN 0 ELSE g[a - 1] * dims[a] + coords[a]
      <4>1. CASE a = m + 1
        <5>1. a # 0 /\ a - 1 = m /\ m # m + 1 /\ m \in 0 .. m + 1
          BY <4>1
        <5>. QED
          BY <4>1, <5>1
      <4>2. CASE a # m + 1
        <5>1. a \in 0 .. m /\ g[a] = f[a] /\ (a # 0 => a - 1 \in 0 .. m + 1 /\ a - 1 # m + 1 /\ g[a - 1] = f[a - 1])
          BY <4>2
        <5>2. f[a] = IF a = 0 THEN 0 ELSE f[a - 1] * dims[a] + coords[a]
          BY <2>1, <5>1
        <5>. QED
          BY <5>1, <5>2
      <4>. QED
        BY <4>1, <4>2
    <3>. HIDE DEF g
    <3>2. g = [a \in 0 .. m + 1 |-> g[a]]
      BY DEF g
    <3>. QED
      BY <3>1, <3>2
  <2>3. DOMAIN g = 0 .. m + 1
    OBVIOUS
  <2>. HIDE DEF g
  <2>. QED
    BY <2>2, <2>3
<1>3. n \in T
  <2>. HIDE DEF T
  <2>. QED
    BY <1>1, <1>2, NatSteps
<1>. DEFINE upTo[a \in 0 .. n] == IF a = 0 THEN 0 ELSE upTo[a - 1] * dims[a] + coords[a]
<1>4. upTo = [a \in 0 .. n |-> IF a = 0 THEN 0 ELSE upTo[a - 1] * dims[a] + coords[a]]
  BY <1>3
<1>5. Linear(coords, dims) = upTo[n]
  BY DEF Linear
<1>. HIDE DEF upTo
<1>. QED
  BY <1>4, <1>5

\* The number of a position is the sum of its coordinates, each times its stride.
LEMMA LinearIsSum ==
  ASSUME NEW dims \in Seq(Nat), NEW e, \A d \in 1 .. Len(dims) : e[d] \in Int,
         NEW q, \A d \in 1 .. Len(dims) : q[d] = Stride(dims, d) * e[d]
  PROVE  Linear(e, dims) = SumTo(q, Len(dims)) /\ Linear(e, dims) \in Int
<1>. DEFINE N == Len(dims)
<1>0. N \in Nat /\ DOMAIN dims = 1 .. N
  OBVIOUS
<1>1. PICK f : /\ Linear(e, dims) = f[N]
               /\ \A a \in 0 .. N : f[a] = IF a = 0 THEN 0 ELSE f[a - 1] * dims[a] + e[a]
  BY <1>0, LinearDef
<1>2. /\ Stride(dims, N) = 1
      /\ \A m \in 0 .. N - 1 : /\ Stride(dims, m) = dims[m + 1] * Stride(dims, m + 1)
                               /\ Stride(dims, m) \in Nat /\ Stride(dims, m + 1) \in Nat
  BY StrideStep
<1>3. \A m \in 0 .. N : Stride(dims, m) \in Nat
  <2>. HIDE DEF N
  <2>1. ASSUME NEW m \in 0 .. N, m # N
        PROVE  m \in 0 .. N - 1
    BY <1>0, <2>1
  <2>. QED
    BY <1>2, <2>1
<1>4. \A d \in 1 .. N : q[d] \in Int
  <2>1. ASSUME NEW d \in 1 .. N
        PROVE  q[d] \in Int
    <3>1. e[d] \in Int /\ Stride(dims, d) \in Int /\ q[d] = Stride(dims, d) * e[d]
      BY <1>0, <1>3
    <3>. QED
      BY <3>1
  <2>. QED
    BY <2>1
<1>. DEFINE Good(m) == f[m] \in Int /\ f[m] * Stride(dims, m) = SumTo(q, m)
            T == {m \in Nat : m <= N => Good(m)}
<1>5. 0 \in T
  <2>1. f[0] = 0 /\ Stride(dims, 0) \in Int
    BY <1>0, <1>1, <1>3
  <2>2. SumTo(q, 0) = 0
    <3>1. [a \in 1 .. 0 |-> q[a]] = << >>
      OBVIOUS
    <3>. QED
      BY <3>1, AddedFacts DEF SumTo
  <2>3. \A s \in Int : 0 * s = 0
    OBVIOUS
  <2>. QED
    BY <2>1, <2>2, <2>3
<1>6. ASSUME NEW m \in Nat, m \in T
      PROVE  m + 1 \in T
  <2>. SUFFICES ASSUME m + 1 <= N
                PROVE  Good(m + 1)
    OBVIOUS
  <2>1. m \in 0 .. N - 1 /\ m + 1 \in 0 .. N /\ m + 1 \in 1 .. N /\ m + 1 # 0 /\ (m + 1) - 1 = m
    BY <1>0
  <2>2. Good(m)
    BY <1>0, <1>6
  <2>3. f[m + 1] = f[m] * dims[m + 1] + e[m + 1]
    BY <1>1, <2>1
  <2>4. SumTo(q, m + 1) = SumTo(q, m) + q[m + 1]
    <3>1. \A a \in 1 .. m + 1 : q[a] \in Int
      BY <1>4, <2>1
    <3>. QED
      BY <3>1, SumToStep
  <2>5. q[m + 1] = Stride(dims, m + 1) * e[m + 1] /\ e[m + 1] \in Int /\ dims[m + 1] \in Nat
    BY <1>0, <2>1
  <2>6. Stride(dims, m) = dims[m + 1] * Stride(dims, m + 1) /\ Stride(dims, m + 1) \in Nat
    BY <1>2, <2>1
  <2>. DEFINE x == f[m]
              d == dims[m + 1]
              s == Stride(dims, m + 1)
              t == e[m + 1]
              sum == SumTo(q, m)
              y == f[m + 1]
  <2>7. x \in Int /\ d \in Int /\ s \in Int /\ t \in Int /\ x * (d * s) = sum /\ y = x * d + t
    BY <2>2, <2>3, <2>5, <2>6
  <2>8. SumTo(q, m + 1) = sum + s * t
    BY <2>4, <2>5
  <2>. HIDE DEF x, d, s, t, sum, y
  <2>9. y \in Int /\ y * s = sum + s * t
    <3>1. y * s = (x * d) * s + t * s /\ x * d \in Int
      BY <2>7
    <3>2. (x * d) * s = x * (d * s) /\ t * s = s * t
      BY <2>7
    <3>. QED
      BY <2>7, <3>1, <3>2
  <2>. QED
    BY <2>8, <2>9 DEF y, s
<1>7. N \in T
  <2>. HIDE DEF T
  <2>. QED
    BY <1>0, <1>5, <1>6, NatSteps
<1>8. f[N] \in Int /\ f[N] * Stride(dims, N) = SumTo(q, N)
  BY <1>0, <1>7
<1>9. f[N] * 1 = f[N]
  BY <1>8
<1>. QED
  BY <1>1, <1>2, <1>8, <1>9

\* A position within its axes has a number, and the number that position.
LEMMA NumberOf ==
  ASSUME NEW dims \in Seq(Nat), NEW e,
         \A d \in 1 .. Len(dims) : e[d] \in 0 .. dims[d] - 1
  PROVE  /\ Linear(e, dims) \in 0 .. Product(dims) - 1
         /\ Coords(Linear(e, dims), dims) = [d \in DOMAIN dims |-> e[d]]
<1>. DEFINE q == [d \in 1 .. Len(dims) |-> Stride(dims, d) * e[d]]
<1>0. Len(dims) \in Nat /\ DOMAIN dims = 1 .. Len(dims)
  OBVIOUS
<1>1. \A d \in 1 .. Len(dims) : dims[d] \in Nat \ {0} /\ e[d] \in Int
  <2>1. \A d \in 1 .. Len(dims) : dims[d] \in Nat
    OBVIOUS
  <2>. QED
    BY <2>1
<1>2. \A d \in 1 .. Len(dims) : q[d] = Stride(dims, d) * e[d]
  OBVIOUS
<1>. HIDE DEF q
<1>3. Terms(q, dims, e)
  BY <1>1, <1>2 DEF Terms
<1>4. Linear(e, dims) = SumTo(q, Len(dims))
  BY <1>1, <1>2, LinearIsSum
<1>5. /\ SumTo(q, Len(dims)) \in 0 .. Product(dims) - 1
      /\ \A d \in DOMAIN dims : Digit(SumTo(q, Len(dims)), dims, d) = e[d]
  BY <1>3, Composed
<1>. DEFINE n == Linear(e, dims)
<1>6. Coords(n, dims) = [d \in DOMAIN dims |-> Digit(n, dims, d)]
  BY DEF Coords, Digit
<1>7. \A d \in DOMAIN dims : Digit(n, dims, d) = e[d]
  BY <1>4, <1>5
<1>. HIDE DEF n
<1>8. Coords(n, dims) = [d \in DOMAIN dims |-> e[d]]
  BY <1>6, <1>7
<1>. QED
  BY <1>4, <1>5, <1>8 DEF n

\* And a number within an array is that of its position.
LEMMA PositionOf ==
  ASSUME NEW dims \in Seq(Nat), NEW n \in Nat, n < Product(dims), NEW e,
         \A d \in 1 .. Len(dims) : e[d] = Digit(n, dims, d)
  PROVE  Linear(e, dims) = n
<1>. DEFINE N == Len(dims)
<1>0. N \in Nat /\ DOMAIN dims = 1 .. N
  OBVIOUS
<1>1. PICK f : /\ Linear(e, dims) = f[N]
               /\ \A a \in 0 .. N : f[a] = IF a = 0 THEN 0 ELSE f[a - 1] * dims[a] + e[a]
  BY <1>0, LinearDef
<1>2. /\ Stride(dims, 0) = Product(dims) /\ Stride(dims, N) = 1
      /\ \A m \in 0 .. N - 1 : Stride(dims, m) = dims[m + 1] * Stride(dims, m + 1)
  BY StrideStep
<1>3. \A d \in 1 .. N : dims[d] \in Nat \ {0} /\ Stride(dims, d) \in Nat \ {0}
  BY <1>0, Placed
<1>. DEFINE T == {m \in Nat : m <= N => f[m] = n \div Stride(dims, m)}
<1>4. 0 \in T
  <2>1. f[0] = 0 /\ Product(dims) \in Nat
    BY <1>0, <1>1, ProductFacts
  <2>2. n \div Product(dims) = 0
    <3>. DEFINE p == Product(dims)
    <3>1. p \in Nat \ {0} /\ 0 * p <= n /\ n < 0 * p + p /\ n \in Int /\ 0 \in Int
      BY <2>1
    <3>. HIDE DEF p
    <3>2. n \div p = 0
      BY <3>1, DivisionUnique
    <3>. QED
      BY <3>2 DEF p
  <2>. QED
    BY <1>2, <2>1, <2>2
<1>5. ASSUME NEW m \in Nat, m \in T
      PROVE  m + 1 \in T
  <2>. SUFFICES ASSUME m + 1 <= N
                PROVE  f[m + 1] = n \div Stride(dims, m + 1)
    OBVIOUS
  <2>1. m \in 0 .. N - 1 /\ m + 1 \in 0 .. N /\ m + 1 \in 1 .. N /\ m + 1 # 0 /\ (m + 1) - 1 = m
    BY <1>0
  <2>2. f[m] = n \div Stride(dims, m)
    BY <1>0, <1>5
  <2>3. f[m + 1] = f[m] * dims[m + 1] + e[m + 1]
    BY <1>1, <2>1
  <2>4. e[m + 1] = (n \div Stride(dims, m + 1)) % dims[m + 1]
    BY <2>1 DEF Digit
  <2>. DEFINE d == dims[m + 1]
              s == Stride(dims, m + 1)
              v == n \div s
  <2>5. d \in Nat \ {0} /\ s \in Nat \ {0} /\ Stride(dims, m) = d * s
    BY <1>2, <1>3, <2>1
  <2>. HIDE DEF d, s
  <2>6. n \div (d * s) = v \div d
    BY <2>5, DivideTwice
  <2>7. v \in Nat
    BY <2>5, Division
  <2>. HIDE DEF v
  <2>8. (v \div d) * d = v - (v % d) /\ v % d \in Int
    BY <2>5, <2>7, DivisionIs
  <2>9. (v \div d) * d + (v % d) = v
    BY <2>7, <2>8
  <2>. QED
    BY <2>2, <2>3, <2>4, <2>5, <2>6, <2>9 DEF d, s, v
<1>6. N \in T
  <2>. HIDE DEF T
  <2>. QED
    BY <1>0, <1>4, <1>5, NatSteps
<1>7. n \div 1 = n
  OBVIOUS
<1>. QED
  BY <1>0, <1>1, <1>2, <1>6, <1>7

\* What comes after the first m of a sequence.
LEMMA RestOf ==
  ASSUME NEW q \in Seq(Nat), NEW m \in 0 .. Len(q)
  PROVE  /\ SubSeq(q, m + 1, Len(q)) \in Seq(Nat)
         /\ Len(SubSeq(q, m + 1, Len(q))) = Len(q) - m
         /\ \A i \in 1 .. Len(q) - m : SubSeq(q, m + 1, Len(q))[i] = q[m + i]
<1>. DEFINE n == Len(q)
            c == m + 1
<1>1. n \in Nat /\ c \in Int /\ \A i \in c .. n : q[i] \in Nat
  OBVIOUS
<1>. HIDE DEF c, n
<1>2. /\ SubSeq(q, c, n) \in Seq(Nat) /\ Len(SubSeq(q, c, n)) = IF c <= n THEN n - c + 1 ELSE 0
      /\ \A i \in 1 .. n - c + 1 : SubSeq(q, c, n)[i] = q[c + i - 1]
  <2>1. n \in Int
    BY <1>1
  <2>. QED
    BY <1>1, <2>1, SubSeqProperties
<1>3. n - c + 1 = n - m /\ (IF c <= n THEN n - c + 1 ELSE 0) = n - m /\ \A i \in 1 .. n - m : c + i - 1 = m + i
  BY <1>1 DEF c, n
<1>. QED
  BY <1>2, <1>3 DEF c, n

\* What is left over by an axis has the coordinates after it.
LEMMA DigitOfRest ==
  ASSUME NEW shape \in Seq(Nat), NEW n \in Nat, n < Product(shape),
         NEW j \in DOMAIN shape, NEW d \in DOMAIN shape, j < d
  PROVE  Digit(n % Stride(shape, j), shape, d) = Digit(n, shape, d)
<1>. DEFINE P == Stride(shape, j)
            s == Stride(shape, d)
            w == shape[d]
            r == n % P
            x == n \div P
<1>1. \A a \in DOMAIN shape : shape[a] \in Nat \ {0} /\ Stride(shape, a) \in Nat \ {0}
  BY Placed
<1>2. PICK k \in Nat \ {0} : P = k * (w * s)
  BY <1>1, StrideSplit
<1>3. P \in Nat \ {0} /\ s \in Nat \ {0} /\ w \in Nat \ {0}
  BY <1>1
<1>4. Digit(r, shape, d) = (r \div s) % w /\ Digit(n, shape, d) = (n \div s) % w
  BY DEF Digit
<1>. HIDE DEF P, s, w
<1>5. x \in Nat /\ x * P = n - r /\ r \in Int
  BY <1>3, DivisionIs
<1>6. r \in Nat
  BY <1>3
<1>. HIDE DEF r, x
<1>. DEFINE y == x * k
            z == y * w
            v == r \div s
<1>7. y \in Int /\ z \in Int
  BY <1>3, <1>5
<1>8. x * P = z * s
  <2>1. x * (k * (w * s)) = (x * k) * (w * s) /\ w * s \in Int
    BY <1>3, <1>5
  <2>2. y * (w * s) = (y * w) * s
    BY <1>3, <1>7
  <2>. QED
    BY <1>2, <2>1, <2>2
<1>. HIDE DEF y
<1>9. z = y * w
  OBVIOUS
<1>. HIDE DEF z
<1>10. n = r + z * s
  BY <1>3, <1>5, <1>7, <1>8
<1>11. (r + z * s) \div s = r \div s + z
  BY <1>3, <1>5, <1>7, ShiftDivision
<1>12. v \in Int
  BY <1>3, <1>6, Division
<1>. HIDE DEF v
<1>13. (v + y * w) % w = v % w
  BY <1>3, <1>7, <1>12, ShiftDivision
<1>14. n \div s = v + y * w
  BY <1>9, <1>10, <1>11 DEF v
<1>. QED
  BY <1>4, <1>13, <1>14 DEF r, P, v

\* The coordinates after an axis number what is left over by it.
LEMMA TailNumber ==
  ASSUME NEW shape \in Seq(Nat), NEW n \in Nat, n < Product(shape), NEW j \in DOMAIN shape,
         NEW pos, pos = Coords(n, shape)
  PROVE  Linear(SubSeq(pos, j + 1, Len(pos)), SubSeq(shape, j + 1, Len(shape))) = n % Stride(shape, j)
<1>. DEFINE N == Len(shape)
            tail == SubSeq(shape, j + 1, N)
            P == Stride(shape, j)
            r == n % P
            e == SubSeq(pos, j + 1, Len(pos))
<1>0. N \in Nat /\ DOMAIN shape = 1 .. N /\ j \in 1 .. N
  OBVIOUS
<1>1. /\ pos = [d \in DOMAIN shape |-> Digit(n, shape, d)]
      /\ \A d \in DOMAIN shape : /\ shape[d] \in Nat \ {0} /\ Stride(shape, d) \in Nat \ {0}
                                 /\ Digit(n, shape, d) \in 0 .. shape[d] - 1
  BY Placed
<1>2. pos \in Seq(Nat) /\ Len(pos) = N /\ \A d \in 1 .. N : pos[d] = Digit(n, shape, d)
  <2>1. \A d \in 1 .. N : Digit(n, shape, d) \in Nat
    <3>1. \A w \in Nat : \A y \in 0 .. w - 1 : y \in Nat
      OBVIOUS
    <3>. QED
      BY <1>0, <1>1, <3>1
  <2>. QED
    BY <1>0, <1>1, <2>1
<1>3. tail \in Seq(Nat) /\ Len(tail) = N - j /\ \A a \in 1 .. N - j : tail[a] = shape[j + a]
  <2>1. j \in 0 .. Len(shape)
    BY <1>0
  <2>2. /\ SubSeq(shape, j + 1, Len(shape)) \in Seq(Nat)
        /\ Len(SubSeq(shape, j + 1, Len(shape))) = Len(shape) - j
        /\ \A i \in 1 .. Len(shape) - j : SubSeq(shape, j + 1, Len(shape))[i] = shape[j + i]
    BY <2>1, RestOf
  <2>. QED
    BY <2>2
<1>4. \A a \in 1 .. N - j : e[a] = pos[j + a]
  <2>1. j \in 0 .. Len(pos)
    BY <1>0, <1>2
  <2>2. \A i \in 1 .. Len(pos) - j : SubSeq(pos, j + 1, Len(pos))[i] = pos[j + i]
    BY <1>2, <2>1, RestOf
  <2>. QED
    BY <1>2, <2>2
<1>5. Product(tail) = P
  BY DEF Stride
<1>6. P \in Nat \ {0}
  BY <1>1
<1>7. r \in Nat /\ r < P
  <2>. HIDE DEF P
  <2>. QED
    BY <1>6
<1>8. ASSUME NEW a \in 1 .. N - j
      PROVE  e[a] = Digit(r, tail, a)
  <2>1. j + a \in 1 .. N /\ j < j + a
    BY <1>0
  <2>2. Stride(tail, a) = Stride(shape, j + a)
    <3>. DEFINE u == SubSeq(tail, a + 1, Len(tail))
                v == SubSeq(shape, j + a + 1, N)
                c == j + a
                M == N - c
    <3>. HIDE DEF tail, N
    <3>0. c \in Nat /\ c \in 1 .. N /\ Len(tail) = N - j
      BY <1>0, <1>3
    <3>2. v \in Seq(Nat) /\ Len(v) = M /\ \A i \in 1 .. M : v[i] = shape[c + i]
      <4>1. c \in 0 .. Len(shape)
        BY <3>0 DEF N
      <4>. HIDE DEF c
      <4>2. /\ SubSeq(shape, c + 1, Len(shape)) \in Seq(Nat)
            /\ Len(SubSeq(shape, c + 1, Len(shape))) = Len(shape) - c
            /\ \A i \in 1 .. Len(shape) - c : SubSeq(shape, c + 1, Len(shape))[i] = shape[c + i]
        BY <4>1, RestOf
      <4>3. v = SubSeq(shape, c + 1, Len(shape)) /\ M = Len(shape) - c
        BY DEF N, c
      <4>. QED
        BY <4>2, <4>3
    <3>3. u \in Seq(Nat) /\ Len(u) = M /\ \A i \in 1 .. M : u[i] = tail[a + i]
      <4>1. a \in 0 .. Len(tail) /\ Len(tail) - a = M
        BY <1>0, <3>0
      <4>. HIDE DEF M
      <4>. QED
        BY <1>3, <4>1, RestOf
    <3>4. \A i \in 1 .. M : tail[a + i] = shape[c + i]
      <4>1. \A i \in 1 .. M : a + i \in 1 .. N - j /\ j + (a + i) = c + i
        BY <1>0
      <4>. QED
        BY <1>3, <4>1
    <3>5. u = v
      <4>. HIDE DEF u, v, M, c
      <4>. QED
        <5>1. u = [i \in 1 .. M |-> u[i]] /\ v = [i \in 1 .. M |-> v[i]]
          BY <3>2, <3>3
        <5>. QED
          BY <3>2, <3>3, <3>4, <5>1
    <3>1. SubSeq(tail, a + 1, Len(tail)) = SubSeq(shape, j + a + 1, N)
      BY <3>5
    <3>6. SubSeq(shape, j + a + 1, N) = SubSeq(shape, (j + a) + 1, Len(shape))
      BY DEF N
    <3>. QED
      BY <3>1, <3>6 DEF Stride
  <2>3. Digit(r, tail, a) = Digit(r, shape, j + a)
    <3>. HIDE DEF tail, r
    <3>. QED
      BY <1>3, <2>2 DEF Digit
  <2>4. Digit(r, shape, j + a) = Digit(n, shape, j + a)
    BY <1>0, <2>1, DigitOfRest
  <2>. QED
    BY <1>2, <1>4, <2>1, <2>3, <2>4
<1>. HIDE DEF e, tail, r, P
<1>9. Linear(e, tail) = r
  BY <1>3, <1>5, <1>7, <1>8, PositionOf
<1>. QED
  BY <1>9 DEF e, tail, r, P

\* An element further along an axis, or along those after it, has the same
\* coordinates before that axis.
LEMMA Further ==
  ASSUME NEW shape \in Seq(Nat), NEW n \in Nat, n < Product(shape), NEW j \in DOMAIN shape, NEW k \in Nat,
         (n % Stride(shape, j)) + k < (shape[j] - Digit(n, shape, j)) * Stride(shape, j)
  PROVE  /\ n + k < Product(shape)
         /\ \A a \in DOMAIN shape : a < j => Digit(n + k, shape, a) = Digit(n, shape, a)
         /\ Digit(n + k, shape, j)
              = Digit(n, shape, j) + ((n % Stride(shape, j)) + k) \div Stride(shape, j)
<1>. DEFINE N == Len(shape)
            s == Stride(shape, j)
            w == shape[j]
            t == Digit(n, shape, j)
            b == n % s
            P == w * s
            x == n \div P
<1>0. N \in Nat /\ DOMAIN shape = 1 .. N /\ j \in 1 .. N /\ j - 1 \in 0 .. N - 1 /\ (j - 1) + 1 = j
  OBVIOUS
<1>1. \A d \in DOMAIN shape : /\ shape[d] \in Nat \ {0} /\ Stride(shape, d) \in Nat \ {0}
                              /\ Digit(n, shape, d) \in 0 .. shape[d] - 1
  BY Placed
<1>2. s \in Nat \ {0} /\ w \in Nat \ {0} /\ t \in 0 .. w - 1
  BY <1>1
<1>3. b + k < (w - t) * s
  OBVIOUS
<1>4. t = (n \div s) % w
  BY DEF Digit
<1>5. Stride(shape, j - 1) = P
  BY <1>0, StrideStep
<1>6. \A a \in DOMAIN shape : a < j => \E m \in Nat \ {0} : Stride(shape, a) = m * P
  BY <1>1, StrideSplit
<1>7. \E m \in Nat \ {0} : Product(shape) = m * P
  <2>1. Stride(shape, 0) = Product(shape)
    BY StrideStep
  <2>2. CASE j = 1
    <3>1. Product(shape) = P
      BY <1>5, <2>1, <2>2
    <3>2. P \in Int
      BY <1>2
    <3>. HIDE DEF P
    <3>. QED
      BY <3>1, <3>2
  <2>3. CASE j # 1
    <3>1. 1 \in DOMAIN shape /\ 1 < j /\ 0 \in 0 .. N - 1
      BY <1>0, <2>3
    <3>2. PICK m \in Nat \ {0} : Stride(shape, 1) = m * P
      BY <1>6, <3>1
    <3>3. Stride(shape, 0) = shape[1] * Stride(shape, 1)
      BY <3>1, StrideStep
    <3>4. shape[1] \in Nat \ {0} /\ P \in Int
      BY <1>1, <1>2, <3>1
    <3>. DEFINE y == shape[1]
    <3>. HIDE DEF P, y
    <3>5. y * (m * P) = (y * m) * P /\ y * m \in Nat \ {0}
      BY <3>4 DEF y
    <3>. QED
      BY <2>1, <3>2, <3>3, <3>5 DEF y
  <2>. QED
    BY <2>2, <2>3
<1>8. n % P = t * s + b
  <2>1. n % (w * s) = ((n \div s) % w) * s + (n % s)
    <3>. HIDE DEF w, s
    <3>. QED
      BY <1>2, DigitSplit
  <2>. QED
    BY <1>4, <2>1
<1>. HIDE DEF t
<1>9. Digit(n + k, shape, j) = ((n + k) \div s) % w
  BY DEF Digit
<1>. HIDE DEF w, s
<1>10. P \in Nat \ {0} /\ b \in 0 .. s - 1 /\ t * s \in Nat
  BY <1>2
<1>11. P = w * s
  OBVIOUS
<1>. HIDE DEF P, b
<1>12. x \in Nat /\ x * P = n - (t * s + b)
  BY <1>8, <1>10, DivisionIs
<1>. HIDE DEF x
<1>13. (w - t) * s = P - t * s
  BY <1>2, <1>11
<1>14. x * P \in Int /\ x * P <= n /\ n < x * P + P /\ x * P <= n + k /\ n + k < x * P + P
  BY <1>3, <1>10, <1>12, <1>13
<1>15. n \div P = x /\ (n + k) \div P = x
  <2>1. n \in Int /\ n + k \in Int /\ x \in Int
    BY <1>12
  <2>. QED
    BY <1>10, <1>14, <2>1, DivisionUnique
<1>16. ASSUME NEW a \in DOMAIN shape, a < j
       PROVE  Digit(n + k, shape, a) = Digit(n, shape, a)
  <2>1. PICK m \in Nat \ {0} : Stride(shape, a) = m * P
    BY <1>6, <1>16
  <2>2. n \div (m * P) = (n \div P) \div m
    BY <1>10, DivideTwice
  <2>3. (n + k) \div (m * P) = ((n + k) \div P) \div m
    <3>1. n + k \in Nat
      OBVIOUS
    <3>. QED
      BY <1>10, <3>1, DivideTwice
  <2>. QED
    BY <1>15, <2>1, <2>2, <2>3 DEF Digit
<1>17. n + k < Product(shape)
  <2>1. PICK m \in Nat \ {0} : Product(shape) = m * P
    BY <1>7
  <2>2. x < m
    <3>1. SUFFICES ASSUME m <= x
                   PROVE  FALSE
      BY <1>12
    <3>2. m * P <= x * P
      BY <1>10, <1>12, <3>1
    <3>. QED
      BY <1>10, <1>14, <2>1, <3>2
  <2>3. (x + 1) * P <= m * P /\ (x + 1) * P = x * P + P
    BY <1>10, <1>12, <2>2
  <2>4. m * P \in Int
    BY <1>10
  <2>. QED
    BY <1>10, <1>14, <2>1, <2>3, <2>4
<1>18. Digit(n + k, shape, j) = t + (b + k) \div s
  <2>. DEFINE q == (b + k) \div s
  <2>1. q \in Nat /\ q * s <= b + k /\ b + k < q * s + s
    <3>1. b + k \in Nat
      BY <1>10
    <3>. QED
      BY <1>2, <3>1, Division
  <2>. HIDE DEF q
  <2>. DEFINE y == x * w
              z == y + (t + q)
  <2>2. y \in Int /\ z \in Int /\ t + q \in Int
    BY <1>2, <1>12, <2>1
  <2>3. y * s = x * P
    BY <1>2, <1>11, <1>12
  <2>4. y = x * w
    OBVIOUS
  <2>. HIDE DEF y
  <2>5. z * s = y * s + (t * s + q * s) /\ q * s \in Int
    BY <1>2, <2>1, <2>2
  <2>6. z * s <= n + k /\ n + k < z * s + s
    BY <1>2, <1>10, <1>12, <1>14, <2>1, <2>3, <2>5
  <2>7. z = y + (t + q)
    OBVIOUS
  <2>. HIDE DEF z
  <2>8. (n + k) \div s = z
    <3>1. n + k \in Int
      OBVIOUS
    <3>. QED
      BY <1>2, <2>2, <2>6, <3>1, DivisionUnique
  <2>9. q < w - t
    <3>1. SUFFICES ASSUME w - t <= q
                   PROVE  FALSE
      BY <1>2, <2>1
    <3>2. (w - t) * s <= q * s /\ (w - t) * s \in Int
      BY <1>2, <2>1, <3>1
    <3>. QED
      BY <1>2, <1>3, <1>10, <2>1, <3>2
  <2>10. z % w = t + q
    <3>1. x * w <= z /\ z < x * w + w /\ z - x * w = t + q /\ x \in Int
      BY <1>2, <1>12, <2>1, <2>2, <2>4, <2>7, <2>9
    <3>. QED
      BY <1>2, <2>2, <3>1, DivisionUnique
  <2>. QED
    BY <1>9, <2>8, <2>10 DEF q
<1>. QED
  BY <1>16, <1>17, <1>18 DEF t, b, s

\* Two positions in D are apart as two in E are, and where they are the strides
\* are the same.
MoveAlike(D, E, j, c, p, u, v) ==
  /\ Len(E) = Len(D)
  /\ \A a \in 1 .. Len(D) : c[a] \in Int /\ p[a] \in Int /\ u[a] \in Int /\ v[a] \in Int
  /\ \A a \in 1 .. Len(D) : a < j => c[a] = p[a] /\ u[a] = v[a]
  /\ \A a \in 1 .. Len(D) : a >= j => c[a] - p[a] = u[a] - v[a] /\ Stride(D, a) = Stride(E, a)

\* Then so are their numbers.
LEMMA SameMove ==
  ASSUME NEW D \in Seq(Nat), NEW E \in Seq(Nat), NEW j \in Int,
         NEW c, NEW p, NEW u, NEW v, MoveAlike(D, E, j, c, p, u, v)
  PROVE  Linear(c, D) - Linear(p, D) = Linear(u, E) - Linear(v, E)
<1>. DEFINE N == Len(D)
            qc == [a \in 1 .. N |-> Stride(D, a) * c[a]]
            qp == [a \in 1 .. N |-> Stride(D, a) * p[a]]
            qu == [a \in 1 .. N |-> Stride(E, a) * u[a]]
            qv == [a \in 1 .. N |-> Stride(E, a) * v[a]]
<1>0. N \in Nat /\ N = Len(E)
  BY DEF MoveAlike
<1>. USE DEF MoveAlike
<1>1. /\ \A a \in 1 .. N : qc[a] = Stride(D, a) * c[a]
      /\ \A a \in 1 .. N : qp[a] = Stride(D, a) * p[a]
      /\ \A a \in 1 .. N : qu[a] = Stride(E, a) * u[a]
      /\ \A a \in 1 .. N : qv[a] = Stride(E, a) * v[a]
  OBVIOUS
<1>. HIDE DEF qc, qp, qu, qv
<1>2. Linear(c, D) = SumTo(qc, N) /\ Linear(p, D) = SumTo(qp, N)
  <2>1. \A a \in 1 .. Len(D) : qc[a] = Stride(D, a) * c[a] /\ qp[a] = Stride(D, a) * p[a]
    BY <1>1
  <2>. QED
    BY <2>1, LinearIsSum
<1>3. Linear(u, E) = SumTo(qu, N) /\ Linear(v, E) = SumTo(qv, N)
  <2>1. \A a \in 1 .. Len(E) : qu[a] = Stride(E, a) * u[a]
    BY <1>0, <1>1
  <2>2. \A a \in 1 .. Len(E) : qv[a] = Stride(E, a) * v[a]
    BY <1>0, <1>1
  <2>3. \A a \in 1 .. Len(E) : u[a] \in Int
    BY <1>0
  <2>4. \A a \in 1 .. Len(E) : v[a] \in Int
    BY <1>0
  <2>5. Linear(u, E) = SumTo(qu, Len(E))
    BY <2>1, <2>3, LinearIsSum
  <2>6. Linear(v, E) = SumTo(qv, Len(E))
    BY <2>2, <2>4, LinearIsSum
  <2>. QED
    BY <1>0, <2>5, <2>6
<1>4. \A a \in 1 .. N : Stride(D, a) \in Nat /\ Stride(E, a) \in Nat
  <2>1. ASSUME NEW a \in 1 .. N
        PROVE  Stride(D, a) \in Nat /\ Stride(E, a) \in Nat
    <3>1. a - 1 \in 0 .. N - 1 /\ (a - 1) + 1 = a
      BY <1>0
    <3>2. Stride(D, (a - 1) + 1) \in Nat /\ Stride(E, (a - 1) + 1) \in Nat
      BY <1>0, <3>1, StrideStep
    <3>. QED
      BY <3>1, <3>2
  <2>. QED
    BY <2>1
<1>5. ASSUME NEW a \in 1 .. N
      PROVE  /\ qc[a] \in Int /\ qp[a] \in Int /\ qu[a] \in Int /\ qv[a] \in Int
             /\ qc[a] = qp[a] + qu[a] - qv[a]
  <2>. DEFINE s == Stride(D, a)
              t == Stride(E, a)
  <2>1. s \in Nat /\ t \in Nat /\ c[a] \in Int /\ p[a] \in Int /\ u[a] \in Int /\ v[a] \in Int
    BY <1>4
  <2>2. qc[a] = s * c[a] /\ qp[a] = s * p[a] /\ qu[a] = t * u[a] /\ qv[a] = t * v[a]
    BY <1>1
  <2>3. IF a < j THEN c[a] = p[a] /\ u[a] = v[a] ELSE c[a] - p[a] = u[a] - v[a] /\ s = t
    <3>1. a \in Int /\ (~(a < j) => a >= j)
      OBVIOUS
    <3>. QED
      BY <3>1
  <2>. HIDE DEF s, t
  <2>7. \A x, y \in Int : x * y \in Int
    OBVIOUS
  <2>4. qc[a] \in Int /\ qp[a] \in Int /\ qu[a] \in Int /\ qv[a] \in Int
    <3>1. s \in Int /\ t \in Int
      BY <2>1
    <3>. QED
      BY <2>1, <2>2, <2>7, <3>1
  <2>5. CASE a < j
    BY <2>2, <2>3, <2>4, <2>5
  <2>6. CASE ~(a < j)
    <3>1. c[a] = p[a] + u[a] - v[a] /\ s = t
      BY <2>1, <2>3, <2>6
    <3>2. s * (p[a] + u[a] - v[a]) = s * p[a] + s * u[a] - s * v[a]
      <4>. DEFINE x == p[a]
                  y == u[a]
                  z == v[a]
      <4>1. s \in Int /\ x \in Int /\ y \in Int /\ z \in Int
        BY <2>1
      <4>. HIDE DEF x, y, z
      <4>2. s * (x + y - z) = s * x + s * y - s * z
        BY <4>1
      <4>. QED
        BY <4>2 DEF x, y, z
    <3>. QED
      BY <2>2, <2>4, <3>1, <3>2
  <2>. QED
    BY <2>4, <2>5, <2>6
<1>6. /\ SumTo(qc, N) \in Int /\ SumTo(qp, N) \in Int /\ SumTo(qu, N) \in Int /\ SumTo(qv, N) \in Int
      /\ SumTo(qc, N) = SumTo(qp, N) + SumTo(qu, N) - SumTo(qv, N)
  <2>1. \A a \in 1 .. N : /\ qc[a] \in Int /\ qp[a] \in Int /\ qu[a] \in Int /\ qv[a] \in Int
                          /\ qc[a] = qp[a] + qu[a] - qv[a]
    BY <1>5
  <2>. HIDE DEF N
  <2>. QED
    BY <1>0, <2>1, SumsMove
<1>. QED
  BY <1>2, <1>3, <1>6

\* A grid of chunks over an array.
IsGrid(shape, chunk) ==
  /\ shape \in Seq(Nat) /\ chunk \in Seq(Nat)
  /\ Len(chunk) = Len(shape)
  /\ \A a \in DOMAIN chunk : chunk[a] # 0

\* From the run axis on, a chunk is laid out as the array is.
LEMMA AfterRunAxis ==
  ASSUME NEW shape, NEW chunk, IsGrid(shape, chunk), shape # << >>
  PROVE  LET j == RunAxis(shape, chunk)
         IN  /\ j \in DOMAIN shape
             /\ \A a \in DOMAIN shape : a > j => chunk[a] = shape[a]
             /\ \A a \in DOMAIN shape : a >= j => Stride(chunk, a) = Stride(shape, a)
<1>. DEFINE j == RunAxis(shape, chunk)
            N == Len(shape)
            S == {1} \cup {a \in DOMAIN shape : chunk[a] # shape[a]}
<1>0. shape \in Seq(Nat) /\ chunk \in Seq(Nat) /\ N \in Nat \ {0} /\ DOMAIN shape = 1 .. N /\ Len(chunk) = N
  BY DEF IsGrid
<1>1. j = Max(S)
  BY DEF RunAxis
<1>. HIDE DEF j
<1>2. j \in S /\ \A x \in S : j >= x
  <2>1. S \subseteq Int /\ S # {} /\ N \in Int /\ \A x \in S : x <= N
    BY <1>0
  <2>. HIDE DEF S, N
  <2>2. Max(S) \in S /\ \A x \in S : Max(S) >= x
    BY <2>1, GreatestOf
  <2>. QED
    BY <1>1, <2>2
<1>3. j \in 1 .. N
  BY <1>0, <1>2
<1>4. \A a \in 1 .. N : a > j => chunk[a] = shape[a]
  <2>1. ASSUME NEW a \in 1 .. N, a > j, chunk[a] # shape[a]
        PROVE  FALSE
    BY <1>0, <1>2, <1>3, <2>1
  <2>. QED
    BY <2>1
<1>. HIDE DEF S
<1>5. ASSUME NEW a \in 1 .. N, a >= j
      PROVE  Stride(chunk, a) = Stride(shape, a)
  <2>. DEFINE u == SubSeq(chunk, a + 1, Len(chunk))
              v == SubSeq(shape, a + 1, Len(shape))
              M == N - a
  <2>1. a \in 0 .. Len(shape) /\ a \in 0 .. Len(chunk) /\ M \in Nat /\ Len(shape) - a = M /\ Len(chunk) - a = M
    BY <1>0
  <2>2. v \in Seq(Nat) /\ Len(v) = Len(shape) - a /\ \A i \in 1 .. Len(shape) - a : v[i] = shape[a + i]
    BY <1>0, <2>1, RestOf
  <2>3. u \in Seq(Nat) /\ Len(u) = Len(chunk) - a /\ \A i \in 1 .. Len(chunk) - a : u[i] = chunk[a + i]
    BY <1>0, <2>1, RestOf
  <2>4. \A i \in 1 .. M : chunk[a + i] = shape[a + i]
    <3>1. \A i \in 1 .. M : a + i \in 1 .. N /\ a + i > j
      BY <1>0, <1>3, <1>5
    <3>. QED
      BY <1>4, <3>1
  <2>. HIDE DEF u, v, M, N
  <2>5. u = [i \in 1 .. M |-> u[i]] /\ v = [i \in 1 .. M |-> v[i]]
    BY <2>1, <2>2, <2>3
  <2>6. u = v
    BY <2>1, <2>2, <2>3, <2>4, <2>5
  <2>. QED
    BY <2>6 DEF Stride, u, v
<1>. QED
  BY <1>0, <1>3, <1>4, <1>5 DEF j

\* A chunk of an axis and the place in it.
LEMMA InChunk ==
  ASSUME NEW n \in Nat, NEW w \in Nat, NEW c \in Nat \ {0}, n < w
  PROVE  /\ CeilDiv(w, c) \in Nat /\ n \div c \in 0 .. CeilDiv(w, c) - 1
         /\ n % c \in 0 .. c - 1 /\ (n \div c) * c + (n % c) = n
         /\ c = w => n \div c = 0
<1>. DEFINE m == w + c - 1
            q == m \div c
            x == n \div c
<1>1. m \in Nat
  OBVIOUS
<1>. HIDE DEF m
<1>2. q \in Nat /\ q * c <= m /\ m < q * c + c
  BY <1>1, Division
<1>3. x \in Nat /\ x * c = n - (n % c) /\ n % c \in 0 .. c - 1
  BY DivisionIs, RoundDown
<1>. HIDE DEF q, x
<1>4. x * c <= n /\ w - 1 < q * c /\ q * c \in Int /\ x * c \in Int
  BY <1>1, <1>2, <1>3 DEF m
<1>5. x < q
  <2>1. SUFFICES ASSUME q <= x
                 PROVE  FALSE
    BY <1>2, <1>3
  <2>2. q * c <= x * c
    BY <1>2, <1>3, <2>1
  <2>. QED
    BY <1>4, <2>2
<1>6. ASSUME c = w
      PROVE  x = 0
  <2>1. SUFFICES ASSUME 1 <= x
                 PROVE  FALSE
    BY <1>3
  <2>2. 1 * c <= x * c
    BY <1>3, <2>1
  <2>. QED
    BY <1>4, <1>6, <2>2
<1>. QED
  BY <1>2, <1>3, <1>5, <1>6 DEF CeilDiv, q, x, m

\* Element n is in the chunk at `corner`, at v in there, and `along` positions
\* of the run axis are left of the chunk and of the array.
IsPlaced(shape, chunk, n, corner, v, along) ==
  LET pos == Coords(n, shape)
      j == RunAxis(shape, chunk)
  IN  /\ \A a \in DOMAIN shape : corner[a] = pos[a] \div chunk[a]
      /\ \A a \in DOMAIN shape : v[a] = pos[a] % chunk[a]
      /\ along \in Nat /\ along <= chunk[j] - v[j] /\ along <= shape[j] - pos[j]

\* The elements of a run: where a chunk has them, they are those of the array.
LEMMA RunElements ==
  ASSUME NEW shape, NEW chunk, IsGrid(shape, chunk), shape # << >>,
         NEW n \in Nat, n < Product(shape),
         NEW corner, NEW v, NEW along, IsPlaced(shape, chunk, n, corner, v, along), NEW k \in Nat,
         (n % Stride(shape, RunAxis(shape, chunk))) + k < along * Stride(shape, RunAxis(shape, chunk))
  PROVE  /\ Linear(corner, Grid(shape, chunk)) \in 0 .. Product(Grid(shape, chunk)) - 1
         /\ Linear(v, chunk) \in Nat /\ Linear(v, chunk) + k < Product(chunk)
         /\ n + k < Product(shape)
         /\ \A a \in DOMAIN shape :
              Coords(Linear(corner, Grid(shape, chunk)), Grid(shape, chunk))[a] * chunk[a]
                + Coords(Linear(v, chunk) + k, chunk)[a] = Digit(n + k, shape, a)
<1>. DEFINE N == Len(shape)
            j == RunAxis(shape, chunk)
            S == Stride(shape, j)
            b == n % S
            t(a) == Digit(n, shape, a)
            c(a) == Digit(n + k, shape, a)
            grid == Grid(shape, chunk)
<1>0. /\ shape \in Seq(Nat) /\ chunk \in Seq(Nat) /\ N \in Nat \ {0} /\ Len(chunk) = N
      /\ DOMAIN shape = 1 .. N /\ DOMAIN chunk = 1 .. N
      /\ \A a \in 1 .. N : chunk[a] \in Nat \ {0}
  BY DEF IsGrid
<1>i. /\ \A a \in DOMAIN shape : corner[a] = Coords(n, shape)[a] \div chunk[a]
      /\ \A a \in DOMAIN shape : v[a] = Coords(n, shape)[a] % chunk[a]
      /\ along \in Nat /\ along <= chunk[j] - v[j] /\ along <= shape[j] - Coords(n, shape)[j]
  BY DEF IsPlaced
<1>e. b + k < along * S
  OBVIOUS
<1>1. /\ j \in 1 .. N
      /\ \A a \in 1 .. N : a > j => chunk[a] = shape[a]
      /\ \A a \in 1 .. N : a >= j => Stride(chunk, a) = Stride(shape, a)
  <2>1. /\ j \in DOMAIN shape
        /\ \A a \in DOMAIN shape : a > j => chunk[a] = shape[a]
        /\ \A a \in DOMAIN shape : a >= j => Stride(chunk, a) = Stride(shape, a)
    BY AfterRunAxis
  <2>. QED
    BY <1>0, <2>1
<1>. HIDE DEF j
<1>2. /\ Coords(n, shape) = [a \in 1 .. N |-> t(a)]
      /\ \A a \in 1 .. N : /\ shape[a] \in Nat \ {0} /\ Stride(shape, a) \in Nat \ {0}
                           /\ t(a) \in 0 .. shape[a] - 1
  BY <1>0, Placed
<1>3. \A a \in 1 .. N : corner[a] = t(a) \div chunk[a] /\ v[a] = t(a) % chunk[a]
  BY <1>0, <1>2, <1>i
<1>4. \A a \in 1 .. N : t(a) \in Nat /\ t(a) < shape[a]
  <2>. HIDE DEF t
  <2>1. ASSUME NEW a \in 1 .. N
        PROVE  t(a) \in Nat /\ t(a) < shape[a]
    <3>1. t(a) \in 0 .. shape[a] - 1 /\ shape[a] \in Nat
      BY <1>2
    <3>. QED
      BY <3>1
  <2>. QED
    BY <2>1
<1>5. /\ grid \in Seq(Nat) /\ Len(grid) = N
      /\ \A a \in 1 .. N : /\ corner[a] \in 0 .. grid[a] - 1
                           /\ v[a] \in 0 .. chunk[a] - 1
                           /\ corner[a] * chunk[a] + v[a] = t(a)
                           /\ chunk[a] = shape[a] => corner[a] = 0
  <2>1. grid = [a \in 1 .. N |-> CeilDiv(shape[a], chunk[a])]
    BY <1>0 DEF Grid
  <2>. HIDE DEF t, grid
  <2>2. ASSUME NEW a \in 1 .. N
        PROVE  /\ CeilDiv(shape[a], chunk[a]) \in Nat
               /\ corner[a] \in 0 .. CeilDiv(shape[a], chunk[a]) - 1
               /\ v[a] \in 0 .. chunk[a] - 1
               /\ corner[a] * chunk[a] + v[a] = t(a)
               /\ chunk[a] = shape[a] => corner[a] = 0
    <3>. DEFINE x == t(a)
                w == shape[a]
                g == chunk[a]
    <3>1. x \in Nat /\ w \in Nat /\ g \in Nat \ {0} /\ x < w /\ corner[a] = x \div g /\ v[a] = x % g
      BY <1>0, <1>2, <1>3, <1>4
    <3>. HIDE DEF x, w, g
    <3>2. /\ CeilDiv(w, g) \in Nat /\ x \div g \in 0 .. CeilDiv(w, g) - 1
          /\ x % g \in 0 .. g - 1 /\ (x \div g) * g + (x % g) = x
          /\ g = w => x \div g = 0
      BY <3>1, InChunk
    <3>. QED
      BY <3>1, <3>2 DEF x, w, g
  <2>. QED
    BY <1>0, <2>1, <2>2
<1>6. S \in Nat \ {0} /\ shape[j] \in Nat \ {0} /\ chunk[j] \in Nat \ {0} /\ t(j) \in Nat /\ Coords(n, shape)[j] = t(j)
  BY <1>0, <1>1, <1>2, <1>4
<1>7. b \in Nat /\ b < S
  <2>. HIDE DEF S
  <2>. QED
    <3>1. n \in Int /\ n % S \in 0 .. S - 1
      BY <1>6, RoundDown
    <3>. QED
      BY <1>6, <3>1
<1>8. b + k < (shape[j] - t(j)) * S
  <2>. DEFINE m == shape[j] - t(j)
  <2>1. along <= m /\ m \in Int /\ along \in Nat
    BY <1>6, <1>i
  <2>2. b + k < along * S
    BY <1>e
  <2>. HIDE DEF m, S, b
  <2>3. along * S <= m * S /\ along * S \in Int /\ m * S \in Int
    BY <1>6, <2>1
  <2>. QED
    BY <1>7, <2>2, <2>3 DEF m
<1>. DEFINE q == (b + k) \div S
<1>9. /\ n + k < Product(shape)
      /\ \A a \in 1 .. N : a < j => c(a) = t(a)
      /\ c(j) = t(j) + q
  <2>1. (n % Stride(shape, j)) + k < (shape[j] - Digit(n, shape, j)) * Stride(shape, j)
    BY <1>8
  <2>2. shape \in Seq(Nat) /\ j \in DOMAIN shape
    BY <1>0, <1>1
  <2>3. /\ n + k < Product(shape)
        /\ \A a \in DOMAIN shape : a < j => Digit(n + k, shape, a) = Digit(n, shape, a)
        /\ Digit(n + k, shape, j)
             = Digit(n, shape, j) + ((n % Stride(shape, j)) + k) \div Stride(shape, j)
    BY <2>1, <2>2, Further
  <2>. QED
    BY <1>0, <2>3
<1>10. q \in Nat /\ q < along
  <2>1. b + k < along * S /\ along \in Nat
    BY <1>e, <1>i
  <2>2. b + k \in Nat
    BY <1>7
  <2>. HIDE DEF S, b
  <2>3. q \in Nat /\ q * S <= b + k
    BY <1>6, <2>2, Division
  <2>. HIDE DEF q
  <2>4. SUFFICES ASSUME along <= q
                 PROVE  FALSE
    BY <2>1, <2>3
  <2>5. along * S <= q * S /\ along * S \in Int /\ q * S \in Int
    BY <1>6, <2>1, <2>3, <2>4
  <2>. QED
    BY <2>1, <2>2, <2>3, <2>5
<1>11. \A a \in 1 .. N : c(a) \in 0 .. shape[a] - 1
  <2>1. n + k \in Nat
    OBVIOUS
  <2>2. \A a \in DOMAIN shape : Digit(n + k, shape, a) \in 0 .. shape[a] - 1
    BY <1>0, <1>9, <2>1, Placed
  <2>. QED
    BY <1>0, <2>2
<1>12. along <= chunk[j] - v[j] /\ along \in Nat
  BY <1>i
<1>. DEFINE u == [a \in 1 .. N |-> c(a) - corner[a] * chunk[a]]
<1>13. \A a \in 1 .. N : u[a] = c(a) - corner[a] * chunk[a]
  OBVIOUS
<1>. HIDE DEF u, c, t, q, S, b, grid
<1>14. ASSUME NEW a \in 1 .. N
       PROVE  /\ c(a) \in Int /\ t(a) \in Int /\ u[a] \in Int /\ v[a] \in Int
              /\ c(a) - t(a) = u[a] - v[a]
              /\ u[a] \in 0 .. chunk[a] - 1
              /\ corner[a] * chunk[a] + u[a] = c(a)
  <2>1. chunk[a] \in Nat \ {0} /\ shape[a] \in Nat /\ grid[a] \in Nat /\ t(a) \in Nat
    <3>1. grid[a] \in Nat
      BY <1>5
    <3>. QED
      BY <1>0, <1>2, <1>4, <3>1
  <2>0. /\ corner[a] \in 0 .. grid[a] - 1 /\ v[a] \in 0 .. chunk[a] - 1
        /\ corner[a] * chunk[a] + v[a] = t(a) /\ (chunk[a] = shape[a] => corner[a] = 0)
    BY <1>5
  <2>2. c(a) \in Int /\ t(a) \in Int /\ v[a] \in 0 .. chunk[a] - 1
    <3>1. c(a) \in 0 .. shape[a] - 1
      BY <1>11
    <3>. QED
      BY <2>0, <2>1, <3>1
  <2>3. corner[a] \in Int
    BY <2>0, <2>1
  <2>. DEFINE m == corner[a] * chunk[a]
  <2>4. m \in Int /\ m + v[a] = t(a) /\ u[a] = c(a) - m
    <3>1. \A x, y \in Int : x * y \in Int
      OBVIOUS
    <3>2. m \in Int
      BY <2>1, <2>3, <3>1
    <3>. QED
      BY <1>13, <2>0, <3>2
  <2>5. chunk[a] = shape[a] => m = 0
    BY <2>0, <2>1
  <2>. HIDE DEF m
  <2>6. u[a] \in Int /\ v[a] \in Int /\ c(a) - t(a) = u[a] - v[a] /\ m + u[a] = c(a)
    BY <2>2, <2>4
  <2>7. u[a] \in 0 .. chunk[a] - 1
    <3>1. CASE a < j
      <4>1. c(a) = t(a)
        BY <1>9, <3>1
      <4>2. u[a] = v[a]
        BY <2>2, <2>4, <2>6, <4>1
      <4>. QED
        BY <2>2, <4>2
    <3>2. CASE a = j
      <4>1. u[a] = v[a] + q /\ along <= chunk[a] - v[a] /\ v[a] \in Int /\ v[a] >= 0
        <5>1. c(a) = t(a) + q /\ along <= chunk[a] - v[a]
          BY <1>9, <1>12, <3>2
        <5>2. v[a] \in Int /\ v[a] >= 0
          BY <2>1, <2>2
        <5>. QED
          BY <1>10, <2>1, <2>4, <5>1, <5>2
      <4>. QED
        <5>1. chunk[a] \in Int /\ q \in Int /\ q >= 0
          BY <1>10, <2>1
        <5>. QED
          BY <1>10, <1>12, <2>6, <4>1, <5>1
    <3>3. CASE a > j
      <4>1. chunk[a] = shape[a]
        BY <1>1, <3>3
      <4>2. u[a] = c(a) /\ c(a) \in 0 .. shape[a] - 1
        BY <1>11, <2>2, <2>4, <2>5, <4>1
      <4>. QED
        BY <4>1, <4>2
    <3>. QED
      BY <1>1, <3>1, <3>2, <3>3
  <2>. QED
    BY <2>2, <2>6, <2>7 DEF m
<1>. DEFINE cs == [a \in 1 .. N |-> c(a)]
            ts == [a \in 1 .. N |-> t(a)]
<1>15. Linear(cs, shape) = n + k
  <2>1. \A d \in 1 .. Len(shape) : cs[d] = Digit(n + k, shape, d)
    BY DEF c
  <2>2. n + k \in Nat
    OBVIOUS
  <2>. HIDE DEF cs
  <2>. QED
    BY <1>0, <1>9, <2>1, <2>2, PositionOf
<1>16. Linear(ts, shape) = n
  <2>1. \A d \in 1 .. Len(shape) : ts[d] = Digit(n, shape, d)
    BY DEF t
  <2>. HIDE DEF ts
  <2>. QED
    BY <1>0, <2>1, PositionOf
<1>17. Linear(cs, shape) - Linear(ts, shape) = Linear(u, chunk) - Linear(v, chunk)
  <2>1. \A a \in 1 .. N : cs[a] = c(a) /\ ts[a] = t(a)
    OBVIOUS
  <2>. HIDE DEF cs, ts
  <2>2. \A a \in 1 .. Len(shape) : cs[a] \in Int /\ ts[a] \in Int /\ u[a] \in Int /\ v[a] \in Int
    BY <1>14, <2>1
  <2>3. \A a \in 1 .. Len(shape) : a < j => cs[a] = ts[a] /\ u[a] = v[a]
    <3>1. ASSUME NEW a \in 1 .. N, a < j
          PROVE  c(a) = t(a) /\ u[a] = v[a]
      <4>1. c(a) = t(a) /\ c(a) - t(a) = u[a] - v[a] /\ c(a) \in Int /\ t(a) \in Int /\ u[a] \in Int /\ v[a] \in Int
        BY <1>9, <1>14, <3>1
      <4>. QED
        BY <4>1
    <3>. QED
      BY <2>1, <3>1
  <2>4. \A a \in 1 .. Len(shape) : a >= j => cs[a] - ts[a] = u[a] - v[a] /\ Stride(shape, a) = Stride(chunk, a)
    BY <1>1, <1>14, <2>1
  <2>5. Len(chunk) = Len(shape) /\ j \in Int
    BY <1>0, <1>1
  <2>. QED
    <3>. HIDE DEF N
    <3>1. shape \in Seq(Nat) /\ chunk \in Seq(Nat)
      BY <1>0
    <3>2. MoveAlike(shape, chunk, j, cs, ts, u, v)
      BY <2>2, <2>3, <2>4, <2>5 DEF MoveAlike
    <3>. QED
      BY <2>5, <3>1, <3>2, SameMove
<1>18. /\ Linear(u, chunk) \in 0 .. Product(chunk) - 1
       /\ Coords(Linear(u, chunk), chunk) = [d \in DOMAIN chunk |-> u[d]]
  <2>1. \A d \in 1 .. Len(chunk) : u[d] \in 0 .. chunk[d] - 1
    BY <1>0, <1>14
  <2>. QED
    BY <1>0, <2>1, NumberOf
<1>19. Linear(v, chunk) \in 0 .. Product(chunk) - 1
  <2>1. \A d \in 1 .. Len(chunk) : v[d] \in 0 .. chunk[d] - 1
    BY <1>0, <1>5
  <2>. QED
    BY <1>0, <2>1, NumberOf
<1>20. /\ Linear(corner, grid) \in 0 .. Product(grid) - 1
       /\ Coords(Linear(corner, grid), grid) = [d \in DOMAIN grid |-> corner[d]]
  <2>1. \A d \in 1 .. Len(grid) : corner[d] \in 0 .. grid[d] - 1
    BY <1>5
  <2>2. grid \in Seq(Nat)
    BY <1>5
  <2>. HIDE DEF N
  <2>. QED
    BY <2>1, <2>2, NumberOf
<1>. HIDE DEF cs, ts
<1>21. Product(chunk) \in Nat
  BY <1>0, ProductFacts
<1>. DEFINE l == Linear(v, chunk)
            m == Linear(u, chunk)
            P == Product(chunk)
<1>22. m = l + k /\ l \in Nat /\ l + k < P
  <2>1. (n + k) - n = m - l /\ m \in 0 .. P - 1 /\ l \in 0 .. P - 1 /\ P \in Nat
    BY <1>15, <1>16, <1>17, <1>18, <1>19, <1>21
  <2>. HIDE DEF l, m, P
  <2>. QED
    BY <2>1
<1>23. ASSUME NEW a \in 1 .. N
       PROVE  Coords(Linear(corner, grid), grid)[a] * chunk[a] + Coords(l + k, chunk)[a] = c(a)
  <2>1. a \in DOMAIN grid
    BY <1>5
  <2>2. Coords(Linear(corner, grid), grid)[a] = corner[a]
    BY <1>20, <2>1
  <2>3. Coords(m, chunk)[a] = u[a]
    BY <1>0, <1>18
  <2>4. l + k = m
    BY <1>22
  <2>. HIDE DEF l, m
  <2>. QED
    BY <1>14, <2>2, <2>3, <2>4
<1>. QED
  BY <1>0, <1>9, <1>20, <1>22, <1>23 DEF grid, c

\* A number below a product, divided by one factor, is below the other.
LEMMA DivideBelow ==
  ASSUME NEW n \in Nat, NEW d \in Nat \ {0}, NEW m \in Int, n < m * d
  PROVE  n \div d \in Nat /\ n \div d < m
<1>. DEFINE q == n \div d
<1>1. q \in Nat /\ q * d <= n
  BY Division
<1>. HIDE DEF q
<1>2. q < m
  <2>1. SUFFICES ASSUME m <= q
                 PROVE  FALSE
    BY <1>1
  <2>2. m * d <= q * d /\ m * d \in Int /\ q * d \in Int
    BY <1>1, <2>1
  <2>. QED
    BY <1>1, <2>2
<1>. QED
  BY <1>1, <1>2 DEF q

\* The byte of an element.
LEMMA ByteOfElement ==
  ASSUME NEW x \in Nat, NEW w \in Nat \ {0}, NEW i \in 0 .. w - 1
  PROVE  (x * w + i) \div w = x /\ (x * w + i) % w = i
<1>. DEFINE y == x * w + i
<1>1. y \in Int /\ x \in Int /\ x * w <= y /\ y < x * w + w /\ y - x * w = i
  OBVIOUS
<1>. HIDE DEF y
<1>2. y \div w = x /\ y % w = y - x * w
  BY <1>1, DivisionUnique
<1>. QED
  BY <1>1, <1>2 DEF y

\* The place y of a chunk stands for element m of the array.
StandsFor(shape, chunk, itemsize, number, y, m) ==
  \A a \in DOMAIN shape :
    Coords(number, Grid(shape, chunk))[a] * chunk[a] + Coords(y \div itemsize, chunk)[a] = Digit(m, shape, a)

\* What is stored there.
LEMMA StoredIs ==
  ASSUME NEW shape \in Seq(Nat), NEW chunk, NEW itemsize, NEW number, NEW y, NEW m \in Nat, m < Product(shape),
         StandsFor(shape, chunk, itemsize, number, y, m)
  PROVE  Stored(shape, chunk, itemsize, number, y) = m * itemsize + (y % itemsize)
<1>. DEFINE pos == [a \in DOMAIN shape |->
                      Coords(number, Grid(shape, chunk))[a] * chunk[a] + Coords(y \div itemsize, chunk)[a]]
<1>1. \A a \in DOMAIN shape : pos[a] = Digit(m, shape, a)
  BY DEF StandsFor
<1>2. Stored(shape, chunk, itemsize, number, y) =
        IF \A a \in DOMAIN shape : pos[a] < shape[a]
        THEN Linear(pos, shape) * itemsize + (y % itemsize) ELSE Padding
  BY DEF Stored
<1>. HIDE DEF pos
<1>3. \A a \in DOMAIN shape : pos[a] < shape[a]
  <2>1. ASSUME NEW a \in DOMAIN shape
        PROVE  pos[a] < shape[a]
    <3>. DEFINE w == shape[a]
                i == pos[a]
    <3>1. w \in Nat /\ i \in 0 .. w - 1
      BY <1>1, Placed
    <3>. HIDE DEF w, i
    <3>2. i < w
      BY <3>1
    <3>. QED
      BY <3>2 DEF w, i
  <2>. QED
    BY <2>1
<1>4. Linear(pos, shape) = m
  <2>1. \A d \in 1 .. Len(shape) : pos[d] = Digit(m, shape, d)
    BY <1>1
  <2>. QED
    BY <2>1, PositionOf
<1>. QED
  BY <1>2, <1>3, <1>4

\* A run: not empty and no longer than asked, within one chunk, and where the
\* chunk has its bytes they are those of the array.
LEMMA RunHolds ==
  ASSUME NEW shape, NEW chunk, IsGrid(shape, chunk), shape # << >>,
         NEW itemsize \in Nat \ {0}, NEW at \in Nat, at < Product(shape) * itemsize, NEW most \in Nat \ {0},
         NEW r, r = Run(shape, chunk, itemsize, at, most)
  PROVE  /\ r = [chunk |-> r.chunk, start |-> r.start, len |-> r.len]
         /\ r.len \in 1 .. most
         /\ r.chunk \in 0 .. Product(Grid(shape, chunk)) - 1
         /\ r.start \in Nat /\ r.start + r.len <= Product(chunk) * itemsize
         /\ \A b \in 0 .. r.len - 1 : Stored(shape, chunk, itemsize, r.chunk, r.start + b) = at + b
<1>. DEFINE N == Len(shape)
            n == at \div itemsize
            skip == at % itemsize
            pos == Coords(n, shape)
            j == RunAxis(shape, chunk)
            S == Stride(shape, j)
            behind == n % S
            A == chunk[j] - (pos[j] % chunk[j])
            B == shape[j] - pos[j]
            along == Min({A, B})
            corner == [a \in DOMAIN pos |-> pos[a] \div chunk[a]]
            v == [a \in DOMAIN pos |-> pos[a] % chunk[a]]
            number == Linear(corner, Grid(shape, chunk))
            L == Linear(v, chunk)
            M == (along * S - behind) * itemsize - skip
            len == Min({M, most})
<1>0. /\ shape \in Seq(Nat) /\ chunk \in Seq(Nat) /\ N \in Nat \ {0} /\ Len(chunk) = N
      /\ DOMAIN shape = 1 .. N /\ DOMAIN chunk = 1 .. N
      /\ \A a \in 1 .. N : chunk[a] \in Nat \ {0}
  BY DEF IsGrid
<1>1. Product(shape) \in Nat /\ Product(chunk) \in Nat
  BY <1>0, ProductFacts
<1>2. n \in Nat /\ n < Product(shape)
  BY <1>1, DivideBelow
<1>3. skip \in 0 .. itemsize - 1 /\ at = n * itemsize + skip
  <2>1. skip \in 0 .. itemsize - 1
    BY RoundDown
  <2>2. n * itemsize = at - skip /\ skip \in Int
    BY DivisionIs
  <2>. HIDE DEF n, skip
  <2>3. n * itemsize \in Int
    BY <1>2
  <2>. QED
    BY <2>1, <2>2, <2>3
<1>. HIDE DEF n
<1>4. j \in 1 .. N
  <2>1. j \in DOMAIN shape
    BY AfterRunAxis
  <2>. QED
    BY <1>0, <2>1
<1>5. /\ pos = [a \in DOMAIN shape |-> Digit(n, shape, a)]
      /\ \A a \in DOMAIN shape : /\ shape[a] \in Nat \ {0} /\ Stride(shape, a) \in Nat \ {0}
                                 /\ Digit(n, shape, a) \in 0 .. shape[a] - 1
  BY <1>0, <1>2, Placed
<1>6. Linear(SubSeq(pos, j + 1, Len(pos)), SubSeq(shape, j + 1, Len(shape))) = behind
  <2>1. shape \in Seq(Nat) /\ j \in DOMAIN shape
    BY <1>0, <1>4
  <2>. HIDE DEF j
  <2>. QED
    BY <1>2, <2>1, TailNumber
<1>7. /\ r.chunk = number
      /\ r.start = L * itemsize + skip
      /\ r.len = len
      /\ r = [chunk |-> r.chunk, start |-> r.start, len |-> r.len]
  <2>1. Run(shape, chunk, itemsize, at, most)
          = [chunk |-> number, start |-> L * itemsize + skip,
             len |-> Min({(along * S - Linear(SubSeq(pos, j + 1, Len(pos)), SubSeq(shape, j + 1, Len(shape)))) * itemsize - skip,
                          most})]
    BY DEF Run, n
  <2>2. (along * S - Linear(SubSeq(pos, j + 1, Len(pos)), SubSeq(shape, j + 1, Len(shape)))) * itemsize - skip = M
    BY <1>6
  <2>. HIDE DEF number, L, along, S, pos, j, skip, M, behind
  <2>3. r = [chunk |-> number, start |-> L * itemsize + skip, len |-> Min({M, most})]
    BY <2>1, <2>2
  <2>. QED
    BY <2>3
<1>8. DOMAIN pos = DOMAIN shape
  BY <1>5
<1>9. /\ \A a \in DOMAIN shape : corner[a] = Coords(n, shape)[a] \div chunk[a]
      /\ \A a \in DOMAIN shape : v[a] = Coords(n, shape)[a] % chunk[a]
      /\ pos[j] = Coords(n, shape)[j]
  BY <1>8
<1>10. A \in Nat \ {0} /\ B \in Nat \ {0} /\ A = chunk[j] - v[j] /\ S \in Nat \ {0}
  <2>. DEFINE x == pos[j]
              c == chunk[j]
              w == shape[j]
  <2>1. c \in Nat \ {0} /\ w \in Nat /\ x \in 0 .. w - 1 /\ S \in Nat \ {0} /\ v[j] = x % c
    BY <1>0, <1>4, <1>5, <1>8
  <2>2. A = c - (x % c) /\ B = w - x
    OBVIOUS
  <2>. HIDE DEF x, c, w, S, v, A, B
  <2>3. x % c \in 0 .. c - 1
    <3>1. x \in Int
      BY <2>1
    <3>. QED
      BY <2>1, <3>1, RoundDown
  <2>. QED
    BY <2>1, <2>2, <2>3 DEF c
<1>11. along \in Nat \ {0} /\ along <= A /\ along <= B
  <2>. HIDE DEF A, B
  <2>1. along = IF A <= B THEN A ELSE B
    BY <1>10, MinOfTwo
  <2>. HIDE DEF along
  <2>. QED
    BY <1>10, <2>1
<1>12. behind \in Nat /\ behind < S
  <2>1. n \in Int /\ n % S \in 0 .. S - 1
    <3>. HIDE DEF S
    <3>1. n \in Int /\ S \in Nat \ {0}
      BY <1>2, <1>10
    <3>. QED
      BY <3>1, RoundDown
  <2>. HIDE DEF S
  <2>. QED
    BY <1>10, <2>1
<1>13. along <= chunk[j] - v[j] /\ along <= shape[j] - Coords(n, shape)[j]
  <2>1. B = shape[j] - Coords(n, shape)[j]
    BY <1>9
  <2>. HIDE DEF A, B, along, v
  <2>. QED
    BY <1>10, <1>11, <2>1
<1>. DEFINE room == along * S - behind
<1>14. room \in Nat \ {0} /\ behind + room = along * S
  <2>. HIDE DEF along, S, behind
  <2>1. 1 * S <= along * S /\ along * S \in Int
    BY <1>10, <1>11
  <2>. QED
    BY <1>10, <1>12, <2>1
<1>15. M = room * itemsize - skip
  OBVIOUS
<1>. HIDE DEF room, M, along, behind, A, B, skip, L, number, corner, v, pos, S
<1>16. room * itemsize \in Int /\ room * itemsize >= itemsize /\ M \in Nat \ {0} /\ skip + M = room * itemsize
  <2>1. 1 * itemsize <= room * itemsize /\ room * itemsize \in Int
    BY <1>14
  <2>. QED
    BY <1>3, <1>15, <2>1
<1>17. len \in 1 .. most /\ len <= M
  <2>1. len = IF M <= most THEN M ELSE most
    BY <1>16, MinOfTwo
  <2>. HIDE DEF len
  <2>. QED
    BY <1>16, <2>1
<1>. HIDE DEF len
<1>18. ASSUME NEW b \in 0 .. len - 1
       PROVE  /\ number \in 0 .. Product(Grid(shape, chunk)) - 1
              /\ L \in Nat /\ L * itemsize + skip + b < Product(chunk) * itemsize
              /\ Stored(shape, chunk, itemsize, number, (L * itemsize + skip) + b) = at + b
  <2>. DEFINE k == (skip + b) \div itemsize
              i == (skip + b) % itemsize
              y == (L + k) * itemsize + i
  <2>1. skip + b \in Nat /\ skip + b < room * itemsize
    BY <1>3, <1>16, <1>17
  <2>2. k \in Nat /\ k < room
    <3>1. room \in Int
      BY <1>14
    <3>. QED
      BY <2>1, <3>1, DivideBelow
  <2>3. i \in 0 .. itemsize - 1 /\ k * itemsize = (skip + b) - i
    <3>1. i \in 0 .. itemsize - 1
      <4>1. skip + b \in Int
        BY <2>1
      <4>. QED
        BY <4>1, RoundDown
    <3>2. k * itemsize = (skip + b) - i
      BY <2>1, DivisionIs
    <3>. QED
      BY <3>1, <3>2
  <2>. HIDE DEF k, i
  <2>4. behind + k < along * S
    <3>1. behind + k < behind + room
      BY <1>12, <1>14, <2>2
    <3>. QED
      BY <1>14, <3>1
  <2>5. /\ number \in 0 .. Product(Grid(shape, chunk)) - 1
        /\ L \in Nat /\ L + k < Product(chunk)
        /\ n + k < Product(shape)
        /\ \A a \in DOMAIN shape :
             Coords(number, Grid(shape, chunk))[a] * chunk[a] + Coords(L + k, chunk)[a] = Digit(n + k, shape, a)
    <3>1. (n % Stride(shape, RunAxis(shape, chunk))) + k < along * Stride(shape, RunAxis(shape, chunk))
      BY <2>4 DEF behind, S
    <3>2. IsPlaced(shape, chunk, n, corner, v, along)
      <4>1. along <= chunk[j] - v[j] /\ along <= shape[j] - Coords(n, shape)[j] /\ along \in Nat
        BY <1>11, <1>13
      <4>. QED
        BY <1>9, <4>1 DEF IsPlaced
    <3>. HIDE DEF j
    <3>3. /\ Linear(corner, Grid(shape, chunk)) \in 0 .. Product(Grid(shape, chunk)) - 1
          /\ Linear(v, chunk) \in Nat /\ Linear(v, chunk) + k < Product(chunk)
          /\ n + k < Product(shape)
          /\ \A a \in DOMAIN shape :
               Coords(Linear(corner, Grid(shape, chunk)), Grid(shape, chunk))[a] * chunk[a]
                 + Coords(Linear(v, chunk) + k, chunk)[a] = Digit(n + k, shape, a)
      BY <1>2, <2>2, <3>1, <3>2, RunElements
    <3>. QED
      BY <3>3 DEF number, L
  <2>6. y \div itemsize = L + k /\ y % itemsize = i
    <3>1. L + k \in Nat
      BY <2>2, <2>5
    <3>. QED
      BY <2>3, <3>1, ByteOfElement
  <2>7. y = (L * itemsize + skip) + b /\ y \in Int
    <3>1. (L + k) * itemsize = L * itemsize + k * itemsize /\ L * itemsize \in Int /\ k * itemsize \in Int
      BY <2>2, <2>5
    <3>. QED
      BY <1>3, <2>1, <2>3, <3>1
  <2>8. y < Product(chunk) * itemsize
    <3>. DEFINE P == Product(chunk)
                z == L + k
    <3>1. z \in Nat /\ z + 1 <= P /\ P \in Nat
      BY <1>1, <2>2, <2>5
    <3>2. y = z * itemsize + i
      OBVIOUS
    <3>. HIDE DEF z, P, y
    <3>3. (z + 1) * itemsize <= P * itemsize /\ (z + 1) * itemsize = z * itemsize + itemsize
      BY <3>1
    <3>4. z * itemsize \in Int /\ P * itemsize \in Int
      BY <3>1
    <3>. QED
      BY <2>3, <3>2, <3>3, <3>4 DEF P
  <2>. HIDE DEF y
  <2>9. Stored(shape, chunk, itemsize, number, y) = (n + k) * itemsize + (y % itemsize)
    <3>. DEFINE m == n + k
    <3>1. m \in Nat /\ m < Product(shape)
      BY <1>2, <2>2, <2>5
    <3>2. \A a \in DOMAIN shape :
            Coords(number, Grid(shape, chunk))[a] * chunk[a] + Coords(y \div itemsize, chunk)[a] = Digit(m, shape, a)
      BY <2>5, <2>6
    <3>4. StandsFor(shape, chunk, itemsize, number, y, m)
      BY <3>2 DEF StandsFor
    <3>. HIDE DEF m
    <3>3. Stored(shape, chunk, itemsize, number, y) = m * itemsize + (y % itemsize)
      BY <1>0, <3>1, <3>4, StoredIs
    <3>. QED
      BY <3>3 DEF m
  <2>10. (n + k) * itemsize + i = at + b
    <3>1. (n + k) * itemsize = n * itemsize + k * itemsize /\ n * itemsize \in Int /\ k * itemsize \in Int
      BY <1>2, <2>2
    <3>. QED
      BY <1>3, <2>1, <2>3, <3>1
  <2>. QED
    BY <2>5, <2>6, <2>7, <2>8, <2>9, <2>10
<1>19. /\ number \in 0 .. Product(Grid(shape, chunk)) - 1
       /\ L * itemsize + skip \in Nat /\ L * itemsize + skip + len <= Product(chunk) * itemsize
  <2>1. len - 1 \in 0 .. len - 1 /\ len \in Int
    BY <1>17
  <2>2. /\ number \in 0 .. Product(Grid(shape, chunk)) - 1
        /\ L \in Nat /\ L * itemsize + skip + (len - 1) < Product(chunk) * itemsize
    BY <1>18, <2>1
  <2>3. L * itemsize \in Nat /\ Product(chunk) * itemsize \in Int
    BY <1>1, <2>2
  <2>. QED
    BY <1>3, <2>1, <2>2, <2>3
<1>. QED
  BY <1>7, <1>17, <1>18, <1>19


\* The chunks of a grid are counted along each axis.
LEMMA GridIs ==
  ASSUME NEW shape, NEW chunk, IsGrid(shape, chunk)
  PROVE  /\ Grid(shape, chunk) \in Seq(Nat) /\ Len(Grid(shape, chunk)) = Len(shape)
         /\ Product(Grid(shape, chunk)) \in Nat
<1>. DEFINE g == Grid(shape, chunk)
<1>1. shape \in Seq(Nat) /\ chunk \in Seq(Nat) /\ DOMAIN shape = 1 .. Len(shape) /\ Len(shape) \in Nat
  BY DEF IsGrid
<1>2. ASSUME NEW a \in DOMAIN shape
      PROVE  CeilDiv(shape[a], chunk[a]) \in Nat
  <2>. DEFINE w == shape[a]
              c == chunk[a]
              m == w + c - 1
  <2>1. w \in Nat /\ c \in Nat \ {0} /\ m \in Nat
    BY <1>1 DEF IsGrid
  <2>. HIDE DEF m
  <2>2. m \div c \in Nat
    BY <2>1, Division
  <2>. QED
    BY <2>2 DEF CeilDiv, m
<1>3. g = [a \in 1 .. Len(shape) |-> CeilDiv(shape[a], chunk[a])]
  BY <1>1 DEF Grid
<1>4. [a \in 1 .. Len(shape) |-> CeilDiv(shape[a], chunk[a])] \in [1 .. Len(shape) -> Nat]
  BY <1>1, <1>2
<1>. HIDE DEF g
<1>5. g \in [1 .. Len(shape) -> Nat]
  BY <1>3, <1>4
<1>. DEFINE n == Len(shape)
<1>6. n \in Nat /\ g \in [1 .. n -> Nat]
  BY <1>1, <1>5
<1>. HIDE DEF n
<1>7. g \in Seq(Nat) /\ Len(g) = n
  BY <1>6
<1>8. Product(g) \in Nat
  BY <1>7, ProductFacts
<1>. QED
  BY <1>7, <1>8 DEF g, n

\* The runs of a range: none empty, each within one chunk.
Pieces(shape, chunk, itemsize) ==
  {r \in [chunk : Nat, start : Nat, len : Nat \ {0}] :
     /\ r.chunk < Product(Grid(shape, chunk))
     /\ r.start + r.len <= Product(chunk) * itemsize}

\* What every place of a chunk stands for.
Places(shape, chunk, itemsize) ==
  [x \in Nat \X Nat |-> Stored(shape, chunk, itemsize, x[1], x[2])]

\* A run that holds the places from a on, in order.
InPlace(P, r, a) == \A k \in 1 .. r.len : P[<<r.chunk, r.start + k - 1>>] = a + k - 1

\* One round of walk: the run lies within its chunk, has what was asked for, and
\* holds the next bytes of the array in order.
LEMMA RunIsPiece ==
  ASSUME NEW shape, NEW chunk, IsGrid(shape, chunk), shape # << >>,
         NEW itemsize \in Nat \ {0}, NEW at \in Nat, at < Product(shape) * itemsize, NEW most \in Nat \ {0}
  PROVE  LET r == Run(shape, chunk, itemsize, at, most)
         IN  /\ r \in Pieces(shape, chunk, itemsize) /\ r.len \in 1 .. most
             /\ InPlace(Places(shape, chunk, itemsize), r, at)
<1>. DEFINE r == Run(shape, chunk, itemsize, at, most)
            P == Product(Grid(shape, chunk))
<1>1. /\ r = [chunk |-> r.chunk, start |-> r.start, len |-> r.len]
      /\ r.len \in 1 .. most
      /\ r.chunk \in 0 .. P - 1
      /\ r.start \in Nat /\ r.start + r.len <= Product(chunk) * itemsize
      /\ \A b \in 0 .. r.len - 1 : Stored(shape, chunk, itemsize, r.chunk, r.start + b) = at + b
  BY RunHolds
<1>2. P \in Nat
  BY GridIs
<1>. HIDE DEF r, P
<1>3. r.chunk \in Nat /\ r.chunk < P /\ r.len \in Nat \ {0}
  BY <1>1, <1>2
<1>4. r \in [chunk : Nat, start : Nat, len : Nat \ {0}]
  <2>. DEFINE x == r.chunk
              y == r.start
              z == r.len
  <2>1. x \in Nat /\ y \in Nat /\ z \in Nat \ {0} /\ r = [chunk |-> x, start |-> y, len |-> z]
    BY <1>1, <1>3
  <2>. HIDE DEF x, y, z
  <2>. QED
    BY <2>1
<1>5. r \in Pieces(shape, chunk, itemsize)
  BY <1>1, <1>3, <1>4 DEF Pieces, P
<1>6. ASSUME NEW b \in 1 .. r.len
      PROVE  Stored(shape, chunk, itemsize, r.chunk, r.start + b - 1) = at + b - 1
  <2>1. b - 1 \in 0 .. r.len - 1 /\ r.start + (b - 1) = r.start + b - 1 /\ at + (b - 1) = at + b - 1
    BY <1>1, <1>3
  <2>2. Stored(shape, chunk, itemsize, r.chunk, r.start + (b - 1)) = at + (b - 1)
    BY <1>1, <2>1
  <2>. QED
    BY <2>1, <2>2
<1>7. InPlace(Places(shape, chunk, itemsize), r, at)
  <2>. SUFFICES ASSUME NEW b \in 1 .. r.len
                PROVE  Places(shape, chunk, itemsize)[<<r.chunk, r.start + b - 1>>] = at + b - 1
    BY DEF InPlace
  <2>1. r.chunk \in Nat /\ r.start + b - 1 \in Nat
    BY <1>1, <1>3
  <2>. DEFINE y == r.start + b - 1
  <2>. HIDE DEF y
  <2>2. Places(shape, chunk, itemsize)[<<r.chunk, y>>] = Stored(shape, chunk, itemsize, r.chunk, y)
    BY <2>1 DEF Places, y
  <2>. QED
    BY <1>6, <2>2 DEF y
<1>. QED
  BY <1>1, <1>5, <1>7 DEF r


\* The marks s at which runs of R that hold the places from a up to b meet.
Marks(R, P, w, s, a, b) ==
  /\ \A i \in 1 .. Len(w) + 1 : s[i] \in Int
  /\ s[1] = a /\ s[Len(w) + 1] = b
  /\ \A i \in 1 .. Len(w) : s[i + 1] = s[i] + w[i].len /\ InPlace(P, w[i], s[i])

Covers(R, P, w, a, b) == w \in Seq(R) /\ \E s : Marks(R, P, w, s, a, b)

\* The runs there may be.
Runs == [chunk : Nat, start : Nat, len : Nat \ {0}]

\* No runs hold no places.
LEMMA NoRuns ==
  ASSUME NEW R, NEW P, NEW a \in Int
  PROVE  Covers(R, P, << >>, a, a)
<1>. DEFINE s == [i \in 1 .. 1 |-> a]
<1>1. Len(<< >>) = 0 /\ << >> \in Seq(R)
  OBVIOUS
<1>2. s[1] = a /\ \A i \in 1 .. 1 : s[i] \in Int
  OBVIOUS
<1>. HIDE DEF s
<1>3. Marks(R, P, << >>, s, a, a)
  BY <1>1, <1>2 DEF Marks
<1>. QED
  BY <1>1, <1>3 DEF Covers

\* A run in front of the runs that go on where it ends.
LEMMA RunInFront ==
  ASSUME NEW R, R \subseteq Runs, NEW P, NEW r \in R, NEW a \in Int, InPlace(P, r, a),
         NEW w, NEW b, Covers(R, P, w, a + r.len, b)
  PROVE  Covers(R, P, <<r>> \o w, a, b)
<1>. DEFINE n == Len(w)
            z == <<r>> \o w
            l == r.len
<1>1. w \in Seq(R) /\ n \in Nat /\ l \in Nat \ {0}
  BY DEF Covers, Runs
<1>2. z \in Seq(R) /\ Len(z) = n + 1 /\ z[1] = r /\ \A i \in 1 .. n : z[i + 1] = w[i]
  <2>. DEFINE h == <<r>>
  <2>2. h \in Seq(R) /\ Len(h) = 1 /\ h[1] = r
    OBVIOUS
  <2>. HIDE DEF h
  <2>3. /\ h \o w \in Seq(R) /\ Len(h \o w) = Len(h) + Len(w)
        /\ \A i \in 1 .. Len(h) + Len(w) : (h \o w)[i] = IF i <= Len(h) THEN h[i] ELSE w[i - Len(h)]
    BY <1>1, <2>2, ConcatProperties
  <2>4. z = h \o w
    BY DEF h
  <2>. HIDE DEF z
  <2>5. Len(z) = n + 1 /\ \A i \in 1 .. n + 1 : z[i] = IF i <= 1 THEN h[i] ELSE w[i - 1]
    BY <1>1, <2>2, <2>3, <2>4
  <2>6. z[1] = r
    <3>1. 1 \in 1 .. n + 1 /\ 1 <= 1
      BY <1>1
    <3>. QED
      BY <2>2, <2>5, <3>1
  <2>7. ASSUME NEW i \in 1 .. n
        PROVE  z[i + 1] = w[i]
    <3>1. i + 1 \in 1 .. n + 1 /\ ~(i + 1 <= 1) /\ (i + 1) - 1 = i
      BY <1>1
    <3>. QED
      BY <2>5, <3>1
  <2>. QED
    BY <2>3, <2>4, <2>5, <2>6, <2>7
<1>3. PICK s : Marks(R, P, w, s, a + l, b)
  BY DEF Covers
<1>. DEFINE t == [i \in 1 .. n + 2 |-> IF i = 1 THEN a ELSE s[i - 1]]
<1>4. /\ \A i \in 1 .. n + 1 : s[i] \in Int
      /\ s[1] = a + l /\ s[n + 1] = b
      /\ \A i \in 1 .. n : s[i + 1] = s[i] + w[i].len /\ InPlace(P, w[i], s[i])
  BY <1>3 DEF Marks
<1>. HIDE DEF z, n, l
<1>5. t[1] = a /\ \A i \in 1 .. n + 1 : t[i + 1] = s[i]
  <2>1. 1 \in 1 .. n + 2 /\ \A i \in 1 .. n + 1 : i + 1 \in 1 .. n + 2 /\ i + 1 # 1 /\ (i + 1) - 1 = i
    BY <1>1
  <2>. QED
    BY <2>1
<1>. HIDE DEF t
<1>6. ASSUME NEW i \in 1 .. n + 2
      PROVE  t[i] \in Int
  <2>1. CASE i = 1
    BY <1>5, <2>1
  <2>2. CASE i # 1
    <3>1. i - 1 \in 1 .. n + 1 /\ (i - 1) + 1 = i
      BY <1>1, <2>2
    <3>. QED
      BY <1>4, <1>5, <3>1
  <2>. QED
    BY <2>1, <2>2
<1>7. t[n + 2] = b
  <2>1. n + 1 \in 1 .. n + 1 /\ (n + 1) + 1 = n + 2
    BY <1>1
  <2>. QED
    BY <1>4, <1>5, <2>1
<1>8. ASSUME NEW i \in 1 .. n + 1
      PROVE  t[i + 1] = t[i] + z[i].len /\ InPlace(P, z[i], t[i])
  <2>1. CASE i = 1
    <3>1. 1 \in 1 .. n + 1
      BY <1>1
    <3>2. t[1 + 1] = a + l
      BY <1>4, <1>5, <3>1
    <3>3. z[1].len = l
      BY <1>2 DEF l
    <3>. QED
      BY <1>2, <1>5, <2>1, <3>2, <3>3
  <2>2. CASE i # 1
    <3>. DEFINE j == i - 1
    <3>1. j \in 1 .. n /\ j \in 1 .. n + 1 /\ j + 1 \in 1 .. n + 1 /\ j + 1 = i
      BY <1>1, <2>2
    <3>. HIDE DEF j
    <3>2. t[i] = s[j] /\ t[i + 1] = s[j + 1] /\ z[i] = w[j]
      BY <1>2, <1>5, <3>1
    <3>. QED
      BY <1>4, <3>1, <3>2
  <2>. QED
    BY <2>1, <2>2
<1>9. Marks(R, P, z, t, a, b)
  <2>1. Len(z) = n + 1 /\ (n + 1) + 1 = n + 2
    BY <1>1, <1>2
  <2>. QED
    BY <1>5, <1>6, <1>7, <1>8, <2>1 DEF Marks
<1>10. Covers(R, P, z, a, b)
  BY <1>2, <1>9 DEF Covers
<1>. QED
  BY <1>10 DEF z

\* The runs behind the first go on where it ends.
LEMMA RunsBehind ==
  ASSUME NEW R, R \subseteq Runs, NEW P, NEW w, w # << >>, NEW a, NEW b, Covers(R, P, w, a, b)
  PROVE  /\ Head(w) \in R /\ InPlace(P, Head(w), a) /\ a \in Int
         /\ Covers(R, P, Tail(w), a + Head(w).len, b)
<1>. DEFINE n == Len(w)
            v == Tail(w)
            r == Head(w)
<1>1. /\ w \in Seq(R) /\ n \in Nat \ {0}
      /\ v \in Seq(R) /\ Len(v) = n - 1 /\ \A i \in 1 .. n - 1 : v[i] = w[i + 1]
      /\ r = w[1] /\ r \in R
  BY DEF Covers
<1>2. PICK s : Marks(R, P, w, s, a, b)
  BY DEF Covers
<1>3. /\ \A i \in 1 .. n + 1 : s[i] \in Int
      /\ s[1] = a /\ s[n + 1] = b
      /\ \A i \in 1 .. n : s[i + 1] = s[i] + w[i].len /\ InPlace(P, w[i], s[i])
  BY <1>2 DEF Marks
<1>. DEFINE t == [i \in 1 .. n |-> s[i + 1]]
<1>. HIDE DEF n, v, r
<1>4. a \in Int /\ InPlace(P, r, a) /\ s[2] = a + r.len
  <2>1. 1 \in 1 .. n /\ 1 \in 1 .. n + 1 /\ 1 + 1 = 2
    BY <1>1
  <2>. QED
    BY <1>1, <1>3, <2>1
<1>5. Marks(R, P, v, t, a + r.len, b)
  <2>1. Len(v) + 1 = n /\ Len(v) = n - 1
    BY <1>1
  <2>2. ASSUME NEW i \in 1 .. n
        PROVE  t[i] \in Int
    <3>1. i + 1 \in 1 .. n + 1 /\ t[i] = s[i + 1]
      BY <1>1
    <3>. HIDE DEF t
    <3>. QED
      BY <1>3, <3>1
  <2>3. t[1] = a + r.len /\ t[n] = b
    BY <1>1, <1>3, <1>4
  <2>4. ASSUME NEW i \in 1 .. n - 1
        PROVE  t[i + 1] = t[i] + v[i].len /\ InPlace(P, v[i], t[i])
    <3>1. i \in 1 .. n /\ i + 1 \in 1 .. n
      BY <1>1
    <3>2. t[i] = s[i + 1] /\ t[i + 1] = s[(i + 1) + 1]
      BY <3>1
    <3>. HIDE DEF t
    <3>. QED
      BY <1>1, <1>3, <3>1, <3>2
  <2>. HIDE DEF t
  <2>. QED
    BY <2>1, <2>2, <2>3, <2>4 DEF Marks
<1>6. Covers(R, P, v, a + r.len, b)
  BY <1>1, <1>5 DEF Covers
<1>. QED
  BY <1>1, <1>4, <1>6 DEF v, r

\* The places of some runs are as many as their bytes.
LEMMA RunsGoOn ==
  ASSUME NEW R, R \subseteq Runs, NEW P, NEW w, NEW a, NEW b, Covers(R, P, w, a, b)
  PROVE  /\ a \in Int /\ b \in Int /\ a <= b
         /\ w = << >> <=> a = b
<1>. DEFINE n == Len(w)
<1>1. w \in Seq(R) /\ n \in Nat /\ \A i \in 1 .. n : w[i].len \in Nat \ {0}
  BY DEF Covers, Runs
<1>2. PICK s : Marks(R, P, w, s, a, b)
  BY DEF Covers
<1>3. /\ \A i \in 1 .. n + 1 : s[i] \in Int
      /\ s[1] = a /\ s[n + 1] = b
      /\ \A i \in 1 .. n : s[i + 1] = s[i] + w[i].len
  BY <1>2 DEF Marks
<1>. HIDE DEF n
<1>. DEFINE T == {m \in Nat : m <= n => a + m <= s[m + 1]}
<1>4. a \in Int /\ b \in Int
  BY <1>1, <1>3
<1>5. 0 \in T
  BY <1>3, <1>4
<1>6. ASSUME NEW m \in Nat, m \in T
      PROVE  m + 1 \in T
  <2>. SUFFICES ASSUME m + 1 <= n
                PROVE  a + (m + 1) <= s[(m + 1) + 1]
    OBVIOUS
  <2>1. m + 1 \in 1 .. n /\ m + 1 \in 1 .. n + 1 /\ m <= n
    BY <1>1
  <2>2. s[(m + 1) + 1] = s[m + 1] + w[m + 1].len /\ w[m + 1].len \in Nat \ {0} /\ s[m + 1] \in Int
    BY <1>1, <1>3, <2>1
  <2>3. a + m <= s[m + 1]
    BY <1>6, <2>1
  <2>. QED
    BY <1>4, <2>2, <2>3
<1>7. n \in T
  <2>. HIDE DEF T
  <2>. QED
    BY <1>1, <1>5, <1>6, NatSteps
<1>8. a + n <= b
  BY <1>1, <1>3, <1>7
<1>9. w = << >> => n = 0
  BY DEF n
<1>10. w # << >> => n # 0
  BY <1>1 DEF n
<1>. QED
  BY <1>1, <1>3, <1>4, <1>8, <1>9, <1>10


\* The numbers from one on, in a row.
InARow(from, n) == [b \in 1 .. n |-> from + b - 1]

\* Two rows of numbers, the second where the first ends.
LEMMA RowsJoin ==
  ASSUME NEW a \in Int, NEW m \in Nat, NEW n \in Nat
  PROVE  InARow(a, m) \o InARow(a + m, n) = InARow(a, m + n)
<1>. DEFINE u == InARow(a, m)
            v == InARow(a + m, n)
            w == InARow(a, m + n)
<1>1. u \in Seq(Int) /\ Len(u) = m /\ \A b \in 1 .. m : u[b] = a + b - 1
  BY DEF InARow
<1>2. v \in Seq(Int) /\ Len(v) = n /\ \A b \in 1 .. n : v[b] = (a + m) + b - 1
  BY DEF InARow
<1>3. w \in Seq(Int) /\ Len(w) = m + n /\ \A b \in 1 .. m + n : w[b] = a + b - 1
  BY DEF InARow
<1>. HIDE DEF u, v, w
<1>4. /\ u \o v \in Seq(Int) /\ Len(u \o v) = m + n
      /\ \A b \in 1 .. m + n : (u \o v)[b] = IF b <= m THEN u[b] ELSE v[b - m]
  <2>1. /\ u \o v \in Seq(Int) /\ Len(u \o v) = Len(u) + Len(v)
        /\ \A b \in 1 .. Len(u) + Len(v) : (u \o v)[b] = IF b <= Len(u) THEN u[b] ELSE v[b - Len(u)]
    BY <1>1, <1>2, ConcatProperties
  <2>. QED
    BY <1>1, <1>2, <2>1
<1>5. ASSUME NEW b \in 1 .. m + n
      PROVE  (u \o v)[b] = w[b]
  <2>1. CASE b <= m
    BY <1>1, <1>3, <1>4, <2>1
  <2>2. CASE ~(b <= m)
    <3>1. b - m \in 1 .. n /\ (a + m) + (b - m) - 1 = a + b - 1
      BY <2>2
    <3>. QED
      BY <1>2, <1>3, <1>4, <2>2, <3>1
  <2>. QED
    BY <2>1, <2>2
<1>6. u \o v = [b \in 1 .. m + n |-> (u \o v)[b]] /\ w = [b \in 1 .. m + n |-> w[b]]
  <2>. DEFINE s == u \o v
              k == m + n
  <2>1. k \in Nat /\ s \in Seq(Int) /\ Len(s) = k /\ w \in Seq(Int) /\ Len(w) = k
    BY <1>3, <1>4
  <2>. HIDE DEF s, k
  <2>2. s = [b \in 1 .. k |-> s[b]] /\ w = [b \in 1 .. k |-> w[b]]
    BY <2>1
  <2>. QED
    BY <2>2 DEF s, k
<1>7. u \o v = w
  BY <1>5, <1>6
<1>. QED
  BY <1>7 DEF u, v, w


\* A run, and what is left of the walk behind it.
AndOn(f, a, r) == <<r>> \o f[a + r.len]

\* What is left of a walk from each place it may have reached.
Walked(shape, chunk, itemsize, at, end, f) ==
  \A a \in at .. end :
    f[a] = IF a = end THEN << >>
           ELSE AndOn(f, a, Run(shape, chunk, itemsize, a, end - a))

\* The walk over an array that has axes, from wherever it is.
LEMMA WalkDef ==
  ASSUME NEW shape, NEW chunk, IsGrid(shape, chunk), shape # << >>, NEW itemsize \in Nat \ {0},
         NEW at \in Nat, NEW count \in Nat, at + count <= Product(shape) * itemsize
  PROVE  \E f : /\ Walk(shape, chunk, itemsize, at, count) = f[at]
                /\ Walked(shape, chunk, itemsize, at, at + count, f)
<1>. DEFINE end == at + count
            R(a) == Run(shape, chunk, itemsize, a, end - a)
            D == at .. end
            Def(f, m) == \A a \in D : a >= end - m => f[a] = IF a = end THEN << >> ELSE <<R(a)>> \o f[a + R(a).len]
            T == {m \in Nat : \E f : DOMAIN f = D /\ Def(f, m)}
<1>0. end \in Nat /\ end - count = at /\ at \in D
  OBVIOUS
<1>1. \A a \in D : a # end => R(a).len \in 1 .. end - a
  <2>1. ASSUME NEW a \in D, a # end
        PROVE  R(a).len \in 1 .. end - a
    <3>. DEFINE bytes == Product(shape) * itemsize
                most == end - a
    <3>1. bytes \in Int
      <4>1. shape \in Seq(Nat)
        BY DEF IsGrid
      <4>2. Product(shape) \in Nat
        BY <4>1, ProductFacts
      <4>. QED
        BY <4>2
    <3>2. a \in Nat /\ a < bytes /\ most \in Nat \ {0}
      <4>. HIDE DEF bytes
      <4>. QED
        BY <2>1, <3>1 DEF bytes
    <3>. HIDE DEF most, end
    <3>3. Run(shape, chunk, itemsize, a, most).len \in 1 .. most
      BY <3>2, RunIsPiece
    <3>. QED
      BY <3>3 DEF most
  <2>. QED
    BY <2>1
<1>. HIDE DEF R, end
<1>. HIDE DEF D
<1>d. \A a : a \in D <=> a \in at .. end
  BY DEF D
<1>2. 0 \in T
  <2>. DEFINE f == [a \in D |-> << >>]
  <2>1. Def(f, 0)
    <3>1. \A a \in D : a >= end - 0 => a = end
      BY <1>0, <1>d
    <3>. QED
      BY <3>1
  <2>2. DOMAIN f = D
    OBVIOUS
  <2>. HIDE DEF f, Def
  <2>. QED
    BY <2>1, <2>2
<1>3. ASSUME NEW m \in Nat, m \in T
      PROVE  m + 1 \in T
  <2>1. PICK f : DOMAIN f = D /\ Def(f, m)
    BY <1>3
  <2>. DEFINE low == end - (m + 1)
              g == [a \in D |-> IF a = low THEN <<R(a)>> \o f[a + R(a).len] ELSE f[a]]
  <2>2. Def(g, m + 1)
    <3>. SUFFICES ASSUME NEW a \in D, a >= end - (m + 1)
                  PROVE  g[a] = IF a = end THEN << >> ELSE <<R(a)>> \o g[a + R(a).len]
      OBVIOUS
    <3>1. a \in Int /\ at <= a /\ a <= end /\ low \in Int /\ low < end /\ m \in Int
      BY <1>0, <1>d
    <3>2. CASE a = end
      <4>1. a # low /\ a >= end - m
        BY <3>1, <3>2
      <4>2. f[a] = << >>
        BY <2>1, <3>2, <4>1
      <4>. QED
        BY <3>2, <4>1, <4>2
    <3>3. CASE a # end
      <4>. DEFINE b == a + R(a).len
      <4>1. b \in at .. end /\ b > a
        <5>1. R(a).len \in 1 .. end - a
          BY <1>1, <3>3
        <5>. DEFINE l == R(a).len
        <5>2. l \in 1 .. end - a /\ end \in Int
          BY <1>0, <5>1
        <5>. HIDE DEF l
        <5>3. a + l \in at .. end /\ a + l > a
          BY <3>1, <5>2
        <5>. QED
          BY <5>3 DEF l
      <4>2. b \in D /\ b # low /\ b \in Int
        BY <1>0, <1>d, <3>1, <4>1
      <4>3. g[b] = f[b]
        BY <4>2
      <4>4. CASE a = low
        BY <3>3, <4>3, <4>4
      <4>5. CASE a # low
        <5>1. a >= end - m
          <6>1. end \in Int /\ a # end - (m + 1)
            BY <1>0, <4>5
          <6>. QED
            BY <3>1, <6>1
        <5>2. f[a] = <<R(a)>> \o f[b]
          BY <2>1, <3>3, <5>1
        <5>3. g[a] = f[a]
          BY <4>5
        <5>. QED
          BY <3>3, <4>3, <5>2, <5>3
      <4>. QED
        BY <4>4, <4>5
    <3>. QED
      BY <3>2, <3>3
  <2>3. DOMAIN g = D
    OBVIOUS
  <2>. HIDE DEF g, Def
  <2>. QED
    BY <2>2, <2>3
<1>4. count \in T
  <2>. HIDE DEF T
  <2>. QED
    BY <1>2, <1>3, NatSteps
<1>. DEFINE F(f, a) == IF a = at + count THEN << >> ELSE AndOn(f, a, Run(shape, chunk, itemsize, a, at + count - a))
            IsWalk(f) == f = [a \in at .. at + count |-> F(f, a)]
<1>5. \E f : IsWalk(f)
  <2>1. PICK f : DOMAIN f = D /\ Def(f, count)
    BY <1>4
  <2>2. \A a \in D : a >= end - count
    BY <1>0, <1>d
  <2>3. \A a \in D : f[a] = IF a = end THEN << >> ELSE <<R(a)>> \o f[a + R(a).len]
    BY <2>1, <2>2
  <2>. DEFINE g == [a \in D |-> f[a]]
  <2>4. f[at] = f[at]
    OBVIOUS
  <2>5. \A a \in D : a # end => a + R(a).len \in D
    <3>1. ASSUME NEW a \in D, a # end
          PROVE  a + R(a).len \in D
      <4>1. R(a).len \in 1 .. end - a /\ a \in at .. end
        BY <1>1, <1>d, <3>1
      <4>2. a + R(a).len \in at .. end
        BY <1>0, <4>1
      <4>. QED
        BY <1>d, <4>2
    <3>. QED
      BY <3>1
  <2>6. \A a \in D : g[a] = IF a = end THEN << >> ELSE <<R(a)>> \o g[a + R(a).len]
    BY <2>3, <2>5
  <2>. HIDE DEF g
  <2>7. g = [a \in D |-> g[a]]
    BY DEF g
  <2>8. \A a \in D : g[a] = F(g, a)
    <3>1. ASSUME NEW a \in D
          PROVE  g[a] = F(g, a)
      <4>1. CASE a = end
        <5>1. g[a] = << >>
          BY <2>6, <4>1
        <5>2. F(g, a) = << >>
          BY <4>1 DEF end
        <5>. QED
          BY <5>1, <5>2
      <4>2. CASE a # end
        <5>1. g[a] = AndOn(g, a, R(a))
          BY <2>6, <4>2 DEF AndOn
        <5>2. F(g, a) = AndOn(g, a, R(a))
          <6>1. a # at + count
            BY <4>2 DEF end
          <6>2. R(a) = Run(shape, chunk, itemsize, a, at + count - a)
            <7>. DEFINE most == at + count - a
            <7>1. end - a = most
              <8>1. a \in at .. end
                BY <1>d
              <8>. QED
                BY <1>0, <8>1
            <7>. HIDE DEF most
            <7>2. R(a) = Run(shape, chunk, itemsize, a, most)
              BY <7>1 DEF R
            <7>. QED
              BY <7>2 DEF most
          <6>. QED
            BY <6>1, <6>2
        <5>. HIDE DEF F
        <5>. QED
          BY <5>1, <5>2
      <4>. QED
        BY <4>1, <4>2
    <3>. QED
      BY <3>1
  <2>9. IsWalk(g)
    <3>1. D = at .. at + count
      BY DEF D, end
    <3>. HIDE DEF F
    <3>. QED
      BY <2>7, <2>8, <3>1
  <2>. HIDE DEF IsWalk
  <2>. QED
    BY <2>9
<1>6. Walk(shape, chunk, itemsize, at, count) = (CHOOSE f : IsWalk(f))[at]
  BY DEF Walk, AndOn
<1>. DEFINE h == CHOOSE f : IsWalk(f)
<1>7. IsWalk(h)
  <2>. HIDE DEF IsWalk
  <2>. QED
    BY <1>5
<1>. HIDE DEF h
<1>8. Walked(shape, chunk, itemsize, at, at + count, h)
  BY <1>7 DEF Walked
<1>. HIDE DEF IsWalk
<1>. QED
  BY <1>6, <1>8 DEF h


\* Runs, and the runs that go on where they end.
LEMMA RunsJoined ==
  ASSUME NEW R, NEW P, NEW w, NEW v, NEW a, NEW m, NEW b, Covers(R, P, w, a, m), Covers(R, P, v, m, b)
  PROVE  Covers(R, P, w \o v, a, b)
<1>. DEFINE n == Len(w)
            k == Len(v)
            z == w \o v
<1>1. /\ w \in Seq(R) /\ n \in Nat /\ v \in Seq(R) /\ k \in Nat
      /\ z \in Seq(R) /\ Len(z) = n + k
      /\ \A i \in 1 .. n + k : z[i] = IF i <= n THEN w[i] ELSE v[i - n]
  <2>1. w \in Seq(R) /\ v \in Seq(R)
    BY DEF Covers
  <2>2. /\ z \in Seq(R) /\ Len(z) = Len(w) + Len(v)
        /\ \A i \in 1 .. Len(w) + Len(v) : z[i] = IF i <= Len(w) THEN w[i] ELSE v[i - Len(w)]
    BY <2>1, ConcatProperties
  <2>. HIDE DEF z
  <2>. QED
    BY <2>1, <2>2
<1>2. PICK s : Marks(R, P, w, s, a, m)
  BY DEF Covers
<1>3. PICK t : Marks(R, P, v, t, m, b)
  BY DEF Covers
<1>4. /\ \A i \in 1 .. n + 1 : s[i] \in Int
      /\ s[1] = a /\ s[n + 1] = m
      /\ \A i \in 1 .. n : s[i + 1] = s[i] + w[i].len /\ InPlace(P, w[i], s[i])
  BY <1>2 DEF Marks
<1>5. /\ \A i \in 1 .. k + 1 : t[i] \in Int
      /\ t[1] = m /\ t[k + 1] = b
      /\ \A i \in 1 .. k : t[i + 1] = t[i] + v[i].len /\ InPlace(P, v[i], t[i])
  BY <1>3 DEF Marks
<1>. DEFINE u == [i \in 1 .. n + k + 1 |-> IF i <= n THEN s[i] ELSE t[i - n]]
<1>. HIDE DEF n, k, z
<1>6. /\ \A i \in 1 .. n : u[i] = s[i]
      /\ \A i \in 1 .. k + 1 : u[n + i] = t[i]
  <2>1. ASSUME NEW i \in 1 .. n
        PROVE  u[i] = s[i]
    <3>1. i \in 1 .. n + k + 1 /\ i <= n
      BY <1>1
    <3>. QED
      BY <3>1
  <2>2. ASSUME NEW i \in 1 .. k + 1
        PROVE  u[n + i] = t[i]
    <3>1. n + i \in 1 .. n + k + 1 /\ ~(n + i <= n) /\ (n + i) - n = i
      BY <1>1
    <3>. QED
      BY <3>1
  <2>. QED
    BY <2>1, <2>2
<1>. HIDE DEF u
<1>7. ASSUME NEW i \in 1 .. n + k + 1
      PROVE  u[i] \in Int
  <2>1. CASE i <= n
    <3>1. i \in 1 .. n /\ i \in 1 .. n + 1
      BY <1>1, <2>1
    <3>. QED
      BY <1>4, <1>6, <3>1
  <2>2. CASE ~(i <= n)
    <3>1. i - n \in 1 .. k + 1 /\ n + (i - n) = i
      BY <1>1, <2>2
    <3>2. u[n + (i - n)] = t[i - n]
      BY <1>6, <3>1
    <3>. QED
      BY <1>5, <3>1, <3>2
  <2>. QED
    BY <2>1, <2>2
<1>8. u[n + 1] = m
  <2>1. 1 \in 1 .. k + 1
    BY <1>1
  <2>. QED
    BY <1>5, <1>6, <2>1
<1>9. u[1] = a
  <2>1. CASE n = 0
    <3>1. n + 1 = 1
      BY <2>1
    <3>. QED
      BY <1>4, <1>8, <3>1
  <2>2. CASE n # 0
    <3>1. 1 \in 1 .. n
      BY <1>1, <2>2
    <3>. QED
      BY <1>4, <1>6, <3>1
  <2>. QED
    BY <2>1, <2>2
<1>10. u[n + k + 1] = b
  <2>1. k + 1 \in 1 .. k + 1 /\ n + (k + 1) = n + k + 1
    BY <1>1
  <2>2. u[n + (k + 1)] = t[k + 1]
    BY <1>6, <2>1
  <2>. QED
    BY <1>5, <2>1, <2>2
<1>11. ASSUME NEW i \in 1 .. n + k
       PROVE  u[i + 1] = u[i] + z[i].len /\ InPlace(P, z[i], u[i])
  <2>1. CASE i <= n
    <3>1. i \in 1 .. n /\ z[i] = w[i]
      BY <1>1, <2>1
    <3>2. u[i + 1] = s[i + 1]
      <4>1. CASE i = n
        BY <1>4, <1>8, <4>1
      <4>2. CASE i # n
        <5>1. i + 1 \in 1 .. n
          BY <1>1, <3>1, <4>2
        <5>. QED
          BY <1>6, <5>1
      <4>. QED
        BY <4>1, <4>2
    <3>3. u[i] = s[i]
      BY <1>6, <3>1
    <3>. QED
      BY <1>4, <3>1, <3>2, <3>3
  <2>2. CASE ~(i <= n)
    <3>. DEFINE j == i - n
    <3>1. j \in 1 .. k /\ j \in 1 .. k + 1 /\ j + 1 \in 1 .. k + 1 /\ n + j = i /\ n + (j + 1) = i + 1
      BY <1>1, <2>2
    <3>2. z[i] = v[j]
      BY <1>1, <2>2
    <3>. HIDE DEF j
    <3>3. u[n + j] = t[j] /\ u[n + (j + 1)] = t[j + 1]
      BY <1>6, <3>1
    <3>4. u[i] = t[j] /\ u[i + 1] = t[j + 1]
      BY <3>1, <3>3
    <3>. QED
      BY <1>5, <3>1, <3>2, <3>4
  <2>. QED
    BY <2>1, <2>2
<1>12. Marks(R, P, z, u, a, b)
  <2>1. Len(z) = n + k /\ (n + k) + 1 = n + k + 1
    BY <1>1
  <2>. QED
    BY <1>7, <1>9, <1>10, <1>11, <2>1 DEF Marks
<1>13. Covers(R, P, z, a, b)
  BY <1>1, <1>12 DEF Covers
<1>. QED
  BY <1>13 DEF z

\* What runs hold, one after the other, is all that they cover.
Held(P, r) == [k \in 1 .. r.len |-> P[<<r.chunk, r.start + k - 1>>]]

LEMMA RunsInARow ==
  ASSUME NEW R, R \subseteq Runs, NEW P, NEW w, NEW a, NEW b, Covers(R, P, w, a, b)
  PROVE  FlattenSeq([i \in 1 .. Len(w) |-> Held(P, w[i])]) = InARow(a, b - a)
<1>. DEFINE n == Len(w)
            q == [i \in 1 .. n |-> Held(P, w[i])]
            F(m) == FlattenSeq([i \in 1 .. m |-> q[i]])
<1>1. w \in Seq(R) /\ n \in Nat /\ \A i \in 1 .. n : w[i].len \in Nat
  BY DEF Covers, Runs
<1>2. PICK s : Marks(R, P, w, s, a, b)
  BY DEF Covers
<1>3. /\ \A i \in 1 .. n + 1 : s[i] \in Int
      /\ s[1] = a /\ s[n + 1] = b
      /\ \A i \in 1 .. n : s[i + 1] = s[i] + w[i].len /\ InPlace(P, w[i], s[i])
  BY <1>2 DEF Marks
<1>4. \A i \in 1 .. n : q[i] = InARow(s[i], w[i].len)
  BY <1>3 DEF InPlace, Held, InARow
<1>. HIDE DEF n, q
<1>5. \A i \in 1 .. n : q[i] \in Seq(Int)
  <2>1. ASSUME NEW i \in 1 .. n
        PROVE  q[i] \in Seq(Int)
    <3>. DEFINE x == s[i]
                l == w[i].len
    <3>1. x \in Int /\ l \in Nat
      <4>1. i \in 1 .. n + 1
        BY <1>1
      <4>. QED
        BY <1>1, <1>3, <4>1
    <3>2. q[i] = InARow(x, l)
      BY <1>4
    <3>. HIDE DEF x, l
    <3>3. InARow(x, l) \in Seq(Int)
      BY <3>1 DEF InARow
    <3>. QED
      BY <3>2, <3>3
  <2>. QED
    BY <2>1
<1>. DEFINE Good(m) == s[m + 1] - a \in Nat /\ F(m) = InARow(a, s[m + 1] - a)
            T == {m \in Nat : m <= n => Good(m)}
<1>6. a \in Int /\ b \in Int
  BY <1>1, <1>3
<1>7. 0 \in T
  <2>1. s[0 + 1] - a = 0
    BY <1>3, <1>6
  <2>2. F(0) = << >>
    <3>1. [i \in 1 .. 0 |-> q[i]] = << >> /\ Len(<< >>) = 0
      OBVIOUS
    <3>. QED
      BY <3>1 DEF FlattenSeq
  <2>3. InARow(a, 0) = << >>
    BY DEF InARow
  <2>. HIDE DEF F
  <2>. QED
    BY <2>1, <2>2, <2>3
<1>8. ASSUME NEW m \in Nat, m \in T
      PROVE  m + 1 \in T
  <2>. SUFFICES ASSUME m + 1 <= n
                PROVE  Good(m + 1)
    OBVIOUS
  <2>1. m + 1 \in 1 .. n /\ m + 1 \in 1 .. n + 1 /\ m <= n
    BY <1>1
  <2>2. F(m + 1) = F(m) \o q[m + 1]
    <3>1. \A i \in 1 .. m + 1 : q[i] \in Seq(Int)
      BY <1>1, <1>5, <2>1
    <3>. QED
      BY <3>1, FlattenStep
  <2>. HIDE DEF F
  <2>3. s[m + 1] - a \in Nat /\ F(m) = InARow(a, s[m + 1] - a)
    BY <1>8, <2>1
  <2>. DEFINE x == s[m + 1]
              l == w[m + 1].len
              d == x - a
  <2>4. x \in Int /\ l \in Nat /\ s[(m + 1) + 1] = x + l
    BY <1>1, <1>3, <2>1
  <2>5. q[m + 1] = InARow(x, l)
    BY <1>4, <2>1
  <2>6. d \in Nat /\ F(m) = InARow(a, d)
    BY <2>3
  <2>. HIDE DEF x, l
  <2>7. a + d = x /\ d + l \in Nat /\ (x + l) - a = d + l
    BY <1>6, <2>4, <2>6
  <2>. HIDE DEF d
  <2>8. InARow(a, d) \o InARow(a + d, l) = InARow(a, d + l)
    BY <1>6, <2>4, <2>6, RowsJoin
  <2>9. F(m + 1) = InARow(a, d + l)
    BY <2>2, <2>5, <2>6, <2>7, <2>8
  <2>. QED
    BY <2>4, <2>7, <2>9
<1>9. n \in T
  <2>. HIDE DEF T
  <2>. QED
    BY <1>1, <1>7, <1>8, NatSteps
<1>10. F(n) = InARow(a, b - a)
  BY <1>1, <1>3, <1>9
<1>11. F(n) = FlattenSeq([i \in 1 .. Len(w) |-> Held(P, w[i])])
  <2>1. [i \in 1 .. n |-> q[i]] = [i \in 1 .. Len(w) |-> Held(P, w[i])]
    BY DEF n, q
  <2>. QED
    BY <2>1
<1>. QED
  BY <1>10, <1>11


\* walk: the runs of a range lie each within one chunk, none is empty, and what
\* they hold is the range, in order and in place.
LEMMA WalkCovers ==
  ASSUME NEW shape, NEW chunk, IsGrid(shape, chunk), NEW itemsize \in Nat \ {0},
         NEW at \in Nat, NEW count \in Nat \ {0}, at + count <= Product(shape) * itemsize
  PROVE  Covers(Pieces(shape, chunk, itemsize), Places(shape, chunk, itemsize),
                Walk(shape, chunk, itemsize, at, count), at, at + count)
<1>. DEFINE R == Pieces(shape, chunk, itemsize)
            P == Places(shape, chunk, itemsize)
<1>a. R \subseteq Runs
  BY DEF Pieces, Runs
<1>0. shape \in Seq(Nat) /\ chunk \in Seq(Nat) /\ Len(chunk) = Len(shape)
  BY DEF IsGrid
<1>1. CASE shape = << >>
  <2>. DEFINE r == [chunk |-> 0, start |-> at, len |-> count]
  <2>1. chunk = << >> /\ Product(<< >>) = 1 /\ Grid(<< >>, << >>) = << >>
    <3>1. chunk = << >>
      BY <1>0, <1>1
    <3>2. Grid(<< >>, << >>) = << >>
      BY DEF Grid
    <3>. QED
      BY <3>1, <3>2, ProductFacts
  <2>2. Walk(shape, chunk, itemsize, at, count) = <<r>>
    BY <1>1 DEF Walk
  <2>3. at + count <= itemsize
    BY <1>1, <2>1
  <2>4. r \in R
    <3>1. r \in [chunk : Nat, start : Nat, len : Nat \ {0}]
      OBVIOUS
    <3>2. r.chunk < 1 /\ r.start + r.len <= 1 * itemsize
      BY <2>3
    <3>. QED
      BY <1>1, <2>1, <3>1, <3>2 DEF Pieces
  <2>5. InPlace(P, r, at)
    <3>1. ASSUME NEW b \in 1 .. count
          PROVE  Stored(shape, chunk, itemsize, 0, at + b - 1) = at + b - 1
      <4>. DEFINE y == at + b - 1
      <4>1. y \in Nat /\ y < itemsize
        BY <2>3
      <4>. HIDE DEF y
      <4>2. y % itemsize = y
        <5>1. y \in 0 .. itemsize - 1
          BY <4>1
        <5>. QED
          BY <5>1, WrapsNot
      <4>3. StandsFor(shape, chunk, itemsize, 0, y, 0)
        BY <1>1 DEF StandsFor
      <4>4. Stored(shape, chunk, itemsize, 0, y) = 0 * itemsize + (y % itemsize)
        <5>1. 0 \in Nat /\ 0 < Product(shape)
          BY <1>1, <2>1
        <5>. QED
          BY <1>0, <4>3, <5>1, StoredIs
      <4>5. Stored(shape, chunk, itemsize, 0, y) = y
        BY <4>1, <4>2, <4>4
      <4>. QED
        BY <4>5 DEF y
    <3>2. \A b \in 1 .. count : P[<<0, at + b - 1>>] = Stored(shape, chunk, itemsize, 0, at + b - 1)
      <4>1. ASSUME NEW b \in 1 .. count
            PROVE  P[<<0, at + b - 1>>] = Stored(shape, chunk, itemsize, 0, at + b - 1)
        <5>. DEFINE y == at + b - 1
        <5>1. y \in Nat /\ 0 \in Nat
          OBVIOUS
        <5>. HIDE DEF y
        <5>2. P[<<0, y>>] = Stored(shape, chunk, itemsize, 0, y)
          BY <5>1 DEF Places
        <5>. QED
          BY <5>2 DEF y
      <4>. QED
        BY <4>1
    <3>3. r.len = count /\ r.chunk = 0 /\ r.start = at
      OBVIOUS
    <3>. HIDE DEF r, P
    <3>. QED
      BY <3>1, <3>2, <3>3 DEF InPlace
  <2>6. Covers(R, P, << >>, at + count, at + count)
    <3>1. at + count \in Int
      OBVIOUS
    <3>. HIDE DEF R, P
    <3>. QED
      BY <3>1, NoRuns
  <2>7. Covers(R, P, <<r>> \o << >>, at, at + count)
    <3>1. r.len = count /\ at \in Int
      OBVIOUS
    <3>. HIDE DEF r, R, P
    <3>2. Covers(R, P, << >>, at + r.len, at + count)
      BY <2>6, <3>1
    <3>. QED
      BY <1>a, <2>4, <2>5, <3>1, <3>2, RunInFront
  <2>8. <<r>> \o << >> = <<r>>
    OBVIOUS
  <2>. QED
    BY <2>2, <2>7, <2>8 DEF R, P
<1>2. CASE shape # << >>
  <2>. DEFINE end == at + count
              G(a) == Run(shape, chunk, itemsize, a, end - a)
  <2>1. PICK f : /\ Walk(shape, chunk, itemsize, at, count) = f[at]
                 /\ \A a \in at .. end : f[a] = IF a = end THEN << >> ELSE <<G(a)>> \o f[a + G(a).len]
    <3>1. count \in Nat
      OBVIOUS
    <3>2. \E f : /\ Walk(shape, chunk, itemsize, at, count) = f[at]
                 /\ Walked(shape, chunk, itemsize, at, at + count, f)
      BY <1>2, <3>1, WalkDef
    <3>. QED
      BY <3>2 DEF Walked, AndOn
  <2>. HIDE DEF R, P
  <2>. DEFINE Good(a) == Covers(R, P, f[a], a, end)
              T == {m \in Nat : \A a \in at .. end : a >= end - m => Good(a)}
  <2>2. end \in Nat /\ end - count = at /\ end <= Product(shape) * itemsize /\ Product(shape) * itemsize \in Int
    <3>1. Product(shape) \in Nat
      BY <1>0, ProductFacts
    <3>. QED
      BY <3>1
  <2>. HIDE DEF end, Good
  <2>3. Good(end)
    <3>1. f[end] = << >>
      <4>1. end \in at .. end
        BY <2>2
      <4>. QED
        BY <2>1, <4>1
    <3>2. Covers(R, P, << >>, end, end)
      BY <2>2, NoRuns
    <3>. QED
      BY <3>1, <3>2 DEF Good
  <2>4. 0 \in T
    <3>1. \A a \in at .. end : a >= end - 0 => a = end
      BY <2>2
    <3>. QED
      BY <2>3, <3>1
  <2>5. ASSUME NEW m \in Nat, m \in T
        PROVE  m + 1 \in T
    <3>. SUFFICES ASSUME NEW a \in at .. end, a >= end - (m + 1)
                  PROVE  Good(a)
      OBVIOUS
    <3>1. CASE a = end
      BY <2>3, <3>1
    <3>2. CASE a # end
      <4>. DEFINE most == end - a
                  r == Run(shape, chunk, itemsize, a, most)
                  b == a + r.len
      <4>1. a \in Nat /\ a < Product(shape) * itemsize /\ most \in Nat \ {0}
        BY <2>2, <3>2
      <4>2. r \in R /\ r.len \in 1 .. most /\ InPlace(P, r, a)
        <5>. HIDE DEF most
        <5>. QED
          BY <1>2, <4>1, RunIsPiece DEF R, P
      <4>3. f[a] = <<r>> \o f[b]
        BY <2>1, <3>2
      <4>. HIDE DEF r
      <4>4. b \in at .. end /\ b >= end - m
        BY <2>2, <3>2, <4>1, <4>2
      <4>5. Covers(R, P, f[b], b, end)
        BY <2>5, <4>4 DEF Good
      <4>8. Covers(R, P, <<r>> \o f[b], a, end)
        <5>1. Covers(R, P, f[b], a + r.len, end) /\ a \in Int
          BY <4>1, <4>5
        <5>. HIDE DEF b
        <5>. QED
          BY <1>a, <4>2, <5>1, RunInFront
      <4>. QED
        BY <4>3, <4>8 DEF Good
    <3>. QED
      BY <3>1, <3>2
  <2>6. count \in T
    <3>. HIDE DEF T
    <3>. QED
      BY <2>4, <2>5, NatSteps
  <2>7. Good(at)
    <3>1. at \in at .. end /\ at >= end - count
      BY <2>2
    <3>. QED
      BY <2>6, <3>1
  <2>. QED
    BY <2>1, <2>7 DEF Good, end, R, P
<1>. QED
  BY <1>1, <1>2

\* read_at of the chunked backends (Chunked::read, ZarrArray::read_at): for every
\* array, grid of chunks and range, the bytes read are those asked for, in order.
THEOREM ReadsInPlace ==
  ASSUME NEW shape, NEW chunk, IsGrid(shape, chunk), NEW itemsize \in Nat \ {0},
         NEW at \in Nat, NEW count \in Nat \ {0}, at + count <= Product(shape) * itemsize
  PROVE  ReadSource(shape, chunk, itemsize, at, count) = [i \in 1 .. count |-> at + i - 1]
<1>. DEFINE w == Walk(shape, chunk, itemsize, at, count)
            P == Places(shape, chunk, itemsize)
            R == Pieces(shape, chunk, itemsize)
<1>1. Covers(R, P, w, at, at + count) /\ R \subseteq Runs
  <2>1. R \subseteq Runs
    BY DEF Pieces, Runs
  <2>. QED
    BY <2>1, WalkCovers
<1>2. ReadSource(shape, chunk, itemsize, at, count)
        = FlattenSeq([i \in DOMAIN w |-> [k \in 1 .. w[i].len |->
                        Stored(shape, chunk, itemsize, w[i].chunk, w[i].start + k - 1)]])
  BY DEF ReadSource
<1>. HIDE DEF w
<1>3. DOMAIN w = 1 .. Len(w) /\ \A i \in 1 .. Len(w) : w[i] \in Runs
  <2>1. w \in Seq(R)
    BY <1>1 DEF Covers
  <2>. HIDE DEF R
  <2>. QED
    BY <1>1, <2>1
<1>4. ASSUME NEW i \in 1 .. Len(w)
      PROVE  [k \in 1 .. w[i].len |-> Stored(shape, chunk, itemsize, w[i].chunk, w[i].start + k - 1)]
               = Held(P, w[i])
  <2>. DEFINE r == w[i]
  <2>1. r \in Runs
    BY <1>3
  <2>. HIDE DEF r
  <2>2. ASSUME NEW k \in 1 .. r.len
        PROVE  P[<<r.chunk, r.start + k - 1>>] = Stored(shape, chunk, itemsize, r.chunk, r.start + k - 1)
    <3>. DEFINE y == r.start + k - 1
    <3>1. y \in Nat /\ r.chunk \in Nat
      BY <2>1 DEF Runs
    <3>. HIDE DEF y
    <3>2. P[<<r.chunk, y>>] = Stored(shape, chunk, itemsize, r.chunk, y)
      BY <3>1 DEF Places
    <3>. QED
      BY <3>2 DEF y
  <2>. HIDE DEF P
  <2>3. [k \in 1 .. r.len |-> Stored(shape, chunk, itemsize, r.chunk, r.start + k - 1)] = Held(P, r)
    BY <2>2 DEF Held
  <2>. QED
    BY <2>3 DEF r
<1>5. FlattenSeq([i \in 1 .. Len(w) |-> Held(P, w[i])]) = InARow(at, (at + count) - at)
  <2>. HIDE DEF P, R
  <2>. QED
    BY <1>1, RunsInARow
<1>6. (at + count) - at = count
  OBVIOUS
<1>7. ReadSource(shape, chunk, itemsize, at, count) = FlattenSeq([i \in 1 .. Len(w) |-> Held(P, w[i])])
  BY <1>2, <1>3, <1>4
<1>. QED
  BY <1>5, <1>6, <1>7 DEF InARow


\* A place of a chunk that is not padding: the element of the array it stands for
\* is in that chunk, and in that place of it.
LEMMA PlaceInChunk ==
  ASSUME NEW shape, NEW chunk, IsGrid(shape, chunk), NEW itemsize \in Nat \ {0},
         NEW n \in Nat, n < Product(Grid(shape, chunk)),
         NEW y \in Nat, y < Product(chunk) * itemsize,
         Stored(shape, chunk, itemsize, n, y) # Padding
  PROVE  LET x == Stored(shape, chunk, itemsize, n, y)
             pos == Coords(x \div itemsize, shape)
         IN  /\ x \in Nat /\ x < Product(shape) * itemsize /\ x % itemsize = y % itemsize
             /\ [a \in DOMAIN pos |-> pos[a] % chunk[a]] = Coords(y \div itemsize, chunk)
             /\ Linear([a \in DOMAIN pos |-> pos[a] \div chunk[a]], Grid(shape, chunk)) = n
<1>. DEFINE N == Len(shape)
            g == Grid(shape, chunk)
            e == y \div itemsize
            i == y % itemsize
            corner == Coords(n, g)
            inside == Coords(e, chunk)
            pos == [a \in DOMAIN shape |-> corner[a] * chunk[a] + inside[a]]
            x == Stored(shape, chunk, itemsize, n, y)
            m == Linear(pos, shape)
<1>1. /\ shape \in Seq(Nat) /\ chunk \in Seq(Nat) /\ N \in Nat /\ Len(chunk) = N
      /\ DOMAIN shape = 1 .. N /\ DOMAIN chunk = 1 .. N
      /\ g \in Seq(Nat) /\ Len(g) = N /\ DOMAIN g = 1 .. N
      /\ Product(chunk) \in Nat /\ Product(shape) \in Nat
  <2>1. shape \in Seq(Nat) /\ chunk \in Seq(Nat) /\ N \in Nat /\ Len(chunk) = N
    BY DEF IsGrid
  <2>2. g \in Seq(Nat) /\ Len(g) = N
    BY GridIs
  <2>3. Product(chunk) \in Nat /\ Product(shape) \in Nat
    BY <2>1, ProductFacts
  <2>. HIDE DEF g
  <2>. QED
    BY <2>1, <2>2, <2>3
<1>2. e \in Nat /\ e < Product(chunk) /\ i \in 0 .. itemsize - 1
  <2>1. e \in Nat /\ e < Product(chunk)
    <3>. DEFINE c == Product(chunk)
    <3>1. c \in Int /\ y < c * itemsize
      BY <1>1
    <3>. HIDE DEF c
    <3>2. y \div itemsize \in Nat /\ y \div itemsize < c
      BY <3>1, DivideBelow
    <3>. QED
      BY <3>2 DEF c
  <2>2. i \in 0 .. itemsize - 1
    BY RoundDown
  <2>. QED
    BY <2>1, <2>2
<1>3. x = IF \A a \in DOMAIN shape : pos[a] < shape[a] THEN m * itemsize + i ELSE Padding
  BY DEF Stored
<1>. HIDE DEF N, g, e, i, x
<1>4. \A a \in 1 .. N : corner[a] = Digit(n, g, a) /\ Digit(n, g, a) \in 0 .. g[a] - 1 /\ g[a] \in Nat
  <2>1. n < Product(g)
    BY DEF g
  <2>2. /\ corner = [a \in DOMAIN g |-> Digit(n, g, a)]
        /\ \A a \in DOMAIN g : g[a] \in Nat \ {0} /\ Digit(n, g, a) \in 0 .. g[a] - 1
    BY <1>1, <2>1, Placed
  <2>. QED
    BY <1>1, <2>2
<1>5. /\ inside = [a \in DOMAIN chunk |-> Digit(e, chunk, a)]
      /\ \A a \in 1 .. N : inside[a] = Digit(e, chunk, a) /\ Digit(e, chunk, a) \in 0 .. chunk[a] - 1
                           /\ chunk[a] \in Nat \ {0}
  <2>1. /\ inside = [a \in DOMAIN chunk |-> Digit(e, chunk, a)]
        /\ \A a \in DOMAIN chunk : chunk[a] \in Nat \ {0} /\ Digit(e, chunk, a) \in 0 .. chunk[a] - 1
    BY <1>1, <1>2, Placed
  <2>. QED
    BY <1>1, <2>1
<1>. HIDE DEF corner, inside
<1>6. ASSUME NEW a \in 1 .. N
      PROVE  pos[a] \in Nat /\ pos[a] \div chunk[a] = corner[a] /\ pos[a] % chunk[a] = inside[a]
  <2>. DEFINE c == corner[a]
              k == chunk[a]
              d == inside[a]
              p == c * k + d
  <2>1. c \in Nat /\ k \in Nat \ {0} /\ d \in 0 .. k - 1
    BY <1>4, <1>5
  <2>2. pos[a] = p
    BY <1>1
  <2>. HIDE DEF c, k, d
  <2>3. p \in Nat
    BY <2>1
  <2>4. p \div k = c /\ p % k = d
    BY <2>1, ByteOfElement
  <2>. QED
    BY <2>2, <2>3, <2>4 DEF c, k, d
<1>7a. \A a \in DOMAIN shape : pos[a] < shape[a]
  BY <1>3 DEF x
<1>7. x = m * itemsize + i
  BY <1>3, <1>7a
<1>8. /\ m \in 0 .. Product(shape) - 1
      /\ Coords(m, shape) = [d \in DOMAIN shape |-> pos[d]]
  <2>. HIDE DEF pos
  <2>1. \A d \in 1 .. Len(shape) : pos[d] \in 0 .. shape[d] - 1
    <3>1. ASSUME NEW d \in 1 .. N
          PROVE  pos[d] \in 0 .. shape[d] - 1
      <4>. DEFINE p == pos[d]
                  k == shape[d]
      <4>1. p \in Nat /\ k \in Nat /\ p < k
        <5>1. d \in DOMAIN shape
          BY <1>1
        <5>2. p < k
          BY <1>7a, <5>1
        <5>3. k \in Nat
          <6>1. shape \in Seq(Nat)
            BY <1>1
          <6>. QED
            BY <5>1, <6>1
        <5>. QED
          BY <1>6, <5>2, <5>3
      <4>. HIDE DEF p, k
      <4>2. p \in 0 .. k - 1
        BY <4>1
      <4>. QED
        BY <4>2 DEF p, k
    <3>. QED
      BY <3>1 DEF N
  <2>. QED
    BY <1>1, <2>1, NumberOf
<1>9. pos = [d \in DOMAIN shape |-> pos[d]]
  OBVIOUS
<1>. HIDE DEF pos, m
<1>10. m \in Nat /\ m < Product(shape)
  BY <1>1, <1>8
<1>11. x \div itemsize = m /\ x % itemsize = i /\ x \in Nat /\ x < Product(shape) * itemsize
  <2>1. x \div itemsize = m /\ x % itemsize = i
    BY <1>2, <1>7, <1>10, ByteOfElement
  <2>2. x \in Nat
    BY <1>2, <1>7, <1>10
  <2>3. x < Product(shape) * itemsize
    <3>. DEFINE S == Product(shape)
    <3>1. m + 1 <= S /\ S \in Nat
      BY <1>1, <1>10
    <3>. HIDE DEF S
    <3>2. (m + 1) * itemsize <= S * itemsize /\ (m + 1) * itemsize = m * itemsize + itemsize
      BY <1>10, <3>1
    <3>3. S * itemsize \in Int /\ m * itemsize \in Int
      BY <1>10, <3>1
    <3>. QED
      BY <1>2, <1>7, <3>2, <3>3 DEF S
  <2>. QED
    BY <2>1, <2>2, <2>3
<1>12. Coords(x \div itemsize, shape) = pos /\ DOMAIN pos = 1 .. N
  BY <1>1, <1>8, <1>9, <1>11
<1>13. [a \in DOMAIN pos |-> pos[a] % chunk[a]] = inside
  <2>1. [a \in 1 .. N |-> pos[a] % chunk[a]] = [a \in 1 .. N |-> Digit(e, chunk, a)]
    BY <1>5, <1>6
  <2>. QED
    BY <1>1, <1>5, <1>12, <2>1
<1>14. Linear([a \in DOMAIN pos |-> pos[a] \div chunk[a]], g) = n
  <2>. DEFINE u == [a \in DOMAIN pos |-> pos[a] \div chunk[a]]
  <2>1. \A d \in 1 .. Len(g) : u[d] = Digit(n, g, d)
    <3>1. \A d \in 1 .. N : u[d] = Digit(n, g, d)
      BY <1>4, <1>6, <1>12
    <3>. HIDE DEF u
    <3>. QED
      BY <1>1, <3>1
  <2>2. n < Product(g)
    BY DEF g
  <2>. HIDE DEF u
  <2>3. Linear(u, g) = n
    BY <1>1, <2>1, <2>2, PositionOf
  <2>. QED
    BY <2>3 DEF u
<1>. QED
  BY <1>11, <1>12, <1>13, <1>14 DEF x, g, e, i, inside

---------------------------------------------------------------------------
(* Attributes.                                                             *)

\* The items of the arrays among `values`.
ItemsOf(values) ==
  FlattenSeq([i \in DOMAIN values |-> IF values[i].kind = "array" THEN values[i].items ELSE << >>])

\* What the levels of a value compute is what their definition says.
LEMMA LevelDef ==
  ASSUME NEW v, NEW k \in Nat
  PROVE  Level(v, 0) = <<v>> /\ Level(v, k + 1) = ItemsOf(Level(v, k))
<1>. DEFINE Def(f, n) == f = [i \in 0 .. n |-> IF i = 0 THEN <<v>> ELSE ItemsOf(f[i - 1])]
            T == {n \in Nat : \E f : Def(f, n)}
            h(n) == CHOOSE f : Def(f, n)
<1>1. 0 \in T
  <2>1. Def([i \in 0 .. 0 |-> <<v>>], 0)
    OBVIOUS
  <2>. QED
    BY <2>1
<1>2. ASSUME NEW n \in Nat, n \in T
      PROVE  n + 1 \in T
  <2>1. PICK f : Def(f, n)
    BY <1>2
  <2>. DEFINE g == [i \in 0 .. n + 1 |-> IF i = n + 1 THEN ItemsOf(f[n]) ELSE f[i]]
  <2>2. \A i \in 0 .. n + 1 : g[i] = IF i = 0 THEN <<v>> ELSE ItemsOf(g[i - 1])
    <3>1. \A i \in 0 .. n : f[i] = IF i = 0 THEN <<v>> ELSE ItemsOf(f[i - 1])
      BY <2>1
    <3>. HIDE DEF Def
    <3>2. \A i \in 0 .. n : g[i] = f[i]
      OBVIOUS
    <3>. TAKE i \in 0 .. n + 1
    <3>3. CASE i = 0
      BY <3>1, <3>2, <3>3
    <3>4. CASE i \in 1 .. n
      BY <3>1, <3>2, <3>4
    <3>5. CASE i = n + 1
      BY <3>2, <3>5
    <3>. QED
      BY <3>3, <3>4, <3>5
  <2>3. DOMAIN g = 0 .. n + 1 /\ g = [i \in DOMAIN g |-> g[i]]
    OBVIOUS
  <2>. HIDE DEF g
  <2>4. Def(g, n + 1)
    BY <2>2, <2>3
  <2>. QED
    BY <2>4
<1>. HIDE DEF Def
<1>3. \A n \in Nat : Def(h(n), n)
  <2>1. Nat \subseteq T
    <3>. HIDE DEF T, h
    <3>. QED
      BY <1>1, <1>2, NatSteps
  <2>. QED
    BY <2>1
<1>4. \A n \in Nat : Level(v, n) = h(n)[n]
  BY DEF Level, Def, ItemsOf, Map
<1>. HIDE DEF h
<1>5. \A n \in Nat : \A i \in 0 .. n : h(n)[i] = IF i = 0 THEN <<v>> ELSE ItemsOf(h(n)[i - 1])
  <2>. TAKE n \in Nat
  <2>1. Def(h(n), n)
    BY <1>3
  <2>. DEFINE f == h(n)
  <2>2. f = [i \in 0 .. n |-> IF i = 0 THEN <<v>> ELSE ItemsOf(f[i - 1])]
    BY <2>1 DEF Def
  <2>. HIDE DEF f
  <2>3. \A i \in 0 .. n : f[i] = IF i = 0 THEN <<v>> ELSE ItemsOf(f[i - 1])
    BY <2>2
  <2>. QED
    BY <2>3 DEF f
<1>6. h(k)[k] = h(k + 1)[k]
  <2>. DEFINE U == {i \in Nat : i <= k => h(k)[i] = h(k + 1)[i]}
  <2>1. 0 \in U
    <3>1. k \in Nat /\ k + 1 \in Nat /\ 0 \in 0 .. k /\ 0 \in 0 .. k + 1
      OBVIOUS
    <3>. QED
      BY <3>1, <1>5
  <2>2. ASSUME NEW i \in Nat, i \in U
        PROVE  i + 1 \in U
    <3>. SUFFICES ASSUME i + 1 <= k
                  PROVE  h(k)[i + 1] = h(k + 1)[i + 1]
      OBVIOUS
    <3>1. k + 1 \in Nat /\ i + 1 \in 0 .. k /\ i + 1 \in 0 .. k + 1 /\ i + 1 # 0 /\ i + 1 - 1 = i /\ i <= k
      OBVIOUS
    <3>2. h(k)[i + 1] = ItemsOf(h(k)[i]) /\ h(k + 1)[i + 1] = ItemsOf(h(k + 1)[i])
      BY <3>1, <1>5
    <3>. QED
      BY <3>1, <3>2, <2>2
  <2>3. Nat \subseteq U
    <3>. HIDE DEF U
    <3>. QED
      BY <2>1, <2>2, NatSteps
  <2>. QED
    BY <2>3
<1>7. h(k + 1)[k + 1] = ItemsOf(h(k + 1)[k]) /\ h(0)[0] = <<v>>
  <2>1. k + 1 \in Nat /\ k + 1 \in 0 .. k + 1 /\ k + 1 # 0 /\ k + 1 - 1 = k /\ 0 \in 0 .. 0
    OBVIOUS
  <2>. QED
    BY <2>1, <1>5
<1>8. Level(v, 0) = h(0)[0] /\ Level(v, k) = h(k)[k] /\ Level(v, k + 1) = h(k + 1)[k + 1]
  <2>1. 0 \in Nat /\ k + 1 \in Nat
    OBVIOUS
  <2>. QED
    BY <2>1, <1>4
<1>9. ItemsOf(h(k + 1)[k]) = ItemsOf(Level(v, k))
  BY <1>6, <1>8
<1>. QED
  BY <1>7, <1>8, <1>9

LEMMA FlattenEmpty == FlattenSeq(<< >>) = << >>
<1>. DEFINE z == [a \in 1 .. 1 |-> << >>]
<1>1. 0 \in Nat /\ 0 + 1 = 1 /\ \A a \in 1 .. 1 : z[a] \in Seq(Nat)
  OBVIOUS
<1>. HIDE DEF z
<1>2. FlattenSeq([a \in 1 .. 0 |-> z[a]]) = << >>
  BY <1>1, FlattenStep
<1>3. [a \in 1 .. 0 |-> z[a]] = << >>
  OBVIOUS
<1>. QED
  BY <1>2, <1>3

\* Sequences that are equally long, one after the other.
Even(q, n, L, X) == \A a \in 1 .. n : q[a] \in Seq(X) /\ Len(q[a]) = L

LEMMA FlattenEven ==
  ASSUME NEW X, NEW n \in Nat, NEW q, NEW L \in Nat, Even(q, n, L, X)
  PROVE  /\ FlattenSeq([a \in 1 .. n |-> q[a]]) \in Seq(X)
         /\ Len(FlattenSeq([a \in 1 .. n |-> q[a]])) = n * L
<1>. DEFINE F(m) == FlattenSeq([a \in 1 .. m |-> q[a]])
            T == {m \in Nat : m <= n => F(m) \in Seq(X) /\ Len(F(m)) = m * L}
<1>0. \A a \in 1 .. n : q[a] \in Seq(X) /\ Len(q[a]) = L
  BY DEF Even
<1>1. 0 \in T
  <2>1. [a \in 1 .. 0 |-> q[a]] = << >>
    OBVIOUS
  <2>2. F(0) = << >>
    BY <2>1, FlattenEmpty
  <2>. HIDE DEF F
  <2>3. << >> \in Seq(X) /\ Len(<< >>) = 0
    OBVIOUS
  <2>4. 0 * L = 0
    OBVIOUS
  <2>5. F(0) \in Seq(X) /\ Len(F(0)) = 0
    BY <2>2, <2>3
  <2>. QED
    BY <2>4, <2>5
<1>2. ASSUME NEW m \in Nat, m \in T
      PROVE  m + 1 \in T
  <2>. SUFFICES ASSUME m + 1 <= n
                PROVE  F(m + 1) \in Seq(X) /\ Len(F(m + 1)) = (m + 1) * L
    OBVIOUS
  <2>1. \A a \in 1 .. m + 1 : q[a] \in Seq(X)
    BY <1>0
  <2>2. F(m + 1) = F(m) \o q[m + 1]
    BY <2>1, FlattenStep
  <2>3. F(m) \in Seq(X) /\ Len(F(m)) = m * L /\ q[m + 1] \in Seq(X) /\ Len(q[m + 1]) = L
    BY <1>0, <1>2
  <2>. HIDE DEF F
  <2>. DEFINE x == q[m + 1]
              y == F(m)
  <2>4. x \in Seq(X) /\ y \in Seq(X) /\ Len(x) = L /\ Len(y) = m * L
    BY <2>3
  <2>. HIDE DEF x, y
  <2>5. y \o x \in Seq(X) /\ Len(y \o x) = Len(y) + Len(x)
    BY <2>4
  <2>6. (m + 1) * L = m * L + L
    OBVIOUS
  <2>. QED
    BY <2>2, <2>4, <2>5, <2>6 DEF x, y
<1>3. n \in T
  <2>1. Nat \subseteq T
    <3>. HIDE DEF T
    <3>. QED
      BY <1>1, <1>2, NatSteps
  <2>. QED
    BY <2>1
<1>. QED
  BY <1>3

\* The arrays and the leaves that are k arrays deep in a value, and where there
\* are any.
ArraysAt(v, k) == OfKinds(Level(v, k), {"array"})
LeavesAt(v, k) == OfKinds(Level(v, k), {"bool", "int", "float"})
ArrayDepths(v) == {k \in 0 .. Nesting : ArraysAt(v, k) # << >>}
DepthsOf(v) == {k \in 0 .. Nesting : LeavesAt(v, k) # << >>}

SomeSeq(q) == \E X : q \in Seq(X)

LEMMA ItemsAre ==
  ASSUME NEW v, JsonValue(v), NEW k \in 0 .. Nesting, SomeSeq(Level(v, k))
  PROVE  LET W == Level(v, k)
             q == [i \in 1 .. Len(W) |-> IF W[i].kind = "array" THEN W[i].items ELSE << >>]
         IN  /\ Len(W) \in Nat /\ DOMAIN W = 1 .. Len(W)
             /\ Level(v, k + 1) = FlattenSeq(q)
             /\ \E Y : \A i \in 1 .. Len(W) : q[i] \in Seq(Y)
<1>. DEFINE W == Level(v, k)
            n == Len(W)
            q == [i \in 1 .. n |-> IF W[i].kind = "array" THEN W[i].items ELSE << >>]
            Y == UNION {Range(q[i]) : i \in 1 .. n}
<1>1. PICK X : W \in Seq(X)
  BY DEF SomeSeq
<1>2. n \in Nat /\ DOMAIN W = 1 .. n
  BY <1>1
<1>3. Nesting \in Nat /\ k \in Nat
  BY AttrsAssumption
<1>4. Level(v, k + 1) = ItemsOf(W)
  BY <1>3, LevelDef
<1>5. \A i \in 1 .. n : W[i].kind = "array" => W[i].items \in Seq(Range(W[i].items))
  <2>1. \A i \in 1 .. n : W[i] \in Range(W)
    BY <1>1, RangeFacts
  <2>. QED
    BY <2>1 DEF JsonValue
<1>. HIDE DEF W, n
<1>6. ItemsOf(W) = FlattenSeq(q)
  BY <1>2 DEF ItemsOf
<1>7. ASSUME NEW i \in 1 .. n
      PROVE  q[i] \in Seq(Y)
  <2>1. q[i] \in Seq(Range(q[i]))
    <3>1. CASE W[i].kind = "array"
      <4>1. q[i] = W[i].items
        BY <3>1
      <4>. HIDE DEF q
      <4>. QED
        BY <3>1, <4>1, <1>5
    <3>2. CASE W[i].kind # "array"
      <4>1. q[i] = << >>
        BY <3>2
      <4>. HIDE DEF q
      <4>. QED
        BY <4>1
    <3>. QED
      BY <3>1, <3>2
  <2>2. Range(q[i]) \subseteq Y
    OBVIOUS
  <2>. HIDE DEF q, Y
  <2>. DEFINE z == q[i]
  <2>3. Len(z) \in Nat /\ z \in [1 .. Len(z) -> Range(z)] /\ Range(z) \subseteq Y
    BY <2>1, <2>2
  <2>. HIDE DEF z
  <2>4. z \in [1 .. Len(z) -> Y]
    BY <2>3
  <2>5. z \in Seq(Y)
    BY <2>3, <2>4
  <2>. QED
    BY <2>5 DEF z
<1>. HIDE DEF q, Y
<1>8. \E Z : \A i \in 1 .. n : q[i] \in Seq(Z)
  BY <1>7
<1>. QED
  BY <1>2, <1>4, <1>6, <1>8 DEF q, W, n

\* Each level of a value is a sequence.
LEMMA LevelIs ==
  ASSUME NEW v, JsonValue(v), NEW k \in 0 .. Nesting + 1
  PROVE  SomeSeq(Level(v, k))
<1>. DEFINE T == {n \in Nat : n <= Nesting + 1 => SomeSeq(Level(v, n))}
<1>0. Nesting \in Nat
  BY AttrsAssumption
<1>1. 0 \in T
  <2>1. Level(v, 0) = <<v>>
    BY LevelDef
  <2>2. <<v>> \in Seq({v})
    OBVIOUS
  <2>. QED
    BY <2>1, <2>2 DEF SomeSeq
<1>2. ASSUME NEW n \in Nat, n \in T
      PROVE  n + 1 \in T
  <2>. SUFFICES ASSUME n + 1 <= Nesting + 1
                PROVE  SomeSeq(Level(v, n + 1))
    OBVIOUS
  <2>1. n \in 0 .. Nesting /\ SomeSeq(Level(v, n))
    BY <1>0, <1>2
  <2>. DEFINE W == Level(v, n)
              m == Len(W)
              q == [i \in 1 .. m |-> IF W[i].kind = "array" THEN W[i].items ELSE << >>]
  <2>2. m \in Nat /\ Level(v, n + 1) = FlattenSeq(q) /\ \E Y : \A i \in 1 .. m : q[i] \in Seq(Y)
    BY <2>1, ItemsAre
  <2>3. PICK Y : \A i \in 1 .. m : q[i] \in Seq(Y)
    BY <2>2
  <2>4. [a \in 1 .. m |-> q[a]] = q
    BY <2>2
  <2>. HIDE DEF q, m
  <2>5. FlattenSeq([a \in 1 .. m |-> q[a]]) \in Seq(Y)
    BY <2>2, <2>3, FlattenHas
  <2>. QED
    BY <2>2, <2>4, <2>5 DEF SomeSeq
<1>3. Nat \subseteq T
  <2>. HIDE DEF T
  <2>. QED
    BY <1>1, <1>2, NatSteps
<1>. QED
  BY <1>0, <1>3

\* One level further, when the arrays of a level are equally long and whatever
\* else there is counts for nothing.
LEMMA NextLevel ==
  ASSUME NEW v, JsonValue(v), NEW k \in 0 .. Nesting, NEW L \in Nat,
         \A w \in Range(Level(v, k)) : IF w.kind = "array" THEN Len(w.items) = L ELSE L = 0
  PROVE  /\ Len(Level(v, k)) \in Nat
         /\ Len(Level(v, k + 1)) = Len(Level(v, k)) * L
<1>. DEFINE W == Level(v, k)
            n == Len(W)
            q == [i \in 1 .. n |-> IF W[i].kind = "array" THEN W[i].items ELSE << >>]
<1>1. SomeSeq(W)
  BY LevelIs, AttrsAssumption
<1>2. n \in Nat /\ DOMAIN W = 1 .. n /\ Level(v, k + 1) = FlattenSeq(q) /\ \E Y : \A i \in 1 .. n : q[i] \in Seq(Y)
  BY <1>1, ItemsAre
<1>3. PICK Y : \A i \in 1 .. n : q[i] \in Seq(Y)
  BY <1>2
<1>4. \A i \in 1 .. n : W[i] \in Range(W)
  BY <1>1, RangeFacts DEF SomeSeq
<1>5. \A i \in 1 .. n : Len(q[i]) = L
  <2>. TAKE i \in 1 .. n
  <2>1. IF W[i].kind = "array" THEN Len(W[i].items) = L ELSE L = 0
    BY <1>4
  <2>2. CASE W[i].kind = "array"
    <3>1. q[i] = W[i].items
      BY <2>2
    <3>. HIDE DEF q
    <3>. QED
      BY <2>1, <2>2, <3>1
  <2>3. CASE W[i].kind # "array"
    <3>1. q[i] = << >>
      BY <2>3
    <3>. HIDE DEF q
    <3>. QED
      BY <2>1, <2>3, <3>1
  <2>. QED
    BY <2>2, <2>3
<1>6. [a \in 1 .. n |-> q[a]] = q
  BY <1>2
<1>. HIDE DEF q, n
<1>7. Len(FlattenSeq([a \in 1 .. n |-> q[a]])) = n * L
  <2>1. Even(q, n, L, Y)
    BY <1>3, <1>5 DEF Even
  <2>2. n \in Nat /\ L \in Nat
    BY <1>2
  <2>3. /\ FlattenSeq([a \in 1 .. n |-> q[a]]) \in Seq(Y)
        /\ Len(FlattenSeq([a \in 1 .. n |-> q[a]])) = n * L
    BY <2>1, <2>2, FlattenEven
  <2>. QED
    BY <2>3
<1>. QED
  BY <1>2, <1>6, <1>7 DEF n

\* What is kept of the kinds of a level.
LEMMA OfKindsAre ==
  ASSUME NEW q, SomeSeq(q), NEW kinds
  PROVE  /\ SomeSeq(OfKinds(q, kinds))
         /\ \A w : w \in Range(OfKinds(q, kinds)) <=> w \in Range(q) /\ w.kind \in kinds
         /\ OfKinds(q, kinds) = << >> <=> \A w \in Range(q) : w.kind \notin kinds
         /\ (\A w \in Range(q) : w.kind \in kinds) => OfKinds(q, kinds) = q
<1>1. PICK X : q \in Seq(X)
  BY DEF SomeSeq
<1>. DEFINE S == {w \in Range(q) : w.kind \in kinds}
            r == Retain(q, S)
<1>2. r \in Seq(X) /\ Range(r) = Range(q) \cap S
  BY <1>1, RetainFacts
<1>3. \A w : w \in Range(r) <=> w \in Range(q) /\ w.kind \in kinds
  BY <1>2
<1>4. Range(r) = {} <=> r = << >>
  <2>1. r \in Seq(X)
    BY <1>2
  <2>. HIDE DEF r
  <2>. QED
    BY <2>1, RangeFacts
<1>5. ASSUME \A w \in Range(q) : w.kind \in kinds
      PROVE  r = q
  <2>1. \A i \in 1 .. Len(q) : q[i] \in S
    BY <1>1, <1>5, RangeFacts
  <2>. HIDE DEF S
  <2>2. << >> \in Seq(X) /\ << >> \o q = q
    BY <1>1
  <2>3. Retain(<< >> \o q, S) = Retain(<< >>, S) \o q
    BY <1>1, <2>1, <2>2, RetainConcat
  <2>4. CASE q = << >>
    <3>1. Retain(q, S) \in Seq(X) /\ Len(Retain(q, S)) <= Len(q)
      BY <1>1, RetainFacts
    <3>. QED
      BY <2>4, <3>1
  <2>5. CASE q # << >>
    <3>1. q[1] \in X
      BY <1>1, <2>5
    <3>2. Retain(<< >>, S) = << >>
      BY <2>2, <3>1, RetainAppend
    <3>. QED
      BY <2>2, <2>3, <3>2
  <2>. QED
    BY <2>4, <2>5
<1>6. OfKinds(q, kinds) = r
  BY DEF OfKinds
<1>. HIDE DEF r, S
<1>7. r = << >> <=> \A w \in Range(q) : w.kind \notin kinds
  BY <1>3, <1>4
<1>. QED
  BY <1>2, <1>3, <1>5, <1>6, <1>7 DEF SomeSeq

\* A set of numbers that has, with each, all that are smaller.
LEMMA LowerNumbers ==
  ASSUME NEW D, NEW N \in Nat, D \subseteq 0 .. N, \A n \in Nat : n + 1 \in D => n \in D
  PROVE  Cardinality(D) \in Nat /\ D = 0 .. Cardinality(D) - 1
<1>1. N + 1 \in Nat \ D
  OBVIOUS
<1>2. PICK m \in Nat \ D : \A y \in Nat \ D : m <= y
  BY <1>1, NatLeast
<1>. DEFINE U == {j \in Nat : m + j \notin D}
<1>3. Nat \subseteq U
  <2>1. 0 \in U
    BY <1>2
  <2>2. ASSUME NEW j \in Nat, j \in U
        PROVE  j + 1 \in U
    <3>1. m + j \in Nat /\ m + (j + 1) = (m + j) + 1 /\ m + j \notin D
      BY <1>2, <2>2
    <3>. QED
      BY <3>1
  <2>. HIDE DEF U
  <2>. QED
    BY <2>1, <2>2, NatSteps
<1>4. D = 0 .. m - 1
  <2>1. ASSUME NEW x \in D
        PROVE  x \in 0 .. m - 1
    <3>1. x \in Nat
      OBVIOUS
    <3>2. ASSUME x >= m
          PROVE  FALSE
      <4>1. x - m \in Nat /\ m + (x - m) = x
        BY <1>2, <3>1, <3>2
      <4>. QED
        BY <1>3, <4>1, <2>1
    <3>. QED
      BY <1>2, <3>1, <3>2
  <2>2. ASSUME NEW x \in 0 .. m - 1
        PROVE  x \in D
    <3>1. x \in Nat /\ x < m
      BY <1>2
    <3>. QED
      BY <1>2, <3>1
  <2>. QED
    BY <2>1, <2>2
<1>5. Cardinality(0 .. m - 1) = IF 0 > m - 1 THEN 0 ELSE (m - 1) - 0 + 1
  BY <1>2, FS_Interval
<1>6. Cardinality(D) = m
  BY <1>2, <1>4, <1>5
<1>. QED
  BY <1>2, <1>4, <1>6

\* What flatten makes of a value, if it makes anything of it.
LEMMA FlattenIs ==
  ASSUME NEW v, flatten(v) # << >>
  PROVE  /\ \A k \in 0 .. Nesting : OfKinds(Level(v, k), {"text", "other"}) = << >>
         /\ \A k \in 0 .. Nesting : \A a, b \in Range(ArraysAt(v, k)) : Len(a.items) = Len(b.items)
         /\ flatten(v)[1].shape =
              [k \in 1 .. Cardinality(ArrayDepths(v)) |-> Len(ArraysAt(v, k - 1)[1].items)]
         /\ flatten(v)[1].depths = DepthsOf(v)
         /\ flatten(v)[1].leaves =
              IF DepthsOf(v) = {} THEN << >> ELSE LeavesAt(v, Max(DepthsOf(v)))
BY DEF flatten, ArraysAt, LeavesAt, ArrayDepths, DepthsOf

\* Arrays are where arrays are around them.
LEMMA ArraysNest ==
  ASSUME NEW v, JsonValue(v)
  PROVE  /\ Cardinality(ArrayDepths(v)) \in 0 .. Nesting + 1
         /\ ArrayDepths(v) = 0 .. Cardinality(ArrayDepths(v)) - 1
<1>0. Nesting \in Nat
  BY AttrsAssumption
<1>1. ASSUME NEW n \in Nat, n + 1 \in ArrayDepths(v)
      PROVE  n \in ArrayDepths(v)
  <2>1. n \in 0 .. Nesting /\ n + 1 \in 0 .. Nesting /\ ArraysAt(v, n + 1) # << >>
    BY <1>0, <1>1 DEF ArrayDepths
  <2>2. SomeSeq(Level(v, n)) /\ SomeSeq(Level(v, n + 1))
    BY <1>0, <2>1, LevelIs
  <2>. SUFFICES ASSUME ArraysAt(v, n) = << >>
                PROVE  FALSE
    BY <2>1 DEF ArrayDepths
  <2>3. \A w \in Range(Level(v, n)) : w.kind \notin {"array"}
    BY <2>2, OfKindsAre DEF ArraysAt
  <2>4. Len(Level(v, n)) \in Nat /\ Len(Level(v, n + 1)) = Len(Level(v, n)) * 0
    <3>1. \A w \in Range(Level(v, n)) : IF w.kind = "array" THEN Len(w.items) = 0 ELSE 0 = 0
      BY <2>3
    <3>. QED
      BY <2>1, <3>1, NextLevel
  <2>5. Len(Level(v, n + 1)) = 0
    BY <2>4
  <2>6. Level(v, n + 1) = << >>
    BY <2>2, <2>5 DEF SomeSeq
  <2>7. \A w \in Range(Level(v, n + 1)) : w.kind \notin {"array"}
    BY <2>6, ShortSeqs
  <2>8. ArraysAt(v, n + 1) = << >>
    BY <2>2, <2>7, OfKindsAre DEF ArraysAt
  <2>. QED
    BY <2>1, <2>8
<1>2. ArrayDepths(v) \subseteq 0 .. Nesting
  BY DEF ArrayDepths
<1>. DEFINE D == ArrayDepths(v)
            m == Cardinality(D)
<1>. HIDE DEF D
<1>3. m \in Nat /\ D = 0 .. m - 1
  BY <1>0, <1>1, <1>2, LowerNumbers DEF D
<1>. HIDE DEF m
<1>4. m <= Nesting + 1
  <2>1. CASE m = 0
    BY <1>0, <2>1
  <2>2. CASE m # 0
    <3>1. m - 1 \in D
      BY <1>3, <2>2
    <3>2. m - 1 \in 0 .. Nesting
      BY <1>2, <3>1 DEF D
    <3>. QED
      BY <1>0, <1>3, <3>2
  <2>. QED
    BY <2>1, <2>2
<1>. QED
  BY <1>0, <1>3, <1>4 DEF D, m

\* flatten: when all leaves are as deep as there are axes, there are as many as
\* the axes say.
LEMMA LeavesFillShape ==
  ASSUME NEW v, JsonValue(v), flatten(v) # << >>, Rectangular(flatten(v)[1])
  PROVE  /\ flatten(v)[1].shape \in Seq(Nat)
         /\ Len(flatten(v)[1].leaves) = Product(flatten(v)[1].shape)
<1>. DEFINE shape == flatten(v)[1].shape
            leaves == flatten(v)[1].leaves
            axes == Cardinality(ArrayDepths(v))
            L(k) == Len(ArraysAt(v, k)[1].items)
            N(k) == Len(Level(v, k))
            D == DepthsOf(v)
<1>0. Nesting \in Nat
  BY AttrsAssumption
<1>1. axes \in 0 .. Nesting + 1 /\ ArrayDepths(v) = 0 .. axes - 1
  BY ArraysNest
<1>2. shape = [k \in 1 .. axes |-> L(k - 1)]
  BY FlattenIs
<1>3. D \subseteq {axes}
  <2>1. flatten(v)[1].depths = D
    BY FlattenIs
  <2>2. DOMAIN shape = 1 .. axes /\ Len(shape) = axes
    BY <1>1, <1>2
  <2>. QED
    BY <2>1, <2>2 DEF Rectangular
<1>4. leaves = IF D = {} THEN << >> ELSE LeavesAt(v, Max(D))
  BY FlattenIs
<1>5. ASSUME NEW k \in 0 .. Nesting, NEW w \in Range(Level(v, k)), k # axes
      PROVE  w \in Range(ArraysAt(v, k))
  <2>1. SomeSeq(Level(v, k))
    BY <1>0, LevelIs
  <2>2. w.kind \notin {"text", "other"}
    <3>1. OfKinds(Level(v, k), {"text", "other"}) = << >>
      BY FlattenIs
    <3>. QED
      BY <2>1, <3>1, OfKindsAre
  <2>3. w.kind \notin {"bool", "int", "float"}
    <3>1. LeavesAt(v, k) = << >>
      BY <1>3, <1>5 DEF DepthsOf
    <3>. QED
      BY <2>1, <3>1, OfKindsAre DEF LeavesAt
  <2>4. w.kind = "array"
    BY <2>2, <2>3 DEF JsonValue
  <2>. QED
    BY <2>1, <2>4, OfKindsAre DEF ArraysAt
<1>6. ASSUME NEW k \in 0 .. axes - 1
      PROVE  /\ k \in 0 .. Nesting /\ L(k) \in Nat
             /\ \A w \in Range(Level(v, k)) : w.kind = "array" /\ Len(w.items) = L(k)
  <2>1. k \in 0 .. Nesting /\ k # axes /\ ArraysAt(v, k) # << >>
    BY <1>0, <1>1 DEF ArrayDepths
  <2>2. SomeSeq(Level(v, k))
    BY <1>0, <2>1, LevelIs
  <2>3. PICK X : ArraysAt(v, k) \in Seq(X)
    BY <2>2, OfKindsAre DEF SomeSeq, ArraysAt
  <2>4. ArraysAt(v, k)[1] \in Range(ArraysAt(v, k))
    BY <2>1, <2>3, RangeFacts
  <2>. DEFINE x == ArraysAt(v, k)[1]
  <2>5. x \in Range(Level(v, k)) /\ x.kind = "array"
    BY <2>2, <2>4, OfKindsAre DEF ArraysAt
  <2>6. x.items \in Seq(Range(x.items))
    BY <2>1, <2>5 DEF JsonValue
  <2>7. L(k) \in Nat
    BY <2>6
  <2>8. ASSUME NEW w \in Range(Level(v, k))
        PROVE  w.kind = "array" /\ Len(w.items) = L(k)
    <3>1. w \in Range(ArraysAt(v, k))
      BY <1>5, <2>1
    <3>2. Len(w.items) = Len(x.items)
      <4>1. \A a, b \in Range(ArraysAt(v, k)) : Len(a.items) = Len(b.items)
        BY <2>1, FlattenIs
      <4>2. x \in Range(ArraysAt(v, k))
        BY <2>4
      <4>. HIDE DEF x
      <4>. QED
        BY <3>1, <4>1, <4>2
    <3>3. w.kind = "array"
      BY <2>2, <3>1, OfKindsAre DEF ArraysAt
    <3>. QED
      BY <3>2, <3>3
  <2>. QED
    BY <2>1, <2>7, <2>8
<1>7. ASSUME NEW k \in 0 .. axes - 1
      PROVE  N(k) \in Nat /\ N(k + 1) = N(k) * L(k)
  <2>1. k \in 0 .. Nesting /\ L(k) \in Nat
    BY <1>6
  <2>2. \A w \in Range(Level(v, k)) : IF w.kind = "array" THEN Len(w.items) = L(k) ELSE L(k) = 0
    BY <1>6
  <2>. HIDE DEF L
  <2>. QED
    BY <2>1, <2>2, NextLevel
<1>. HIDE DEF L, axes
<1>8. shape \in Seq(Nat)
  BY <1>1, <1>2, <1>6
<1>9. N(axes) = Product(shape)
  <2>. DEFINE S(k) == [a \in 1 .. k |-> L(a - 1)]
              T == {k \in Nat : k <= axes => N(k) = Product(S(k))}
  <2>1. 0 \in T
    <3>1. Level(v, 0) = <<v>>
      BY LevelDef
    <3>2. S(0) = << >>
      OBVIOUS
    <3>3. Product(<< >>) = 1
      BY ProductFacts
    <3>. QED
      BY <3>1, <3>2, <3>3
  <2>2. ASSUME NEW k \in Nat, k \in T
        PROVE  k + 1 \in T
    <3>. SUFFICES ASSUME k + 1 <= axes
                  PROVE  N(k + 1) = Product(S(k + 1))
      OBVIOUS
    <3>1. k \in 0 .. axes - 1 /\ axes \in Nat /\ \A a \in 1 .. k + 1 : a - 1 \in 0 .. axes - 1
      BY <1>1
    <3>2. \A a \in 1 .. k + 1 : L(a - 1) \in Nat
      BY <1>6, <3>1
    <3>3. S(k) \in Seq(Nat) /\ L(k) \in Nat
      <4>1. \A a \in 1 .. k : L(a - 1) \in Nat
        BY <3>2
      <4>. QED
        BY <4>1, <3>1, <1>6
    <3>4. S(k + 1) = Append(S(k), L(k))
      <4>1. \A a \in 1 .. k : L(a - 1) \in Nat
        BY <3>2
      <4>. QED
        BY <3>2, <3>3, <4>1
    <3>5. N(k + 1) = N(k) * L(k) /\ N(k) = Product(S(k))
      BY <1>7, <2>2, <3>1
    <3>. HIDE DEF S, N
    <3>6. Product(Append(S(k), L(k))) = Product(S(k)) * L(k)
      BY <3>3, ProductAppend
    <3>. QED
      BY <3>4, <3>5, <3>6
  <2>3. Nat \subseteq T
    <3>. HIDE DEF T
    <3>. QED
      BY <2>1, <2>2, NatSteps
  <2>. QED
    BY <1>1, <1>2, <2>3
<1>10. Len(leaves) = N(axes)
  <2>1. SomeSeq(Level(v, axes))
    BY <1>1, LevelIs
  <2>2. ASSUME axes <= Nesting, NEW w \in Range(Level(v, axes))
        PROVE  w.kind \in {"bool", "int", "float"}
    <3>1. axes \in 0 .. Nesting
      BY <1>0, <1>1, <2>2
    <3>2. w.kind \notin {"text", "other"}
      <4>1. OfKinds(Level(v, axes), {"text", "other"}) = << >>
        BY <3>1, FlattenIs
      <4>. QED
        BY <2>1, <4>1, OfKindsAre
    <3>3. w.kind # "array"
      <4>1. axes \notin ArrayDepths(v)
        BY <1>1
      <4>2. ArraysAt(v, axes) = << >>
        BY <3>1, <4>1 DEF ArrayDepths
      <4>. QED
        BY <2>1, <4>2, OfKindsAre DEF ArraysAt
    <3>. QED
      BY <3>1, <3>2, <3>3 DEF JsonValue
  <2>3. CASE D = {}
    <3>1. Level(v, axes) = << >>
      <4>1. CASE axes = Nesting + 1
        BY <4>1 DEF JsonValue
      <4>2. CASE axes <= Nesting
        <5>1. LeavesAt(v, axes) = << >>
          BY <1>0, <1>1, <2>3, <4>2 DEF DepthsOf
        <5>2. \A w \in Range(Level(v, axes)) : w.kind \notin {"bool", "int", "float"}
          BY <2>1, <5>1, OfKindsAre DEF LeavesAt
        <5>3. Range(Level(v, axes)) = {}
          BY <2>2, <4>2, <5>2
        <5>. QED
          BY <2>1, <5>3, RangeFacts DEF SomeSeq
      <4>. QED
        BY <1>0, <1>1, <4>1, <4>2
    <3>2. leaves = << >>
      BY <1>4, <2>3
    <3>. QED
      BY <3>1, <3>2
  <2>4. CASE D # {}
    <3>1. D = {axes} /\ axes \in 0 .. Nesting
      BY <1>3, <2>4 DEF DepthsOf
    <3>2. Max(D) = axes
      <4>1. axes \in Int /\ D \subseteq Int /\ \A x \in D : x <= axes
        BY <3>1
      <4>2. Max(D) \in D
        BY <2>4, <4>1, GreatestOf
      <4>. QED
        BY <3>1, <4>2
    <3>3. LeavesAt(v, axes) = Level(v, axes)
      <4>1. \A w \in Range(Level(v, axes)) : w.kind \in {"bool", "int", "float"}
        BY <2>2, <3>1
      <4>. QED
        BY <2>1, <4>1, OfKindsAre DEF LeavesAt
    <3>. QED
      BY <1>4, <2>4, <3>2, <3>3
  <2>. QED
    BY <2>3, <2>4
<1>. QED
  BY <1>8, <1>9, <1>10

\* attr_value of a Zarr attribute: an array has as many bytes as its shape says,
\* which is what the client asks of it.
LEMMA ZarrUnderstood ==
  ASSUME NEW v, JsonValue(v), ZarrAttr(v) # << >>, NEW n
  PROVE  AttrFromProto([name |-> n, value |-> ZarrAttr(v)[1]])
<1>. DEFINE made == flatten(v)
            dtype == LeafDtype(made[1].leaves)
            len == Len(made[1].leaves) * dtype[1].size
<1>1. CASE v.kind = "text"
  <2>1. ZarrAttr(v) = <<Text(v.len)>>
    BY <1>1 DEF ZarrAttr
  <2>2. ZarrAttr(v)[1].kind = "text"
    BY <2>1 DEF Text
  <2>. QED
    BY <2>2 DEF AttrFromProto
<1>2. CASE v.kind # "text"
  <2>1. /\ made # << >> /\ Rectangular(made[1]) /\ dtype # << >> /\ ~(len > MAX_ATTR_BYTES)
        /\ ZarrAttr(v) = <<Numbers(dtype[1], made[1].shape, len)>>
    BY <1>2 DEF ZarrAttr
  <2>2. made[1].shape \in Seq(Nat) /\ Len(made[1].leaves) = Product(made[1].shape)
    BY <2>1, LeavesFillShape
  <2>3. dtype[1].size \in Nat
    BY <2>1 DEF LeafDtype
  <2>. DEFINE shape == made[1].shape
              size == dtype[1].size
              value == ZarrAttr(v)[1]
  <2>4. Product(shape) \in Nat
    BY <2>2, ProductFacts
  <2>5. value.kind = "array" /\ value.len = len /\ value.shape = shape /\ value.dtype.size = size
    BY <2>1 DEF Numbers
  <2>6. len = Product(shape) * size /\ len \in Nat
    BY <2>2, <2>3, <2>4
  <2>. HIDE DEF shape, size, value, len
  <2>7. len <= Word - 1 /\ Word - 1 \in Int
    BY <2>1, <2>6, AttrsAssumption, WordAssumption
  <2>8. NBytes(shape, size) = Min({len, Word - 1})
    BY <2>6 DEF NBytes
  <2>9. NBytes(shape, size) = len
    BY <2>6, <2>7, <2>8, MinOfTwo
  <2>. QED
    BY <2>5, <2>9 DEF AttrFromProto, value
<1>. QED
  BY <1>1, <1>2

\* attr_value of an HDF5 attribute.
LEMMA Hdf5Understood ==
  ASSUME NEW a, a.shape \in Seq(Nat), a.type.size \in Nat, Hdf5Attr(a) # << >>, NEW n
  PROVE  AttrFromProto([name |-> n, value |-> Hdf5Attr(a)[1]])
<1>. DEFINE bytes == a.type.size * Product(a.shape)
            value == Hdf5Attr(a)[1]
            size == a.type.size
            shape == a.shape
<1>1. CASE Hdf5Attr(a) = <<Text(a.len)>>
  <2>1. value.kind = "text"
    BY <1>1 DEF Text
  <2>. QED
    BY <2>1 DEF AttrFromProto
<1>2. CASE Hdf5Attr(a) # <<Text(a.len)>>
  <2>1. bytes < Word /\ Hdf5Attr(a) = <<Numbers(a.type, a.shape, bytes)>>
    BY <1>2 DEF Hdf5Attr
  <2>2. value.kind = "array" /\ value.len = bytes /\ value.shape = shape /\ value.dtype.size = size
    BY <2>1 DEF Numbers
  <2>3. Product(shape) \in Nat /\ size \in Nat
    BY ProductFacts
  <2>. HIDE DEF shape, size, value
  <2>4. bytes = Product(shape) * size /\ bytes \in Nat
    BY <2>3 DEF shape, size
  <2>. HIDE DEF bytes
  <2>5. bytes <= Word - 1 /\ Word - 1 \in Int
    BY <2>1, <2>4, WordAssumption
  <2>6. NBytes(shape, size) = Min({bytes, Word - 1})
    BY <2>4 DEF NBytes
  <2>7. NBytes(shape, size) = bytes
    BY <2>4, <2>5, <2>6, MinOfTwo
  <2>. QED
    BY <2>2, <2>7 DEF AttrFromProto, value
<1>. QED
  BY <1>1, <1>2

\* Those attributes are kept that have a value, each under its own name.
LEMMA NamedAre ==
  ASSUME NEW values, SomeSeq(values), NEW i \in DOMAIN Named(values)
  PROVE  \E n \in DOMAIN values : values[n] # << >> /\ Named(values)[i] = [name |-> n, value |-> values[n][1]]
<1>. DEFINE q == [n \in DOMAIN values |-> n]
            S == {n \in DOMAIN values : values[n] # << >>}
            names == Retain(q, S)
<1>1. q \in Seq(DOMAIN values)
  BY DEF SomeSeq
<1>. HIDE DEF q, S
<1>2. names \in Seq(DOMAIN values) /\ Range(names) = Range(q) \cap S
  BY <1>1, RetainFacts
<1>. HIDE DEF names
<1>3. Named(values) = [k \in DOMAIN names |-> [name |-> names[k], value |-> values[names[k]][1]]]
  BY DEF Named, Map, names, q, S
<1>4. i \in DOMAIN names
  BY <1>3
<1>5. names[i] \in S
  BY <1>2, <1>4, RangeFacts
<1>. QED
  BY <1>3, <1>4, <1>5 DEF S

\* item_from_proto: the client understands all that is said of an item.
LEMMA ItemsUnderstood ==
  ASSUME file \in Files, NEW p \in Range(file.names)
  PROVE  ItemFromProto(ItemAt(p))
<1>. DEFINE attrs == file.attrs[p]
            said == AttrsOf(file.format, attrs)
<1>1. /\ SomeSeq(attrs) /\ DOMAIN attrs = 1 .. Len(attrs)
      /\ \A i \in 1 .. Len(attrs) : Attribute(file.format, attrs[i])
  <2>1. attrs \in Seq(Range(attrs)) /\ \A a \in Range(attrs) : Attribute(file.format, a)
    BY StoreAssumption
  <2>. HIDE DEF attrs
  <2>2. \A i \in 1 .. Len(attrs) : attrs[i] \in Range(attrs)
    BY <2>1, RangeFacts
  <2>. QED
    BY <2>1, <2>2 DEF SomeSeq
<1>2. ItemAt(p).attrs = said
  BY DEF ItemAt
<1>. SUFFICES ASSUME NEW i \in DOMAIN said
              PROVE  AttrFromProto(said[i])
  BY <1>2 DEF ItemFromProto
<1>. HIDE DEF attrs
<1>3. CASE file.format = "zarr"
  <2>. DEFINE values == Map(attrs, ZarrAttr)
  <2>1. said = Named(values)
    BY <1>3 DEF AttrsOf, ZarrAttrs
  <2>2. DOMAIN values = 1 .. Len(attrs) /\ SomeSeq(values) /\ \A n \in 1 .. Len(attrs) : values[n] = ZarrAttr(attrs[n])
    <3>1. values = [n \in 1 .. Len(attrs) |-> ZarrAttr(attrs[n])]
      BY <1>1 DEF Map
    <3>2. Len(attrs) \in Nat
      BY <1>1 DEF SomeSeq
    <3>3. values \in Seq({ZarrAttr(attrs[n]) : n \in 1 .. Len(attrs)})
      BY <3>1, <3>2
    <3>. QED
      BY <3>1, <3>3 DEF SomeSeq
  <2>. HIDE DEF values
  <2>3. PICK n \in 1 .. Len(attrs) : values[n] # << >> /\ said[i] = [name |-> n, value |-> values[n][1]]
    BY <2>1, <2>2, NamedAre
  <2>4. JsonValue(attrs[n])
    BY <1>1, <1>3 DEF Attribute
  <2>. QED
    BY <2>2, <2>3, <2>4, ZarrUnderstood
<1>4. CASE file.format = "hdf5"
  <2>. DEFINE values == Map(attrs, Hdf5Attr)
  <2>1. said = Named(values)
    BY <1>4 DEF AttrsOf, read_attrs
  <2>2. DOMAIN values = 1 .. Len(attrs) /\ SomeSeq(values) /\ \A n \in 1 .. Len(attrs) : values[n] = Hdf5Attr(attrs[n])
    <3>1. values = [n \in 1 .. Len(attrs) |-> Hdf5Attr(attrs[n])]
      BY <1>1 DEF Map
    <3>2. Len(attrs) \in Nat
      BY <1>1 DEF SomeSeq
    <3>3. values \in Seq({Hdf5Attr(attrs[n]) : n \in 1 .. Len(attrs)})
      BY <3>1, <3>2
    <3>. QED
      BY <3>1, <3>3 DEF SomeSeq
  <2>. HIDE DEF values
  <2>3. PICK n \in 1 .. Len(attrs) : values[n] # << >> /\ said[i] = [name |-> n, value |-> values[n][1]]
    BY <2>1, <2>2, NamedAre
  <2>4. attrs[n].shape \in Seq(Nat) /\ attrs[n].type.size \in Nat
    BY <1>1, <1>4 DEF Attribute
  <2>. QED
    BY <2>2, <2>3, <2>4, Hdf5Understood
<1>5. CASE file.format \notin {"zarr", "hdf5"}
  <2>1. said = << >>
    BY <1>5 DEF AttrsOf
  <2>. QED
    BY <2>1
<1>. QED
  BY <1>3, <1>4, <1>5

---------------------------------------------------------------------------
(* An open file.                                                           *)

\* No array is opened, and nobody takes hold of one.
Apart == UNCHANGED <<file, arrays, nextKey>>

\* Opening an array leaves the keys of the others, and takes one that nobody has.
LEMMA OpenedKeeps ==
  ASSUME Keyed, NEW p, Opened(p), file' = file
  PROVE  /\ Keyed'
         /\ DOMAIN arrays' = DOMAIN arrays
         /\ \A q \in DOMAIN arrays : arrays[q] # << >> => arrays'[q] = arrays[q]
         /\ p \in DOMAIN arrays => arrays'[p] # << >>
<1>1. /\ nextKey \in Nat /\ arrays \in [DOMAIN file.nodes -> Seq(Nat)]
      /\ DOMAIN arrays = DOMAIN file.nodes
      /\ \A q \in DOMAIN arrays : arrays[q] \in Seq(Nat)
  BY DEF Keyed
<1>2. CASE Unopened(p)
  <2>1. arrays' = [arrays EXCEPT ![p] = <<nextKey>>] /\ nextKey' = nextKey + 1
    BY <1>2 DEF Opened
  <2>2. arrays[p] = << >>
    BY <1>2 DEF Unopened
  <2>3. /\ \A q \in DOMAIN arrays : q # p => arrays'[q] = arrays[q]
        /\ p \in DOMAIN arrays => arrays'[p] = <<nextKey>>
        /\ arrays' \in [DOMAIN file.nodes -> Seq(Nat)] /\ DOMAIN arrays' = DOMAIN arrays
    <3>1. <<nextKey>> \in Seq(Nat)
      BY <1>1
    <3>. QED
      BY <2>1, <1>1, <3>1
  <2>4. /\ <<nextKey>> # << >> /\ Len(<<nextKey>>) = 1 /\ <<nextKey>>[1] = nextKey
        /\ nextKey < nextKey' /\ nextKey' \in Nat
    BY <1>1, <2>1
  <2>5. \A q \in DOMAIN arrays : arrays'[q] # << >> =>
          Len(arrays'[q]) = 1 /\ arrays'[q][1] < nextKey'
    <3>. SUFFICES ASSUME NEW q \in DOMAIN arrays, arrays'[q] # << >>
                  PROVE  Len(arrays'[q]) = 1 /\ arrays'[q][1] < nextKey'
      OBVIOUS
    <3>1. CASE q = p
      BY <3>1, <2>3, <2>4
    <3>2. CASE q # p
      <4>1. arrays'[q] = arrays[q]
        BY <3>2, <2>3
      <4>2. Len(arrays[q]) = 1 /\ arrays[q][1] < nextKey
        BY <4>1 DEF Keyed
      <4>3. arrays[q][1] \in Nat
        BY <4>2, <1>1
      <4>. QED
        BY <4>1, <4>2, <4>3, <2>1, <1>1
    <3>. QED
      BY <3>1, <3>2
  <2>6. \A q \in DOMAIN arrays : q # p /\ arrays[q] # << >> => arrays[q][1] # nextKey
    <3>. SUFFICES ASSUME NEW q \in DOMAIN arrays, arrays[q] # << >>
                  PROVE  arrays[q][1] # nextKey
      OBVIOUS
    <3>1. arrays[q][1] < nextKey
      BY DEF Keyed
    <3>. QED
      BY <3>1, <1>1
  <2>7. \A q, r \in DOMAIN arrays :
          arrays'[q] # << >> /\ arrays'[r] # << >> /\ arrays'[q][1] = arrays'[r][1] => q = r
    <3>. SUFFICES ASSUME NEW q \in DOMAIN arrays, NEW r \in DOMAIN arrays, q # r,
                         arrays'[q] # << >>, arrays'[r] # << >>
                  PROVE  arrays'[q][1] # arrays'[r][1]
      OBVIOUS
    <3>1. CASE q = p
      BY <3>1, <2>3, <2>4, <2>6
    <3>2. CASE r = p
      BY <3>2, <2>3, <2>4, <2>6
    <3>3. CASE q # p /\ r # p
      BY <3>3, <2>3 DEF Keyed
    <3>. QED
      BY <3>1, <3>2, <3>3
  <2>8. Keyed'
    BY <2>3, <2>4, <2>5, <2>7 DEF Keyed
  <2>. QED
    BY <2>2, <2>3, <2>4, <2>8
<1>3. CASE ~Unopened(p)
  <2>1. arrays' = arrays /\ nextKey' = nextKey /\ arrays[p] # << >>
    BY <1>3 DEF Opened, Unopened
  <2>. QED
    BY <2>1 DEF Keyed
<1>. QED
  BY <1>2, <1>3

\* An array that is open stays open under its key, for all who hold it.
LEMMA HoldersKeep ==
  ASSUME IInv, NEW t \in Threads, handle'[t] = handle[t],
         DOMAIN arrays' = DOMAIN arrays,
         \A q \in DOMAIN arrays : arrays[q] # << >> => arrays'[q] = arrays[q]
  PROVE  Holding(t)'
BY DEF IInv, Holding

\* get_item opens the array if nobody has, and hands out the key it has now.
LEMMA GetItemKeeps ==
  ASSUME IInv, NEW t \in Threads, GetItem(t)
  PROVE  IInv'
<1>1. PICK p \in DOMAIN file.nodes :
        /\ Opened(p)
        /\ handle' = [handle EXCEPT ![t] = <<[path |-> p, key |-> arrays'[p][1]]>>]
  BY DEF GetItem
<1>2. Keyed /\ DOMAIN handle = Threads /\ file' = file /\ DOMAIN arrays = DOMAIN file.nodes
  BY DEF IInv, Keyed, GetItem
<1>3. /\ Keyed' /\ DOMAIN arrays' = DOMAIN arrays /\ arrays'[p] # << >>
      /\ \A q \in DOMAIN arrays : arrays[q] # << >> => arrays'[q] = arrays[q]
  BY <1>1, <1>2, OpenedKeeps
<1>4. /\ DOMAIN handle' = Threads /\ handle'[t] = <<[path |-> p, key |-> arrays'[p][1]]>>
      /\ \A u \in Threads \ {t} : handle'[u] = handle[u]
  BY <1>1, <1>2
<1>5. Holding(t)'
  BY <1>2, <1>3, <1>4 DEF Holding
<1>6. \A u \in Threads \ {t} : Holding(u)'
  BY <1>3, <1>4, HoldersKeep
<1>. QED
  BY <1>3, <1>4, <1>5, <1>6 DEF IInv

\* list_children opens arrays that nobody has opened, and holds none.
LEMMA ListChildKeeps ==
  ASSUME IInv, NEW t \in Threads, ListChild(t)
  PROVE  IInv'
<1>1. file' = file /\ handle' = handle /\ Keyed
  BY DEF IInv, ListChild
<1>2. (\E p : Opened(p)) \/ UNCHANGED <<arrays, nextKey>>
  BY DEF ListChild
<1>3. /\ Keyed' /\ DOMAIN arrays' = DOMAIN arrays
      /\ \A q \in DOMAIN arrays : arrays[q] # << >> => arrays'[q] = arrays[q]
  <2>1. CASE \E p : Opened(p)
    BY <2>1, <1>1, OpenedKeeps
  <2>2. CASE UNCHANGED <<arrays, nextKey>>
    BY <2>2, <1>1 DEF Keyed
  <2>. QED
    BY <1>2, <2>1, <2>2
<1>. QED
  BY <1>1, <1>3, HoldersKeep DEF IInv

\* Nothing else opens an array; a handle is kept or dropped.
LEMMA OthersKeep ==
  ASSUME IInv, Apart, DOMAIN handle' = Threads,
         \A t \in Threads : handle'[t] = handle[t] \/ handle'[t] = << >>
  PROVE  IInv'
<1>1. Keyed'
  BY DEF IInv, Apart, Keyed
<1>2. \A t \in Threads : Holding(t)'
  BY DEF IInv, Apart, Holding
<1>. QED
  BY <1>1, <1>2 DEF IInv

LEMMA StepKeeps ==
  ASSUME IInv, [Next]_vars
  PROVE  IInv'
<1>. DEFINE Lets == \A t \in Threads : handle'[t] = handle[t] \/ handle'[t] = << >>
<1>0. DOMAIN handle = Threads
  BY DEF IInv
<1>1. ASSUME NEW t \in Threads,
             \/ List(t) \/ SortNames(t) \/ Describe(t) \/ EndList(t) \/ MakeLayout(t)
             \/ Install(t) \/ Read(t) \/ ReadCached(t) \/ ReadChunked(t) \/ ReadFlat(t)
             \/ ReadNothing(t) \/ Sent(t)
      PROVE  Apart /\ handle' = handle
  BY <1>1 DEF List, SortNames, Describe, EndList, MakeLayout, Install, Read, ReadCached,
              ReadChunked, ReadFlat, ReadNothing, Sent, Apart, control
<1>2. ASSUME NEW t \in Threads, BuildUnit(t) \/ Drop(t)
      PROVE  Apart /\ (handle' = handle \/ handle' = [handle EXCEPT ![t] = << >>])
  BY <1>2 DEF BuildUnit, Drop, Apart
<1>3. ASSUME Evict \/ Truncate \/ UNCHANGED vars
      PROVE  Apart /\ handle' = handle
  BY <1>3 DEF Evict, Truncate, vars, control, Apart
<1>4. \/ \E t \in Threads : GetItem(t) \/ ListChild(t)
      \/ Apart /\ DOMAIN handle' = Threads /\ Lets
  BY <1>0, <1>1, <1>2, <1>3 DEF Next
<1>. QED
  BY <1>4, GetItemKeeps, ListChildKeeps, OthersKeep

---------------------------------------------------------------------------
(* What is listed.                                                         *)

LEMMA SameFile ==
  ASSUME file' = file, length' = length
  PROVE  Offered' = Offered /\ Uncut' = Uncut /\ SoFar' = SoFar
<1>1. Offered' = Offered
  BY DEF Offered, IsArray, Array
<1>2. Uncut' = Uncut
  BY DEF Uncut
<1>3. \A p : ItemAt(p)' = ItemAt(p)
  BY DEF ItemAt
<1>4. SoFar' = SoFar
  BY <1>3 DEF SoFar
<1>. QED
  BY <1>1, <1>2, <1>4

\* A step that leaves the file as it is, by its parts.
LEMMA ListByParts ==
  ASSUME ListInv, file' = file, length' = length,
         DOMAIN pc' = Threads,
         children' \in [Threads -> SoFar],
         Uncut => \A p \in DOMAIN arrays' : arrays'[p] # << >> => p \in Offered,
         \A t \in Threads : InList(t)'
  PROVE  ListInv'
<1>1. Offered' = Offered /\ Uncut' = Uncut /\ SoFar' = SoFar
  BY SameFile
<1>2. file' \in Files /\ Opens(file)'
  BY DEF ListInv
<1>. QED
  BY <1>1, <1>2 DEF ListInv

\* A thread whose list stays as it is.
LEMMA SameList ==
  ASSUME ListInv, file' = file, length' = length, NEW t \in Threads, children'[t] = children[t],
         \/ pc'[t] = pc[t]
         \/ pc[t] \notin {"list", "sorted"} /\ pc'[t] \notin {"list", "sorted", "listed"}
  PROVE  InList(t)'
<1>1. Offered' = Offered /\ Uncut' = Uncut
  BY SameFile
<1>2. InList(t)
  BY DEF ListInv
<1>3. (pc[t] = "list" => Looking(children[t]))' \/ ~Uncut
  BY <1>1, <1>2 DEF InList, Looking
<1>4. (pc[t] = "sorted" => children[t].found = Retain(file.names, Offered))' \/ ~Uncut
  BY <1>1, <1>2 DEF InList
<1>5. \/ (pc[t] = "listed" =>
              Map(children[t].items, LAMBDA item : item.name) = Retain(file.names, Offered))'
      \/ ~Uncut
  BY <1>1, <1>2 DEF InList, Map
<1>6. (pc[t] \notin {"list", "sorted"} => children[t].found = << >>)'
  BY <1>2 DEF InList
<1>. QED
  BY <1>1, <1>3, <1>4, <1>5, <1>6 DEF InList

\* A step of one thread, that opens nothing.
LEMMA ListOfOne ==
  ASSUME ListInv, file' = file, length' = length, arrays' = arrays, NEW t \in Threads,
         DOMAIN pc' = Threads, \A u \in Threads \ {t} : pc'[u] = pc[u],
         children' \in [Threads -> SoFar], \A u \in Threads \ {t} : children'[u] = children[u],
         InList(t)'
  PROVE  ListInv'
<1>1. \A u \in Threads : InList(u)'
  BY SameList
<1>2. Uncut => \A p \in DOMAIN arrays' : arrays'[p] # << >> => p \in Offered
  BY DEF ListInv
<1>. QED
  BY <1>1, <1>2, ListByParts

\* While nobody cuts the file, what is shown is what is offered.
LEMMA ShownIsOffered ==
  ASSUME IInv, ListInv, Uncut, NEW p \in DOMAIN file.nodes
  PROVE  Shown(p) <=> p \in Offered
<1>1. DOMAIN arrays = DOMAIN file.nodes
  BY DEF IInv, Keyed
<1>2. CASE ~IsArray(p)
  BY <1>2 DEF Shown, Offered
<1>3. CASE IsArray(p)
  <2>1. ~Unopened(p) => p \in Offered
    BY <1>1 DEF Unopened, ListInv
  <2>2. OpensWhole(file) => Served(file, Array(p), length)
    BY <1>3 DEF ListInv, Opens, IsArray, Array, Uncut
  <2>. QED
    BY <1>3, <2>1, <2>2 DEF Shown, Offered
<1>. QED
  BY <1>2, <1>3

\* An array that is opened is one that is offered.
LEMMA OpensOffered ==
  ASSUME IInv, ListInv, file' = file, NEW p \in DOMAIN file.nodes, IsArray(p), Shown(p), Opened(p)
  PROVE  Uncut => \A q \in DOMAIN arrays' : arrays'[q] # << >> => q \in Offered
<1>. SUFFICES ASSUME Uncut, NEW q \in DOMAIN arrays', arrays'[q] # << >>
              PROVE  q \in Offered
  OBVIOUS
<1>1. DOMAIN arrays' = DOMAIN arrays /\ Keyed
  BY OpenedKeeps DEF IInv
<1>2. CASE q = p
  BY <1>2, ShownIsOffered
<1>3. CASE q # p
  <2>1. arrays'[q] = arrays[q]
    BY <1>1, <1>3 DEF Opened
  <2>. QED
    BY <1>1, <2>1 DEF ListInv
<1>. QED
  BY <1>2, <1>3

LEMMA GetItemLists ==
  ASSUME IInv, ListInv, NEW t \in Threads, GetItem(t)
  PROVE  ListInv'
<1>1. PICK p \in DOMAIN file.nodes : IsArray(p) /\ Shown(p) /\ Opened(p)
  BY DEF GetItem
<1>2. file' = file /\ length' = length /\ pc' = pc /\ children' = children
  BY DEF GetItem
<1>3. Uncut => \A q \in DOMAIN arrays' : arrays'[q] # << >> => q \in Offered
  BY <1>1, <1>2, OpensOffered
<1>4. \A u \in Threads : InList(u)'
  BY <1>2, SameList
<1>5. DOMAIN pc' = Threads /\ children' \in [Threads -> SoFar]
  BY <1>2 DEF ListInv
<1>. QED
  BY <1>2, <1>3, <1>4, <1>5, ListByParts

\* list_children: nothing is found yet of what is to be looked at.
\* list_children: nothing is found yet of what is to be looked at.
LEMMA ListLists ==
  ASSUME ListInv, NEW t \in Threads, List(t)
  PROVE  ListInv'
<1>1. /\ file' = file /\ length' = length /\ arrays' = arrays
      /\ pc' = [pc EXCEPT ![t] = "list"]
      /\ children' = [children EXCEPT ![t].left = Range(file.names)]
  BY DEF List
<1>2. DOMAIN pc = Threads /\ children \in [Threads -> SoFar] /\ children[t] \in SoFar
  BY DEF ListInv
<1>3. /\ DOMAIN pc' = Threads /\ pc'[t] = "list" /\ \A u \in Threads \ {t} : pc'[u] = pc[u]
      /\ \A u \in Threads \ {t} : children'[u] = children[u]
      /\ children'[t] = [children[t] EXCEPT !.left = Range(file.names)]
  BY <1>1, <1>2
<1>4. children'[t].left = Range(file.names) /\ children'[t].found = << >> /\ children'[t] \in SoFar
  <2>1. children[t].found = << >>
    BY DEF List, ListInv, InList
  <2>. QED
    BY <2>1, <1>2, <1>3 DEF SoFar
<1>5. children' \in [Threads -> SoFar]
  BY <1>1, <1>2, <1>3, <1>4
<1>6. InList(t)'
  <2>1. Looking(children[t])'
    BY <1>1, <1>4, ShortSeqs DEF Looking
  <2>. QED
    BY <1>3, <2>1 DEF InList
<1>. QED
  BY <1>1, <1>3, <1>5, <1>6, ListOfOne

\* One child more: it is found if it is shown.
LEMMA ListChildLists ==
  ASSUME IInv, ListInv, NEW t \in Threads, ListChild(t)
  PROVE  ListInv'
<1>. DEFINE c == children[t]
<1>1. PICK p \in c.left :
        /\ IF IsArray(p) /\ Shown(p) THEN Opened(p) ELSE UNCHANGED <<arrays, nextKey>>
        /\ children' = [children EXCEPT ![t].left = GoOn(@, p),
                                        ![t].found = IF Shown(p) THEN Append(@, p) ELSE @]
  BY DEF ListChild
<1>2. file' = file /\ length' = length /\ pc' = pc /\ pc[t] = "list"
  BY DEF ListChild
<1>3. DOMAIN pc = Threads /\ children \in [Threads -> SoFar] /\ c \in SoFar /\ InList(t)
  BY DEF ListInv
<1>4. p \in Range(file.names) /\ p \in DOMAIN file.nodes
  <2>1. file.names \in Seq(DOMAIN file.nodes)
    BY StoreAssumption DEF ListInv
  <2>2. p \in Range(file.names)
    BY <1>1, <1>3 DEF SoFar
  <2>. QED
    BY <2>1, <2>2, RangeFacts
<1>5. /\ \A u \in Threads \ {t} : children'[u] = children[u]
      /\ children'[t].left = c.left \ {p}
      /\ children'[t].found = IF Shown(p) THEN Append(c.found, p) ELSE c.found
      /\ children'[t].items = c.items /\ children' \in [Threads -> SoFar]
  <2>. DEFINE y == IF Shown(p) THEN Append(c.found, p) ELSE c.found
  <2>1. y \in Seq(Range(file.names))
    <3>1. c.found \in Seq(Range(file.names))
      BY <1>3 DEF SoFar
    <3>. DEFINE z == c.found
                R == Range(file.names)
    <3>2. z \in Seq(R) /\ p \in R
      BY <1>4, <3>1
    <3>. HIDE DEF z, R
    <3>3. Append(z, p) \in Seq(R)
      BY <3>2
    <3>. QED
      BY <3>2, <3>3 DEF z, R
  <2>2. children' = [children EXCEPT ![t] = [c EXCEPT !.left = c.left \ {p}, !.found = y]]
    BY <1>1, <1>3 DEF GoOn
  <2>. HIDE DEF y
  <2>3. /\ children'[t] = [c EXCEPT !.left = c.left \ {p}, !.found = y]
        /\ \A u \in Threads \ {t} : children'[u] = children[u]
    BY <2>2, <1>3
  <2>4. /\ children'[t].left = c.left \ {p} /\ children'[t].found = y /\ children'[t].items = c.items
        /\ children'[t] \in SoFar
    BY <2>1, <2>3, <1>3 DEF SoFar
  <2>5. children' \in [Threads -> SoFar]
    BY <2>2, <2>3, <2>4, <1>3
  <2>. QED
    BY <2>3, <2>4, <2>5 DEF y
<1>6. Uncut => \A q \in DOMAIN arrays' : arrays'[q] # << >> => q \in Offered
  <2>1. CASE IsArray(p) /\ Shown(p)
    BY <2>1, <1>1, <1>2, <1>4, OpensOffered
  <2>2. CASE ~(IsArray(p) /\ Shown(p))
    BY <2>2, <1>1 DEF ListInv
  <2>. QED
    BY <2>1, <2>2
<1>7. InList(t)'
  <2>1. ASSUME Uncut
        PROVE  Looking(children[t])'
    <3>1. Offered' = Offered
      BY <1>2, SameFile
    <3>2. Looking(c)
      BY <1>2, <1>3, <2>1 DEF InList
    <3>3. Shown(p) <=> p \in Offered
      BY <1>4, <2>1, ShownIsOffered
    <3>4. p \notin Range(c.found)
      BY <1>1, <1>4, <3>2 DEF Looking
    <3>5. Range(children'[t].found) = IF Shown(p) THEN Range(c.found) \cup {p} ELSE Range(c.found)
      <4>1. c.found \in Seq(Range(file.names))
        BY <1>3 DEF SoFar
      <4>2. Range(Append(c.found, p)) = Range(c.found) \cup {p}
        BY <1>4, <4>1, AppendRange
      <4>. HIDE DEF c
      <4>3. children'[t].found = IF Shown(p) THEN Append(c.found, p) ELSE c.found
        BY <1>5
      <4>. QED
        BY <4>2, <4>3
    <3>6. \A q \in Range(file.names) :
            q \in Range(children'[t].found) <=> q \in Offered \ children'[t].left
      <4>. TAKE q \in Range(file.names)
      <4>1. q \in Range(c.found) <=> q \in Offered \ c.left
        BY <3>2 DEF Looking
      <4>2. CASE q = p
        BY <4>2, <3>3, <3>4, <3>5, <1>5
      <4>3. CASE q # p
        BY <4>1, <4>3, <3>5, <1>5
      <4>. QED
        BY <4>2, <4>3
    <3>. QED
      BY <3>1, <3>6, <1>2 DEF Looking
  <2>2. Uncut' = Uncut
    BY <1>2, SameFile
  <2>. QED
    BY <1>2, <2>1, <2>2 DEF InList
<1>8. \A u \in Threads : InList(u)'
  BY <1>2, <1>5, <1>7, SameList
<1>. QED
  BY <1>2, <1>3, <1>5, <1>6, <1>8, ListByParts

\* The names are put in order.
LEMMA SortNamesLists ==
  ASSUME ListInv, NEW t \in Threads, SortNames(t)
  PROVE  ListInv'
<1>. DEFINE c == children[t]
            sorted == Retain(file.names, Range(c.found))
<1>1. /\ file' = file /\ length' = length /\ arrays' = arrays
      /\ pc[t] = "list" /\ c.left = {} /\ pc' = [pc EXCEPT ![t] = "sorted"]
      /\ children' = [children EXCEPT ![t].found = Retain(file.names, Range(@))]
  BY DEF SortNames
<1>2. DOMAIN pc = Threads /\ children \in [Threads -> SoFar] /\ c \in SoFar /\ InList(t)
  BY DEF ListInv
<1>3. file.names \in Seq(Range(file.names))
  <2>1. file.names \in Seq(DOMAIN file.nodes)
    BY StoreAssumption DEF ListInv
  <2>. DEFINE q == file.names
  <2>2. \A i \in 1 .. Len(q) : q[i] \in Range(q)
    BY <2>1, RangeFacts
  <2>. HIDE DEF q
  <2>3. q \in Seq(Range(q))
    BY <2>1, <2>2 DEF q
  <2>. QED
    BY <2>3 DEF q
<1>4. sorted \in Seq(Range(file.names))
  BY <1>3, RetainFacts
<1>5. /\ DOMAIN pc' = Threads /\ pc'[t] = "sorted" /\ \A u \in Threads \ {t} : pc'[u] = pc[u]
      /\ \A u \in Threads \ {t} : children'[u] = children[u]
      /\ children'[t].found = sorted /\ children' \in [Threads -> SoFar]
  <2>2. children' = [children EXCEPT ![t] = [c EXCEPT !.found = sorted]]
    BY <1>1, <1>2
  <2>. HIDE DEF sorted
  <2>3. /\ children'[t] = [c EXCEPT !.found = sorted]
        /\ \A u \in Threads \ {t} : children'[u] = children[u]
    BY <2>2, <1>2
  <2>4. children'[t].found = sorted /\ children'[t] \in SoFar
    BY <1>4, <2>3, <1>2 DEF SoFar
  <2>5. children' \in [Threads -> SoFar]
    BY <2>2, <2>3, <2>4, <1>2
  <2>. QED
    BY <2>3, <2>4, <2>5, <1>1, <1>2
<1>6. InList(t)'
  <2>1. Offered' = Offered /\ Uncut' = Uncut
    BY <1>1, SameFile
  <2>2. ASSUME Uncut
        PROVE  sorted = Retain(file.names, Offered)
    <3>1. Looking(c)
      BY <1>1, <1>2, <2>2 DEF InList
    <3>2. \A i \in 1 .. Len(file.names) : file.names[i] \in Range(c.found) <=> file.names[i] \in Offered
      <4>1. \A i \in 1 .. Len(file.names) : file.names[i] \in Range(file.names)
        BY <1>3, RangeFacts
      <4>. QED
        BY <1>1, <3>1, <4>1 DEF Looking
    <3>. QED
      BY <1>3, <3>2, RetainSame
  <2>. HIDE DEF sorted
  <2>3. Uncut => children'[t].found = Retain(file.names, Offered)
    BY <1>5, <2>2
  <2>. QED
    BY <1>1, <1>5, <2>1, <2>3 DEF InList
<1>. QED
  BY <1>1, <1>5, <1>6, ListOfOne

\* Each child is described, or the call fails.
LEMMA DescribeLists ==
  ASSUME ListInv, NEW t \in Threads, Describe(t)
  PROVE  ListInv'
<1>. DEFINE c == children[t]
            Said(p) == ItemToProto(p, file.nodes[p], AttrsOf(file.format, file.attrs[p]))
            said == Map(c.found, Said)
            items == IF << >> \in Range(said) THEN << >> ELSE FlattenSeq(said)
            X == {ItemAt(p) : p \in Range(file.names)}
            n == Len(c.found)
            g == [i \in 1 .. n |-> ItemAt(c.found[i])]
<1>1. /\ file' = file /\ length' = length /\ arrays' = arrays /\ pc[t] = "sorted"
      /\ pc' = [pc EXCEPT ![t] = IF << >> \in Range(said) THEN "idle" ELSE "listed"]
      /\ children' = [children EXCEPT ![t].found = << >>, ![t].items = items]
  BY DEF Describe, Map
<1>2. DOMAIN pc = Threads /\ children \in [Threads -> SoFar] /\ c \in SoFar /\ InList(t)
  BY DEF ListInv
<1>3. c.found \in Seq(Range(file.names)) /\ n \in Nat
  BY <1>2 DEF SoFar
<1>4. said = [i \in 1 .. n |-> Said(c.found[i])]
  BY <1>3 DEF Map
<1>5. \A p : Said(p) \in {<< >>, <<ItemAt(p)>>}
  BY DEF ItemToProto, ItemAt
<1>6. \A i \in 1 .. n : ItemAt(c.found[i]) \in X
  BY <1>3
<1>. HIDE DEF Said, X, said
<1>7. ASSUME << >> \notin Range(said)
      PROVE  FlattenSeq(said) = g
  <2>1. \A i \in 1 .. n : said[i] = <<ItemAt(c.found[i])>>
    <3>1. \A i \in 1 .. n : said[i] # << >>
      BY <1>4, <1>7 DEF Range
    <3>. QED
      BY <1>4, <1>5, <3>1
  <2>2. \A i \in 1 .. n : said[i] = <<g[i]>> /\ g[i] \in X
    BY <1>6, <2>1
  <2>3. g \in [1 .. n -> X]
    BY <1>6
  <2>4. said \in [1 .. n -> Seq(X)]
    <3>1. \A i \in 1 .. n : said[i] \in Seq(X)
      <4>. TAKE i \in 1 .. n
      <4>1. said[i] = <<g[i]>> /\ g[i] \in X
        BY <2>2
      <4>. HIDE DEF g
      <4>. QED
        BY <4>1
    <3>. QED
      BY <1>4, <3>1
  <2>5. n \in Nat /\ Ones(said, g, n)
    BY <1>3, <2>2 DEF Ones
  <2>. HIDE DEF g, n
  <2>. QED
    BY <2>3, <2>4, <2>5, FlattenOnes
<1>8. g \in Seq(X) /\ DOMAIN g = 1 .. n
  BY <1>3, <1>6
<1>9. Map(g, LAMBDA item : item.name) = c.found
  <2>1. Map(g, LAMBDA item : item.name) = [i \in 1 .. n |-> g[i].name]
    BY <1>8 DEF Map
  <2>2. \A i \in 1 .. n : g[i].name = c.found[i]
    BY DEF ItemAt
  <2>3. [i \in 1 .. n |-> c.found[i]] = c.found
    BY <1>3
  <2>. QED
    BY <2>1, <2>2, <2>3
<1>. HIDE DEF g, n
<1>10. items \in Seq(X)
  BY <1>7, <1>8
<1>. HIDE DEF items
<1>11. /\ children'[t] = [c EXCEPT !.found = << >>, !.items = items]
       /\ \A u \in Threads \ {t} : children'[u] = children[u]
  BY <1>1, <1>2
<1>12. children'[t].found = << >> /\ children'[t].items = items /\ children'[t] \in SoFar
  <2>1. << >> \in Seq(Range(file.names))
    OBVIOUS
  <2>. QED
    BY <1>2, <1>10, <1>11, <2>1 DEF SoFar, X
<1>13. children' \in [Threads -> SoFar]
  BY <1>1, <1>2, <1>11, <1>12
<1>14. /\ DOMAIN pc' = Threads /\ \A u \in Threads \ {t} : pc'[u] = pc[u]
       /\ pc'[t] = IF << >> \in Range(said) THEN "idle" ELSE "listed"
  BY <1>1, <1>2
<1>15. InList(t)'
  <2>1. Offered' = Offered /\ Uncut' = Uncut
    BY <1>1, SameFile
  <2>2. ASSUME Uncut, pc'[t] = "listed"
        PROVE  (Map(children[t].items, LAMBDA item : item.name) = Retain(file.names, Offered))'
    <3>1. items = g
      BY <1>7, <1>14, <2>2 DEF items
    <3>2. c.found = Retain(file.names, Offered)
      BY <1>1, <1>2, <2>2 DEF InList
    <3>3. Map(items, LAMBDA item : item.name) = c.found
      BY <1>9, <3>1
    <3>4. Map(children'[t].items, LAMBDA item : item.name) = Map(items, LAMBDA item : item.name)
      BY <1>12 DEF Map
    <3>5. Map(children'[t].items, LAMBDA item : item.name) = Retain(file.names, Offered)
      BY <3>2, <3>3, <3>4
    <3>. QED
      BY <2>1, <3>5, <1>1 DEF Map
  <2>3. pc'[t] \notin {"list", "sorted"}
    BY <1>14
  <2>. QED
    BY <1>12, <2>1, <2>2, <2>3 DEF InList
<1>. QED
  BY <1>1, <1>11, <1>13, <1>14, <1>15, ListOfOne

\* The listing is sent.
LEMMA EndListLists ==
  ASSUME ListInv, NEW t \in Threads, EndList(t)
  PROVE  ListInv'
<1>. DEFINE c == children[t]
<1>1. /\ file' = file /\ length' = length /\ arrays' = arrays /\ pc[t] = "listed"
      /\ pc' = [pc EXCEPT ![t] = "idle"] /\ children' = [children EXCEPT ![t].items = << >>]
  BY DEF EndList
<1>2. DOMAIN pc = Threads /\ children \in [Threads -> SoFar] /\ c \in SoFar /\ InList(t)
  BY DEF ListInv
<1>3. /\ children'[t] = [c EXCEPT !.items = << >>]
      /\ \A u \in Threads \ {t} : children'[u] = children[u]
  BY <1>1, <1>2
<1>4. children'[t].found = << >> /\ children'[t] \in SoFar
  <2>1. << >> \in Seq({ItemAt(p) : p \in Range(file.names)}) /\ c.found = << >>
    BY <1>1, <1>2 DEF InList
  <2>. QED
    BY <1>2, <1>3, <2>1 DEF SoFar
<1>5. children' \in [Threads -> SoFar]
  BY <1>1, <1>2, <1>3, <1>4
<1>6. DOMAIN pc' = Threads /\ pc'[t] = "idle" /\ \A u \in Threads \ {t} : pc'[u] = pc[u]
  BY <1>1, <1>2
<1>7. InList(t)'
  BY <1>4, <1>6 DEF InList
<1>. QED
  BY <1>1, <1>3, <1>5, <1>6, <1>7, ListOfOne

\* Nothing else has to do with a listing.
LEMMA OthersList ==
  ASSUME ListInv, file' = file, length' = length, arrays' = arrays, children' = children,
         DOMAIN pc' = Threads,
         \A t \in Threads : \/ pc'[t] = pc[t]
                            \/ pc[t] \notin {"list", "sorted"} /\ pc'[t] \notin {"list", "sorted", "listed"}
  PROVE  ListInv'
<1>1. \A t \in Threads : InList(t)'
  BY SameList
<1>2. Uncut => \A p \in DOMAIN arrays' : arrays'[p] # << >> => p \in Offered
  BY DEF ListInv
<1>3. children' \in [Threads -> SoFar]
  BY DEF ListInv
<1>. QED
  BY <1>1, <1>2, <1>3, ListByParts

\* Once the file is cut, it is never again what it was.
LEMMA TruncateLists ==
  ASSUME ListInv, Truncate
  PROVE  ListInv'
<1>1. file' = file /\ arrays' = arrays /\ pc' = pc /\ children' = children
  BY DEF Truncate, control
<1>2. ~Uncut'
  <2>1. file.length \in Nat
    BY StoreAssumption DEF ListInv
  <2>. QED
    BY <1>1, <2>1 DEF Truncate, Uncut
<1>3. \A p : ItemAt(p)' = ItemAt(p)
  BY <1>1 DEF ItemAt
<1>4. SoFar' = SoFar
  BY <1>1, <1>3 DEF SoFar
<1>5. \A t \in Threads : InList(t)'
  <2>. TAKE t \in Threads
  <2>1. InList(t)
    BY DEF ListInv
  <2>2. (pc[t] \notin {"list", "sorted"} => children[t].found = << >>)'
    BY <1>1, <2>1 DEF InList
  <2>. QED
    BY <1>2, <2>2 DEF InList
<1>6. file' \in Files /\ Opens(file)'
  BY <1>1 DEF ListInv
<1>. QED
  BY <1>1, <1>2, <1>4, <1>5, <1>6 DEF ListInv

LEMMA StepLists ==
  ASSUME IInv, ListInv, [Next]_vars
  PROVE  ListInv'
<1>. DEFINE Off(t) == \/ pc'[t] = pc[t]
                      \/ pc[t] \notin {"list", "sorted"} /\ pc'[t] \notin {"list", "sorted", "listed"}
            Rest == UNCHANGED <<file, length, arrays, children>>
<1>0. DOMAIN pc = Threads
  BY DEF ListInv
<1>1. ASSUME NEW t \in Threads, Describe(t) \/ EndList(t) \/ List(t) \/ SortNames(t) \/ ListChild(t) \/ GetItem(t)
      PROVE  ListInv'
  BY <1>1, DescribeLists, EndListLists, ListLists, SortNamesLists, ListChildLists, GetItemLists
<1>2. ASSUME NEW t \in Threads, BuildUnit(t) \/ Drop(t) \/ MakeLayout(t) \/ Install(t) \/ Read(t) \/ Sent(t)
      PROVE  Rest /\ DOMAIN pc' = Threads /\ \A u \in Threads : Off(u)
  <2>1. Rest /\ pc[t] \notin {"list", "sorted"}
    BY <1>2 DEF BuildUnit, Drop, MakeLayout, Install, Read, Sent, control
  <2>2. \/ pc' = pc
        \/ \E x \in {"idle", "build", "ready", "read"} : pc' = [pc EXCEPT ![t] = x]
    BY <1>2 DEF BuildUnit, Drop, MakeLayout, Install, Read, Sent
  <2>. QED
    BY <1>0, <2>1, <2>2
<1>3. ASSUME NEW t \in Threads, ReadCached(t) \/ ReadChunked(t) \/ ReadFlat(t) \/ ReadNothing(t)
      PROVE  Rest /\ DOMAIN pc' = Threads /\ \A u \in Threads : Off(u)
  <2>1. Rest /\ pc[t] = "read"
    BY <1>3 DEF ReadCached, ReadChunked, ReadFlat, ReadNothing, control
  <2>2. pc' = pc \/ pc' = [pc EXCEPT ![t] = "ready"]
    BY <1>3 DEF ReadCached, ReadChunked, ReadFlat, ReadNothing, Took, Failed
  <2>. QED
    BY <1>0, <2>1, <2>2
<1>4. ASSUME Evict \/ UNCHANGED vars
      PROVE  Rest /\ DOMAIN pc' = Threads /\ \A u \in Threads : Off(u)
  BY <1>0, <1>4 DEF Evict, vars, control
<1>5. ASSUME Rest, DOMAIN pc' = Threads, \A u \in Threads : Off(u)
      PROVE  ListInv'
  BY <1>5, OthersList
<1>6. \/ \E t \in Threads :
           \/ Describe(t) \/ EndList(t) \/ List(t) \/ SortNames(t) \/ ListChild(t) \/ GetItem(t)
           \/ BuildUnit(t) \/ Drop(t) \/ MakeLayout(t) \/ Install(t) \/ Read(t) \/ Sent(t)
           \/ ReadCached(t) \/ ReadChunked(t) \/ ReadFlat(t) \/ ReadNothing(t)
      \/ Evict \/ Truncate \/ UNCHANGED vars
  BY DEF Next
<1>. HIDE DEF Rest, Off
<1>. QED
  BY <1>1, <1>2, <1>3, <1>4, <1>5, <1>6, TruncateLists

---------------------------------------------------------------------------

\* ZarrFile::array and Hdf5File::dataset: in any file, however many threads look
\* up, list and drop arrays at once, all who hold an array have one cache key for
\* it, and no two arrays have the same: chunks are shared, and never mixed up.
THEOREM KeysStayApart == Spec => []OneKeyPerArray
<1>1. Init => IInv
  <2>. SUFFICES ASSUME Init
                PROVE  IInv
    OBVIOUS
  <2>1. << >> \in Seq(Nat)
    OBVIOUS
  <2>2. /\ nextKey = 0 /\ arrays = [p \in DOMAIN file.nodes |-> << >>]
        /\ handle = [t \in Threads |-> << >>]
    BY DEF Init
  <2>. QED
    BY <2>1, <2>2 DEF IInv, Keyed, Holding
<1>2. IInv => OneKeyPerArray
  <2>. SUFFICES ASSUME IInv, NEW t \in Threads, NEW u \in Threads,
                       handle[t] # << >>, handle[u] # << >>
                PROVE  handle[t][1].path = handle[u][1].path <=> handle[t][1].key = handle[u][1].key
    BY DEF OneKeyPerArray
  <2>. QED
    BY DEF IInv, Keyed, Holding
<1>. QED
  BY <1>1, <1>2, StepKeeps, PTL DEF Spec

\* list_children: of any store, however attributes nest and whatever other threads
\* do, a listing names all that is served and nothing else, in order, and the
\* client makes sense of all of it.
THEOREM ChildrenAreListed == Spec => []ListsServed
<1>1. Init => IInv /\ ListInv
  <2>. SUFFICES ASSUME Init
                PROVE  IInv /\ ListInv
    OBVIOUS
  <2>1. << >> \in Seq(Nat)
    OBVIOUS
  <2>2. /\ file \in Files /\ Opens(file) /\ nextKey = 0
        /\ arrays = [p \in DOMAIN file.nodes |-> << >>]
        /\ handle = [t \in Threads |-> << >>] /\ pc = [t \in Threads |-> "idle"]
        /\ children = [t \in Threads |-> [left |-> {}, found |-> << >>, items |-> << >>]]
    BY DEF Init
  <2>3. IInv
    BY <2>1, <2>2 DEF IInv, Keyed, Holding
  <2>4. [left |-> {}, found |-> << >>, items |-> << >>] \in SoFar
    BY DEF SoFar
  <2>5. \A t \in Threads : InList(t)
    BY <2>2 DEF InList
  <2>. QED
    BY <2>2, <2>3, <2>4, <2>5 DEF ListInv
<1>2. IInv /\ ListInv => ListsServed
  <2>. SUFFICES ASSUME ListInv, NEW t \in Threads, pc[t] = "listed"
                PROVE  /\ length = file.length =>
                            Map(children[t].items, LAMBDA item : item.name) =
                              Retain(file.names, {p \in DOMAIN file.nodes :
                                file.nodes[p].kind = "group" \/ (IsArray(p) /\ Served(file, Array(p), length))})
                       /\ \A i \in DOMAIN children[t].items : ItemFromProto(children[t].items[i])
    BY DEF ListsServed
  <2>1. length = file.length =>
          Map(children[t].items, LAMBDA item : item.name) = Retain(file.names, Offered)
    BY DEF ListInv, InList, Uncut
  <2>2. ASSUME NEW i \in DOMAIN children[t].items
        PROVE  ItemFromProto(children[t].items[i])
    <3>1. children[t].items \in Seq({ItemAt(p) : p \in Range(file.names)})
      BY DEF ListInv, SoFar
    <3>2. children[t].items[i] \in {ItemAt(p) : p \in Range(file.names)}
      BY <3>1, <2>2
    <3>3. PICK p \in Range(file.names) : children[t].items[i] = ItemAt(p)
      BY <3>2
    <3>. QED
      BY <3>3, ItemsUnderstood DEF ListInv
  <2>. QED
    BY <2>1, <2>2 DEF Offered
<1>. QED
  BY <1>1, <1>2, StepKeeps, StepLists, PTL DEF Spec
=============================================================================
