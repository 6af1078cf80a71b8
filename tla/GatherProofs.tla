---------------------------- MODULE GatherProofs ----------------------------
(***************************************************************************)
(* Proofs about selections and the reads of them, for every array and      *)
(* every selection: an index is resolved against its own axis, the         *)
(* dimensions of a layout add up to elements of the array, and so do the   *)
(* stretches and spans of every range.                                     *)
(***************************************************************************)
EXTENDS Gather, SeqFacts, FiniteSetTheorems

---------------------------------------------------------------------------
(* One index against one axis.                                             *)

\* What an axis may contribute.
Sel ==
  [kind : {"Point"}, start : Nat, len : {1}]
    \cup [kind : {"Range"}, start : Nat, len : Nat, step : Int]
    \cup [kind : {"Fancy"}, start : Nat, len : Nat, list : Seq(Nat)]
    \cup {Bad}

\* It takes indices of the axis and no others.
Fits(sel, dim) ==
  /\ sel \in Sel /\ sel # Bad
  /\ sel.len > 0 => sel.start < dim
  /\ sel.kind = "Range" => sel.step # 0
  /\ sel.kind = "Range" /\ sel.len > 0 => sel.start + (sel.len - 1) * sel.step \in 0 .. dim - 1
  /\ sel.kind = "Fancy" => Len(sel.list) = sel.len /\ \A i \in 1 .. sel.len : sel.list[i] < dim
  /\ sel.kind = "Fancy" /\ sel.len = 1 => sel.start = sel.list[1]

LEMMA ClampIs ==
  ASSUME NEW n \in Int, NEW lower \in Int, NEW upper \in Int, lower <= upper
  PROVE  Clamp(n, lower, upper) \in lower .. upper
<1>1. Min({n, upper}) = IF n <= upper THEN n ELSE upper
  BY MinOfTwo
<1>. DEFINE m == Min({n, upper})
<1>2. m \in Int /\ m <= upper
  BY <1>1
<1>. HIDE DEF m
<1>3. Max({lower, m}) = IF lower >= m THEN lower ELSE m
  BY <1>2, MaxOfTwo
<1>. QED
  BY <1>2, <1>3 DEF Clamp, m

\* As many steps as fit into a distance stay within it.
LEMMA StepsWithin ==
  ASSUME NEW d \in Nat \ {0}, NEW size \in Nat \ {0}
  PROVE  /\ 1 + (d - 1) \div size \in Nat \ {0}
         /\ ((d - 1) \div size) * size \in 0 .. d - 1
<1>. DEFINE n == d - 1
<1>1. n \in Nat
  OBVIOUS
<1>. HIDE DEF n
<1>2. n \div size \in Nat /\ (n \div size) * size <= n
  BY <1>1, Division
<1>. DEFINE q == n \div size
<1>. HIDE DEF q
<1>3. q \in Nat /\ q * size <= n /\ q * size \in Nat /\ 1 + q \in Nat \ {0}
  BY <1>2 DEF q
<1>. QED
  BY <1>3 DEF q, n

LEMMA RangeFits ==
  ASSUME NEW dim \in Nat, NEW start \in Nat, NEW len \in Nat, NEW step \in Int \ {0},
         len > 0 => start < dim /\ start + (len - 1) * step \in 0 .. dim - 1
  PROVE  Fits(Strided(start, len, step), dim)
<1>. DEFINE s == Strided(start, len, step)
<1>1. s.kind = "Range" /\ s.start = start /\ s.len = len /\ s.step = step /\ s \in Sel
  BY DEF Strided, Sel
<1>2. s # Bad
  BY <1>1 DEF Bad
<1>. HIDE DEF s
<1>3. Fits(s, dim)
  BY <1>1, <1>2 DEF Fits
<1>. QED
  BY <1>3 DEF s

LEMMA SliceFits ==
  ASSUME NEW ix, ix.start \in Seq(Int), ix.stop \in Seq(Int), ix.step \in Seq(Int), NEW dim \in Nat,
         ResolveSlice(ix, dim) # Bad
  PROVE  Fits(ResolveSlice(ix, dim), dim)
<1>. DEFINE step == IF ix.step = << >> THEN 1 ELSE ix.step[1]
            lower == IF step > 0 THEN 0 ELSE -1
            upper == IF step > 0 THEN dim ELSE dim - 1
            Bound(b, default) == IF b = << >> THEN default ELSE Clamp(Folded(b[1], dim), lower, upper)
            start == Bound(ix.start, IF step > 0 THEN 0 ELSE dim - 1)
            stop == Bound(ix.stop, IF step > 0 THEN dim ELSE -1)
            distance == IF step > 0 THEN stop - start ELSE start - stop
            size == IF step > 0 THEN step ELSE -step
<1>1. step \in Int
  <2>1. ix.step # << >> => ix.step[1] \in Int
    OBVIOUS
  <2>. QED
    BY <2>1
<1>2. /\ step # 0
      /\ ResolveSlice(ix, dim) = IF distance <= 0 THEN Strided(0, 0, step)
                                    ELSE Strided(start, 1 + (distance - 1) \div size, step)
  BY DEF ResolveSlice
<1>. HIDE DEF step
<1>3. lower \in Int /\ upper \in Int /\ lower <= upper
  BY <1>1
<1>4. ASSUME NEW b \in Seq(Int), NEW default \in lower .. upper
      PROVE  Bound(b, default) \in lower .. upper
  <2>1. CASE b # << >>
    <3>1. Folded(b[1], dim) \in Int
      BY <2>1 DEF Folded
    <3>2. Clamp(Folded(b[1], dim), lower, upper) \in lower .. upper
      <4>. HIDE DEF lower, upper
      <4>. QED
        BY <1>3, <3>1, ClampIs
    <3>. QED
      BY <2>1, <3>2
  <2>. QED
    BY <2>1
<1>5. start \in lower .. upper /\ stop \in lower .. upper
  <2>1. /\ (IF step > 0 THEN 0 ELSE dim - 1) \in lower .. upper
        /\ (IF step > 0 THEN dim ELSE -1) \in lower .. upper
    BY <1>1, <1>2
  <2>. HIDE DEF Bound, lower, upper
  <2>. QED
    BY <1>4, <2>1
<1>. HIDE DEF start, stop
<1>6. distance \in Int /\ size \in Nat \ {0}
  BY <1>1, <1>2, <1>3, <1>5
<1>7. CASE distance <= 0
  BY <1>1, <1>2, <1>7, RangeFits
<1>8. CASE distance > 0
  <2>. DEFINE q == (distance - 1) \div size
  <2>1. distance \in Nat \ {0}
    BY <1>6, <1>8
  <2>2. 1 + q \in Nat \ {0} /\ q * size \in 0 .. distance - 1
    <3>. HIDE DEF distance, size
    <3>. QED
      BY <1>6, <2>1, StepsWithin
  <2>3. q \in Int
    <3>. HIDE DEF distance, size
    <3>. QED
      BY <1>6, <2>1
  <2>. HIDE DEF q
  <2>4. start \in Nat /\ start < dim
    BY <1>1, <1>5, <1>8
  <2>5. start + q * step \in 0 .. dim - 1
    <3>1. CASE step > 0
      <4>1. q * step \in 0 .. stop - start - 1
        BY <2>2, <3>1
      <4>2. start \in Int /\ stop \in Int /\ 0 <= start /\ stop <= dim /\ q * step \in Int
        BY <1>5, <3>1, <4>1
      <4>. QED
        BY <4>1, <4>2
    <3>2. CASE step < 0
      <4>1. q * (-step) \in 0 .. start - stop - 1
        BY <1>1, <2>2, <3>2
      <4>2. q * step = -(q * (-step)) /\ q * (-step) \in Int
        BY <1>1, <2>3
      <4>3. start \in Int /\ stop \in Int /\ start <= dim - 1 /\ stop >= -1
        BY <1>1, <1>5, <3>2
      <4>. DEFINE y == q * (-step)
      <4>4. start - y \in 0 .. dim - 1
        <5>. HIDE DEF y
        <5>1. y \in 0 .. start - stop - 1
          BY <4>1 DEF y
        <5>. QED
          BY <4>3, <5>1
      <4>. QED
        BY <4>2, <4>3, <4>4
    <3>. QED
      BY <1>1, <1>2, <3>1, <3>2
  <2>6. (1 + q) - 1 = q
    BY <2>3
  <2>7. Fits(Strided(start, 1 + q, step), dim)
    BY <1>1, <1>2, <2>2, <2>4, <2>5, <2>6, RangeFits
  <2>8. ~(distance <= 0)
    BY <1>6, <1>8
  <2>9. ResolveSlice(ix, dim) = Strided(start, 1 + q, step)
    <3>. HIDE DEF distance, size
    <3>. QED
      BY <1>2, <2>8 DEF q
  <2>. QED
    BY <2>7, <2>9
<1>. QED
  BY <1>6, <1>7, <1>8

\* An index is refused, or takes what is on the axis.
LEMMA AxisFits ==
  ASSUME NEW ix \in Index, Consumes(ix), NEW dim \in Nat, ResolveAxis(ix, dim) # Bad
  PROVE  /\ Fits(ResolveAxis(ix, dim), dim)
         /\ ix.kind = "Single" <=> ResolveAxis(ix, dim).kind = "Point"
         /\ ix.kind = "Fancy" <=> ResolveAxis(ix, dim).kind = "Fancy"
<1>1. ~(2 * dim >= Word)
  BY DEF ResolveAxis
<1>2. \/ ix.kind = "Single" /\ ix.i \in Int
      \/ ix.kind = "Slice" /\ ix.start \in Seq(Int) /\ ix.stop \in Seq(Int) /\ ix.step \in Seq(Int)
      \/ ix.kind = "Fancy" /\ ix.list \in Seq(Int)
  BY DEF Index, Consumes, Ellipsis, NewAxis
<1>3. CASE ix.kind = "Single"
  <2>1. ResolveAxis(ix, dim) = IF InBounds(ix.i, dim) THEN Point(Folded(ix.i, dim)) ELSE Bad
    BY <1>1, <1>3 DEF ResolveAxis
  <2>2. InBounds(ix.i, dim)
    BY <2>1
  <2>. DEFINE n == Folded(ix.i, dim)
  <2>3. n \in Nat /\ n < dim
    BY <2>2 DEF InBounds
  <2>. HIDE DEF n
  <2>4. Point(n).kind = "Point" /\ Point(n).start = n /\ Point(n).len = 1 /\ Point(n) \in Sel /\ Point(n) # Bad
    BY <2>3 DEF Point, Sel, Bad
  <2>5. Fits(Point(n), dim)
    BY <2>3, <2>4 DEF Fits
  <2>. QED
    BY <1>3, <2>1, <2>2, <2>4, <2>5 DEF n
<1>4. CASE ix.kind = "Fancy"
  <2>. DEFINE l == Map(ix.list, LAMBDA i : Folded(i, dim))
  <2>1. (\A i \in DOMAIN ix.list : InBounds(ix.list[i], dim)) /\ ResolveAxis(ix, dim) = Listed(l)
    BY <1>1, <1>4 DEF ResolveAxis
  <2>2. l \in Seq(Nat) /\ \A i \in 1 .. Len(l) : l[i] < dim
    <3>1. ix.list \in Seq(Int)
      BY <1>2, <1>4
    <3>2. \A i \in 1 .. Len(ix.list) : Folded(ix.list[i], dim) \in Nat /\ Folded(ix.list[i], dim) < dim
      BY <2>1, <3>1 DEF InBounds
    <3>3. l = [i \in 1 .. Len(ix.list) |-> Folded(ix.list[i], dim)]
      BY <3>1 DEF Map
    <3>. DEFINE n == Len(ix.list)
    <3>4. n \in Nat
      BY <3>1
    <3>. HIDE DEF n, l
    <3>5. l \in [1 .. n -> Nat] /\ \A i \in 1 .. n : l[i] < dim
      BY <3>2, <3>3 DEF n
    <3>. QED
      BY <3>4, <3>5
  <2>. HIDE DEF l
  <2>. DEFINE s == Listed(l)
  <2>3. /\ s.kind = "Fancy" /\ s.start = (IF l = << >> THEN 0 ELSE l[1])
        /\ s.len = Len(l) /\ s.list = l
        /\ s = [kind |-> "Fancy", start |-> s.start, len |-> s.len, list |-> s.list]
    BY DEF Listed
  <2>4. Len(l) \in Nat /\ (Len(l) > 0 => l[1] < dim /\ 1 \in 1 .. Len(l) /\ l # << >>) /\ s.start \in Nat
    BY <2>2, <2>3
  <2>. HIDE DEF s
  <2>5. s \in Sel /\ s # Bad
    BY <2>2, <2>3, <2>4 DEF Sel, Bad
  <2>6. Fits(s, dim)
    BY <2>2, <2>3, <2>4, <2>5 DEF Fits
  <2>. QED
    BY <1>4, <2>1, <2>3, <2>6 DEF s
<1>5. CASE ix.kind = "Slice"
  <2>1. ResolveAxis(ix, dim) = ResolveSlice(ix, dim)
    BY <1>1, <1>5 DEF ResolveAxis
  <2>2. Fits(ResolveSlice(ix, dim), dim)
    BY <1>2, <1>5, <2>1, SliceFits
  <2>3. ResolveSlice(ix, dim).kind = "Range"
    BY <2>1 DEF ResolveSlice, Strided
  <2>. QED
    BY <1>5, <2>1, <2>2, <2>3
<1>. QED
  BY <1>2, <1>3, <1>4, <1>5

---------------------------------------------------------------------------
(* The entries of a selection.                                             *)

AxisEntries == [kind : {"Axis"}, sel : Sel, advanced : BOOLEAN]
Entries == AxisEntries \cup {NewAxis}

\* An entry is refused or fits its axis; index arrays, and nothing that steps, are
\* in the group.
EntryFits(e, dim) ==
  /\ e \in AxisEntries
  /\ e.sel # Bad => Fits(e.sel, dim)
  /\ e.sel # Bad /\ e.sel.kind = "Fancy" => e.advanced
  /\ e.sel # Bad /\ e.advanced => e.sel.kind # "Range"

\* One for each of the first n axes.
Fitting(shape, entries, n) ==
  /\ entries \in Seq(Entries)
  /\ Len(AxesOf(entries)) = n
  /\ \A a \in 1 .. n : EntryFits(AxesOf(entries)[a], shape[a])

LEMMA AxesAre ==
  ASSUME NEW s \in Seq(Entries)
  PROVE  /\ AxesOf(s) = Retain(s, AxisEntries)
         /\ AxesOf(s) \in Seq(Entries)
         /\ \A i \in 1 .. Len(s) : s[i] \in AxisEntries <=> s[i] # NewAxis
         /\ \A i \in 1 .. Len(s) : s[i] \in AxisEntries <=> IsAxis(s[i])
<1>. DEFINE S == {s[p] : p \in {q \in DOMAIN s : IsAxis(s[q])}}
<1>1. \A i \in 1 .. Len(s) : s[i] \in Entries
  OBVIOUS
<1>2. ~IsAxis(NewAxis) /\ \A e \in AxisEntries : IsAxis(e)
  BY DEF IsAxis, NewAxis, AxisEntries
<1>3. \A e \in Entries : (e \in AxisEntries <=> e # NewAxis) /\ (e \in AxisEntries <=> IsAxis(e))
  BY <1>2 DEF Entries
<1>4. DOMAIN s = 1 .. Len(s)
  OBVIOUS
<1>5. \A i \in 1 .. Len(s) : s[i] \in S <=> s[i] \in AxisEntries
  <2>. HIDE DEF Entries, AxisEntries, IsAxis
  <2>. QED
    BY <1>1, <1>3, <1>4
<1>. HIDE DEF S
<1>6. AxesOf(s) = Retain(s, S)
  BY DEF AxesOf, S
<1>. HIDE DEF Entries, AxisEntries, NewAxis, IsAxis
<1>7. Retain(s, S) = Retain(s, AxisEntries) /\ Retain(s, S) \in Seq(Entries)
  BY <1>5, RetainSame, RetainFacts
<1>. QED
  BY <1>1, <1>3, <1>6, <1>7

LEMMA AxesAppend ==
  ASSUME NEW s \in Seq(Entries), NEW e \in Entries
  PROVE  /\ AxesOf(<< >>) = << >>
         /\ Append(s, e) \in Seq(Entries)
         /\ AxesOf(Append(s, e)) = IF e = NewAxis THEN AxesOf(s) ELSE Append(AxesOf(s), e)
<1>1. e \in AxisEntries <=> e # NewAxis
  <2>. DEFINE q == <<e>>
  <2>1. q \in Seq(Entries) /\ 1 \in 1 .. Len(q) /\ q[1] = e
    OBVIOUS
  <2>. HIDE DEF q, Entries, AxisEntries
  <2>2. \A i \in 1 .. Len(q) : q[i] \in AxisEntries <=> q[i] # NewAxis
    BY <2>1, AxesAre
  <2>. QED
    BY <2>1, <2>2
<1>2. Append(s, e) \in Seq(Entries) /\ << >> \in Seq(Entries)
  OBVIOUS
<1>. HIDE DEF Entries, AxisEntries
<1>3. AxesOf(<< >>) = Retain(<< >>, AxisEntries) /\ AxesOf(s) = Retain(s, AxisEntries)
  BY <1>2, AxesAre
<1>4. AxesOf(Append(s, e)) = Retain(Append(s, e), AxisEntries)
  BY <1>2, AxesAre
<1>. QED
  BY <1>1, <1>2, <1>3, <1>4, RetainAppend

\* f collects the entries index by index.
Collects(f, shape, all, implied, has) ==
  /\ EntriesOf(shape, all, implied, has) = f[Len(all)]
  /\ f[0].list = << >> /\ f[0].axis = 0
  /\ \A p \in 1 .. Len(all) :
       /\ f[p].list = f[p - 1].list \o EntriesFor(shape, all[p], f[p - 1].axis, implied, has)
       /\ f[p].axis = f[p - 1].axis + Passed(all[p], implied)

LEMMA EntriesDef ==
  ASSUME NEW shape, NEW all, NEW implied, NEW has, Len(all) \in Nat
  PROVE  \E f : Collects(f, shape, all, implied, has)
<1>. DEFINE On(was, p) == [list |-> was.list \o EntriesFor(shape, all[p], was.axis, implied, has),
                           axis |-> was.axis + Passed(all[p], implied)]
            zero == [list |-> << >>, axis |-> 0]
            Def(f, n) == f = [p \in 0 .. n |-> IF p = 0 THEN zero ELSE On(f[p - 1], p)]
            T == {n \in Nat : \E f : Def(f, n)}
<1>0. EntriesOf(shape, all, implied, has) = (CHOOSE f : Def(f, Len(all)))[Len(all)]
  BY DEF EntriesOf
<1>. HIDE DEF On, zero
<1>1. 0 \in T
  <2>1. Def([a \in 0 .. 0 |-> zero], 0)
    OBVIOUS
  <2>. QED
    BY <2>1
<1>2. ASSUME NEW n \in Nat, n \in T
      PROVE  n + 1 \in T
  <2>1. PICK f : Def(f, n)
    BY <1>2
  <2>. DEFINE g == [a \in 0 .. n + 1 |-> IF a = n + 1 THEN On(f[n], a) ELSE f[a]]
  <2>2. \A a \in 0 .. n + 1 : g[a] = IF a = 0 THEN zero ELSE On(g[a - 1], a)
    <3>1. \A a \in 0 .. n : f[a] = IF a = 0 THEN zero ELSE On(f[a - 1], a)
      BY <2>1
    <3>. HIDE DEF Def
    <3>2. \A a \in 0 .. n : g[a] = f[a]
      OBVIOUS
    <3>. TAKE a \in 0 .. n + 1
    <3>3. CASE a = 0
      BY <3>1, <3>2, <3>3
    <3>4. CASE a \in 1 .. n
      BY <3>1, <3>2, <3>4
    <3>5. CASE a = n + 1
      BY <3>2, <3>5
    <3>. QED
      BY <3>3, <3>4, <3>5
  <2>3. DOMAIN g = 0 .. n + 1 /\ g = [a \in DOMAIN g |-> g[a]]
    OBVIOUS
  <2>. HIDE DEF g
  <2>4. Def(g, n + 1)
    BY <2>2, <2>3
  <2>. QED
    BY SMTT(30), <2>4
<1>. HIDE DEF Def
<1>3. \E f : Def(f, Len(all))
  <2>1. Nat \subseteq T
    <3>. HIDE DEF T
    <3>. QED
      BY <1>1, <1>2, NatSteps
  <2>. QED
    BY <2>1
<1>. DEFINE h == CHOOSE f : Def(f, Len(all))
<1>4. Def(h, Len(all))
  BY <1>3
<1>. HIDE DEF h
<1>5. EntriesOf(shape, all, implied, has) = h[Len(all)]
  BY <1>0 DEF h
<1>6. \A p \in 0 .. Len(all) : h[p] = IF p = 0 THEN zero ELSE On(h[p - 1], p)
  BY <1>4 DEF Def
<1>7. h[0] = zero
  BY <1>6
<1>8. ASSUME NEW p \in 1 .. Len(all)
      PROVE  h[p] = On(h[p - 1], p)
  <2>1. p \in 0 .. Len(all) /\ p # 0
    OBVIOUS
  <2>. QED
    BY <1>6, <2>1
<1>9. zero.list = << >> /\ zero.axis = 0
  BY DEF zero
<1>10. ASSUME NEW was, NEW p
       PROVE  /\ On(was, p).list = was.list \o EntriesFor(shape, all[p], was.axis, implied, has)
              /\ On(was, p).axis = was.axis + Passed(all[p], implied)
  BY DEF On
<1>11. \A p \in 1 .. Len(all) :
         /\ h[p].list = h[p - 1].list \o EntriesFor(shape, all[p], h[p - 1].axis, implied, has)
         /\ h[p].axis = h[p - 1].axis + Passed(all[p], implied)
  BY <1>8, <1>10
<1>. QED
  BY <1>5, <1>7, <1>9, <1>11 DEF Collects

\* The indices among the first p that take an axis.
Taking(all, p) == {x \in 1 .. p : Consumes(all[x])}

LEMMA TakingFacts ==
  ASSUME NEW all \in Seq(Index), NEW p \in Nat, p < Len(all)
  PROVE  /\ Cardinality(Taking(all, 0)) = 0
         /\ Cardinality(Taking(all, p)) \in Nat
         /\ Cardinality(Taking(all, p + 1)) =
              Cardinality(Taking(all, p)) + (IF Consumes(all[p + 1]) THEN 1 ELSE 0)
         /\ Cardinality(Taking(all, p + 1)) <= Cardinality(Consuming(all))
<1>1. Taking(all, 0) = {}
  BY DEF Taking
<1>2. Taking(all, p + 1) = IF Consumes(all[p + 1]) THEN Taking(all, p) \cup {p + 1} ELSE Taking(all, p)
  BY DEF Taking
<1>3. p + 1 \notin Taking(all, p)
  BY DEF Taking
<1>4. IsFiniteSet(1 .. p) /\ IsFiniteSet(1 .. Len(all)) /\ Taking(all, p) \in SUBSET (1 .. p)
  BY FS_Interval DEF Taking
<1>5. IsFiniteSet(Taking(all, p))
  BY <1>4, FS_Subset
<1>6. Consuming(all) \in SUBSET (1 .. Len(all)) /\ Taking(all, p + 1) \in SUBSET Consuming(all)
  <2>1. DOMAIN all = 1 .. Len(all) /\ 1 .. p + 1 \subseteq 1 .. Len(all)
    OBVIOUS
  <2>. QED
    BY <2>1 DEF Consuming, Taking
<1>7. IsFiniteSet(Consuming(all))
  BY <1>4, <1>6, FS_Subset
<1>8. Cardinality(Taking(all, p + 1)) <= Cardinality(Consuming(all))
  BY <1>6, <1>7, FS_Subset
<1>9. Cardinality(Taking(all, p)) \in Nat
  BY <1>5, FS_CardinalityType
<1>10. Cardinality(Taking(all, p) \cup {p + 1}) = Cardinality(Taking(all, p)) + 1
  BY <1>3, <1>5, FS_AddElement
<1>11. Cardinality(Taking(all, 0)) = 0
  BY <1>1, FS_EmptySet
<1>. HIDE DEF Taking
<1>. QED
  BY <1>2, <1>8, <1>9, <1>10, <1>11

LEMMA FittingNew ==
  ASSUME NEW shape, NEW l, NEW n \in Nat, Fitting(shape, l, n)
  PROVE  Fitting(shape, l \o <<NewAxis>>, n)
<1>1. l \in Seq(Entries) /\ NewAxis \in Entries
  BY DEF Fitting, Entries
<1>. HIDE DEF Entries, NewAxis
<1>2. l \o <<NewAxis>> = Append(l, NewAxis)
  BY <1>1
<1>3. Append(l, NewAxis) \in Seq(Entries) /\ AxesOf(Append(l, NewAxis)) = AxesOf(l)
  BY <1>1, AxesAppend
<1>. QED
  BY <1>2, <1>3 DEF Fitting

LEMMA FittingOne ==
  ASSUME NEW shape, NEW l, NEW n \in Nat, Fitting(shape, l, n), NEW e, EntryFits(e, shape[n + 1])
  PROVE  Fitting(shape, l \o <<e>>, n + 1)
<1>1. l \in Seq(Entries) /\ e \in Entries /\ e # NewAxis
  BY DEF Fitting, Entries, EntryFits, AxisEntries, NewAxis
<1>. DEFINE q == AxesOf(l)
            r == AxesOf(Append(l, e))
<1>. HIDE DEF Entries, NewAxis, q, r
<1>2. l \o <<e>> = Append(l, e)
  BY <1>1
<1>3. Append(l, e) \in Seq(Entries) /\ r = Append(q, e)
  BY <1>1, AxesAppend DEF q, r
<1>4. q \in Seq(Entries) /\ Len(q) = n /\ \A a \in 1 .. n : EntryFits(q[a], shape[a])
  BY <1>1, AxesAre DEF Fitting, q
<1>5. Len(r) = n + 1 /\ r[n + 1] = e /\ \A a \in 1 .. n : r[a] = q[a]
  BY <1>1, <1>3, <1>4
<1>6. \A a \in 1 .. n + 1 : EntryFits(r[a], shape[a])
  <2>. TAKE a \in 1 .. n + 1
  <2>1. a \in 1 .. n \/ a = n + 1
    OBVIOUS
  <2>. QED
    BY <1>4, <1>5, <2>1
<1>. QED
  BY <1>2, <1>3, <1>5, <1>6 DEF Fitting, r

LEMMA JoinFacts ==
  ASSUME NEW X, NEW q \in Seq(X), NEW w \in Seq(X)
  PROVE  /\ q \o w \in Seq(X)
         /\ Len(q \o w) = Len(q) + Len(w)
         /\ \A a \in 1 .. Len(q) : (q \o w)[a] = q[a]
         /\ \A a \in Len(q) + 1 .. Len(q) + Len(w) : (q \o w)[a] = w[a - Len(q)]
OBVIOUS

LEMMA ShortSeq ==
  ASSUME NEW X, NEW q \in Seq(X), Len(q) <= 1
  PROVE  q = << >> \/ (q = <<q[1]>> /\ q[1] \in X)
<1>. DEFINE n == Len(q)
<1>1. n \in Nat /\ n <= 1
  OBVIOUS
<1>2. n = 0 \/ n = 1
  <2>. HIDE DEF n
  <2>. QED
    BY <1>1
<1>3. CASE n = 0
  BY <1>3
<1>4. CASE n = 1
  <2>1. q[1] \in X
    BY <1>4
  <2>. DEFINE x == q[1]
  <2>2. q = <<x>>
    BY <1>4, <2>1
  <2>. QED
    BY <2>1, <2>2
<1>. QED
  BY <1>2, <1>3, <1>4

LEMMA FittingWhole ==
  ASSUME NEW shape \in Seq(Nat), NEW l, NEW n \in Nat, Fitting(shape, l, n), NEW m \in Nat, n + m <= Len(shape)
  PROVE  Fitting(shape, l \o WholeAxes(shape, n, m), n + m)
<1>. DEFINE w == WholeAxes(shape, n, m)
            q == AxesOf(l)
            r == AxesOf(l \o w)
<1>1. ASSUME NEW k \in 1 .. m
      PROVE  w[k] \in AxisEntries /\ EntryFits(w[k], shape[n + k])
  <2>1. n + k \in 1 .. Len(shape) /\ shape[n + k] \in Nat
    OBVIOUS
  <2>. DEFINE dim == shape[n + k]
              s == Strided(0, dim, 1)
  <2>2. Fits(s, dim)
    <3>1. dim > 0 => 0 + (dim - 1) * 1 \in 0 .. dim - 1
      BY <2>1
    <3>. QED
      BY <2>1, <3>1, RangeFits
  <2>3. s.kind = "Range" /\ s \in Sel
    BY <2>2 DEF Fits, Strided
  <2>4. w[k] = Entry(s, FALSE)
    BY DEF WholeAxes
  <2>. HIDE DEF s, w
  <2>5. w[k] = [kind |-> "Axis", sel |-> s, advanced |-> FALSE]
    BY <2>4 DEF Entry
  <2>6. w[k] \in AxisEntries /\ w[k].sel = s /\ w[k].advanced = FALSE
    BY <2>3, <2>5 DEF AxisEntries
  <2>. QED
    BY <2>2, <2>3, <2>6 DEF EntryFits
<1>2. w \in Seq(Entries) /\ Len(w) = m
  <2>1. w = [k \in 1 .. m |-> w[k]]
    BY DEF WholeAxes
  <2>2. \A k \in 1 .. m : w[k] \in Entries
    BY <1>1 DEF Entries
  <2>. HIDE DEF w, Entries
  <2>3. w \in [1 .. m -> Entries]
    BY <2>1, <2>2
  <2>. QED
    BY <2>3
<1>3. l \in Seq(Entries) /\ q \in Seq(Entries) /\ Len(q) = n /\ \A a \in 1 .. n : EntryFits(q[a], shape[a])
  BY AxesAre DEF Fitting
<1>. HIDE DEF w, q, Entries, AxisEntries
<1>4. l \o w \in Seq(Entries)
  BY <1>2, <1>3
<1>5. Retain(l \o w, AxisEntries) = Retain(l, AxisEntries) \o w
  BY <1>1, <1>2, <1>3, RetainConcat
<1>6. r = q \o w
  BY <1>3, <1>4, <1>5, AxesAre DEF q
<1>. HIDE DEF r
<1>7. /\ Len(r) = n + m
      /\ \A a \in 1 .. n : r[a] = q[a]
      /\ \A a \in n + 1 .. n + m : r[a] = w[a - n]
  <2>1. Len(q) = n /\ Len(w) = m /\ q \in Seq(Entries) /\ w \in Seq(Entries)
    BY <1>2, <1>3
  <2>2. /\ Len(q \o w) = Len(q) + Len(w)
        /\ \A a \in 1 .. Len(q) : (q \o w)[a] = q[a]
        /\ \A a \in Len(q) + 1 .. Len(q) + Len(w) : (q \o w)[a] = w[a - Len(q)]
    BY <2>1, JoinFacts
  <2>. QED
    BY <1>6, <2>1, <2>2
<1>8. \A a \in 1 .. n + m : EntryFits(r[a], shape[a])
  <2>. TAKE a \in 1 .. n + m
  <2>1. CASE a <= n
    BY <1>3, <1>7, <2>1
  <2>2. CASE a > n
    <3>1. a - n \in 1 .. m /\ n + (a - n) = a
      BY <2>2
    <3>2. r[a] = w[a - n]
      BY <1>7, <2>2
    <3>. QED
      BY <1>1, <3>1, <3>2
  <2>. QED
    BY <2>1, <2>2
<1>. QED
  BY <1>4, <1>7, <1>8 DEF Fitting, r, w

\* What an index adds, when it is neither an ellipsis nor a new axis.
LEMMA IndexFits ==
  ASSUME NEW ix \in Index, Consumes(ix), NEW dim \in Nat, NEW has \in BOOLEAN, ix.kind = "Fancy" => has
  PROVE  EntryFits(Entry(ResolveAxis(ix, dim), has /\ ix.kind \in {"Single", "Fancy"}), dim)
<1>. DEFINE s == ResolveAxis(ix, dim)
            adv == has /\ ix.kind \in {"Single", "Fancy"}
            e == Entry(s, adv)
<1>1. s # Bad => /\ Fits(s, dim)
                 /\ ix.kind = "Single" <=> s.kind = "Point"
                 /\ ix.kind = "Fancy" <=> s.kind = "Fancy"
  BY AxisFits
<1>2. s \in Sel
  BY <1>1 DEF Sel, Fits
<1>3. adv \in BOOLEAN
  OBVIOUS
<1>. HIDE DEF s
<1>4. e = [kind |-> "Axis", sel |-> s, advanced |-> adv]
  BY DEF Entry
<1>. HIDE DEF e
<1>5. e \in AxisEntries /\ e.sel = s /\ e.advanced = adv
  BY <1>2, <1>3, <1>4 DEF AxisEntries
<1>6. s # Bad => (s.kind = "Fancy" => adv) /\ (adv => s.kind # "Range")
  BY <1>1
<1>7. EntryFits(e, dim)
  <2>. HIDE DEF adv
  <2>. QED
    BY <1>1, <1>5, <1>6 DEF EntryFits
<1>. QED
  BY <1>7 DEF e, s

\* The indices and one ellipsis take every axis once, in order.
LEMMA EntriesFit ==
  ASSUME NEW shape \in Seq(Nat), NEW all \in Seq(Index), NEW implied \in Nat, NEW has, has \in BOOLEAN,
         NEW dot \in 1 .. Len(all), \A p \in 1 .. Len(all) : all[p] = Ellipsis <=> p = dot,
         Cardinality(Consuming(all)) + implied = Len(shape),
         \A p \in 1 .. Len(all) : all[p].kind = "Fancy" => has = TRUE
  PROVE  Fitting(shape, EntriesOf(shape, all, implied, has).list, Len(shape))
<1>. DEFINE N == Len(all)
            At(n) == Cardinality(Taking(all, n)) + (IF dot <= n THEN implied ELSE 0)
<1>1. N \in Nat /\ \A p \in 1 .. N : all[p] \in Index
  OBVIOUS
<1>2. PICK f : /\ EntriesOf(shape, all, implied, has) = f[N]
               /\ f[0].list = << >> /\ f[0].axis = 0
               /\ \A p \in 1 .. N :
                    /\ f[p].list = f[p - 1].list \o EntriesFor(shape, all[p], f[p - 1].axis, implied, has)
                    /\ f[p].axis = f[p - 1].axis + Passed(all[p], implied)
  <2>1. Len(all) \in Nat
    OBVIOUS
  <2>2. PICK f : Collects(f, shape, all, implied, has)
    BY <2>1, EntriesDef
  <2>. QED
    BY <2>2 DEF Collects
<1>3. \A x \in Index : Consumes(x) <=> x # Ellipsis /\ x # NewAxis
  BY DEF Index, Consumes, Ellipsis, NewAxis
<1>4. Ellipsis # NewAxis
  BY DEF Ellipsis, NewAxis
<1>5. ASSUME NEW n \in Nat, n < N
      PROVE  /\ At(n) \in Nat
             /\ At(n + 1) = At(n) + Passed(all[n + 1], implied)
             /\ At(n + 1) <= Len(shape)
  <2>. DEFINE c == Cardinality(Taking(all, n))
              d == Cardinality(Taking(all, n + 1))
  <2>1. c \in Nat /\ d = c + (IF Consumes(all[n + 1]) THEN 1 ELSE 0) /\ d + implied <= Len(shape)
    <3>. HIDE DEF Taking
    <3>1. Cardinality(Taking(all, n)) \in Nat
          /\ Cardinality(Taking(all, n + 1)) = Cardinality(Taking(all, n)) + (IF Consumes(all[n + 1]) THEN 1 ELSE 0)
          /\ Cardinality(Taking(all, n + 1)) <= Cardinality(Consuming(all))
      BY <1>5, TakingFacts
    <3>2. Cardinality(Consuming(all)) = Len(shape) - implied \/ Cardinality(Consuming(all)) \notin Int
      OBVIOUS
    <3>3. IsFiniteSet(Consuming(all))
      <4>1. Consuming(all) \in SUBSET (1 .. N)
        BY DEF Consuming
      <4>2. IsFiniteSet(1 .. N)
        BY <1>1, FS_Interval
      <4>. QED
        BY <4>1, <4>2, FS_Subset
    <3>4. Cardinality(Consuming(all)) \in Nat
      BY <3>3, FS_CardinalityType
    <3>. QED
      BY <3>1, <3>2, <3>4
  <2>. HIDE DEF c, d
  <2>2. At(n) = c + (IF dot <= n THEN implied ELSE 0) /\ At(n + 1) = d + (IF dot <= n + 1 THEN implied ELSE 0)
    BY DEF c, d
  <2>3. n + 1 \in 1 .. N
    BY <1>1, <1>5
  <2>4. Passed(all[n + 1], implied) = IF all[n + 1] = NewAxis THEN 0 ELSE IF n + 1 = dot THEN implied ELSE 1
    BY <1>4, <2>3 DEF Passed
  <2>5. Consumes(all[n + 1]) <=> n + 1 # dot /\ all[n + 1] # NewAxis
    BY <1>1, <1>3, <2>3
  <2>6. n + 1 = dot => all[n + 1] # NewAxis
    BY <1>4, <2>3
  <2>7. Len(shape) \in Nat /\ dot \in Nat
    OBVIOUS
  <2>. HIDE DEF At, N
  <2>8. CASE n + 1 = dot
    <3>1. At(n) = c /\ At(n + 1) = d + implied /\ d = c + 0 /\ Passed(all[n + 1], implied) = implied
      BY <2>1, <2>2, <2>4, <2>5, <2>6, <2>7, <2>8
    <3>. QED
      BY <2>1, <2>7, <3>1
  <2>9. CASE n + 1 # dot
    <3>. DEFINE i == IF dot <= n THEN implied ELSE 0
                j == IF Consumes(all[n + 1]) THEN 1 ELSE 0
                a0 == At(n)
                a1 == At(n + 1)
                b == Passed(all[n + 1], implied)
    <3>1. a0 = c + i /\ a1 = d + i /\ d = c + j /\ b = j
      BY <2>1, <2>2, <2>4, <2>5, <2>7, <2>9
    <3>2. i \in Nat /\ j \in Nat /\ i <= implied
      OBVIOUS
    <3>. HIDE DEF i, j, a0, a1, b
    <3>3. c \in Nat /\ d + implied <= Len(shape)
      BY <2>1
    <3>4. a0 \in Nat /\ a1 = a0 + b /\ a1 <= Len(shape)
      BY <2>7, <3>1, <3>2, <3>3
    <3>. QED
      BY <3>4 DEF a0, a1, b
  <2>. QED
    BY <2>8, <2>9
<1>. DEFINE T == {n \in Nat : n <= N => f[n].axis = At(n) /\ Fitting(shape, f[n].list, At(n))}
<1>6. 0 \in T
  <2>1. f[0].list = << >> /\ f[0].axis = 0
    BY <1>2
  <2>2. At(0) = 0
    <3>1. Cardinality(Taking(all, 0)) = 0
      BY FS_EmptySet DEF Taking
    <3>. QED
      BY <3>1
  <2>3. AxesOf(<< >>) = << >> /\ << >> \in Seq(Entries)
    <3>1. << >> \in Seq(Entries) /\ NewAxis \in Entries
      BY DEF Entries
    <3>. QED
      BY <3>1, AxesAppend
  <2>4. Fitting(shape, << >>, 0)
    BY <2>3 DEF Fitting
  <2>. QED
    BY <2>1, <2>2, <2>4
<1>7. ASSUME NEW n \in Nat, n \in T
      PROVE  n + 1 \in T
  <2>. SUFFICES ASSUME n + 1 <= N
                PROVE  f[n + 1].axis = At(n + 1) /\ Fitting(shape, f[n + 1].list, At(n + 1))
    OBVIOUS
  <2>. DEFINE k == At(n)
              x == all[n + 1]
              l == f[n].list
  <2>1. f[n].axis = k /\ Fitting(shape, l, k)
    BY <1>1, <1>7
  <2>2. k \in Nat /\ At(n + 1) = k + Passed(x, implied) /\ At(n + 1) <= Len(shape)
    <3>1. n < N
      BY <1>1
    <3>. HIDE DEF At, N
    <3>. QED
      BY <1>5, <3>1
  <2>3. n + 1 \in 1 .. N /\ n + 1 \in 0 .. N /\ n + 1 # 0 /\ (n + 1) - 1 = n
    BY <1>1
  <2>4. f[n + 1].list = l \o EntriesFor(shape, x, f[n].axis, implied, has) /\ f[n + 1].axis = f[n].axis + Passed(x, implied)
    BY <1>2, <2>3
  <2>5. f[n + 1].list = l \o EntriesFor(shape, x, k, implied, has) /\ f[n + 1].axis = k + Passed(x, implied)
    BY <2>1, <2>4
  <2>. HIDE DEF k, l, At
  <2>6. x \in Index /\ (x.kind = "Fancy" => has = TRUE)
    BY <1>1, <2>3
  <2>. HIDE DEF x
  <2>7. CASE x = NewAxis
    <3>1. EntriesFor(shape, x, k, implied, has) = <<NewAxis>> /\ Passed(x, implied) = 0
      BY <1>4, <2>7 DEF EntriesFor, Passed
    <3>2. Fitting(shape, l \o <<NewAxis>>, k)
      BY <2>1, <2>2, FittingNew
    <3>. QED
      BY <2>2, <2>5, <3>1, <3>2
  <2>8. CASE x = Ellipsis
    <3>1. EntriesFor(shape, x, k, implied, has) = WholeAxes(shape, k, implied) /\ Passed(x, implied) = implied
      BY <1>4, <2>8 DEF EntriesFor, Passed
    <3>2. Fitting(shape, l \o WholeAxes(shape, k, implied), k + implied)
      BY <2>1, <2>2, <3>1, FittingWhole
    <3>. QED
      BY <2>2, <2>5, <3>1, <3>2
  <2>9. CASE x # NewAxis /\ x # Ellipsis
    <3>. DEFINE e == Entry(ResolveAxis(x, shape[k + 1]), has /\ x.kind \in {"Single", "Fancy"})
    <3>1. EntriesFor(shape, x, k, implied, has) = <<e>> /\ Passed(x, implied) = 1
      BY <2>9 DEF EntriesFor, Passed
    <3>2. k + 1 \in 1 .. Len(shape) /\ shape[k + 1] \in Nat
      BY <2>2, <3>1
    <3>3. EntryFits(e, shape[k + 1])
      BY <1>3, <2>6, <2>9, <3>2, IndexFits
    <3>. HIDE DEF e
    <3>4. Fitting(shape, l \o <<e>>, k + 1)
      BY <2>1, <2>2, <3>3, FittingOne
    <3>. QED
      BY <2>2, <2>5, <3>1, <3>4
  <2>. QED
    BY <2>7, <2>8, <2>9
<1>8. N \in T
  <2>. HIDE DEF T, N
  <2>. QED
    BY <1>1, <1>6, <1>7, NatSteps
<1>9. At(N) = Len(shape)
  <2>1. Taking(all, N) = Consuming(all)
    BY DEF Taking, Consuming
  <2>2. dot <= N
    OBVIOUS
  <2>. HIDE DEF N
  <2>. QED
    BY <2>1, <2>2
<1>. HIDE DEF At
<1>. QED
  BY <1>1, <1>2, <1>8, <1>9

\* There is one ellipsis when there is no more than one.
LEMMA DottedFacts ==
  ASSUME NEW ixs \in Seq(Index), Cardinality(Dots(ixs)) <= 1
  PROVE  /\ Dotted(ixs) \in Seq(Index)
         /\ Consuming(Dotted(ixs)) = Consuming(ixs)
         /\ \E dot \in 1 .. Len(Dotted(ixs)) :
              \A p \in 1 .. Len(Dotted(ixs)) : Dotted(ixs)[p] = Ellipsis <=> p = dot
         /\ \A p \in 1 .. Len(Dotted(ixs)) : Dotted(ixs)[p].kind = "Fancy" => HasArray(ixs)
<1>. DEFINE n == Len(ixs)
            all == Dotted(ixs)
<1>1. n \in Nat /\ DOMAIN ixs = 1 .. n /\ \A p \in 1 .. n : ixs[p] \in Index
  OBVIOUS
<1>2. Ellipsis \in Index /\ ~Consumes(Ellipsis) /\ Ellipsis.kind # "Fancy"
  BY DEF Index, Consumes, Ellipsis
<1>3. CASE Dots(ixs) = {}
  <2>1. all = Append(ixs, Ellipsis)
    BY <1>3 DEF Dotted
  <2>. HIDE DEF all
  <2>2. /\ all \in Seq(Index) /\ Len(all) = n + 1 /\ DOMAIN all = 1 .. n + 1
        /\ all[n + 1] = Ellipsis /\ \A p \in 1 .. n : all[p] = ixs[p]
    BY <1>2, <2>1
  <2>3. \A p \in 1 .. n : ixs[p] # Ellipsis
    BY <1>1, <1>3 DEF Dots
  <2>. HIDE DEF n
  <2>4. \A p \in 1 .. n + 1 : p \in 1 .. n \/ p = n + 1
    BY <1>1
  <2>5. n + 1 \in 1 .. n + 1 /\ n + 1 \notin 1 .. n /\ 1 .. n \subseteq 1 .. n + 1
    BY <1>1
  <2>6. Consuming(all) = Consuming(ixs)
    BY <1>1, <1>2, <2>2, <2>4, <2>5 DEF Consuming
  <2>7. \A p \in 1 .. n + 1 : all[p] = Ellipsis <=> p = n + 1
    BY <2>2, <2>3, <2>4, <2>5
  <2>8. \A p \in 1 .. n + 1 : all[p].kind = "Fancy" => HasArray(ixs)
    BY <1>1, <1>2, <2>2, <2>4 DEF HasArray
  <2>. QED
    BY <2>2, <2>5, <2>6, <2>7, <2>8 DEF all
<1>4. CASE Dots(ixs) # {}
  <2>1. all = ixs
    BY <1>4 DEF Dotted
  <2>2. IsFiniteSet(Dots(ixs))
    <3>1. IsFiniteSet(1 .. n) /\ Dots(ixs) \in SUBSET (1 .. n)
      BY <1>1, FS_Interval DEF Dots
    <3>. QED
      BY <3>1, FS_Subset
  <2>3. Cardinality(Dots(ixs)) = 1
    <3>1. Cardinality(Dots(ixs)) \in Nat /\ Cardinality(Dots(ixs)) # 0
      BY <1>4, <2>2, FS_CardinalityType, FS_EmptySet
    <3>. QED
      BY <3>1
  <2>4. PICK dot : Dots(ixs) = {dot}
    BY <2>2, <2>3, FS_Singleton
  <2>5. dot \in 1 .. n /\ \A p \in 1 .. n : ixs[p] = Ellipsis <=> p = dot
    BY <1>1, <2>4 DEF Dots
  <2>6. \A p \in 1 .. n : ixs[p].kind = "Fancy" => HasArray(ixs)
    BY <1>1 DEF HasArray
  <2>. QED
    BY <2>1, <2>5, <2>6
<1>. QED
  BY <1>3, <1>4

\* What a selection expands to takes every axis, and nothing of it is refused.
LEMMA ExpandFits ==
  ASSUME NEW shape \in Seq(Nat), NEW ixs \in Seq(Index), Expand(shape, ixs) # Bad
  PROVE  /\ Fitting(shape, Expand(shape, ixs).list, Len(shape))
         /\ \A p \in DOMAIN Expand(shape, ixs).list :
              Expand(shape, ixs).list[p] # NewAxis => Expand(shape, ixs).list[p].sel # Bad
<1>. DEFINE implied == Len(shape) - Cardinality(Consuming(ixs))
            all == Dotted(ixs)
            has == HasArray(ixs)
            written == EntriesOf(shape, all, implied, has).list
<1>1. /\ ~(implied < 0 \/ Cardinality(Dots(ixs)) > 1)
      /\ ~(\E p \in DOMAIN written : written[p] # NewAxis /\ written[p].sel = Bad)
      /\ Expand(shape, ixs) = [kind |-> "Entries", list |-> written]
  BY DEF Expand
<1>2. Expand(shape, ixs).list = written
  BY <1>1
<1>3. IsFiniteSet(Consuming(ixs)) /\ IsFiniteSet(Dots(ixs))
  <2>1. IsFiniteSet(1 .. Len(ixs))
    BY FS_Interval
  <2>2. Consuming(ixs) \in SUBSET (1 .. Len(ixs)) /\ Dots(ixs) \in SUBSET (1 .. Len(ixs))
    BY DEF Consuming, Dots
  <2>. QED
    BY <2>1, <2>2, FS_Subset
<1>4. Cardinality(Consuming(ixs)) \in Nat /\ Cardinality(Dots(ixs)) \in Nat
  BY <1>3, FS_CardinalityType
<1>. DEFINE c == Cardinality(Consuming(ixs))
            d == Cardinality(Dots(ixs))
            m == Len(shape)
<1>5. implied \in Nat /\ c + implied = m /\ d <= 1
  <2>1. c \in Nat /\ d \in Nat /\ m \in Nat /\ implied = m - c /\ ~(implied < 0 \/ d > 1)
    BY <1>1, <1>4
  <2>. HIDE DEF c, d, m, implied
  <2>. QED
    BY <2>1
<1>6. has \in BOOLEAN
  BY DEF HasArray
<1>. HIDE DEF implied
<1>7. /\ all \in Seq(Index) /\ Consuming(all) = Consuming(ixs)
      /\ \A p \in 1 .. Len(all) : all[p].kind = "Fancy" => has
  BY <1>5, DottedFacts
<1>8. PICK dot \in 1 .. Len(all) : \A p \in 1 .. Len(all) : all[p] = Ellipsis <=> p = dot
  BY <1>5, DottedFacts
<1>. HIDE DEF all, has
<1>9. Cardinality(Consuming(all)) + implied = Len(shape)
  BY <1>5, <1>7
<1>10. \A p \in 1 .. Len(all) : all[p].kind = "Fancy" => has = TRUE
  BY <1>6, <1>7
<1>11. Fitting(shape, written, Len(shape))
  BY <1>5, <1>6, <1>7, <1>8, <1>9, <1>10, EntriesFit
<1>. QED
  BY <1>1, <1>2, <1>11

---------------------------------------------------------------------------
(* What a selection resolves to.                                           *)

\* Index arrays that broadcast have one length, or stretch to it.
LEMMA BroadcastFacts ==
  ASSUME NEW S, S \subseteq Nat, IsFiniteSet(S), CanBroadcast(S)
  PROVE  BroadcastLen(S) \in Nat /\ \A n \in S : n = 1 \/ n = BroadcastLen(S)
<1>1. CASE S \subseteq {1}
  BY <1>1 DEF BroadcastLen
<1>2. CASE ~(S \subseteq {1})
  <2>. DEFINE len == BroadcastLen(S)
  <2>1. len = CHOOSE n \in S : n # 1
    BY <1>2 DEF BroadcastLen
  <2>2. len \in S /\ len # 1
    BY <1>2, <2>1
  <2>. HIDE DEF len
  <2>3. IsFiniteSet(S \ {1})
    BY FS_RemoveElement
  <2>4. Cardinality(S \ {1}) = 1
    <3>1. Cardinality(S \ {1}) \in Nat /\ Cardinality(S \ {1}) # 0 /\ Cardinality(S \ {1}) <= 1
      BY <2>2, <2>3, FS_CardinalityType, FS_EmptySet DEF CanBroadcast
    <3>. QED
      BY <3>1
  <2>5. PICK x : S \ {1} = {x}
    BY <2>3, <2>4, FS_Singleton
  <2>6. \A n \in S : n = 1 \/ n = len
    BY <2>2, <2>5
  <2>. QED
    BY <2>2, <2>6 DEF len
<1>. QED
  BY <1>1, <1>2

\* The entries, none of them refused.
Whole(entries) ==
  entries \in Seq(Entries) /\ \A p \in DOMAIN entries : entries[p] # NewAxis => entries[p].sel # Bad

Advanced(entries) == {p \in DOMAIN entries : IsAxis(entries[p]) /\ entries[p].advanced}

\* An entry as long as it selects is a dimension of the output.
LEMMA OutDimsFacts ==
  ASSUME NEW entries, Whole(entries), NEW len \in Nat, NEW p \in 1 .. Len(entries),
         NEW positions, positions = Advanced(entries)
  PROVE  /\ OutDims(entries, positions, len, p) \in Seq(Nat)
         /\ entries[p] # NewAxis /\ ~entries[p].advanced /\ entries[p].sel.len = 0 =>
              OutDims(entries, positions, len, p) = <<0>>
         /\ p \in positions /\ Adjacent(positions) /\ p = Min(positions) =>
              OutDims(entries, positions, len, p) = <<len>>
<1>1. entries \in Seq(Entries) /\ DOMAIN entries = 1 .. Len(entries)
  BY DEF Whole
<1>2. entries[p] \in AxisEntries <=> entries[p] # NewAxis
  BY <1>1, AxesAre
<1>3. IsAxis(entries[p]) <=> entries[p] # NewAxis
  BY <1>1, AxesAre
<1>. DEFINE e == entries[p]
<1>. HIDE DEF e
<1>4. CASE e = NewAxis
  <2>1. OutDims(entries, positions, len, p) = <<1>>
    BY <1>4 DEF OutDims, e
  <2>2. p \notin positions
    BY <1>3, <1>4 DEF Advanced, e
  <2>. QED
    BY <1>4, <2>1, <2>2 DEF e
<1>5. CASE e # NewAxis /\ e.advanced
  <2>1. OutDims(entries, positions, len, p) = IF Adjacent(positions) /\ p = Min(positions) THEN <<len>> ELSE << >>
    BY <1>5 DEF OutDims, e
  <2>. QED
    BY <1>5, <2>1 DEF e
<1>6. CASE e # NewAxis /\ ~e.advanced
  <2>1. OutDims(entries, positions, len, p) = IF e.sel.kind = "Point" THEN << >> ELSE <<e.sel.len>>
    BY <1>6 DEF OutDims, e
  <2>2. e.sel \in Sel /\ e.sel # Bad
    BY <1>1, <1>2, <1>6 DEF Whole, AxisEntries, e
  <2>3. e.sel.len \in Nat /\ (e.sel.kind = "Point" => e.sel.len = 1)
    BY <2>2 DEF Sel
  <2>4. p \notin positions
    BY <1>6 DEF Advanced, e
  <2>5. << >> \in Seq(Nat) /\ <<e.sel.len>> \in Seq(Nat)
    BY <2>3
  <2>6. e.sel.len = 0 => e.sel.kind # "Point"
    BY <2>3
  <2>. QED
    BY <1>6, <2>1, <2>4, <2>5, <2>6 DEF e
<1>. QED
  BY <1>4, <1>5, <1>6

\* A dimension of length 0 leaves nothing to read.
LEMMA OutShapeFacts ==
  ASSUME NEW entries, Whole(entries), NEW len \in Nat, NEW positions, positions = Advanced(entries)
  PROVE  /\ OutShape(entries, positions, len) \in Seq(Nat)
         /\ \A p \in 1 .. Len(entries) :
              entries[p] # NewAxis /\ entries[p].sel.len = 0 /\ (entries[p].advanced => len = 0)
                => Product(OutShape(entries, positions, len)) = 0
<1>. DEFINE n == Len(entries)
            q == [p \in 1 .. n |-> OutDims(entries, positions, len, p)]
            front == IF positions # {} /\ ~Adjacent(positions) THEN <<len>> ELSE << >>
            back == FlattenSeq(q)
            shape == OutShape(entries, positions, len)
<1>1. entries \in Seq(Entries) /\ DOMAIN entries = 1 .. n /\ n \in Nat
  BY DEF Whole
<1>2. shape = front \o back
  BY <1>1 DEF OutShape
<1>3. \A p \in 1 .. n : q[p] = OutDims(entries, positions, len, p) /\ q[p] \in Seq(Nat)
  BY OutDimsFacts
<1>4. q = [p \in 1 .. n |-> q[p]]
  OBVIOUS
<1>. HIDE DEF q
<1>5. /\ back \in Seq(Nat)
      /\ \A p \in 1 .. n : \A j \in 1 .. Len(q[p]) : \E k \in 1 .. Len(back) : back[k] = q[p][j]
  <2>. DEFINE w == [p \in 1 .. n |-> q[p]]
  <2>1. FlattenSeq(w) \in Seq(Nat) /\ HasAll(FlattenSeq(w), q, n)
    <3>1. \A p \in 1 .. n : q[p] \in Seq(Nat)
      BY <1>3
    <3>. HIDE DEF n
    <3>. QED
      BY <1>1, <3>1, FlattenHas
  <2>2. w = q
    BY <1>4
  <2>. HIDE DEF w, n
  <2>. QED
    BY <2>1, <2>2 DEF HasAll
<1>6. front \in Seq(Nat)
  OBVIOUS
<1>. HIDE DEF front, back, shape
<1>7. shape \in Seq(Nat) /\ Len(shape) = Len(front) + Len(back)
      /\ (\A k \in 1 .. Len(front) : shape[k] = front[k])
      /\ \A k \in Len(front) + 1 .. Len(front) + Len(back) : shape[k] = back[k - Len(front)]
  BY <1>2, <1>5, <1>6, JoinFacts
<1>8. ASSUME NEW j \in 1 .. Len(back), back[j] = 0
      PROVE  Product(shape) = 0
  <2>. DEFINE a == Len(front)
              b == Len(back)
  <2>0. a \in Nat /\ b \in Nat /\ j \in 1 .. b
    BY <1>5, <1>6
  <2>1. a + j \in a + 1 .. a + b /\ (a + j) - a = j /\ a + j \in 1 .. a + b
    <3>. HIDE DEF a, b
    <3>. QED
      BY <2>0
  <2>2. shape[a + j] = 0 /\ a + j \in 1 .. Len(shape)
    BY <1>7, <1>8, <2>1
  <2>. QED
    BY <1>7, <2>2, ProductFacts
<1>9. ASSUME NEW p \in 1 .. n, entries[p] # NewAxis, entries[p].sel.len = 0, entries[p].advanced => len = 0
      PROVE  Product(shape) = 0
  <2>1. CASE ~entries[p].advanced
    <3>1. q[p] = <<0>>
      BY <1>3, <1>9, <2>1, OutDimsFacts
    <3>2. 1 \in 1 .. Len(q[p]) /\ q[p][1] = 0
      BY <3>1
    <3>3. \E k \in 1 .. Len(back) : back[k] = q[p][1]
      BY <1>5, <3>2
    <3>4. PICK j \in 1 .. Len(back) : back[j] = 0
      BY <3>2, <3>3
    <3>. QED
      BY <1>8, <3>4
  <2>2. CASE entries[p].advanced
    <3>1. p \in positions
      <4>1. IsAxis(entries[p])
        BY <1>1, <1>9, AxesAre
      <4>. QED
        BY <1>1, <2>2, <4>1 DEF Advanced
    <3>2. len = 0
      BY <1>9, <2>2
    <3>3. CASE ~Adjacent(positions)
      <4>1. front = <<0>>
        BY <3>1, <3>2, <3>3 DEF front
      <4>2. 1 \in 1 .. Len(front) /\ front[1] = 0
        BY <4>1
      <4>3. shape[1] = 0 /\ 1 \in 1 .. Len(shape)
        BY <1>5, <1>6, <1>7, <4>2
      <4>. QED
        BY <1>7, <4>3, ProductFacts
    <3>4. CASE Adjacent(positions)
      <4>. DEFINE least == Min(positions)
      <4>1. positions \subseteq Nat
        BY <1>1 DEF Advanced
      <4>2. least \in positions
        BY <3>1, <4>1, LeastOf
      <4>3. least \in 1 .. n
        BY <1>1, <4>2 DEF Advanced
      <4>4. q[least] = <<0>>
        BY <1>3, <3>2, <3>4, <4>2, <4>3, OutDimsFacts
      <4>5. 1 \in 1 .. Len(q[least]) /\ q[least][1] = 0
        BY <4>4
      <4>6. PICK j \in 1 .. Len(back) : back[j] = 0
        BY <1>5, <4>3, <4>5
      <4>. QED
        BY <1>8, <4>6
    <3>. QED
      BY <3>3, <3>4
  <2>. QED
    BY <2>1, <2>2
<1>. QED
  BY <1>7, <1>9 DEF shape

\* What a selection resolves to takes every axis, the members of the group in
\* step, and selects nothing when it takes nothing of some axis.
Fitted(shape, res) ==
  /\ res.axes \in Seq(Sel) /\ Len(res.axes) = Len(shape)
  /\ res.group \subseteq 1 .. Len(shape) /\ res.len \in Nat /\ res.outShape \in Seq(Nat)
  /\ \A a \in 1 .. Len(shape) :
       /\ Fits(res.axes[a], shape[a])
       /\ a \in res.group => res.axes[a].kind # "Range" /\ (res.axes[a].len = 1 \/ res.axes[a].len = res.len)
       /\ a \notin res.group => res.axes[a].kind # "Fancy"
       /\ res.axes[a].len = 0 => Product(res.outShape) = 0

LEMMA CombineFits ==
  ASSUME NEW shape \in Seq(Nat), NEW entries, Whole(entries), Fitting(shape, entries, Len(shape)),
         Combine(entries) # Bad
  PROVE  Fitted(shape, Combine(entries))
<1>. DEFINE positions == {p \in DOMAIN entries : IsAxis(entries[p]) /\ entries[p].advanced}
            axes == AxesOf(entries)
            group == {a \in DOMAIN axes : axes[a].advanced}
            arrays == {b \in group : axes[b].sel.kind = "Fancy"}
            lengths == {axes[a].sel.len : a \in arrays}
            len == BroadcastLen(lengths)
            outShape == OutShape(entries, positions, len)
            sels == Map(axes, LAMBDA e : e.sel)
            res == Combine(entries)
            n == Len(shape)
<1>1. /\ CanBroadcast(lengths)
      /\ res = [kind |-> "Resolved", axes |-> sels, outShape |-> outShape, group |-> group, len |-> len,
                adjacent |-> positions = {} \/ Adjacent(positions)]
  BY DEF Combine
<1>2. res.axes = sels /\ res.outShape = outShape /\ res.group = group /\ res.len = len
  BY <1>1
<1>. HIDE DEF res
<1>3. /\ entries \in Seq(Entries) /\ DOMAIN entries = 1 .. Len(entries)
      /\ axes \in Seq(Entries) /\ Len(axes) = n /\ n \in Nat /\ DOMAIN axes = 1 .. n
      /\ \A a \in 1 .. n : EntryFits(axes[a], shape[a])
  <2>1. entries \in Seq(Entries)
    BY DEF Whole
  <2>2. axes \in Seq(Entries)
    BY <2>1, AxesAre
  <2>. HIDE DEF axes
  <2>. QED
    BY <2>1, <2>2 DEF Fitting, axes
<1>. HIDE DEF axes, n
<1>4. ASSUME NEW a \in 1 .. n
      PROVE  \E p \in 1 .. Len(entries) : entries[p] = axes[a] /\ axes[a] # NewAxis
  <2>1. Range(axes) = Range(entries) \cap AxisEntries
    <3>1. axes = Retain(entries, AxisEntries)
      BY <1>3, AxesAre DEF axes
    <3>. HIDE DEF Entries
    <3>. QED
      BY <1>3, <3>1, RetainFacts
  <2>2. axes[a] \in Range(axes)
    <3>. HIDE DEF Entries
    <3>. QED
      BY <1>3, RangeFacts
  <2>3. axes[a] \in Range(entries)
    BY <2>1, <2>2
  <2>4. PICK p \in 1 .. Len(entries) : entries[p] = axes[a]
    <3>. HIDE DEF Entries
    <3>. QED
      BY <1>3, <2>3, RangeFacts
  <2>5. axes[a] # NewAxis
    <3>1. axes[a] \in AxisEntries
      BY <1>3 DEF EntryFits
    <3>. QED
      BY <3>1 DEF AxisEntries, NewAxis
  <2>. QED
    BY <2>4, <2>5
<1>5. ASSUME NEW a \in 1 .. n
      PROVE  /\ axes[a].sel # Bad /\ axes[a].advanced \in BOOLEAN
             /\ Fits(axes[a].sel, shape[a])
             /\ axes[a].sel.kind = "Fancy" => axes[a].advanced
             /\ axes[a].advanced => axes[a].sel.kind # "Range"
  <2>1. PICK p \in 1 .. Len(entries) : entries[p] = axes[a] /\ axes[a] # NewAxis
    BY <1>4
  <2>2. axes[a].sel # Bad
    BY <1>3, <2>1 DEF Whole
  <2>. QED
    BY <1>3, <2>2 DEF EntryFits, AxisEntries
<1>6. ASSUME NEW a \in 1 .. n
      PROVE  axes[a].sel \in Sel /\ axes[a].sel.len \in Nat /\ (axes[a].sel.kind = "Point" => axes[a].sel.len = 1)
             /\ axes[a].sel.kind \in {"Point", "Range", "Fancy"}
  BY <1>5 DEF Fits, Sel
<1>7. sels \in Seq(Sel) /\ Len(sels) = n /\ \A a \in 1 .. n : sels[a] = axes[a].sel
  <2>1. sels = [a \in 1 .. n |-> axes[a].sel]
    BY <1>3 DEF Map
  <2>. HIDE DEF sels
  <2>2. sels \in [1 .. n -> Sel]
    BY <1>6, <2>1
  <2>. QED
    BY <1>3, <2>1, <2>2
<1>8. group \subseteq 1 .. n /\ arrays \subseteq 1 .. n
  BY <1>3
<1>9. lengths \subseteq Nat /\ IsFiniteSet(lengths)
  <2>1. lengths \subseteq Nat
    BY <1>6, <1>8
  <2>2. IsFiniteSet(arrays)
    <3>. HIDE DEF arrays
    <3>1. IsFiniteSet(1 .. n) /\ arrays \in SUBSET (1 .. n)
      BY <1>3, <1>8, FS_Interval
    <3>. QED
      BY <3>1, FS_Subset
  <2>. DEFINE f == [a \in arrays |-> axes[a].sel.len]
  <2>3. f \in Surjection(arrays, lengths)
    <3>. HIDE DEF arrays
    <3>1. f \in [arrays -> lengths]
      OBVIOUS
    <3>2. \A t \in lengths : \E a \in arrays : f[a] = t
      OBVIOUS
    <3>. QED
      BY <3>1, <3>2 DEF Surjection
  <2>. HIDE DEF lengths, arrays, f
  <2>4. IsFiniteSet(lengths)
    BY <2>2, <2>3, FS_Surjection
  <2>. QED
    BY <2>1, <2>4
<1>10. len \in Nat /\ \A m \in lengths : m = 1 \/ m = len
  <2>. HIDE DEF lengths
  <2>. QED
    BY <1>1, <1>9, BroadcastFacts
<1>. HIDE DEF len, sels
<1>11. ASSUME NEW a \in 1 .. n
       PROVE  a \in group => axes[a].sel.len = 1 \/ axes[a].sel.len = len
  <2>. SUFFICES ASSUME a \in group
                PROVE  axes[a].sel.len = 1 \/ axes[a].sel.len = len
    OBVIOUS
  <2>1. axes[a].advanced
    OBVIOUS
  <2>2. CASE axes[a].sel.kind = "Fancy"
    <3>1. axes[a].sel.len \in lengths
      BY <2>2
    <3>. QED
      BY <1>10, <3>1
  <2>3. CASE axes[a].sel.kind # "Fancy"
    BY <1>5, <1>6, <2>1, <2>3
  <2>. QED
    BY <2>2, <2>3
<1>12. positions = Advanced(entries)
  BY DEF Advanced
<1>. HIDE DEF positions
<1>13. outShape \in Seq(Nat)
  BY <1>10, <1>12, OutShapeFacts
<1>14. ASSUME NEW a \in 1 .. n, axes[a].sel.len = 0
       PROVE  Product(outShape) = 0
  <2>1. PICK p \in 1 .. Len(entries) : entries[p] = axes[a] /\ axes[a] # NewAxis
    BY <1>4
  <2>2. axes[a].advanced => len = 0
    <3>1. axes[a].advanced => a \in group
      BY <1>3
    <3>. HIDE DEF group
    <3>. QED
      BY <1>11, <1>14, <3>1
  <2>. HIDE DEF group
  <2>3. entries[p] # NewAxis /\ entries[p].sel.len = 0 /\ (entries[p].advanced => len = 0)
    BY <1>14, <2>1, <2>2
  <2>. QED
    BY <1>10, <1>12, <2>3, OutShapeFacts
<1>15. \A a \in 1 .. n : a \in group <=> axes[a].advanced
  BY <1>3
<1>. HIDE DEF group, outShape
<1>16. ASSUME NEW a \in 1 .. n
       PROVE  /\ Fits(sels[a], shape[a])
              /\ a \in group => sels[a].kind # "Range" /\ (sels[a].len = 1 \/ sels[a].len = len)
              /\ a \notin group => sels[a].kind # "Fancy"
              /\ sels[a].len = 0 => Product(outShape) = 0
  BY <1>5, <1>7, <1>11, <1>14, <1>15
<1>17. group \subseteq 1 .. n
  BY <1>8 DEF group
<1>18. Fitted(shape, res)
  BY <1>2, <1>7, <1>10, <1>13, <1>16, <1>17 DEF Fitted, n
<1>. QED
  BY <1>18 DEF res

\* Whatever is not refused takes of each axis what is on it (Selection::resolve).
LEMMA ResolveFits ==
  ASSUME NEW shape \in Seq(Nat), NEW ixs \in Seq(Index), Resolve(shape, ixs) # Bad
  PROVE  Fitted(shape, Resolve(shape, ixs))
<1>. DEFINE entries == Expand(shape, ixs).list
<1>1. Expand(shape, ixs) # Bad /\ Resolve(shape, ixs) = Combine(entries)
  BY DEF Resolve
<1>2. Fitting(shape, entries, Len(shape)) /\ Whole(entries)
  <2>1. /\ Fitting(shape, entries, Len(shape))
        /\ \A p \in DOMAIN entries : entries[p] # NewAxis => entries[p].sel # Bad
    BY <1>1, ExpandFits
  <2>. QED
    BY <2>1 DEF Fitting, Whole
<1>. HIDE DEF entries
<1>. QED
  BY <1>1, <1>2, CombineFits

---------------------------------------------------------------------------
(* The dimensions of a layout.                                             *)

ProperDims == {d \in Dim : ProperDim(d)}

LEMMA DimFacts ==
  ASSUME NEW d \in ProperDims
  PROVE  /\ Least(d) \in Int /\ Least(d) <= 0 /\ Most(d) \in Nat
         /\ d.len \in Nat /\ d.len >= 2
         /\ d.kind = "Stride" => /\ d.step \in Int /\ d.step # 0
                                 /\ \A k \in 0 .. d.len - 1 : k * d.step \in Least(d) .. Most(d)
         /\ d.kind # "Stride" => /\ d.kind = "List" /\ d.offsets \in Seq(Nat) /\ Len(d.offsets) = d.len
                                 /\ \A k \in 0 .. d.len - 1 : d.offsets[k + 1] \in Least(d) .. Most(d)
<1>1. d \in Dim /\ d.len >= 2 /\ (d.kind = "Stride" => d.step # 0) /\ (d.kind = "List" => Len(d.offsets) = d.len)
  BY DEF ProperDims, ProperDim
<1>2. \/ d.kind = "Stride" /\ d.len \in Nat /\ d.step \in Int
      \/ d.kind = "List" /\ d.len \in Nat /\ d.offsets \in Seq(Nat)
  BY <1>1 DEF Dim
<1>3. CASE d.kind = "Stride"
  <2>. DEFINE n == d.len
              s == d.step
  <2>1. n \in Nat /\ n >= 2 /\ s \in Int /\ s # 0
    BY <1>1, <1>2, <1>3
  <2>2. /\ Least(d) = IF s < 0 THEN (n - 1) * s ELSE 0
        /\ Most(d) = IF s > 0 THEN (n - 1) * s ELSE 0
    BY <1>3 DEF Least, Most
  <2>. HIDE DEF n, s
  <2>3. CASE s > 0
    <3>1. (n - 1) * s \in Nat
      BY <2>1, <2>3
    <3>2. ASSUME NEW k \in 0 .. n - 1
          PROVE  k * s \in 0 .. (n - 1) * s
      <4>. DEFINE j == n - 1 - k
      <4>1. j \in Nat /\ k \in Nat /\ n - 1 = j + k
        BY <2>1
      <4>. HIDE DEF j
      <4>2. (j + k) * s = j * s + k * s /\ j * s \in Nat /\ k * s \in Nat
        BY <2>1, <2>3, <4>1
      <4>. QED
        BY <4>1, <4>2
    <3>. QED
      BY <1>3, <2>1, <2>2, <2>3, <3>1, <3>2 DEF n, s
  <2>4. CASE s < 0
    <3>. DEFINE t == -s
    <3>0. t \in Nat /\ s = -t
      BY <2>1, <2>4
    <3>. HIDE DEF t
    <3>1. (n - 1) * s = -((n - 1) * t) /\ (n - 1) * t \in Nat
      BY <2>1, <3>0
    <3>2. ASSUME NEW k \in 0 .. n - 1
          PROVE  k * s \in (n - 1) * s .. 0
      <4>. DEFINE j == n - 1 - k
      <4>1. j \in Nat /\ k \in Nat /\ n - 1 = j + k
        BY <2>1
      <4>. HIDE DEF j
      <4>2. (j + k) * t = j * t + k * t /\ j * t \in Nat /\ k * t \in Nat /\ k * s = -(k * t)
        BY <2>1, <3>0, <4>1
      <4>. QED
        BY <3>1, <4>1, <4>2
    <3>. QED
      BY <1>3, <2>1, <2>2, <2>4, <3>1, <3>2 DEF n, s
  <2>. QED
    BY <2>1, <2>3, <2>4
<1>4. CASE d.kind = "List"
  <2>1. d.len \in Nat /\ d.len >= 2 /\ d.offsets \in Seq(Nat) /\ Len(d.offsets) = d.len
    BY <1>1, <1>2, <1>4
  <2>2. Least(d) = 0 /\ Most(d) = Max(Range(d.offsets))
    BY <1>4 DEF Least, Most
  <2>. DEFINE q == d.offsets
              n == d.len
              top == Max(Range(q))
  <2>3. q \in Seq(Nat) /\ Len(q) = n /\ n \in Nat /\ n >= 2 /\ q # << >>
    BY <2>1
  <2>. HIDE DEF q, n
  <2>4. (\E i \in 1 .. n : q[i] = top) /\ \A i \in 1 .. n : q[i] <= top
    BY <2>3, SeqGreatest
  <2>. HIDE DEF top
  <2>5. top \in Nat
    BY <2>3, <2>4
  <2>6. ASSUME NEW k \in 0 .. n - 1
        PROVE  q[k + 1] \in 0 .. top
    <3>1. k + 1 \in 1 .. n
      BY <2>3
    <3>2. q[k + 1] \in Nat /\ q[k + 1] <= top
      BY <2>3, <2>4, <3>1
    <3>. QED
      BY <2>5, <3>2
  <2>. QED
    BY <1>4, <2>1, <2>2, <2>5, <2>6 DEF q, n, top
<1>. QED
  BY <1>2, <1>3, <1>4

\* How far the first n dimensions reach, and those with one more.
LEMMA ReachStep ==
  ASSUME NEW dims, NEW n \in Nat, \A d \in 1 .. n + 1 : dims[d] \in ProperDims
  PROVE  /\ Lows(dims, 0) = 0 /\ Highs(dims, 0) = 0
         /\ Lows(dims, n) \in Int /\ Highs(dims, n) \in Int
         /\ Lows(dims, n + 1) = Lows(dims, n) + Least(dims[n + 1])
         /\ Highs(dims, n + 1) = Highs(dims, n) + Most(dims[n + 1])
<1>. DEFINE N == n + 1
            q == [d \in 1 .. N |-> Least(dims[d])]
            r == [d \in 1 .. N |-> Most(dims[d])]
<1>1. \A a \in 1 .. N : q[a] \in Int /\ r[a] \in Int
  BY DimFacts
<1>2. ASSUME NEW m \in Nat, m <= N
      PROVE  Lows(dims, m) = SumTo(q, m) /\ Highs(dims, m) = SumTo(r, m)
  <2>1. [d \in 1 .. m |-> Least(dims[d])] = [d \in 1 .. m |-> q[d]]
    BY <1>2
  <2>2. [d \in 1 .. m |-> Most(dims[d])] = [d \in 1 .. m |-> r[d]]
    BY <1>2
  <2>. QED
    BY <2>1, <2>2 DEF Lows, Highs, SumTo
<1>3. N \in 1 .. N /\ q[N] = Least(dims[N]) /\ r[N] = Most(dims[N])
  OBVIOUS
<1>. HIDE DEF q, r
<1>4. 0 <= N /\ n <= N /\ N <= N /\ 0 \in Nat /\ N \in Nat
  OBVIOUS
<1>5. Lows(dims, 0) = SumTo(q, 0) /\ Lows(dims, n) = SumTo(q, n) /\ Lows(dims, N) = SumTo(q, N)
  BY <1>2, <1>4
<1>6. Highs(dims, 0) = SumTo(r, 0) /\ Highs(dims, n) = SumTo(r, n) /\ Highs(dims, N) = SumTo(r, N)
  BY <1>2, <1>4
<1>7. SumTo(q, 0) = 0 /\ SumTo(q, n) \in Int /\ SumTo(q, n + 1) = SumTo(q, n) + q[n + 1]
  BY <1>1, SumToStep
<1>8. SumTo(r, 0) = 0 /\ SumTo(r, n) \in Int /\ SumTo(r, n + 1) = SumTo(r, n) + r[n + 1]
  BY <1>1, SumToStep
<1>. QED
  BY <1>3, <1>5, <1>6, <1>7, <1>8

LEMMA ReachSame ==
  ASSUME NEW dims, NEW other, NEW n \in Nat, \A d \in 1 .. n : dims[d] = other[d]
  PROVE  Lows(dims, n) = Lows(other, n) /\ Highs(dims, n) = Highs(other, n)
<1>1. [d \in 1 .. n |-> Least(dims[d])] = [d \in 1 .. n |-> Least(other[d])]
  OBVIOUS
<1>2. [d \in 1 .. n |-> Most(dims[d])] = [d \in 1 .. n |-> Most(other[d])]
  OBVIOUS
<1>. QED
  BY <1>1, <1>2 DEF Lows, Highs

LEMMA ReachAppend ==
  ASSUME NEW dims \in Seq(ProperDims), NEW d \in ProperDims
  PROVE  /\ Append(dims, d) \in Seq(ProperDims)
         /\ Lows(dims, Len(dims)) \in Int /\ Highs(dims, Len(dims)) \in Int
         /\ Lows(Append(dims, d), Len(Append(dims, d))) = Lows(dims, Len(dims)) + Least(d)
         /\ Highs(Append(dims, d), Len(Append(dims, d))) = Highs(dims, Len(dims)) + Most(d)
<1>. DEFINE n == Len(dims)
            all == Append(dims, d)
<1>1. /\ n \in Nat /\ all \in Seq(ProperDims) /\ Len(all) = n + 1 /\ all[n + 1] = d
      /\ \A i \in 1 .. n : all[i] = dims[i]
  OBVIOUS
<1>2. \A i \in 1 .. n + 1 : all[i] \in ProperDims
  BY <1>1
<1>. HIDE DEF n, all
<1>3. Lows(all, n) = Lows(dims, n) /\ Highs(all, n) = Highs(dims, n)
  BY <1>1, ReachSame
<1>4. /\ Lows(all, n) \in Int /\ Highs(all, n) \in Int
      /\ Lows(all, n + 1) = Lows(all, n) + Least(all[n + 1])
      /\ Highs(all, n + 1) = Highs(all, n) + Most(all[n + 1])
  BY <1>1, <1>2, ReachStep
<1>. QED
  BY <1>1, <1>3, <1>4 DEF n, all

\* A list dimension put in adds its greatest offset.
LEMMA ReachInsert ==
  ASSUME NEW dims \in Seq(ProperDims), NEW d \in ProperDims, NEW i \in 1 .. Len(dims) + 1
  PROVE  /\ InsertAt(dims, i, d) \in Seq(ProperDims)
         /\ Lows(InsertAt(dims, i, d), Len(InsertAt(dims, i, d))) = Lows(dims, Len(dims)) + Least(d)
         /\ Highs(InsertAt(dims, i, d), Len(InsertAt(dims, i, d))) = Highs(dims, Len(dims)) + Most(d)
<1>. DEFINE n == Len(dims)
            all == InsertAt(dims, i, d)
            ql == [a \in 1 .. n |-> Least(dims[a])]
            rl == [a \in 1 .. n + 1 |-> Least(all[a])]
            qm == [a \in 1 .. n |-> Most(dims[a])]
            rm == [a \in 1 .. n + 1 |-> Most(all[a])]
<1>1. n \in Nat /\ i \in 1 .. n + 1 /\ \A a \in 1 .. n : dims[a] \in ProperDims
  OBVIOUS
<1>2. /\ all \in Seq(ProperDims) /\ Len(all) = n + 1
      /\ \A a \in 1 .. n + 1 : all[a] = IF a < i THEN dims[a] ELSE IF a = i THEN d ELSE dims[a - 1]
  <2>1. all \in Seq(ProperDims) /\ PutIn(all, dims, i, d)
    BY PutInFacts
  <2>. HIDE DEF all
  <2>. QED
    BY <2>1 DEF PutIn
<1>3. \A a \in 1 .. n + 1 : all[a] \in ProperDims
  BY <1>2
<1>. HIDE DEF all, n
<1>4. Lows(dims, n) = Added(ql) /\ Highs(dims, n) = Added(qm) /\ Lows(all, n + 1) = Added(rl) /\ Highs(all, n + 1) = Added(rm)
  BY DEF Lows, Highs
<1>5. ql \in Seq(Int) /\ qm \in Seq(Int) /\ Len(ql) = n /\ Len(qm) = n
  <2>1. ql \in [1 .. n -> Int] /\ qm \in [1 .. n -> Int]
    BY <1>1, DimFacts
  <2>. HIDE DEF ql, qm
  <2>. QED
    BY <1>1, <2>1
<1>6. rl \in Seq(Int) /\ rm \in Seq(Int) /\ Len(rl) = n + 1 /\ Len(rm) = n + 1
  <2>1. rl \in [1 .. n + 1 -> Int] /\ rm \in [1 .. n + 1 -> Int]
    BY <1>3, DimFacts
  <2>. HIDE DEF rl, rm
  <2>. QED
    BY <1>1, <2>1
<1>7. ASSUME NEW a \in 1 .. n + 1
      PROVE  /\ rl[a] = IF a < i THEN ql[a] ELSE IF a = i THEN Least(d) ELSE ql[a - 1]
             /\ rm[a] = IF a < i THEN qm[a] ELSE IF a = i THEN Most(d) ELSE qm[a - 1]
  <2>1. a < i => a \in 1 .. n
    BY <1>1
  <2>2. ~(a < i) /\ a # i => a - 1 \in 1 .. n
    BY <1>1
  <2>. QED
    BY <1>2, <2>1, <2>2
<1>8. Least(d) \in Int /\ Most(d) \in Int
  BY DimFacts
<1>. HIDE DEF ql, rl, qm, rm
<1>9. PutIn(rl, ql, i, Least(d)) /\ PutIn(rm, qm, i, Most(d))
  BY <1>5, <1>6, <1>7 DEF PutIn
<1>10. Added(rl) = Added(ql) + Least(d)
  BY <1>1, <1>5, <1>6, <1>8, <1>9, AddedInsert
<1>11. Added(rm) = Added(qm) + Most(d)
  BY <1>1, <1>5, <1>6, <1>8, <1>9, AddedInsert
<1>. QED
  BY <1>2, <1>4, <1>10, <1>11 DEF all, n

---------------------------------------------------------------------------
(* Where they lie: axis by axis, then together.                            *)

AxisBase(shape, res, a) == IF Listing(res, a) THEN 0 ELSE res.axes[a].start * Stride(shape, a)
AxisOffset(shape, res, k, a) == IF Listing(res, a) THEN res.axes[a].list[k] * Stride(shape, a) ELSE 0
AxisLow(shape, res, a) == Lows(AxisDims(shape, res, a), Len(AxisDims(shape, res, a)))
AxisHigh(shape, res, a) == Highs(AxisDims(shape, res, a), Len(AxisDims(shape, res, a)))
AxisTop(shape, a) == (shape[a] - 1) * Stride(shape, a)

LEMMA TimesAtMost ==
  ASSUME NEW x \in Int, NEW y \in Int, x <= y, NEW s \in Nat
  PROVE  x * s <= y * s /\ x * s \in Int /\ y * s \in Int
<1>. DEFINE d == y - x
<1>1. d \in Nat /\ y = x + d
  OBVIOUS
<1>. HIDE DEF d
<1>2. (x + d) * s = x * s + d * s /\ d * s \in Nat /\ x * s \in Int
  BY <1>1
<1>. QED
  BY <1>1, <1>2

\* What an axis adds stays on the axis.
LEMMA AxisReach ==
  ASSUME NEW shape \in Seq(Nat), NEW res, Fitted(shape, res), NEW a \in 1 .. Len(shape), res.axes[a].len # 0,
         Stride(shape, a) \in Nat \ {0}
  PROVE  /\ AxisDims(shape, res, a) \in Seq(ProperDims)
         /\ AxisBase(shape, res, a) \in Nat /\ AxisTop(shape, a) \in Nat
         /\ AxisLow(shape, res, a) \in Int /\ AxisHigh(shape, res, a) \in Int
         /\ AxisBase(shape, res, a) + AxisLow(shape, res, a) >= 0
         /\ AxisBase(shape, res, a) + AxisHigh(shape, res, a) <= AxisTop(shape, a)
         /\ \A k \in 1 .. res.len :
              /\ AxisOffset(shape, res, k, a) \in Nat
              /\ AxisBase(shape, res, a) + AxisHigh(shape, res, a) + AxisOffset(shape, res, k, a) <= AxisTop(shape, a)
<1>. DEFINE dim == shape[a]
            sel == res.axes[a]
            s == Stride(shape, a)
            start == sel.start
            len == sel.len
            dims == AxisDims(shape, res, a)
            top == AxisTop(shape, a)
            base == AxisBase(shape, res, a)
            low == AxisLow(shape, res, a)
            high == AxisHigh(shape, res, a)
            off(k) == AxisOffset(shape, res, k, a)
<1>1. /\ dim \in Nat /\ s \in Nat /\ s > 0
      /\ Fits(sel, dim) /\ len # 0
      /\ a \in res.group => sel.kind # "Range" /\ (len = 1 \/ len = res.len)
      /\ a \notin res.group => sel.kind # "Fancy"
  BY DEF Fitted
<1>6. top = (dim - 1) * s /\ (Listing(res, a) <=> a \in res.group /\ len # 1)
  BY DEF AxisTop, Listing
<1>7. dims = IF a \notin res.group /\ len > 1 THEN <<StrideDim(len, s * sel.step)>> ELSE << >>
  BY DEF AxisDims
<1>8. /\ base = IF Listing(res, a) THEN 0 ELSE start * s
      /\ low = Lows(dims, Len(dims)) /\ high = Highs(dims, Len(dims))
      /\ \A k : off(k) = IF Listing(res, a) THEN sel.list[k] * s ELSE 0
  BY DEF AxisBase, AxisOffset, AxisLow, AxisHigh
<1>. HIDE DEF dim, sel, s, dims, top, base, low, high, off
<1>. SUFFICES /\ dims \in Seq(ProperDims)
              /\ base \in Nat /\ top \in Nat /\ low \in Int /\ high \in Int
              /\ base + low >= 0 /\ base + high <= top
              /\ \A k \in 1 .. res.len : off(k) \in Nat /\ base + high + off(k) <= top
  BY DEF dims, base, top, low, high, off
<1>2. /\ start \in Nat /\ len \in Nat /\ len > 0 /\ start < dim
      /\ sel.kind = "Point" => len = 1
      /\ sel.kind = "Range" => sel.step \in Int /\ sel.step # 0 /\ start + (len - 1) * sel.step \in 0 .. dim - 1
      /\ sel.kind = "Fancy" => \A i \in 1 .. len : sel.list[i] \in Nat /\ sel.list[i] < dim
      /\ sel.kind \in {"Point", "Range", "Fancy"}
  <2>1. sel \in Sel /\ sel # Bad
    BY <1>1 DEF Fits
  <2>2. \/ sel.kind = "Point" /\ start \in Nat /\ len = 1
        \/ sel.kind = "Range" /\ start \in Nat /\ len \in Nat /\ sel.step \in Int
        \/ sel.kind = "Fancy" /\ start \in Nat /\ len \in Nat /\ sel.list \in Seq(Nat)
    BY <2>1 DEF Sel
  <2>4. sel.kind = "Fancy" => Len(sel.list) = len /\ \A i \in 1 .. len : sel.list[i] < dim
    BY <1>1 DEF Fits
  <2>3. sel.kind = "Fancy" => \A i \in 1 .. len : sel.list[i] \in Nat /\ sel.list[i] < dim
    <3>. SUFFICES ASSUME sel.kind = "Fancy", NEW i \in 1 .. len
                  PROVE  sel.list[i] \in Nat /\ sel.list[i] < dim
      OBVIOUS
    <3>1. sel.list \in Seq(Nat) /\ Len(sel.list) = len
      BY <2>2, <2>4
    <3>. QED
      BY <2>4, <3>1
  <2>. QED
    BY <1>1, <2>2, <2>3 DEF Fits
<1>. HIDE DEF start, len
<1>9. s \in Nat /\ s > 0 /\ dim \in Nat /\ dim - 1 \in Int
  BY <1>1
<1>3. start * s \in Nat /\ start * s <= top /\ top \in Nat
  <2>1. start <= dim - 1 /\ 0 <= dim - 1 /\ start \in Int /\ dim - 1 \in Int
    BY <1>1, <1>2
  <2>2. start * s <= (dim - 1) * s
    BY <1>1, <2>1, TimesAtMost
  <2>3. 0 * s <= (dim - 1) * s /\ (dim - 1) * s \in Int /\ 0 * s = 0 /\ start * s \in Nat
    BY <1>1, <1>2, <2>1, TimesAtMost
  <2>. QED
    BY <1>6, <2>2, <2>3
<1>4. CASE dims = << >>
  <2>1. Lows(dims, Len(dims)) = 0 /\ Highs(dims, Len(dims)) = 0 /\ dims \in Seq(ProperDims)
    <3>1. [d \in 1 .. 0 |-> Least(dims[d])] = << >> /\ [d \in 1 .. 0 |-> Most(dims[d])] = << >> /\ Len(dims) = 0
      BY <1>4
    <3>2. Lows(dims, 0) = 0 /\ Highs(dims, 0) = 0
      BY <3>1, AddedFacts DEF Lows, Highs
    <3>3. << >> \in Seq(ProperDims)
      OBVIOUS
    <3>. QED
      BY <1>4, <3>1, <3>2, <3>3
  <2>2. CASE Listing(res, a)
    <3>1. sel.kind = "Fancy" /\ len = res.len
      BY <1>1, <1>2, <1>6, <2>2
    <3>2. ASSUME NEW k \in 1 .. res.len
          PROVE  sel.list[k] * s \in Nat /\ sel.list[k] * s <= top
      <4>1. sel.list[k] \in Nat /\ sel.list[k] <= dim - 1 /\ dim - 1 \in Int
        BY <1>1, <1>2, <3>1
      <4>2. sel.list[k] * s <= (dim - 1) * s /\ sel.list[k] * s \in Nat
        <5>. DEFINE x == sel.list[k]
        <5>. HIDE DEF x
        <5>1. x \in Nat /\ x \in Int /\ x <= dim - 1
          BY <4>1 DEF x
        <5>2. x * s <= (dim - 1) * s /\ x * s \in Nat
          BY <1>9, <5>1, TimesAtMost
        <5>. QED
          BY <5>2 DEF x
      <4>. QED
        BY <1>6, <4>2
    <3>3. base = 0 /\ low = 0 /\ high = 0 /\ \A k \in 1 .. res.len : off(k) \in Nat /\ off(k) <= top
      BY <1>8, <2>1, <2>2, <3>2
    <3>. QED
      BY <1>3, <2>1, <3>3
  <2>3. CASE ~Listing(res, a)
    <3>1. base = start * s /\ low = 0 /\ high = 0 /\ \A k \in 1 .. res.len : off(k) = 0
      BY <1>8, <2>1, <2>3
    <3>. QED
      BY <1>3, <2>1, <3>1
  <2>. QED
    BY <2>2, <2>3
<1>5. CASE dims # << >>
  <2>1. /\ a \notin res.group /\ len > 1 /\ ~Listing(res, a) /\ sel.kind = "Range"
        /\ dims = <<StrideDim(len, s * sel.step)>>
    BY <1>1, <1>2, <1>5, <1>6, <1>7
  <2>. DEFINE step == sel.step
              n == len - 1
              d == StrideDim(len, s * step)
              x == n * step
              y == (len - 1) * (s * step)
  <2>2. step \in Int /\ step # 0 /\ n \in Nat /\ n >= 1 /\ start + x \in 0 .. dim - 1
    BY <1>2, <2>1
  <2>. HIDE DEF step
  <2>3. s * step \in Int /\ s * step # 0 /\ (step < 0 <=> s * step < 0)
    BY <1>1, <2>2
  <2>4. y = x * s /\ x \in Int
    <3>1. n * (s * step) = (n * step) * s /\ n * step \in Int
      BY <1>1, <2>2
    <3>. QED
      BY <3>1
  <2>5. d.kind = "Stride" /\ d.len = len /\ d.step = s * step /\ d \in Dim
    BY <1>2, <2>3 DEF StrideDim, Dim
  <2>6. d \in ProperDims
    <3>1. len >= 2 /\ d.kind # "List"
      BY <1>2, <2>1, <2>5
    <3>. HIDE DEF d
    <3>. QED
      BY <2>3, <2>5, <3>1 DEF ProperDims, ProperDim
  <2>7. Least(d) = (IF step < 0 THEN y ELSE 0) /\ Most(d) = (IF step < 0 THEN 0 ELSE y)
    <3>. HIDE DEF d
    <3>1. Least(d) = (IF s * step < 0 THEN y ELSE 0) /\ Most(d) = (IF s * step > 0 THEN y ELSE 0)
      BY <2>5 DEF Least, Most
    <3>2. (s * step < 0 <=> step < 0) /\ (s * step > 0 <=> ~(step < 0))
      <4>. DEFINE z == s * step
      <4>. HIDE DEF z
      <4>1. z \in Int /\ z # 0 /\ (step < 0 <=> z < 0)
        BY <2>3 DEF z
      <4>2. (z < 0 <=> step < 0) /\ (z > 0 <=> ~(step < 0))
        BY <4>1
      <4>. QED
        BY <4>2 DEF z
    <3>. HIDE DEF y
    <3>. QED
      BY <3>1, <3>2
  <2>. HIDE DEF d, y
  <2>8. /\ dims \in Seq(ProperDims)
        /\ Lows(dims, Len(dims)) = Least(d) /\ Highs(dims, Len(dims)) = Most(d)
    <3>0. dims = <<d>>
      BY <2>1 DEF d, step
    <3>1. dims = <<d>> /\ << >> \in Seq(ProperDims) /\ <<d>> = Append(<< >>, d) /\ Len(<< >>) = 0
      BY <3>0
    <3>2. Lows(<< >>, 0) = 0 /\ Highs(<< >>, 0) = 0
      <4>1. [i \in 1 .. 0 |-> Least(<< >>[i])] = << >> /\ [i \in 1 .. 0 |-> Most(<< >>[i])] = << >>
        OBVIOUS
      <4>. QED
        BY <4>1, AddedFacts DEF Lows, Highs
    <3>3. Least(d) \in Int /\ Most(d) \in Int
      BY <2>6, DimFacts
    <3>4. /\ dims \in Seq(ProperDims)
          /\ Lows(dims, Len(dims)) = Lows(<< >>, Len(<< >>)) + Least(d)
          /\ Highs(dims, Len(dims)) = Highs(<< >>, Len(<< >>)) + Most(d)
      BY <2>6, <3>1, ReachAppend
    <3>. QED
      BY <3>1, <3>2, <3>3, <3>4
  <2>9. y \in Int /\ start * s + y >= 0 /\ start * s + y <= top
    <3>. HIDE DEF x
    <3>1. (start + x) * s = start * s + x * s /\ x * s \in Int
      BY <1>1, <1>2, <2>4
    <3>2. start + x <= dim - 1 /\ 0 <= start + x /\ start + x \in Int /\ dim - 1 \in Int
      BY <1>1, <1>2, <2>2, <2>4
    <3>3. (start + x) * s <= (dim - 1) * s /\ 0 * s <= (start + x) * s /\ 0 * s = 0
      <4>. DEFINE z == start + x
                  t == dim - 1
      <4>1. z \in Int /\ t \in Int /\ 0 \in Int /\ z <= t /\ 0 <= z
        BY <3>2
      <4>. HIDE DEF z, t
      <4>2. z * s <= t * s /\ 0 * s <= z * s
        BY <1>9, <4>1, TimesAtMost
      <4>3. 0 * s = 0
        BY <1>9
      <4>. QED
        BY <4>2, <4>3 DEF z, t
    <3>. QED
      BY <1>3, <1>6, <2>4, <3>1, <3>3
  <2>10. Least(d) \in Int /\ Most(d) \in Int /\ start * s + Least(d) >= 0 /\ start * s + Most(d) <= top
    BY <1>3, <2>7, <2>9
  <2>11. base = start * s /\ low = Least(d) /\ high = Most(d) /\ \A k : off(k) = 0
    BY <1>8, <2>1, <2>8
  <2>. QED
    BY <1>3, <2>8, <2>10, <2>11
<1>. QED
  BY <1>4, <1>5

\* How far each axis reaches.
AxesReach(shape, res, n, lows, highs) ==
  \A a \in 1 .. n : /\ AxisDims(shape, res, a) \in Seq(ProperDims) /\ Len(AxisDims(shape, res, a)) <= 1
                    /\ lows[a] = AxisLow(shape, res, a) /\ highs[a] = AxisHigh(shape, res, a)
                    /\ lows[a] \in Int /\ highs[a] \in Int

Reaching(dims, low, high) ==
  dims \in Seq(ProperDims) /\ Lows(dims, Len(dims)) = low /\ Highs(dims, Len(dims)) = high

\* The dimensions of the first m axes reach as far as the axes together.
LEMMA DimsReach ==
  ASSUME NEW shape, NEW res, NEW n \in Nat, NEW lows, NEW highs,
         AxesReach(shape, res, n, lows, highs), NEW m \in 0 .. n
  PROVE  /\ Reaching(DimsUpTo(shape, res, m), SumTo(lows, m), SumTo(highs, m))
         /\ Len(DimsUpTo(shape, res, m)) <= Len(DimsUpTo(shape, res, n))
<1>. DEFINE D(i) == DimsUpTo(shape, res, i)
            A(i) == AxisDims(shape, res, i)
            Good(i) == /\ D(i) \in Seq(ProperDims)
                       /\ Lows(D(i), Len(D(i))) = SumTo(lows, i)
                       /\ Highs(D(i), Len(D(i))) = SumTo(highs, i)
                       /\ Len(D(m)) <= Len(D(i)) \/ i < m
            T == {i \in Nat : i <= n => Good(i)}
<1>6. /\ \A a \in 1 .. n : /\ AxisDims(shape, res, a) \in Seq(ProperDims)
                           /\ lows[a] = AxisLow(shape, res, a) /\ highs[a] = AxisHigh(shape, res, a)
                           /\ lows[a] \in Int /\ highs[a] \in Int
      /\ \A a \in 1 .. n : Len(AxisDims(shape, res, a)) <= 1
  BY DEF AxesReach
<1>0. ASSUME NEW i \in Nat, i + 1 <= n
      PROVE  /\ D(0) = << >> /\ D(i) \in Seq(ProperDims)
             /\ D(i + 1) = D(i) \o A(i + 1)
  <2>. DEFINE q == [a \in 1 .. i + 1 |-> A(a)]
  <2>1. \A a \in 1 .. i + 1 : q[a] \in Seq(ProperDims)
    BY <1>0, <1>6
  <2>2. /\ [a \in 1 .. 0 |-> A(a)] = [a \in 1 .. 0 |-> q[a]]
        /\ [a \in 1 .. i |-> A(a)] = [a \in 1 .. i |-> q[a]]
        /\ [a \in 1 .. i + 1 |-> A(a)] = [a \in 1 .. i + 1 |-> q[a]]
        /\ q[i + 1] = A(i + 1)
    OBVIOUS
  <2>3. /\ D(0) = FlattenSeq([a \in 1 .. 0 |-> q[a]])
        /\ D(i) = FlattenSeq([a \in 1 .. i |-> q[a]])
        /\ D(i + 1) = FlattenSeq([a \in 1 .. i + 1 |-> q[a]])
    BY <2>2 DEF DimsUpTo
  <2>. HIDE DEF q, D
  <2>4. /\ FlattenSeq([a \in 1 .. 0 |-> q[a]]) = << >>
        /\ FlattenSeq([a \in 1 .. i |-> q[a]]) \in Seq(ProperDims)
        /\ FlattenSeq([a \in 1 .. i + 1 |-> q[a]]) = FlattenSeq([a \in 1 .. i |-> q[a]]) \o q[i + 1]
    BY <2>1, FlattenStep
  <2>. QED
    BY <2>2, <2>3, <2>4
<1>1. 0 \in T
  <2>1. D(0) = << >>
    <3>1. [a \in 1 .. 0 |-> A(a)] = << >> /\ Len(<< >>) = 0
      OBVIOUS
    <3>. QED
      BY <3>1 DEF DimsUpTo, FlattenSeq
  <2>2. Lows(<< >>, 0) = 0 /\ Highs(<< >>, 0) = 0
    <3>1. [i \in 1 .. 0 |-> Least(<< >>[i])] = << >> /\ [i \in 1 .. 0 |-> Most(<< >>[i])] = << >>
      OBVIOUS
    <3>. QED
      BY <3>1, AddedFacts DEF Lows, Highs
  <2>3. SumTo(lows, 0) = 0 /\ SumTo(highs, 0) = 0
    <3>1. [a \in 1 .. 0 |-> lows[a]] = << >> /\ [a \in 1 .. 0 |-> highs[a]] = << >>
      OBVIOUS
    <3>. QED
      BY <3>1, AddedFacts DEF SumTo
  <2>4. << >> \in Seq(ProperDims) /\ Len(<< >>) = 0
    OBVIOUS
  <2>5. Len(D(m)) <= Len(D(0)) \/ 0 < m
    <3>1. m = 0 \/ 0 < m
      OBVIOUS
    <3>. HIDE DEF D
    <3>. QED
      BY <2>1, <2>4, <3>1
  <2>. HIDE DEF D
  <2>6. Good(0)
    BY <2>1, <2>2, <2>3, <2>4, <2>5
  <2>. QED
    BY <2>6
<1>2. ASSUME NEW i \in Nat, i \in T
      PROVE  i + 1 \in T
  <2>. SUFFICES ASSUME i + 1 <= n
                PROVE  Good(i + 1)
    OBVIOUS
  <2>. DEFINE d == D(i)
              x == A(i + 1)
              e == D(i + 1)
  <2>1. Good(i) /\ i + 1 \in 1 .. n
    BY <1>2
  <2>2. d \in Seq(ProperDims) /\ e = d \o x
    BY <1>0
  <2>3. x \in Seq(ProperDims) /\ Len(x) <= 1
        /\ lows[i + 1] = Lows(x, Len(x)) /\ highs[i + 1] = Highs(x, Len(x))
    BY <1>6, <2>1 DEF AxisLow, AxisHigh
  <2>4. /\ SumTo(lows, i) \in Int /\ SumTo(highs, i) \in Int
        /\ SumTo(lows, i + 1) = SumTo(lows, i) + lows[i + 1]
        /\ SumTo(highs, i + 1) = SumTo(highs, i) + highs[i + 1]
    <3>1. \A a \in 1 .. i + 1 : lows[a] \in Int /\ highs[a] \in Int
      BY <1>6, <2>1
    <3>. QED
      BY <3>1, SumToStep
  <2>5. Lows(d, Len(d)) = SumTo(lows, i) /\ Highs(d, Len(d)) = SumTo(highs, i) /\ (Len(D(m)) <= Len(d) \/ i < m)
    BY <2>1
  <2>6. Len(D(m)) \in Nat \/ i < m
    <3>1. CASE m <= i
      <4>1. i < m \/ Len(D(m)) <= Len(d)
        BY <2>1
      <4>2. CASE m = i
        BY <2>2, <4>2
      <4>3. CASE m < i
        <5>1. m \in Nat /\ m + 1 <= n
          BY <4>3
        <5>2. D(m) \in Seq(ProperDims)
          BY <1>0, <5>1
        <5>. HIDE DEF D
        <5>. QED
          BY <5>2
      <4>. QED
        BY <3>1, <4>2, <4>3
    <3>. QED
      BY <3>1
  <2>. DEFINE lm == Len(D(m))
              ls == SumTo(lows, i)
              hs == SumTo(highs, i)
              lx == lows[i + 1]
              hx == highs[i + 1]
  <2>7. (lm <= Len(d) /\ lm \in Nat) \/ i < m
    BY <2>5, <2>6
  <2>8. e \in Seq(ProperDims) /\ Lows(e, Len(e)) = ls + lx /\ Highs(e, Len(e)) = hs + hx
        /\ (Len(e) = Len(d) \/ Len(e) = Len(d) + 1)
    <3>. HIDE DEF D, A, d, x, e, lm, ls, hs, lx, hx
    <3>0. x = << >> \/ (x = <<x[1]>> /\ x[1] \in ProperDims)
      <4>1. x \in Seq(ProperDims) /\ Len(x) <= 1
        BY <2>3
      <4>. QED
        BY <4>1, ShortSeq
    <3>1. CASE x = << >>
      <4>1. e = d /\ lx = 0 /\ hx = 0 /\ ls \in Int /\ hs \in Int
        <5>1. Lows(<< >>, 0) = 0 /\ Highs(<< >>, 0) = 0 /\ Len(<< >>) = 0
          <6>1. [j \in 1 .. 0 |-> Least(<< >>[j])] = << >> /\ [j \in 1 .. 0 |-> Most(<< >>[j])] = << >>
            OBVIOUS
          <6>. QED
            BY <6>1, AddedFacts DEF Lows, Highs
        <5>2. d \o << >> = d
          BY <2>2
        <5>. QED
          BY <2>2, <2>3, <2>4, <3>1, <5>1, <5>2 DEF lx, hx, ls, hs
      <4>. QED
        BY <2>2, <2>5, <4>1 DEF ls, hs
    <3>2. CASE x = <<x[1]>> /\ x[1] \in ProperDims
      <4>. DEFINE y == x[1]
      <4>0. x = <<y>> /\ y \in ProperDims
        BY <3>2
      <4>. HIDE DEF y
      <4>1. e = Append(d, y) /\ Len(Append(d, y)) = Len(d) + 1 /\ Len(d) \in Nat
        BY <2>2, <4>0
      <4>2. /\ Append(d, y) \in Seq(ProperDims)
            /\ Lows(Append(d, y), Len(Append(d, y))) = Lows(d, Len(d)) + Least(y)
            /\ Highs(Append(d, y), Len(Append(d, y))) = Highs(d, Len(d)) + Most(y)
        BY <2>2, <4>0, ReachAppend
      <4>3. lx = Least(y) /\ hx = Most(y)
        <5>1. Lows(<< >>, 0) = 0 /\ Highs(<< >>, 0) = 0 /\ Len(<< >>) = 0 /\ << >> \in Seq(ProperDims) /\ <<y>> = Append(<< >>, y)
          <6>1. [j \in 1 .. 0 |-> Least(<< >>[j])] = << >> /\ [j \in 1 .. 0 |-> Most(<< >>[j])] = << >> /\ Len(<< >>) = 0
                /\ << >> \in Seq(ProperDims) /\ <<y>> = Append(<< >>, y)
            OBVIOUS
          <6>. QED
            BY <6>1, AddedFacts DEF Lows, Highs
        <5>2. Least(y) \in Int /\ Most(y) \in Int
          BY <4>0, DimFacts
        <5>3. Lows(x, Len(x)) = 0 + Least(y) /\ Highs(x, Len(x)) = 0 + Most(y)
          BY <4>0, <5>1, ReachAppend
        <5>. QED
          BY <2>3, <5>2, <5>3 DEF lx, hx
      <4>. QED
        BY <2>5, <4>1, <4>2, <4>3 DEF ls, hs
    <3>. QED
      BY <3>0, <3>1, <3>2
  <2>9. Len(d) \in Nat /\ (lm <= Len(e) \/ i + 1 < m \/ i + 1 = m)
    <3>1. Len(d) \in Nat
      BY <2>2
    <3>. HIDE DEF d, e, lm, ls, hs, lx, hx
    <3>. QED
      BY <2>7, <2>8, <3>1
  <2>10. i + 1 = m => lm <= Len(e)
    <3>1. i + 1 = m => D(m) = e
      OBVIOUS
    <3>2. Len(e) <= Len(e)
      <4>. HIDE DEF e, d
      <4>. QED
        BY <2>8
    <3>. HIDE DEF D, e
    <3>. QED
      BY <3>1, <3>2
  <2>11. Lows(e, Len(e)) = SumTo(lows, i + 1) /\ Highs(e, Len(e)) = SumTo(highs, i + 1)
    BY <2>4, <2>8
  <2>12. Len(D(m)) <= Len(e) \/ i + 1 < m
    BY <2>9, <2>10
  <2>. HIDE DEF D
  <2>. QED
    BY <2>8, <2>11, <2>12
<1>3. Nat \subseteq T
  <2>. HIDE DEF T
  <2>. QED
    BY <1>1, <1>2, NatSteps
<1>4. m \in Nat /\ m <= n /\ n <= n /\ ~(n < m)
  OBVIOUS
<1>5. Good(m) /\ Good(n)
  BY <1>3, <1>4
<1>. HIDE DEF D
<1>. QED
  BY <1>4, <1>5 DEF D, Reaching

\* The last element of every axis is the last element of the array.
LEMMA TopsAdd ==
  ASSUME NEW shape \in Seq(Nat), NEW tops, \A a \in 1 .. Len(shape) : tops[a] = AxisTop(shape, a)
  PROVE  SumTo(tops, Len(shape)) = Product(shape) - 1
<1>. DEFINE n == Len(shape)
            T == {m \in Nat : m <= n => SumTo(tops, m) = Product(shape) - Stride(shape, m) /\ Stride(shape, m) \in Nat}
<1>1. n \in Nat /\ Product(shape) \in Nat
  BY ProductFacts
<1>2. Stride(shape, 0) = Product(shape) /\ Stride(shape, n) = 1
  BY StrideStep
<1>3. ASSUME NEW m \in 0 .. n - 1
      PROVE  /\ Stride(shape, m) = shape[m + 1] * Stride(shape, m + 1)
             /\ Stride(shape, m) \in Nat /\ Stride(shape, m + 1) \in Nat
             /\ shape[m + 1] \in Nat
  <2>1. shape[m + 1] \in Nat
    OBVIOUS
  <2>. QED
    BY <2>1, StrideStep
<1>. HIDE DEF n
<1>4. ASSUME NEW a \in 1 .. n
      PROVE  tops[a] \in Int /\ tops[a] = (shape[a] - 1) * Stride(shape, a)
  <2>1. a - 1 \in 0 .. n - 1 /\ (a - 1) + 1 = a
    BY <1>1
  <2>2. Stride(shape, a) \in Nat /\ shape[a] \in Nat
    BY <1>3, <2>1
  <2>3. tops[a] = (shape[a] - 1) * Stride(shape, a)
    BY DEF AxisTop, n
  <2>. QED
    BY <2>2, <2>3
<1>5. 0 \in T
  <2>1. [a \in 1 .. 0 |-> tops[a]] = << >>
    OBVIOUS
  <2>2. SumTo(tops, 0) = 0
    BY <2>1, AddedFacts DEF SumTo
  <2>. QED
    BY <1>1, <1>2, <2>2
<1>6. ASSUME NEW m \in Nat, m \in T
      PROVE  m + 1 \in T
  <2>. SUFFICES ASSUME m + 1 <= n
                PROVE  SumTo(tops, m + 1) = Product(shape) - Stride(shape, m + 1) /\ Stride(shape, m + 1) \in Nat
    OBVIOUS
  <2>1. SumTo(tops, m) = Product(shape) - Stride(shape, m) /\ m \in 0 .. n - 1 /\ m + 1 \in 1 .. n
    BY <1>1, <1>6
  <2>2. \A a \in 1 .. m + 1 : tops[a] \in Int
    BY <1>1, <1>4
  <2>3. SumTo(tops, m + 1) = SumTo(tops, m) + tops[m + 1]
    BY <2>2, SumToStep
  <2>. DEFINE s == Stride(shape, m)
              t == Stride(shape, m + 1)
              x == shape[m + 1]
  <2>4. s = x * t /\ s \in Nat /\ t \in Nat /\ x \in Nat
    BY <1>3, <2>1
  <2>5. tops[m + 1] = (x - 1) * t
    BY <1>4, <2>1
  <2>. HIDE DEF s, t, x
  <2>6. (x - 1) * t = x * t - t /\ x * t \in Int
    BY <2>4
  <2>. QED
    BY <1>1, <2>1, <2>3, <2>4, <2>5, <2>6 DEF s, t
<1>7. n \in T
  <2>. HIDE DEF T
  <2>. QED
    BY <1>1, <1>5, <1>6, NatSteps
<1>. QED
  BY <1>1, <1>2, <1>7 DEF n

\* A walk over something stays in the array (Gathered::new).
LEMMA GatheredLocated ==
  ASSUME NEW shape \in Seq(Nat), NEW res, Fitted(shape, res), \A a \in 1 .. Len(shape) : res.axes[a].len # 0,
         Gathered(shape, res) # Bad
  PROVE  Gathered(shape, res).kind = "Gathered" /\ Located(Gathered(shape, res), Product(shape))
<1>. DEFINE n == Len(shape)
            dims == DimsUpTo(shape, res, n)
            before == DimsUpTo(shape, res, Min(res.group) - 1)
            at == IF res.adjacent THEN Len(before) + 1 ELSE 1
            offsets == [k \in 1 .. res.len |-> Offset(shape, res, k)]
            all == IF res.group # {} /\ res.len > 1 THEN InsertAt(dims, at, ListDim(offsets)) ELSE dims
            base == Base(shape, res)
            walk == Gathered(shape, res)
            bs == [a \in 1 .. n |-> AxisBase(shape, res, a)]
            ls == [a \in 1 .. n |-> AxisLow(shape, res, a)]
            hs == [a \in 1 .. n |-> AxisHigh(shape, res, a)]
            us == [a \in 1 .. n |-> AxisTop(shape, a)]
            bh == [a \in 1 .. n |-> AxisBase(shape, res, a) + AxisHigh(shape, res, a)]
            os(k) == [a \in 1 .. n |-> AxisOffset(shape, res, k, a)]
<1>1. /\ n \in Nat /\ Len(res.axes) = n /\ DOMAIN res.axes = 1 .. n
      /\ res.group \subseteq 1 .. n /\ res.len \in Nat
  BY DEF Fitted
<1>2. walk = [kind |-> "Gathered", base |-> base, dims |-> all]
  <2>1. Len(res.axes) = n
    BY <1>1
  <2>. QED
    BY <2>1 DEF Gathered
<1>3. walk.kind = "Gathered" /\ walk.base = base /\ walk.dims = all
  BY <1>2
<1>. HIDE DEF walk
<1>4. ASSUME NEW a \in 1 .. n
      PROVE  Stride(shape, a) \in Nat \ {0}
  <2>1. \A b \in DOMAIN shape : shape[b] # 0
    <3>1. DOMAIN shape = 1 .. n
      OBVIOUS
    <3>2. ASSUME NEW b \in 1 .. n
          PROVE  shape[b] # 0
      <4>1. Fits(res.axes[b], shape[b]) /\ res.axes[b].len # 0
        BY DEF Fitted
      <4>2. res.axes[b] \in Sel /\ res.axes[b] # Bad
        BY <4>1 DEF Fits
      <4>3. res.axes[b].start \in Nat /\ res.axes[b].len \in Nat
        BY <4>2 DEF Sel
      <4>4. res.axes[b].start < shape[b]
        BY <4>1, <4>3 DEF Fits
      <4>5. shape[b] \in Nat
        OBVIOUS
      <4>. QED
        BY <4>3, <4>4, <4>5
    <3>. QED
      BY <3>1, <3>2
  <2>2. a \in DOMAIN shape
    OBVIOUS
  <2>. QED
    BY <2>1, <2>2, StrideSplit
<1>5. ASSUME NEW a \in 1 .. n
      PROVE  /\ AxisDims(shape, res, a) \in Seq(ProperDims) /\ Len(AxisDims(shape, res, a)) <= 1
             /\ bs[a] \in Nat /\ us[a] \in Nat /\ ls[a] \in Int /\ hs[a] \in Int
             /\ bs[a] + ls[a] >= 0 /\ bs[a] + hs[a] <= us[a] /\ bh[a] = bs[a] + hs[a]
             /\ \A k \in 1 .. res.len : os(k)[a] \in Nat /\ bh[a] + os(k)[a] <= us[a]
  <2>1. Len(AxisDims(shape, res, a)) <= 1
    BY DEF AxisDims
  <2>2. res.axes[a].len # 0 /\ Stride(shape, a) \in Nat \ {0}
    BY <1>4
  <2>. QED
    BY <2>1, <2>2, AxisReach
<1>6. /\ dims \in Seq(ProperDims) /\ Lows(dims, Len(dims)) = SumTo(ls, n) /\ Highs(dims, Len(dims)) = SumTo(hs, n)
      /\ \A m \in 0 .. n : DimsUpTo(shape, res, m) \in Seq(ProperDims) /\ Len(DimsUpTo(shape, res, m)) <= Len(dims)
  <2>1. \A a \in 1 .. n : ls[a] = AxisLow(shape, res, a) /\ hs[a] = AxisHigh(shape, res, a)
    OBVIOUS
  <2>2. n \in 0 .. n
    BY <1>1
  <2>3. AxesReach(shape, res, n, ls, hs)
    <3>. HIDE DEF ls, hs, bs, us, bh, os, n
    <3>. QED
      BY <1>5, <2>1 DEF AxesReach
  <2>. HIDE DEF ls, hs, n
  <2>4. ASSUME NEW m \in 0 .. n
        PROVE  /\ Reaching(DimsUpTo(shape, res, m), SumTo(ls, m), SumTo(hs, m))
               /\ Len(DimsUpTo(shape, res, m)) <= Len(DimsUpTo(shape, res, n))
    BY <1>1, <2>3, DimsReach
  <2>. QED
    BY <2>2, <2>4 DEF Reaching
<1>7. base = SumTo(bs, n)
  <2>1. [a \in DOMAIN res.axes |-> IF Listing(res, a) THEN 0 ELSE res.axes[a].start * Stride(shape, a)]
          = [a \in 1 .. n |-> bs[a]]
    BY <1>1 DEF AxisBase
  <2>. QED
    BY <2>1 DEF Base, SumTo
<1>8. ASSUME NEW k \in 1 .. res.len
      PROVE  offsets[k] = SumTo(os(k), n)
  <2>1. [a \in DOMAIN res.axes |-> IF Listing(res, a) THEN res.axes[a].list[k] * Stride(shape, a) ELSE 0]
          = [a \in 1 .. n |-> os(k)[a]]
    BY <1>1 DEF AxisOffset
  <2>. QED
    BY <2>1 DEF Offset, SumTo
<1>9. SumTo(us, n) = Product(shape) - 1 /\ Product(shape) \in Nat
  <2>1. \A a \in 1 .. Len(shape) : us[a] = AxisTop(shape, a)
    OBVIOUS
  <2>. HIDE DEF us
  <2>. QED
    BY <2>1, TopsAdd, ProductFacts
<1>. HIDE DEF bs, ls, hs, us, bh, os, n, dims, offsets, base
<1>10. SumTo(bs, n) \in Int /\ SumTo(ls, n) \in Int /\ SumTo(bs, n) + SumTo(ls, n) >= 0
  <2>1. \A a \in 1 .. n : bs[a] \in Int /\ ls[a] \in Int /\ bs[a] + ls[a] >= 0
    BY <1>5
  <2>. QED
    BY <1>1, <2>1, SumsAtLeast
<1>11. SumTo(hs, n) \in Int /\ SumTo(bs, n) + SumTo(hs, n) <= SumTo(us, n) /\ SumTo(us, n) \in Int
  <2>1. \A a \in 1 .. n : bs[a] \in Int /\ hs[a] \in Int /\ us[a] \in Int /\ bs[a] + hs[a] <= us[a]
    BY <1>5
  <2>. QED
    BY <1>1, <2>1, SumsAtMost
<1>12. SumTo(bh, n) \in Int /\ SumTo(bs, n) + SumTo(hs, n) <= SumTo(bh, n)
  <2>1. \A a \in 1 .. n : bs[a] \in Int /\ hs[a] \in Int /\ bh[a] \in Int /\ bs[a] + hs[a] <= bh[a]
    BY <1>5
  <2>. QED
    BY <1>1, <2>1, SumsAtMost
<1>13. SumTo(bs, n) >= 0
  <2>. DEFINE z == [a \in 1 .. n |-> 0]
  <2>1. \A a \in 1 .. n : z[a] \in Int /\ bs[a] \in Int /\ us[a] \in Int /\ bs[a] + z[a] >= 0 /\ z[a] + z[a] >= 0
        /\ z[a] + z[a] <= z[a]
    BY <1>5
  <2>. HIDE DEF z
  <2>2. SumTo(z, n) \in Int /\ SumTo(bs, n) + SumTo(z, n) >= 0
    BY <1>1, <2>1, SumsAtLeast
  <2>3. SumTo(z, n) + SumTo(z, n) <= SumTo(z, n)
    BY <1>1, <2>1, SumsAtMost
  <2>. QED
    BY <1>10, <2>2, <2>3
<1>14. ASSUME NEW k \in 1 .. res.len
       PROVE  offsets[k] \in Nat /\ SumTo(bs, n) + SumTo(hs, n) + offsets[k] <= SumTo(us, n)
  <2>. DEFINE ok == os(k)
              z == [a \in 1 .. n |-> 0]
  <2>1. \A a \in 1 .. n : ok[a] \in Nat /\ bh[a] \in Int /\ bh[a] + ok[a] <= us[a] /\ us[a] \in Int
    BY <1>5
  <2>2. \A a \in 1 .. n : z[a] = 0
    OBVIOUS
  <2>. HIDE DEF ok, z
  <2>3. SumTo(ok, n) \in Int /\ SumTo(bh, n) + SumTo(ok, n) <= SumTo(us, n)
    <3>1. \A a \in 1 .. n : bh[a] \in Int /\ ok[a] \in Int /\ us[a] \in Int /\ bh[a] + ok[a] <= us[a]
      BY <2>1
    <3>. QED
      BY <1>1, <3>1, SumsAtMost
  <2>4. SumTo(z, n) \in Int /\ SumTo(ok, n) + SumTo(z, n) >= 0
    <3>1. \A a \in 1 .. n : ok[a] \in Int /\ z[a] \in Int /\ ok[a] + z[a] >= 0
      BY <2>1, <2>2
    <3>. QED
      BY <1>1, <3>1, SumsAtLeast
  <2>5. SumTo(z, n) + SumTo(z, n) <= SumTo(z, n)
    BY <1>1, <2>2, SumsAtMost
  <2>6. offsets[k] = SumTo(ok, n)
    BY <1>8 DEF ok
  <2>. QED
    BY <1>10, <1>11, <1>12, <2>3, <2>4, <2>5, <2>6
<1>15. base \in Nat /\ base + SumTo(ls, n) >= 0 /\ base + SumTo(hs, n) <= Product(shape) - 1
  BY <1>7, <1>9, <1>10, <1>11, <1>13
<1>16. all \in Seq(ProperDims) /\ base + Lows(all, Len(all)) >= 0 /\ base + Highs(all, Len(all)) <= Product(shape) - 1
       /\ Lows(all, Len(all)) \in Int /\ Highs(all, Len(all)) \in Int
  <2>1. CASE ~(res.group # {} /\ res.len > 1)
    <3>1. all = dims
      BY <2>1
    <3>. QED
      BY <1>6, <1>10, <1>11, <1>15, <3>1
  <2>2. CASE res.group # {} /\ res.len > 1
    <3>. DEFINE d == ListDim(offsets)
    <3>1. offsets \in Seq(Nat) /\ Len(offsets) = res.len /\ offsets # << >>
      <4>1. offsets = [k \in 1 .. res.len |-> offsets[k]]
        BY DEF offsets
      <4>2. offsets \in [1 .. res.len -> Nat]
        BY <1>14, <4>1
      <4>3. offsets \in Seq(Nat) /\ Len(offsets) = res.len
        BY <1>1, <4>2
      <4>4. Len(offsets) # 0 /\ Len(<< >>) = 0
        BY <1>1, <2>2, <4>3
      <4>. QED
        BY <4>3, <4>4
    <3>2. d.kind = "List" /\ d.len = Len(offsets) /\ d.offsets = offsets /\ d \in Dim
      <4>1. d = [kind |-> "List", len |-> Len(offsets), offsets |-> offsets]
        BY DEF ListDim
      <4>. QED
        BY <3>1, <4>1 DEF Dim
    <3>. HIDE DEF d
    <3>3. d \in ProperDims
      <4>1. d.len >= 2 /\ d.kind # "Stride" /\ Len(d.offsets) = d.len
        BY <1>1, <2>2, <3>1, <3>2
      <4>. QED
        BY <3>2, <4>1 DEF ProperDims, ProperDim
    <3>4. Least(d) = 0 /\ Most(d) = Max(Range(offsets))
      BY <3>2 DEF Least, Most
    <3>5. PICK k \in 1 .. res.len : offsets[k] = Max(Range(offsets))
      BY <3>1, SeqGreatest
    <3>6. Most(d) \in Nat /\ base + SumTo(hs, n) + Most(d) <= Product(shape) - 1
      BY <1>7, <1>9, <1>14, <3>4, <3>5
    <3>7. at \in 1 .. Len(dims) + 1
      <4>1. Len(dims) \in Nat
        BY <1>6
      <4>2. CASE ~res.adjacent
        BY <4>1, <4>2
      <4>3. CASE res.adjacent
        <5>. DEFINE least == Min(res.group)
        <5>1. res.group \subseteq Nat
          BY <1>1
        <5>2. least \in res.group
          BY <2>2, <5>1, LeastOf
        <5>3. least \in 1 .. n
          BY <1>1, <5>2
        <5>. HIDE DEF least
        <5>4. least - 1 \in 0 .. n
          BY <1>1, <5>3
        <5>5. before \in Seq(ProperDims) /\ Len(before) <= Len(dims)
          BY <1>6, <5>4 DEF least
        <5>6. Len(before) \in Nat /\ at = Len(before) + 1
          BY <4>3, <5>5
        <5>. HIDE DEF before, at
        <5>. QED
          BY <4>1, <5>5, <5>6
      <4>. QED
        BY <4>2, <4>3
    <3>8. all = InsertAt(dims, at, d)
      BY <2>2 DEF d
    <3>. HIDE DEF at, all
    <3>9. /\ all \in Seq(ProperDims)
          /\ Lows(all, Len(all)) = SumTo(ls, n) + Least(d) /\ Highs(all, Len(all)) = SumTo(hs, n) + Most(d)
      BY <1>6, <3>3, <3>7, <3>8, ReachInsert
    <3>. QED
      BY <1>10, <1>11, <1>15, <3>4, <3>6, <3>9
  <2>. QED
    BY <2>1, <2>2
<1>. HIDE DEF all
<1>17. all \in Seq(Dim) /\ \A d \in DOMAIN all : ProperDim(all[d])
  <2>1. \A d \in 1 .. Len(all) : all[d] \in ProperDims
    BY <1>16
  <2>2. all \in Seq(Dim)
    <3>1. ProperDims \subseteq Dim
      BY DEF ProperDims
    <3>. HIDE DEF ProperDims
    <3>. QED
      BY <1>16, <3>1
  <2>3. DOMAIN all = 1 .. Len(all)
    BY <1>16
  <2>. QED
    BY <2>1, <2>2, <2>3 DEF ProperDims
<1>18. Located(walk, Product(shape))
  BY <1>3, <1>9, <1>15, <1>16, <1>17 DEF Located
<1>. QED
  BY <1>3, <1>18 DEF walk

---------------------------------------------------------------------------
(* The walk over a range.                                                  *)

\* What a layout is when resolve gives one (Selection::resolve, Gathered::new).
LEMMA LayoutSound ==
  ASSUME NEW one \in Arrays, NEW ixs \in Seq(Index), NEW item \in Items,
         Layout(one.shape, ixs, item[1], item[2]) # Bad
  PROVE  LET lay == Layout(one.shape, ixs, item[1], item[2])
         IN  /\ lay.total \in Nat
             /\ <<lay.wide, lay.narrow>> \in Items
             /\ lay.walk.kind \in {"Contiguous", "Gathered"}
             /\ lay.walk.kind = "Gathered" /\ lay.total > 0 => Located(lay.walk, Product(one.shape))
<1>. DEFINE shape == one.shape
            wd == item[1]
            nr == item[2]
            res == Resolve(shape, ixs)
            elements == Product(res.outShape) % Word
            walk == WalkOf(shape, res, wd)
            lay == Layout(shape, ixs, wd, nr)
<1>1. shape \in Seq(Nat) /\ wd \in Nat /\ nr \in Nat \ {0} /\ item = <<wd, nr>>
  BY GatherAssumption
<1>2. lay = LayoutOf(shape, res, wd, nr) /\ lay # Bad
  BY DEF Layout
<1>3. res # Bad /\ walk # Bad
      /\ lay = [kind |-> "Layout", outShape |-> res.outShape, total |-> elements * nr,
                wide |-> wd, narrow |-> nr, walk |-> walk]
  BY <1>2 DEF LayoutOf
<1>4. lay.total = elements * nr /\ lay.wide = wd /\ lay.narrow = nr /\ lay.walk = walk
  BY <1>3
<1>5. Fitted(shape, res)
  <2>1. Resolve(shape, ixs) # Bad
    BY <1>3
  <2>. HIDE DEF shape
  <2>. QED
    BY <1>1, <2>1, ResolveFits
<1>6. \/ walk = [kind |-> "Contiguous", offset |-> RunOffset(shape, res.axes) * wd]
      \/ walk = Gathered(shape, res)
  BY DEF WalkOf
<1>. HIDE DEF res, lay, shape, wd, nr
<1>7. res.outShape \in Seq(Nat)
  BY <1>5 DEF Fitted
<1>8. elements \in Nat /\ (elements > 0 => Product(res.outShape) # 0)
  <2>. DEFINE p == Product(res.outShape)
  <2>1. p \in Nat
    BY <1>7, ProductFacts
  <2>. HIDE DEF p
  <2>2. Word \in Nat \ {0}
    BY WordAssumption
  <2>. QED
    BY <2>1, <2>2 DEF p
<1>. HIDE DEF elements
<1>9. elements * nr \in Nat /\ (elements * nr > 0 => elements > 0)
  <2>1. elements = 0 => elements * nr = 0
    BY <1>1
  <2>2. elements * nr \in Nat
    BY <1>1, <1>8
  <2>. QED
    BY <1>8, <2>1, <2>2
<1>10. Gathered(shape, res).kind \in {"Gathered", "Bad"}
  BY DEF Gathered, Bad
<1>11. CASE walk = [kind |-> "Contiguous", offset |-> RunOffset(shape, res.axes) * wd]
  <2>1. walk.kind = "Contiguous"
    BY <1>11
  <2>. HIDE DEF walk
  <2>2. lay.walk.kind = "Contiguous"
    BY <1>4, <2>1
  <2>. QED
    BY <1>1, <1>4, <1>9, <2>2 DEF lay, shape, wd, nr
<1>12. CASE walk = Gathered(shape, res)
  <2>. HIDE DEF walk
  <2>1. walk.kind = "Gathered"
    BY <1>3, <1>12 DEF Gathered, Bad
  <2>2. ASSUME elements * nr > 0
        PROVE  Located(walk, Product(shape))
    <3>1. Product(res.outShape) # 0
      BY <1>8, <1>9, <2>2
    <3>2. \A a \in 1 .. Len(shape) : res.axes[a].len # 0
      BY <1>5, <3>1 DEF Fitted
    <3>. QED
      BY <1>1, <1>3, <1>5, <1>12, <3>2, GatheredLocated
  <2>. QED
    BY <1>1, <1>4, <1>9, <2>1, <2>2 DEF lay, shape, wd, nr
<1>. QED
  BY <1>6, <1>11, <1>12

\* What a dimension adds wraps, and stands for what it is.
LEMMA TermFacts ==
  ASSUME NEW d \in ProperDims, NEW k \in 0 .. d.len - 1, NEW p \in Int, NEW t \in Int, p % Word = t % Word
  PROVE  /\ Term(d, k) \in Int
         /\ d.kind = "Stride" => (p + Term(d, k)) % Word = (t + k * d.step) % Word
         /\ \E x \in Least(d) .. Most(d) : (p + Term(d, k)) % Word = (t + x) % Word
<1>1. ASSUME NEW x \in Int
      PROVE  (p + (x % Word)) % Word = (t + x) % Word /\ (p + x) % Word = (t + x) % Word /\ x % Word \in Int
  <2>1. ((p % Word) + x) % Word = (p + x) % Word /\ (p + (x % Word)) % Word = (p + x) % Word
    <3>1. ((p % Word) + x) % Word = (p + x) % Word
      BY WordAssumption, WrapsLate
    <3>2. (p + (x % Word)) % Word = (p + x) % Word
      BY WordAssumption, WrapsLate
    <3>. QED
      BY <3>1, <3>2
  <2>2. ((t % Word) + x) % Word = (t + x) % Word
    BY WordAssumption, WrapsLate
  <2>3. x % Word \in Int
    BY WordAssumption
  <2>. QED
    BY <2>1, <2>2, <2>3
<1>2. /\ Least(d) \in Int /\ Most(d) \in Nat /\ d.len \in Nat
      /\ d.kind = "Stride" => /\ d.step \in Int
                              /\ \A j \in 0 .. d.len - 1 : j * d.step \in Least(d) .. Most(d)
      /\ d.kind # "Stride" => \A j \in 0 .. d.len - 1 : d.offsets[j + 1] \in Least(d) .. Most(d)
  BY DimFacts
<1>3. CASE d.kind = "Stride"
  <2>. DEFINE x == k * d.step
  <2>1. x \in Least(d) .. Most(d) /\ x \in Int
    BY <1>2, <1>3
  <2>2. Term(d, k) = x % Word
    BY <1>3 DEF Term
  <2>. HIDE DEF x
  <2>3. (p + (x % Word)) % Word = (t + x) % Word /\ x % Word \in Int
    BY <1>1, <2>1
  <2>. QED
    BY <2>1, <2>2, <2>3 DEF x
<1>4. CASE d.kind # "Stride"
  <2>. DEFINE x == d.offsets[k + 1]
  <2>1. x \in Least(d) .. Most(d) /\ x \in Int
    BY <1>2, <1>4
  <2>2. Term(d, k) = x
    BY <1>4 DEF Term
  <2>. HIDE DEF x
  <2>3. (p + x) % Word = (t + x) % Word
    BY <1>1, <2>1
  <2>. QED
    BY <1>4, <2>1, <2>2, <2>3
<1>. QED
  BY <1>3, <1>4

\* The prefix of dimension d is the element it stands for, but that it wraps.
Stands(dims, base, p, d) ==
  \E t \in base + Lows(dims, d - 1) .. base + Highs(dims, d - 1) : p[d] % Word = t % Word

\* The prefixes p are those of `old` up to `from`, and computed from there on.
Refreshed(p, dims, old, ix, from) ==
  /\ DOMAIN p = 1 .. Len(dims) + 1 /\ p = [i \in 1 .. Len(dims) + 1 |-> p[i]]
  /\ \A i \in 1 .. Len(dims) + 1 :
       p[i] = IF i <= from THEN old[i] ELSE (p[i - 1] + Term(dims[i - 1], ix[i - 1])) % Word

\* What the recursion of Refresh computes is what its definition says.
LEMMA RefreshDef ==
  ASSUME NEW old, NEW ix, NEW from \in Nat \ {0}, Len(Dims) \in Nat
  PROVE  Refreshed(Refresh(old, ix, from), Dims, old, ix, from)
<1>. DEFINE Def(f, n) == f = [i \in 1 .. n |-> IF i <= from THEN old[i]
                                               ELSE (f[i - 1] + Term(Dims[i - 1], ix[i - 1])) % Word]
            T == {n \in Nat : \E f : Def(f, n)}
<1>1. 0 \in T
  <2>1. Def([i \in 1 .. 0 |-> 0], 0)
    OBVIOUS
  <2>. QED
    BY <2>1
<1>2. ASSUME NEW n \in Nat, n \in T
      PROVE  n + 1 \in T
  <2>1. PICK f : Def(f, n)
    BY <1>2
  <2>. DEFINE new == IF n + 1 <= from THEN old[n + 1] ELSE (f[n] + Term(Dims[n], ix[n])) % Word
              g == [i \in 1 .. n + 1 |-> IF i = n + 1 THEN new ELSE f[i]]
  <2>2. \A i \in 1 .. n + 1 : g[i] = IF i <= from THEN old[i]
                                     ELSE (g[i - 1] + Term(Dims[i - 1], ix[i - 1])) % Word
    <3>1. \A i \in 1 .. n : f[i] = IF i <= from THEN old[i]
                                   ELSE (f[i - 1] + Term(Dims[i - 1], ix[i - 1])) % Word
      BY <2>1
    <3>. HIDE DEF Def
    <3>2. (\A i \in 1 .. n : g[i] = f[i]) /\ g[n + 1] = new
      OBVIOUS
    <3>. TAKE i \in 1 .. n + 1
    <3>3. CASE i \in 1 .. n
      <4>1. i > from => i - 1 \in 1 .. n
        BY <3>3
      <4>. HIDE DEF g
      <4>. QED
        BY <3>1, <3>2, <3>3, <4>1
    <3>4. CASE i = n + 1
      <4>1. i > from => n \in 1 .. n
        BY <3>4
      <4>2. i - 1 = n
        BY <3>4
      <4>. HIDE DEF g
      <4>. QED
        BY <3>2, <3>4, <4>1, <4>2
    <3>. QED
      BY <3>3, <3>4
  <2>3. DOMAIN g = 1 .. n + 1 /\ g = [i \in DOMAIN g |-> g[i]]
    OBVIOUS
  <2>. HIDE DEF g
  <2>4. Def(g, n + 1)
    BY <2>2, <2>3
  <2>. QED
    BY SMTT(30), <2>4
<1>. HIDE DEF Def
<1>3. \E f : Def(f, Len(Dims) + 1)
  <2>1. Nat \subseteq T
    <3>. HIDE DEF T
    <3>. QED
      BY <1>1, <1>2, NatSteps
  <2>. QED
    BY <2>1
<1>. DEFINE h == CHOOSE f : Def(f, Len(Dims) + 1)
<1>4. Def(h, Len(Dims) + 1)
  BY <1>3
<1>5. Refresh(old, ix, from) = h
  BY DEF Refresh, Def
<1>. HIDE DEF h
<1>6. DOMAIN h = 1 .. Len(Dims) + 1
  BY <1>4 DEF Def
<1>7. h = [i \in 1 .. Len(Dims) + 1 |-> h[i]]
  BY <1>4 DEF Def
<1>8. \A i \in 1 .. Len(Dims) + 1 :
        h[i] = IF i <= from THEN old[i] ELSE (h[i - 1] + Term(Dims[i - 1], ix[i - 1])) % Word
  BY <1>4 DEF Def
<1>. QED
  BY <1>5, <1>6, <1>7, <1>8 DEF Refreshed

\* Prefixes that stand for elements still do once those after `from` are
\* computed anew, wherever the dimensions are.
LEMMA RefreshKeeps ==
  ASSUME NEW dims \in Seq(ProperDims), NEW base \in Int, NEW old, NEW ix, NEW p, NEW from \in 1 .. Len(dims) + 1,
         Refreshed(p, dims, old, ix, from),
         ix \in [1 .. Len(dims) -> Nat], \A d \in 1 .. Len(dims) : ix[d] < dims[d].len,
         \A i \in 1 .. from : old[i] \in Int,
         \A d \in 1 .. from : Stands(dims, base, old, d)
  PROVE  /\ p \in [1 .. Len(dims) + 1 -> Int]
         /\ \A d \in 1 .. Len(dims) + 1 : Stands(dims, base, p, d)
<1>. DEFINE n == Len(dims)
            T == {m \in Nat : m <= n => p[m + 1] \in Int /\ Stands(dims, base, p, m + 1)}
<1>1. n \in Nat /\ \A i \in 1 .. n + 1 : p[i] = IF i <= from THEN old[i] ELSE (p[i - 1] + Term(dims[i - 1], ix[i - 1])) % Word
  <2>1. n \in Nat
    OBVIOUS
  <2>2. \A i \in 1 .. n + 1 : p[i] = IF i <= from THEN old[i] ELSE (p[i - 1] + Term(dims[i - 1], ix[i - 1])) % Word
    BY Zenon DEF Refreshed
  <2>. QED
    BY <2>1, <2>2
<1>2. \A d \in 1 .. n : dims[d] \in ProperDims
  OBVIOUS
<1>. HIDE DEF n
<1>3. ASSUME NEW i \in 1 .. n + 1, i <= from
      PROVE  p[i] \in Int /\ Stands(dims, base, p, i)
  <2>1. p[i] = old[i] /\ i \in 1 .. from
    BY <1>1, <1>3
  <2>2. Stands(dims, base, old, i) /\ old[i] \in Int
    BY <2>1
  <2>. QED
    BY <2>1, <2>2 DEF Stands
<1>4. 0 \in T
  BY <1>1, <1>3 DEF n
<1>5. ASSUME NEW m \in Nat, m \in T
      PROVE  m + 1 \in T
  <2>. SUFFICES ASSUME m + 1 <= n
                PROVE  p[(m + 1) + 1] \in Int /\ Stands(dims, base, p, (m + 1) + 1)
    OBVIOUS
  <2>. DEFINE a == m + 1
  <2>0. a \in 1 .. n /\ a + 1 \in 1 .. n + 1 /\ (a + 1) - 1 = a /\ a - 1 = m /\ m <= n /\ a \in Nat
    BY <1>1
  <2>1. p[a] \in Int /\ Stands(dims, base, p, a)
    BY <1>5, <2>0
  <2>. HIDE DEF a
  <2>2. CASE a + 1 <= from
    BY <1>3, <2>0, <2>2 DEF a
  <2>3. CASE ~(a + 1 <= from)
    <3>1. p[a + 1] = (p[a] + Term(dims[a], ix[a])) % Word
      BY <1>1, <2>0, <2>3
    <3>. DEFINE d == dims[a]
                k == ix[a]
                lo == base + Lows(dims, m)
                hi == base + Highs(dims, m)
                q == p[a]
                r == p[a + 1]
    <3>2. d \in ProperDims
      BY <1>2, <2>0
    <3>3. k \in 0 .. d.len - 1
      <4>1. k \in Nat /\ k < d.len
        BY <2>0 DEF n
      <4>2. d.len \in Nat
        BY <3>2, DimFacts
      <4>. QED
        BY <4>1, <4>2
    <3>4. /\ lo \in Int /\ hi \in Int
          /\ base + Lows(dims, a) = lo + Least(d) /\ base + Highs(dims, a) = hi + Most(d)
      <4>1. \A i \in 1 .. m + 1 : dims[i] \in ProperDims
        BY <1>1, <1>2, <2>0
      <4>2. /\ Lows(dims, m) \in Int /\ Highs(dims, m) \in Int
            /\ Lows(dims, m + 1) = Lows(dims, m) + Least(dims[m + 1])
            /\ Highs(dims, m + 1) = Highs(dims, m) + Most(dims[m + 1])
        BY <4>1, ReachStep
      <4>3. Least(d) \in Int /\ Most(d) \in Nat
        BY <3>2, DimFacts
      <4>. QED
        BY <4>2, <4>3 DEF a
    <3>5. PICK t \in lo .. hi : q % Word = t % Word
      BY <2>0, <2>1 DEF Stands
    <3>6. q \in Int /\ r = (q + Term(d, k)) % Word
      BY <2>1, <3>1
    <3>. HIDE DEF d, k, lo, hi, q, r
    <3>7. t \in Int
      BY <3>4
    <3>8. Term(d, k) \in Int /\ \E x \in Least(d) .. Most(d) : (q + Term(d, k)) % Word = (t + x) % Word
      BY <3>2, <3>3, <3>5, <3>6, <3>7, TermFacts
    <3>9. PICK x \in Least(d) .. Most(d) : (q + Term(d, k)) % Word = (t + x) % Word
      BY <3>8
    <3>10. Least(d) \in Int /\ Most(d) \in Nat
      BY <3>2, DimFacts
    <3>11. r \in 0 .. Word - 1 /\ r = (t + x) % Word /\ x \in Int
      <4>1. x \in Int /\ t + x \in Int
        BY <3>7, <3>10
      <4>2. r = (t + x) % Word
        BY <3>6, <3>9
      <4>3. (t + x) % Word \in 0 .. Word - 1
        BY <4>1, WordAssumption
      <4>. QED
        BY <4>1, <4>2, <4>3
    <3>12. r % Word = r
      BY <3>11, WordAssumption, WrapsNot
    <3>13. t + x \in lo + Least(d) .. hi + Most(d)
      BY <3>4, <3>5, <3>9, <3>10, <3>7
    <3>14. Stands(dims, base, p, a + 1)
      <4>1. r % Word = (t + x) % Word
        BY <3>11, <3>12
      <4>2. t + x \in base + Lows(dims, a) .. base + Highs(dims, a)
        BY <3>4, <3>13
      <4>3. p[a + 1] = r
        BY DEF r
      <4>. QED
        BY <2>0, <4>1, <4>2, <4>3 DEF Stands
    <3>. QED
      BY <3>11, <3>14 DEF r, a
  <2>. QED
    BY <2>2, <2>3
<1>6. Nat \subseteq T
  <2>. HIDE DEF T
  <2>. QED
    BY <1>4, <1>5, NatSteps
<1>7. \A d \in 1 .. n + 1 : p[d] \in Int /\ Stands(dims, base, p, d)
  <2>. TAKE d \in 1 .. n + 1
  <2>1. d - 1 \in Nat /\ d - 1 <= n /\ (d - 1) + 1 = d
    BY <1>1
  <2>2. d - 1 \in T
    BY <1>6, <2>1
  <2>. QED
    BY <2>1, <2>2
<1>8. DOMAIN p = 1 .. n + 1 /\ p = [i \in 1 .. n + 1 |-> p[i]]
  BY DEF Refreshed, n
<1>. QED
  BY <1>7, <1>8 DEF n

\* The sizes of what is open.
LEMMA Sizes ==
  ASSUME IInv, layout # Bad
  PROVE  /\ wide \in Nat \ {0} /\ narrow \in Nat \ {0} /\ wide <= SPAN_MAX_BYTES
         /\ SPAN_MAX_BYTES \in Nat /\ SPAN_GAP_BYTES \in Nat /\ SPAN_GAP_BYTES <= SPAN_MAX_BYTES
         /\ array.shape \in Seq(Nat) /\ Elements \in Nat /\ Elements < Word /\ Word \in Nat \ {0}
<1>1. array \in Arrays /\ <<wide, narrow>> \in Items
  BY DEF IInv, Sound, wide, narrow
<1>. DEFINE item == <<wide, narrow>>
<1>2. item \in Nat \X Nat /\ 0 < item[2] /\ item[2] <= item[1] /\ item[1] <= SPAN_MAX_BYTES
      /\ SPAN_MAX_BYTES \in Nat /\ SPAN_GAP_BYTES \in Nat /\ SPAN_GAP_BYTES <= SPAN_MAX_BYTES
  BY <1>1, GatherAssumption
<1>3. array.shape \in Seq(Nat) /\ Product(array.shape) * item[1] < Word
  BY <1>1, GatherAssumption
<1>4. item[1] = wide /\ item[2] = narrow
  OBVIOUS
<1>. HIDE DEF item
<1>5. wide \in Nat \ {0} /\ narrow \in Nat \ {0} /\ wide <= SPAN_MAX_BYTES
  BY <1>2, <1>4
<1>. DEFINE e == Product(array.shape)
            w == wide
<1>6. e \in Nat /\ e * w < Word /\ w \in Nat \ {0}
  BY <1>3, <1>4, <1>5, ProductFacts
<1>. HIDE DEF e, w
<1>7. e <= e * w
  <2>1. w - 1 \in Nat /\ e * (w - 1) \in Nat /\ e * w = e * (w - 1) + e
    BY <1>6
  <2>. QED
    BY <1>6, <2>1
<1>8. e < Word
  <2>1. e * w \in Nat
    BY <1>6
  <2>. QED
    BY <1>6, <1>7, <2>1, WordAssumption
<1>. QED
  BY <1>2, <1>3, <1>5, <1>6, <1>8, WordAssumption DEF e, Elements

\* An empty range holds no elements; over a range that is not empty, the
\* dimensions stay on elements of the array.
LEMMA WalkFacts ==
  ASSUME IInv, pc = "walk"
  PROVE  /\ layout # Bad /\ count \in Nat /\ done \in Nat /\ done <= count
         /\ done < count => /\ Prefixed /\ Located(layout.walk, Elements) /\ layout.walk.base \in Nat
                            /\ Dims \in Seq(ProperDims)
<1>1. /\ layout # Bad /\ layout.walk.kind = "Gathered" /\ Sound(layout)
      /\ range \in Nat \X Nat /\ range[1] + range[2] <= layout.total
      /\ done \in 0 .. count
      /\ layout.total > 0 => Prefixed
  BY DEF IInv, Walking
<1>2. narrow \in Nat \ {0}
  BY <1>1, Sizes
<1>3. layout.total \in Nat /\ (layout.total > 0 => Located(layout.walk, Elements))
  BY <1>1 DEF Sound
<1>. DEFINE a == range[1]
            b == range[2]
            n == narrow
<1>4. a \in Nat /\ b \in Nat /\ n \in Nat \ {0}
  BY <1>1, <1>2
<1>5. count = (a + b + n - 1) \div n - a \div n
  BY DEF count, first, CeilDiv
<1>6. a + b <= layout.total
  BY <1>1
<1>. HIDE DEF a, b, n
<1>7. (a + b + n - 1) \div n \in Int /\ a \div n \in Int
  <2>1. a + b + n - 1 \in Int
    BY <1>4
  <2>. QED
    BY <1>4, <2>1
<1>8. count \in Int /\ done \in Nat /\ done <= count
  BY <1>1, <1>5, <1>7
<1>9. ASSUME layout.total = 0
      PROVE  count = 0
  <2>1. a = 0 /\ b = 0
    BY <1>4, <1>6, <1>9
  <2>2. (n - 1) \div n = 0 /\ 0 \div n = 0
    BY <1>4, DivisionUnique
  <2>. QED
    BY <1>4, <1>5, <2>1, <2>2
<1>10. done < count => layout.total > 0
  BY <1>3, <1>8, <1>9
<1>11. Located(layout.walk, Elements) => layout.walk.base \in Nat /\ Dims \in Seq(ProperDims)
  <2>. SUFFICES ASSUME Located(layout.walk, Elements)
                PROVE  layout.walk.base \in Nat /\ Dims \in Seq(ProperDims)
    OBVIOUS
  <2>1. layout.walk.base \in Nat /\ Dims \in Seq(Dim) /\ \A d \in DOMAIN Dims : ProperDim(Dims[d])
    BY DEF Located, Dims
  <2>. DEFINE dims == Dims
  <2>2. dims \in Seq(Dim) /\ \A d \in DOMAIN dims : ProperDim(dims[d])
    BY <2>1
  <2>. HIDE DEF dims
  <2>3. \A d \in 1 .. Len(dims) : dims[d] \in ProperDims
    BY <2>2 DEF ProperDims
  <2>4. dims \in [1 .. Len(dims) -> ProperDims] /\ Len(dims) \in Nat
    BY <2>2, <2>3
  <2>5. dims \in Seq(ProperDims)
    BY <2>4
  <2>. QED
    BY <2>1, <2>5 DEF dims
<1>. QED
  BY <1>1, <1>3, <1>8, <1>10, <1>11

LEMMA PrefixStands ==
  ASSUME Prefixed
  PROVE  \A d \in 1 .. Len(Dims) : Stands(Dims, layout.walk.base, prefix, d)
BY DEF Prefixed, Stands

\* Where the innermost dimension comes to is an element of the array, and so is
\* where its steps lead (for_each_stretch).
LEMMA InnerInside ==
  ASSUME IInv, pc = "walk", done < count, Dims # << >>, NEW k \in 0 .. Inner.len - 1
  PROVE  LET v == (prefix[Len(Dims)] + Term(Inner, k)) % Word
         IN  /\ v \in 0 .. Elements - 1
             /\ Inner.kind = "Stride" => \A j \in 0 .. Inner.len - 1 - k : v + j * Inner.step \in 0 .. Elements - 1
<1>. DEFINE n == Len(Dims)
            base == layout.walk.base
            d == Dims[n]
            e == Elements
            v == (prefix[n] + Term(d, k)) % Word
<1>1. /\ Prefixed /\ Located(layout.walk, e) /\ base \in Nat /\ Dims \in Seq(ProperDims) /\ layout # Bad
  BY WalkFacts
<1>2. n \in Nat \ {0} /\ d = Inner /\ d \in ProperDims /\ \A i \in 1 .. n : Dims[i] \in ProperDims
  BY <1>1 DEF Inner, Last
<1>3. e \in Nat /\ e < Word /\ Word \in Nat \ {0}
  BY <1>1, Sizes
<1>4. 0 <= base + Lows(Dims, n) /\ base + Highs(Dims, n) < e
  BY <1>1 DEF Located, Dims
<1>5. prefix[n] \in Int /\ Stands(Dims, base, prefix, n)
  BY <1>1, <1>2, PrefixStands DEF Prefixed
<1>. DEFINE lo == base + Lows(Dims, n - 1)
            hi == base + Highs(Dims, n - 1)
<1>6. lo \in Int /\ hi \in Int /\ 0 <= lo + Least(d) /\ hi + Most(d) < e
      /\ Least(d) \in Int /\ Most(d) \in Nat
  <2>. DEFINE m == n - 1
  <2>1. m \in Nat /\ m + 1 = n
    BY <1>2
  <2>. HIDE DEF m
  <2>2. /\ Lows(Dims, m) \in Int /\ Highs(Dims, m) \in Int
        /\ Lows(Dims, m + 1) = Lows(Dims, m) + Least(Dims[m + 1])
        /\ Highs(Dims, m + 1) = Highs(Dims, m) + Most(Dims[m + 1])
    BY <1>2, <2>1, ReachStep
  <2>3. Least(d) \in Int /\ Most(d) \in Nat
    BY <1>2, DimFacts
  <2>4. lo = base + Lows(Dims, m) /\ hi = base + Highs(Dims, m)
    BY DEF m
  <2>5. Lows(Dims, n) = Lows(Dims, m) + Least(d) /\ Highs(Dims, n) = Highs(Dims, m) + Most(d)
    BY <2>1, <2>2
  <2>6. base \in Int /\ e \in Int
    BY <1>1, <1>3
  <2>7. Lows(Dims, m) \in Int /\ Highs(Dims, m) \in Int
    BY <2>2
  <2>. HIDE DEF lo, hi, e, d, n, base
  <2>. QED
    BY <1>4, <2>3, <2>4, <2>5, <2>6, <2>7
<1>7. PICK t \in lo .. hi : prefix[n] % Word = t % Word
  BY <1>5 DEF Stands
<1>. HIDE DEF lo, hi, e
<1>8. t \in Int
  BY <1>6
<1>9. \A x \in Least(d) .. Most(d) : t + x \in 0 .. e - 1 /\ (t + x) % Word = t + x
  <2>. TAKE x \in Least(d) .. Most(d)
  <2>1. t + x \in 0 .. e - 1 /\ t + x \in 0 .. Word - 1
    BY <1>3, <1>6, <1>7, <1>8
  <2>. QED
    BY <1>3, <2>1, WrapsNot
<1>. HIDE DEF d, n
<1>10. k \in 0 .. d.len - 1
  BY <1>2
<1>11. /\ d.kind = "Stride" => v = (t + k * d.step) % Word
       /\ \E x \in Least(d) .. Most(d) : v = (t + x) % Word
  <2>. DEFINE q == prefix[n]
  <2>1. q \in Int /\ q % Word = t % Word
    BY <1>5, <1>7
  <2>. HIDE DEF q
  <2>2. d \in ProperDims
    BY <1>2
  <2>3. d.kind = "Stride" => (q + Term(d, k)) % Word = (t + k * d.step) % Word
    BY <1>8, <1>10, <2>1, <2>2, TermFacts
  <2>4. \E x \in Least(d) .. Most(d) : (q + Term(d, k)) % Word = (t + x) % Word
    BY <1>8, <1>10, <2>1, <2>2, TermFacts
  <2>. QED
    BY <2>3, <2>4 DEF q
<1>. HIDE DEF v
<1>12. v \in 0 .. e - 1
  <2>1. PICK x \in Least(d) .. Most(d) : v = (t + x) % Word
    BY <1>11
  <2>. QED
    BY <1>9, <2>1
<1>13. ASSUME d.kind = "Stride", NEW j \in 0 .. d.len - 1 - k
       PROVE  v + j * d.step \in 0 .. e - 1
  <2>. DEFINE s == d.step
  <2>1. d.len \in Nat /\ s \in Int /\ \A i \in 0 .. d.len - 1 : i * s \in Least(d) .. Most(d)
    BY <1>2, <1>13, DimFacts
  <2>2. k \in 0 .. d.len - 1 /\ k + j \in 0 .. d.len - 1 /\ k \in Int /\ j \in Int
    BY <1>10, <1>13, <2>1
  <2>3. k * s \in Least(d) .. Most(d) /\ (k + j) * s \in Least(d) .. Most(d)
    BY <2>1, <2>2
  <2>4. v = (t + k * s) % Word
    BY <1>11, <1>13
  <2>. HIDE DEF s
  <2>5. v = t + k * s
    BY <1>9, <2>3, <2>4
  <2>6. t + (k + j) * s \in 0 .. e - 1
    BY <1>9, <2>3
  <2>7. (k + j) * s = k * s + j * s /\ k * s \in Int /\ j * s \in Int
    BY <2>1, <2>2
  <2>. QED
    BY <1>8, <2>5, <2>6, <2>7 DEF s
<1>14. v = (prefix[Len(Dims)] + Term(Inner, k)) % Word
  BY <1>2 DEF v, n, d
<1>15. d = Inner /\ e = Elements
  BY <1>2 DEF e
<1>. QED
  BY <1>12, <1>13, <1>14, <1>15

\* The dimensions that move on stay within their lengths.
LEMMA AdvanceFacts ==
  ASSUME Prefixed, Dims \in Seq(ProperDims), Dims # << >>
  PROVE  /\ Moving(index) \in 1 .. Len(Dims)
         /\ Advance(index) \in [1 .. Len(Dims) -> Nat]
         /\ \A d \in 1 .. Len(Dims) : Advance(index)[d] < Dims[d].len
<1>. DEFINE n == Len(Dims)
            S == {1} \cup {d \in 1 .. n - 1 : index[d] + 1 < Dims[d].len}
            m == Max(S)
            over == m = n \/ index[m] + 1 = Dims[m].len
<1>1. n \in Nat \ {0}
  OBVIOUS
<1>2. m \in 1 .. n /\ m \in S
  <2>1. S \subseteq Int /\ S # {} /\ (\A x \in S : x <= n) /\ \A x \in S : x \in 1 .. n
    BY <1>1
  <2>. HIDE DEF S, n
  <2>2. n \in Int /\ \A x \in S : x <= n
    BY <1>1, <2>1
  <2>3. Max(S) \in S
    BY <2>1, <2>2, GreatestOf
  <2>. QED
    BY <2>1, <2>3
<1>3. Moving(index) = m
  BY DEF Moving
<1>. HIDE DEF m
<1>4. index \in [1 .. n -> Nat] /\ \A d \in 1 .. n : index[d] < Dims[d].len
  BY DEF Prefixed
<1>5. \A d \in 1 .. n : Dims[d].len \in Nat /\ Dims[d].len >= 2
  <2>. TAKE d \in 1 .. n
  <2>1. Dims[d] \in ProperDims
    OBVIOUS
  <2>. QED
    BY <2>1, DimFacts
<1>6. Advance(index) = [d \in 1 .. n |-> IF d < m THEN index[d] ELSE IF d = m /\ ~over THEN index[d] + 1 ELSE 0]
  <2>1. DOMAIN index = 1 .. n
    BY <1>4
  <2>. QED
    BY <1>3, <2>1 DEF Advance
<1>. HIDE DEF n, S
<1>7. ASSUME NEW d \in 1 .. n
      PROVE  Advance(index)[d] \in Nat /\ Advance(index)[d] < Dims[d].len
  <2>1. Advance(index)[d] = IF d < m THEN index[d] ELSE IF d = m /\ ~over THEN index[d] + 1 ELSE 0
    BY <1>6
  <2>2. index[d] \in Nat /\ index[d] < Dims[d].len /\ Dims[d].len \in Nat /\ Dims[d].len >= 2
    BY <1>4, <1>5
  <2>3. d = m /\ ~over => index[d] + 1 # Dims[d].len
    OBVIOUS
  <2>. HIDE DEF over
  <2>. QED
    BY <2>1, <2>2, <2>3
<1>8. Advance(index) \in [1 .. n -> Nat]
  <2>1. \A d \in 1 .. n : Advance(index)[d] \in Nat
    BY <1>7
  <2>2. Advance(index) = [d \in 1 .. n |-> Advance(index)[d]]
    BY <1>6
  <2>. QED
    BY <2>1, <2>2
<1>. QED
  BY <1>2, <1>3, <1>7, <1>8 DEF n

\* How much one dimension gives at once fits the scratch buffer, unless it is
\* consecutive.
LEMMA PerFacts ==
  ASSUME NEW d \in ProperDims, wide \in Nat \ {0}, SPAN_MAX_BYTES \in Nat, SPAN_GAP_BYTES \in Nat,
         SPAN_GAP_BYTES <= SPAN_MAX_BYTES, NEW n \in Nat, n >= 2, n <= Per(d)
  PROVE  /\ d.kind = "Stride"
         /\ d.step # 1 => n * ((IF d.step > 0 THEN d.step ELSE -d.step) * wide) <= SPAN_MAX_BYTES
<1>1. CASE d.kind # "Stride"
  <2>1. d.kind = "List"
    BY <1>1, DimFacts
  <2>2. Per(d) = 1
    BY <2>1 DEF Per
  <2>. QED
    BY <2>2
<1>2. CASE d.kind = "Stride"
  <2>. SUFFICES ASSUME d.step # 1
                PROVE  n * ((IF d.step > 0 THEN d.step ELSE -d.step) * wide) <= SPAN_MAX_BYTES
    BY <1>2
  <2>. DEFINE a == IF d.step > 0 THEN d.step ELSE -d.step
              s == a * wide
              x == SPAN_MAX_BYTES
  <2>1. d.step \in Int /\ d.step # 0
    BY <1>2, DimFacts
  <2>2. a \in Nat \ {0}
    BY <2>1
  <2>. HIDE DEF a
  <2>3. s \in Nat \ {0}
    <3>1. s \in Nat
      BY <2>2
    <3>2. s # 0
      <4>. DEFINE w == wide
      <4>1. w \in Nat \ {0} /\ s = a * w
        OBVIOUS
      <4>. HIDE DEF w, s
      <4>2. a * w = (a - 1) * w + w /\ (a - 1) * w \in Nat
        BY <2>2, <4>1
      <4>. QED
        BY <4>1, <4>2
    <3>. QED
      BY <3>1, <3>2
  <2>4. Per(d) = CASE d.step = 1 -> d.len [] d.step # 1 /\ s <= SPAN_GAP_BYTES -> Max({1, x \div s}) [] OTHER -> 1
    BY <1>2 DEF Per, PerStride, a
  <2>. HIDE DEF s
  <2>5. s <= SPAN_GAP_BYTES /\ Per(d) = Max({1, x \div s})
    <3>1. Per(d) # 1
      OBVIOUS
    <3>. QED
      BY <2>4, <3>1
  <2>. DEFINE q == x \div s
  <2>6. q \in Nat /\ q * s <= x
    BY <2>3, Division
  <2>. HIDE DEF q
  <2>7. Max({1, q}) = IF 1 >= q THEN 1 ELSE q
    BY <2>6, MaxOfTwo
  <2>8. n <= q
    BY <2>5, <2>6, <2>7 DEF q
  <2>9. n * s <= q * s
    <3>. DEFINE r == q - n
    <3>1. r \in Nat /\ q = n + r
      BY <2>6, <2>8
    <3>. HIDE DEF r
    <3>2. (n + r) * s = n * s + r * s /\ r * s \in Nat /\ n * s \in Nat
      BY <2>3, <3>1
    <3>. QED
      BY <3>1, <3>2
  <2>10. n * s \in Nat /\ q * s \in Nat
    BY <2>3, <2>6
  <2>11. n * s <= x
    <3>. HIDE DEF x
    <3>1. x \in Nat
      BY DEF x
    <3>. QED
      BY <2>6, <2>9, <2>10, <3>1
  <2>. QED
    BY <2>11 DEF s, a
<1>. QED
  BY <1>1, <1>2

LEMMA PerSome ==
  ASSUME NEW d \in ProperDims, wide \in Nat \ {0}, SPAN_MAX_BYTES \in Nat
  PROVE  Per(d) \in Nat \ {0}
<1>1. CASE d.kind = "List"
  BY <1>1 DEF Per
<1>2. CASE d.kind # "List"
  <2>1. d.kind = "Stride" /\ d.step \in Int /\ d.step # 0 /\ d.len \in Nat \ {0}
    <3>1. d.len \in Nat /\ d.len >= 2 /\ (d.kind # "Stride" => d.kind = "List")
          /\ (d.kind = "Stride" => d.step \in Int /\ d.step # 0)
      BY DimFacts
    <3>. QED
      BY <1>2, <3>1
  <2>. DEFINE a == IF d.step > 0 THEN d.step ELSE -d.step
              s == a * wide
              x == SPAN_MAX_BYTES
              q == x \div s
  <2>2. a \in Nat \ {0}
    BY <2>1
  <2>. HIDE DEF a
  <2>3. s \in Nat \ {0}
    <3>. DEFINE w == wide
    <3>1. w \in Nat \ {0} /\ s = a * w
      OBVIOUS
    <3>. HIDE DEF w, s
    <3>2. a * w = (a - 1) * w + w /\ (a - 1) * w \in Nat
      BY <2>2, <3>1
    <3>. QED
      BY <3>1, <3>2
  <2>4. Per(d) = CASE d.step = 1 -> d.len [] d.step # 1 /\ s <= SPAN_GAP_BYTES -> Max({1, q}) [] OTHER -> 1
    BY <1>2 DEF Per, PerStride, a
  <2>. HIDE DEF s
  <2>5. q \in Nat
    BY <2>3, Division
  <2>. HIDE DEF q
  <2>6. Max({1, q}) = IF 1 >= q THEN 1 ELSE q
    BY <2>5, MaxOfTwo
  <2>7. Max({1, q}) \in Nat \ {0}
    BY <2>5, <2>6
  <2>. QED
    BY <2>1, <2>4, <2>7
<1>. QED
  BY <1>1, <1>2

\* Every stretch the walk comes to is of elements that are left, on the array and
\* of a size that fits (for_each_stretch).
LEMMA HereFacts ==
  ASSUME IInv, pc = "walk", done < count
  PROVE  /\ Within(Here) /\ Here \in [src : Nat, step : Int, count : Nat]
         /\ Here.count \in Nat \ {0} /\ done + Here.count <= count
         /\ Dims # << >> => /\ Last(index) = index[Len(Dims)] /\ Len(index) = Len(Dims)
                            /\ Last(index) \in Nat /\ Last(index) + Here.count <= Inner.len
<1>1. /\ layout # Bad /\ count \in Nat /\ done \in Nat /\ Prefixed /\ Located(layout.walk, Elements)
      /\ layout.walk.base \in Nat /\ Dims \in Seq(ProperDims)
  BY WalkFacts
<1>2. /\ wide \in Nat \ {0} /\ wide <= SPAN_MAX_BYTES /\ SPAN_MAX_BYTES \in Nat /\ SPAN_GAP_BYTES \in Nat
      /\ SPAN_GAP_BYTES <= SPAN_MAX_BYTES /\ Elements \in Nat
  BY <1>1, Sizes
<1>3. count - done \in Nat \ {0}
  BY <1>1
<1>4. CASE Dims = << >>
  <2>. DEFINE b == layout.walk.base
  <2>1. Here = [src |-> b, step |-> 1, count |-> 1]
    BY <1>4 DEF Here, Stretch
  <2>2. Lows(Dims, 0) = 0 /\ Highs(Dims, 0) = 0 /\ Len(Dims) = 0
    <3>1. Len(Dims) = 0 /\ [d \in 1 .. 0 |-> Least(Dims[d])] = << >> /\ [d \in 1 .. 0 |-> Most(Dims[d])] = << >>
      BY <1>4
    <3>. QED
      BY <3>1, AddedFacts DEF Lows, Highs
  <2>3. b \in 0 .. Elements - 1
    <3>1. b + Highs(Dims, Len(Dims)) < Elements
      BY <1>1 DEF Located, Dims
    <3>. QED
      BY <1>1, <1>2, <2>2, <3>1
  <2>4. Here.src = b /\ Here.step = 1 /\ Here.count = 1
    BY <2>1
  <2>. HIDE DEF b
  <2>5. Within(Here)
    BY <1>2, <2>3, <2>4 DEF Within
  <2>6. Here \in [src : Nat, step : Int, count : Nat]
    BY <1>2, <2>1, <2>3
  <2>. QED
    BY <1>1, <1>4, <2>4, <2>5, <2>6
<1>5. CASE Dims # << >>
  <2>. DEFINE L == Len(Dims)
              d == Inner
              k == Last(index)
              S == {Per(d), d.len - k, count - done}
              n == Min(S)
              v == (prefix[L] + Term(d, k)) % Word
              st == IF d.kind = "Stride" THEN d.step ELSE 1
  <2>1. L \in Nat \ {0} /\ d = Dims[L] /\ d \in ProperDims
    BY <1>1, <1>5 DEF Inner, Last
  <2>2. index \in [1 .. L -> Nat] /\ index[L] < d.len
    BY <1>1, <2>1 DEF Prefixed
  <2>3. Len(index) = L /\ k = index[L] /\ k \in Nat /\ k < d.len
    <3>1. Len(index) = L
      BY <2>1, <2>2
    <3>2. k = index[L]
      BY <3>1 DEF Last
    <3>. QED
      BY <2>1, <2>2, <3>1, <3>2
  <2>4. d.len \in Nat /\ (d.kind = "Stride" => d.step \in Int /\ d.step # 0)
    BY <2>1, DimFacts
  <2>5. Here = Stretch(v, st, n)
    BY <1>5 DEF Here
  <2>6. Per(d) \in Nat \ {0}
    BY <1>2, <2>1, PerSome
  <2>7. k \in 0 .. d.len - 1 /\ d.len - k \in Nat \ {0}
    BY <2>3, <2>4
  <2>8. v \in 0 .. Elements - 1
    BY <1>5, <2>7, InnerInside
  <2>9. d.kind = "Stride" => \A j \in 0 .. d.len - 1 - k : v + j * d.step \in 0 .. Elements - 1
    BY <1>5, <2>7, InnerInside
  <2>. HIDE DEF d, k, v, L
  <2>10. n \in S /\ \A x \in S : n <= x
    <3>1. S \subseteq Nat /\ S # {}
      BY <1>3, <2>6, <2>7
    <3>. HIDE DEF S
    <3>. QED
      BY <3>1, LeastOf
  <2>11. n \in Nat \ {0} /\ n <= Per(d) /\ n <= d.len - k /\ n <= count - done
    <3>. HIDE DEF n
    <3>. QED
      BY <1>3, <2>6, <2>7, <2>10
  <2>. HIDE DEF n, S
  <2>12. Here = [src |-> v, step |-> IF n = 1 THEN 1 ELSE st, count |-> n]
    BY <2>5 DEF Stretch
  <2>13. Here.src = v /\ Here.step = (IF n = 1 THEN 1 ELSE st) /\ Here.count = n
    BY <2>12
  <2>14. CASE n = 1
    <3>1. Here.src = v /\ Here.step = 1 /\ Here.count = 1
      BY <2>13, <2>14
    <3>2. Within(Here)
      BY <1>2, <2>8, <3>1 DEF Within
    <3>3. Here \in [src : Nat, step : Int, count : Nat]
      BY <1>2, <2>8, <2>12, <2>14
    <3>4. Last(index) = index[Len(Dims)] /\ Len(index) = Len(Dims) /\ Last(index) \in Nat /\ Last(index) + Here.count <= Inner.len
      BY <2>3, <2>4, <2>7, <3>1 DEF k, L, d
    <3>. QED
      BY <1>1, <1>3, <3>1, <3>2, <3>3, <3>4
  <2>15. CASE n # 1
    <3>. DEFINE s == d.step
                a == IF s > 0 THEN s ELSE -s
                w == wide
    <3>1. n >= 2
      BY <2>11, <2>15
    <3>2. d.kind = "Stride" /\ (d.step # 1 => n * (a * w) <= SPAN_MAX_BYTES)
      BY <1>2, <2>1, <2>11, <3>1, PerFacts
    <3>3. s \in Int /\ s # 0 /\ st = s /\ \A j \in 0 .. d.len - 1 - k : v + j * s \in 0 .. Elements - 1
      BY <2>4, <2>9, <3>2
    <3>4. Here.src = v /\ Here.step = s /\ Here.count = n
      BY <2>13, <2>15, <3>3
    <3>5. n - 1 \in 0 .. d.len - 1 - k
      BY <2>3, <2>4, <2>11, <3>1
    <3>6. v + (n - 1) * s \in 0 .. Elements - 1
      BY <3>3, <3>5
    <3>7. w \in Nat \ {0}
      BY <1>2
    <3>. HIDE DEF s, w
    <3>8. s # 1 => ((n - 1) * (IF s < 0 THEN -s ELSE s) + 1) * w <= SPAN_MAX_BYTES
      <4>. SUFFICES ASSUME s # 1
                    PROVE  ((n - 1) * (IF s < 0 THEN -s ELSE s) + 1) * w <= SPAN_MAX_BYTES
        OBVIOUS
      <4>1. (IF s < 0 THEN -s ELSE s) = a /\ a \in Nat \ {0}
        BY <3>3
      <4>2. n * (a * w) <= SPAN_MAX_BYTES
        BY <3>2 DEF s
      <4>. HIDE DEF a
      <4>. DEFINE m == n - 1
                  b == a - 1
      <4>3. m \in Nat /\ n = m + 1 /\ b \in Nat /\ a = b + 1
        BY <2>11, <4>1
      <4>. HIDE DEF m, b
      <4>4. n * (a * w) = (m * a + 1) * w + b * w /\ b * w \in Nat /\ (m * a + 1) * w \in Nat
        <5>1. n * (a * w) = m * (a * w) + a * w /\ a * w = b * w + w /\ m * (a * w) = (m * a) * w
          BY <3>7, <4>1, <4>3
        <5>2. m * a \in Nat /\ b * w \in Nat
          BY <3>7, <4>1, <4>3
        <5>3. (m * a + 1) * w = (m * a) * w + w /\ (m * a) * w \in Nat /\ (m * a + 1) * w \in Nat
          BY <3>7, <5>2
        <5>. QED
          BY <3>7, <5>1, <5>2, <5>3
      <4>5. (m * a + 1) * w <= SPAN_MAX_BYTES
        BY <1>2, <4>2, <4>4
      <4>. QED
        BY <4>1, <4>5 DEF m
    <3>9. Within(Here)
      <4>1. n \in Nat \ {0} /\ s \in Int
        BY <2>11, <3>3
      <4>2. Here.step # 1 => ((Here.count - 1) * (IF Here.step < 0 THEN -Here.step ELSE Here.step) + 1) * wide <= SPAN_MAX_BYTES
        BY <3>4, <3>8 DEF w
      <4>3. Here.src + (Here.count - 1) * Here.step \in 0 .. Elements - 1
        BY <3>4, <3>6
      <4>. QED
        BY <2>8, <3>4, <4>1, <4>2, <4>3 DEF Within
    <3>10. Here \in [src : Nat, step : Int, count : Nat]
      <4>1. v \in Nat
        BY <1>2, <2>8
      <4>2. Here = [src |-> v, step |-> s, count |-> n]
        BY <2>12, <2>15, <3>3
      <4>. QED
        BY <2>11, <3>3, <4>1, <4>2
    <3>11. Last(index) = index[Len(Dims)] /\ Len(index) = Len(Dims) /\ Last(index) \in Nat /\ Last(index) + Here.count <= Inner.len
      BY <2>3, <2>4, <2>11, <3>4 DEF k, L, d
    <3>. QED
      BY <1>1, <2>11, <3>4, <3>9, <3>10, <3>11
  <2>. QED
    BY <2>14, <2>15
<1>. QED
  BY <1>4, <1>5

---------------------------------------------------------------------------
(* Stretches and spans.                                                    *)

StretchSet == [src : Nat, step : Int, count : Nat]

\* The first and the last element of a stretch, whichever way it goes.
LEMMA ExtentFacts ==
  ASSUME IInv, layout # Bad, NEW s \in StretchSet, Within(s)
  PROVE  LET last == s.src + (s.count - 1) * s.step
         IN  /\ Extent(s).lo = (IF s.src <= last THEN s.src ELSE last)
             /\ Extent(s).hi = (IF s.src >= last THEN s.src ELSE last) + 1
             /\ Extent(s).lo \in Nat /\ Extent(s).hi \in Nat /\ Extent(s).hi <= Elements
             /\ s.src \in Nat /\ last \in Nat
<1>. DEFINE a == s.src
            z == s.src + (s.count - 1) * s.step
            e == Elements
<1>1. e \in Nat /\ e < Word /\ Word \in Nat \ {0}
  BY Sizes
<1>2. a \in 0 .. e - 1 /\ z \in 0 .. e - 1
  BY DEF Within
<1>. HIDE DEF a, e
<1>3. z \in 0 .. Word - 1
  BY <1>1, <1>2
<1>4. z % Word = z
  <2>. HIDE DEF z
  <2>. QED
    BY <1>1, <1>3, WrapsNot
<1>5. Extent(s) = [lo |-> Min({a, z}), hi |-> Max({a, z}) + 1]
  <2>1. Extent(s) = [lo |-> Min({a, z % Word}), hi |-> Max({a, z % Word}) + 1]
    BY DEF Extent, a
  <2>. HIDE DEF z
  <2>. QED
    BY <1>4, <2>1
<1>. HIDE DEF z
<1>6. a \in Int /\ z \in Int
  BY <1>1, <1>2
<1>7. Min({a, z}) = (IF a <= z THEN a ELSE z) /\ Max({a, z}) = IF a >= z THEN a ELSE z
  BY <1>6, MinOfTwo, MaxOfTwo
<1>8. Extent(s).lo = (IF a <= z THEN a ELSE z) /\ Extent(s).hi = (IF a >= z THEN a ELSE z) + 1
  BY <1>5, <1>7
<1>9. Extent(s).lo \in Nat /\ Extent(s).hi \in Nat /\ Extent(s).hi <= e
  BY <1>1, <1>2, <1>6, <1>8
<1>. QED
  BY <1>1, <1>2, <1>8, <1>9 DEF a, z, e

\* Runs that follow one another are one run (for_each_stretch, push).
LEMMA MergeFacts ==
  ASSUME NEW p \in StretchSet, NEW s \in StretchSet, Within(p), Within(s), Absorbs(p, s)
  PROVE  [p EXCEPT !.count = @ + s.count] \in StretchSet /\ Within([p EXCEPT !.count = @ + s.count])
<1>. DEFINE r == [p EXCEPT !.count = @ + s.count]
<1>1. /\ p.src \in Nat /\ p.step = 1 /\ s.step = 1 /\ p.src + p.count = s.src
      /\ p.count \in Nat \ {0} /\ s.count \in Nat \ {0}
      /\ p.src \in 0 .. Elements - 1 /\ s.src + (s.count - 1) * 1 \in 0 .. Elements - 1
  BY DEF Absorbs, Within, StretchSet
<1>2. r \in StretchSet /\ r.src = p.src /\ r.step = 1 /\ r.count = p.count + s.count
  BY <1>1 DEF StretchSet
<1>. HIDE DEF r
<1>3. (s.count - 1) * 1 = s.count - 1 /\ (r.count - 1) * 1 = r.count - 1
  BY <1>1, <1>2
<1>4. r.src + (r.count - 1) * r.step \in 0 .. Elements - 1
  <2>1. r.src + (r.count - 1) * r.step = s.src + (s.count - 1) * 1
    BY <1>1, <1>2, <1>3
  <2>. QED
    BY <1>1, <2>1
<1>5. Within(r)
  BY <1>1, <1>2, <1>4 DEF Within
<1>. QED
  BY <1>2, <1>5 DEF r

\* What is on the array stays on it while no other layout is open.
LEMMA WithinSame ==
  ASSUME layout' = layout, array' = array
  PROVE  /\ wide' = wide /\ Elements' = Elements
         /\ \A s : Within(s) => Within(s)'
         /\ \A s : Extent(s)' = Extent(s)
<1>1. wide' = wide /\ Elements' = Elements
  BY DEF wide, Elements
<1>2. \A s : Within(s) => Within(s)'
  BY <1>1 DEF Within
<1>3. \A s : Extent(s)' = Extent(s)
  BY DEF Extent
<1>. QED
  BY <1>1, <1>2, <1>3

LEMMA StretchesSame ==
  ASSUME layout' = layout, array' = array
  PROVE  /\ pending' = pending /\ Stretches(pending) => Stretches(pending)'
         /\ held' = held /\ Stretches(held) => Stretches(held)'
         /\ next' = next /\ Stretches(next) => Stretches(next)'
BY WithinSame DEF Stretches

LEMMA SpannedSame ==
  ASSUME layout' = layout, array' = array, UNCHANGED <<span, held>>, Spanned
  PROVE  Spanned'
BY WithinSame DEF Spanned

\* A span that begins with a stretch is as long as the stretch is.
LEMMA SpanOfFacts ==
  ASSUME IInv, layout # Bad, layout' = layout, array' = array, NEW s \in StretchSet, Within(s), NEW at \in Nat,
         span' = <<SpanOf(s, at)>>, held' = <<s>>
  PROVE  Spanned' /\ Stretches(held)'
<1>1. Extent(s).lo \in Nat /\ Extent(s).hi \in Nat /\ Extent(s).hi <= Elements
  BY ExtentFacts
<1>2. s.count \in Nat
  BY DEF StretchSet
<1>. DEFINE w == SpanOf(s, at)
<1>3. /\ w \in [lo : Nat, hi : Nat, at : Nat, count : Nat]
      /\ w.lo = Extent(s).lo /\ w.hi = Extent(s).hi /\ w.count = s.count
  BY <1>1, <1>2 DEF SpanOf
<1>. HIDE DEF w
<1>4. /\ span' \in Seq([lo : Nat, hi : Nat, at : Nat, count : Nat]) /\ Len(span') = 1
      /\ span' # << >> /\ span'[1] = w
  BY <1>3 DEF w
<1>5. held' \in Seq(StretchSet) /\ Len(held') = 1 /\ held' # << >> /\ held'[1] = s
  OBVIOUS
<1>6. Within(s)' /\ Extent(s)' = Extent(s) /\ Elements' = Elements
  BY WithinSame
<1>7. Stretches(held)'
  BY <1>5, <1>6 DEF Stretches, StretchSet
<1>8. Spanned'
  <2>1. span'[1].lo = Extent(s)'.lo /\ span'[1].hi = Extent(s)'.hi /\ span'[1].count = s.count /\ span'[1].hi <= Elements'
    BY <1>1, <1>3, <1>4, <1>6
  <2>2. layout' # Bad
    OBVIOUS
  <2>. QED
    BY <1>4, <1>5, <2>1, <2>2 DEF Spanned
<1>. QED
  BY <1>7, <1>8

\* The stretch that a span is given leaves a span that is on the array and fits
\* the scratch buffer (Gathered::read).
LEMMA VisitFacts ==
  ASSUME IInv, pc = "walk", layout # Bad, layout' = layout, array' = array, NEW s \in StretchSet, Within(s), Visit(s)
  PROVE  /\ pc' \in {"walk", "copy"}
         /\ Stretches(held)' /\ Stretches(next)' /\ Spanned'
         /\ Len(next') = IF pc' = "copy" THEN 1 ELSE 0
<1>. DEFINE w == span[1]
            T == [lo : Nat, hi : Nat, at : Nat, count : Nat]
<1>1. /\ Stretches(held) /\ Stretches(next) /\ Spanned /\ Len(next) = 0
  BY DEF IInv
<1>2. Within(s)' /\ Extent(s)' = Extent(s) /\ Elements' = Elements /\ wide' = wide
  BY WithinSame
<1>3. held \in Seq(StretchSet) /\ \A i \in 1 .. Len(held) : Within(held[i])
  BY <1>1 DEF Stretches, StretchSet
<1>4. CASE span # << >> /\ Joins(w, s)
  <2>1. span' = <<Widened(w, s)>> /\ held' = Append(held, s) /\ pc' = pc /\ next' = next
    BY <1>4 DEF Visit
  <2>2. Extent(s).lo \in Nat /\ Extent(s).hi \in Nat /\ Extent(s).hi <= Elements
    BY ExtentFacts
  <2>3. w \in T /\ w.hi <= Elements /\ held # << >>
    <3>1. span \in Seq(T) /\ span # << >>
      BY <1>1, <1>4 DEF Spanned
    <3>2. held # << >> /\ w.hi <= Elements
      BY <1>1, <1>4 DEF Spanned
    <3>. HIDE DEF T
    <3>. QED
      BY <3>1, <3>2
  <2>. DEFINE u == Widened(w, s)
  <2>4. (u.hi - u.lo) * wide <= SPAN_MAX_BYTES
    BY <1>4 DEF Joins
  <2>5. u = [w EXCEPT !.lo = Min({w.lo, Extent(s).lo}), !.hi = Max({w.hi, Extent(s).hi}), !.count = w.count + s.count]
    BY DEF Widened
  <2>6. /\ w.lo \in Nat /\ w.hi \in Nat /\ w.count \in Nat /\ w.at \in Nat /\ s.count \in Nat
    BY <2>3 DEF StretchSet
  <2>7. /\ Min({w.lo, Extent(s).lo}) = (IF w.lo <= Extent(s).lo THEN w.lo ELSE Extent(s).lo)
        /\ Max({w.hi, Extent(s).hi}) = (IF w.hi >= Extent(s).hi THEN w.hi ELSE Extent(s).hi)
    BY <2>2, <2>6, MinOfTwo, MaxOfTwo
  <2>8. /\ Min({w.lo, Extent(s).lo}) \in Nat
        /\ Max({w.hi, Extent(s).hi}) \in Nat /\ Max({w.hi, Extent(s).hi}) <= Elements
    BY <2>2, <2>3, <2>6, <2>7
  <2>9. u \in T /\ u.hi <= Elements
    <3>. DEFINE lo == Min({w.lo, Extent(s).lo})
                hi == Max({w.hi, Extent(s).hi})
    <3>1. lo \in Nat /\ hi \in Nat /\ hi <= Elements /\ u = [w EXCEPT !.lo = lo, !.hi = hi, !.count = w.count + s.count]
      BY <2>5, <2>8
    <3>. HIDE DEF lo, hi, u, w
    <3>2. u = [lo |-> lo, hi |-> hi, at |-> w.at, count |-> w.count + s.count]
      BY <2>3, <3>1
    <3>. QED
      BY <2>6, <3>1, <3>2
  <2>. HIDE DEF u
  <2>10. span' \in Seq(T) /\ Len(span') = 1 /\ span' # << >> /\ span'[1] = u
    BY <2>1, <2>9 DEF u
  <2>11. /\ held' \in Seq(StretchSet) /\ Len(held') = Len(held) + 1 /\ Len(held) \in Nat
         /\ \A i \in 1 .. Len(held') : held'[i] = IF i <= Len(held) THEN held[i] ELSE s
    BY <1>3, <2>1
  <2>12. Len(held) # 0
    BY <1>3, <2>3
  <2>13. Stretches(held)'
    <3>1. \A i \in 1 .. Len(held') : Within(held'[i])
      <4>. TAKE i \in 1 .. Len(held')
      <4>1. CASE i <= Len(held)
        <5>1. i \in 1 .. Len(held) /\ held'[i] = held[i]
          BY <2>11, <4>1
        <5>. QED
          BY <1>3, <5>1
      <4>2. CASE ~(i <= Len(held))
        <5>1. held'[i] = s
          BY <2>11, <4>2
        <5>. QED
          BY <5>1
      <4>. QED
        BY <4>1, <4>2
    <3>2. \A x : Within(x) => Within(x)'
      BY WithinSame
    <3>. QED
      BY <2>11, <3>1, <3>2 DEF Stretches, StretchSet
  <2>14. Spanned'
    <3>1. Len(held') # 1 /\ held' # << >>
      BY <2>11, <2>12
    <3>2. (span'[1].hi - span'[1].lo) * wide' <= SPAN_MAX_BYTES /\ span'[1].hi <= Elements' /\ layout' # Bad
      BY <1>2, <2>4, <2>9, <2>10
    <3>. QED
      BY <2>10, <3>1, <3>2 DEF Spanned
  <2>15. Stretches(next)'
    BY <1>1, <2>1, StretchesSame
  <2>. QED
    BY <1>1, <2>1, <2>13, <2>14, <2>15
<1>5. CASE span = << >>
  <2>1. span' = <<SpanOf(s, 0)>> /\ held' = Append(held, s) /\ pc' = pc /\ next' = next
    BY <1>5 DEF Visit
  <2>2. held' = <<s>>
    BY <1>1, <1>5, <2>1 DEF Spanned
  <2>3. Spanned' /\ Stretches(held)'
    BY <2>1, <2>2, SpanOfFacts
  <2>4. Stretches(next)'
    BY <1>1, <2>1, StretchesSame
  <2>. QED
    BY <1>1, <2>1, <2>3, <2>4
<1>6. CASE span # << >> /\ ~Joins(w, s)
  <2>1. pc' = "copy" /\ next' = <<s>> /\ span' = span /\ held' = held
    BY <1>6 DEF Visit
  <2>2. Spanned'
    BY <1>1, <2>1, SpannedSame
  <2>3. Stretches(held)'
    BY <1>1, <2>1, StretchesSame
  <2>4. next' \in Seq(StretchSet) /\ Len(next') = 1 /\ next'[1] = s
    BY <2>1
  <2>5. Stretches(next)'
    BY <1>2, <2>4 DEF Stretches, StretchSet
  <2>. QED
    BY <2>1, <2>2, <2>3, <2>4, <2>5
<1>. QED
  BY <1>4, <1>5, <1>6

---------------------------------------------------------------------------
(* Every step keeps the invariant.                                         *)

PrefixOffsets(dims, base, ix, p) ==
  /\ ix \in [1 .. Len(dims) -> Nat]
  /\ \A d \in 1 .. Len(dims) : ix[d] < dims[d].len
  /\ p \in [1 .. Len(dims) + 1 -> Int]
  /\ \A d \in 1 .. Len(dims) : Stands(dims, base, p, d)

LEMMA PrefixedIs ==
  /\ Prefixed <=> PrefixOffsets(Dims, layout.walk.base, index, prefix)
  /\ Prefixed' <=> PrefixOffsets(Dims', layout'.walk.base, index', prefix')
<1>1. Prefixed <=> PrefixOffsets(Dims, layout.walk.base, index, prefix)
  BY DEF Prefixed, PrefixOffsets, Stands
<1>2. Prefixed' <=> PrefixOffsets(Dims', layout'.walk.base, index', prefix')
  BY DEF Prefixed, PrefixOffsets, Stands
<1>. QED
  BY <1>1, <1>2

\* A range begins with every dimension on an element (Gathered::read,
\* for_each_stretch).
LEMMA StartPrefixes ==
  ASSUME NEW dims \in Seq(ProperDims), NEW base \in Int, NEW n \in Nat, NEW ix, NEW p,
         ix = Coords(n, Map(dims, LAMBDA d : d.len)), Refreshed(p, dims, <<base>>, ix, 1)
  PROVE  PrefixOffsets(dims, base, ix, p)
<1>. DEFINE lens == Map(dims, LAMBDA d : d.len)
            L == Len(dims)
<1>1. L \in Nat /\ \A d \in 1 .. L : dims[d].len \in Nat \ {0}
  <2>1. \A d \in 1 .. L : dims[d] \in ProperDims
    OBVIOUS
  <2>2. \A d \in 1 .. L : dims[d].len \in Nat /\ dims[d].len >= 2
    BY <2>1, DimFacts
  <2>. QED
    BY <2>2
<1>2. lens = [d \in 1 .. L |-> dims[d].len]
  BY DEF Map
<1>3. lens \in Seq(Nat) /\ Len(lens) = L /\ \A d \in 1 .. L : lens[d] = dims[d].len
  <2>1. lens \in [1 .. L -> Nat]
    BY <1>1, <1>2
  <2>. QED
    BY <1>1, <1>2, <2>1
<1>4. ix = [a \in 1 .. L |-> (n \div Stride(lens, a)) % lens[a]]
  <2>1. ix = [a \in DOMAIN lens |-> (n \div Stride(lens, a)) % lens[a]]
    BY DEF Coords
  <2>2. DOMAIN lens = 1 .. L
    BY <1>2
  <2>. QED
    BY <2>1, <2>2
<1>. HIDE DEF lens, L
<1>5. ASSUME NEW a \in 1 .. L
      PROVE  ix[a] \in Nat /\ ix[a] < dims[a].len
  <2>1. DOMAIN lens = 1 .. L /\ \A d \in DOMAIN lens : lens[d] # 0
    BY <1>1, <1>3
  <2>2. Stride(lens, a) \in Nat \ {0}
    BY <1>3, <2>1, StrideSplit
  <2>. DEFINE s == Stride(lens, a)
              q == n \div s
              m == dims[a].len
  <2>3. m \in Nat \ {0} /\ ix[a] = q % m
    BY <1>1, <1>3, <1>4
  <2>4. q \in Nat
    BY <2>2, Division
  <2>. HIDE DEF q, m
  <2>5. q % m \in 0 .. m - 1
    BY <2>3, <2>4
  <2>. QED
    BY <2>3, <2>5 DEF m
<1>6. ix \in [1 .. L -> Nat]
  BY <1>4, <1>5
<1>7. \A i \in 1 .. 1 : <<base>>[i] \in Int
  OBVIOUS
<1>8. \A d \in 1 .. 1 : Stands(dims, base, <<base>>, d)
  <2>1. Lows(dims, 0) = 0 /\ Highs(dims, 0) = 0
    <3>1. [d \in 1 .. 0 |-> Least(dims[d])] = << >> /\ [d \in 1 .. 0 |-> Most(dims[d])] = << >>
      OBVIOUS
    <3>. QED
      BY <3>1, AddedFacts DEF Lows, Highs
  <2>2. base \in base + Lows(dims, 1 - 1) .. base + Highs(dims, 1 - 1)
    BY <2>1
  <2>. QED
    BY <2>2 DEF Stands
<1>9. 1 \in 1 .. L + 1
  BY <1>1
<1>10. /\ p \in [1 .. L + 1 -> Int]
       /\ \A d \in 1 .. L + 1 : Stands(dims, base, p, d)
  BY <1>5, <1>6, <1>7, <1>8, <1>9, RefreshKeeps DEF L
<1>. QED
  BY <1>1, <1>5, <1>6, <1>10 DEF PrefixOffsets, L

\* One stretch further, the dimensions are on elements still (for_each_stretch).
LEMMA StepPrefixed ==
  ASSUME IInv, Step
  PROVE  Prefixed'
<1>1. pc = "walk" /\ done < count /\ layout' = layout
  BY DEF Step
<1>2. Prefixed /\ layout.walk.base \in Nat /\ Dims \in Seq(ProperDims)
  BY <1>1, WalkFacts
<1>. DEFINE L == Len(Dims)
            base == layout.walk.base
            s == Here
<1>3. Dims' = Dims /\ layout'.walk.base = base
  BY <1>1 DEF Dims
<1>4. PrefixOffsets(Dims, base, index, prefix)
  BY <1>2, PrefixedIs
<1>5. CASE index' = index /\ prefix' = prefix
  <2>1. PrefixOffsets(Dims', layout'.walk.base, index', prefix')
    BY <1>3, <1>4, <1>5
  <2>. QED
    BY <2>1, PrefixedIs
<1>6. CASE Dims # << >> /\ index' = Advance(index) /\ prefix' = Refresh(prefix, index', Moving(index))
  <2>. DEFINE m == Moving(index)
              ix == Advance(index)
              p == Refresh(prefix, ix, m)
  <2>1. m \in 1 .. L /\ ix \in [1 .. L -> Nat] /\ \A d \in 1 .. L : ix[d] < Dims[d].len
    BY <1>2, <1>6, AdvanceFacts
  <2>2. L \in Nat /\ m \in Nat \ {0} /\ m \in 1 .. L + 1
    <3>1. L \in Nat
      BY <1>2
    <3>. HIDE DEF L, m
    <3>. QED
      BY <2>1, <3>1
  <2>3. Refreshed(p, Dims, prefix, ix, m)
    <3>. HIDE DEF m, ix
    <3>. QED
      BY <2>2, RefreshDef
  <2>4. index' = ix /\ prefix' = p
    BY <1>6
  <2>. HIDE DEF m, ix, p
  <2>5. \A i \in 1 .. m : prefix[i] \in Int
    <3>1. prefix \in [1 .. L + 1 -> Int]
      BY <1>4 DEF PrefixOffsets
    <3>. HIDE DEF L
    <3>. QED
      BY <2>1, <2>2, <3>1
  <2>6. \A d \in 1 .. m : Stands(Dims, base, prefix, d)
    <3>1. \A d \in 1 .. L : Stands(Dims, base, prefix, d)
      BY <1>4 DEF PrefixOffsets
    <3>. HIDE DEF L
    <3>. QED
      BY <2>1, <2>2, <3>1
  <2>7. base \in Int
    BY <1>2
  <2>. HIDE DEF base
  <2>8. /\ p \in [1 .. L + 1 -> Int]
        /\ \A d \in 1 .. L + 1 : Stands(Dims, base, p, d)
    BY <1>2, <2>1, <2>2, <2>3, <2>5, <2>6, <2>7, RefreshKeeps
  <2>9. PrefixOffsets(Dims, base, ix, p)
    <3>1. \A d \in 1 .. L : Stands(Dims, base, p, d)
      <4>. HIDE DEF L
      <4>. QED
        BY <2>2, <2>8
    <3>. QED
      BY <2>1, <2>8, <3>1 DEF PrefixOffsets
  <2>10. PrefixOffsets(Dims', layout'.walk.base, index', prefix')
    BY <1>3, <2>4, <2>9
  <2>. QED
    BY <2>10, PrefixedIs
<1>7. CASE /\ Dims # << >> /\ ~(Last(index) + s.count = Inner.len)
           /\ index' = [index EXCEPT ![Len(index)] = @ + s.count] /\ prefix' = prefix
  <2>1. /\ s.count \in Nat \ {0} /\ Last(index) = index[L] /\ Len(index) = L
        /\ Last(index) \in Nat /\ Last(index) + s.count <= Inner.len
    BY <1>1, <1>7, HereFacts
  <2>2. L \in Nat \ {0} /\ Inner = Dims[L] /\ Dims[L] \in ProperDims
    BY <1>2, <1>7 DEF Inner, Last
  <2>3. Inner.len \in Nat
    BY <2>2, DimFacts
  <2>. DEFINE c == s.count
              k == index[L]
              len == Inner.len
  <2>4. c \in Nat \ {0} /\ k \in Nat /\ k + c < len
    <3>1. c \in Nat \ {0} /\ k \in Nat /\ k + c <= len /\ k + c # len /\ len \in Nat
      BY <1>7, <2>1, <2>3
    <3>. HIDE DEF c, k, len
    <3>. QED
      BY <3>1
  <2>5. index \in [1 .. L -> Nat] /\ \A d \in 1 .. L : index[d] < Dims[d].len
    BY <1>4 DEF PrefixOffsets
  <2>6. index' = [index EXCEPT ![L] = k + c] /\ len = Dims[L].len
    BY <1>7, <2>1, <2>2
  <2>. HIDE DEF c, k, len, L
  <2>7. index' \in [1 .. L -> Nat] /\ \A d \in 1 .. L : index'[d] < Dims[d].len
    BY <2>2, <2>4, <2>5, <2>6
  <2>8. PrefixOffsets(Dims, base, index', prefix)
    BY <1>4, <2>7 DEF PrefixOffsets, L
  <2>9. PrefixOffsets(Dims', layout'.walk.base, index', prefix')
    BY <1>3, <1>7, <2>8
  <2>. QED
    BY <2>9, PrefixedIs
<1>8. \/ index' = index /\ prefix' = prefix
      \/ Dims # << >> /\ index' = Advance(index) /\ prefix' = Refresh(prefix, index', Moving(index))
      \/ /\ Dims # << >> /\ ~(Last(index) + s.count = Inner.len)
         /\ index' = [index EXCEPT ![Len(index)] = @ + s.count] /\ prefix' = prefix
  BY DEF Step
<1>. QED
  BY <1>5, <1>6, <1>7, <1>8

LEMMA EmptyFacts ==
  /\ pending' = << >> => Stretches(pending)' /\ Len(pending') = 0
  /\ held' = << >> => Stretches(held)'
  /\ next' = << >> => Stretches(next)' /\ Len(next') = 0
  /\ span' = << >> /\ held' = << >> => Spanned'
<1>1. \A T : << >> \in Seq(T) /\ Len(<< >>) = 0
  OBVIOUS
<1>2. pending' = << >> => Stretches(pending)' /\ Len(pending') = 0
  BY <1>1 DEF Stretches
<1>3. held' = << >> => Stretches(held)'
  BY <1>1 DEF Stretches
<1>4. next' = << >> => Stretches(next)' /\ Len(next') = 0
  BY <1>1 DEF Stretches
<1>5. span' = << >> /\ held' = << >> => Spanned'
  BY <1>1 DEF Spanned
<1>. QED
  BY <1>2, <1>3, <1>4, <1>5

LEMMA InitInv ==
  Init => IInv
<1>. SUFFICES ASSUME Init
              PROVE  IInv
  OBVIOUS
<1>1. \A T : << >> \in Seq(T) /\ Len(<< >>) = 0
  OBVIOUS
<1>2. /\ pc = "idle" /\ array \in Arrays /\ layout = Bad
      /\ pending = << >> /\ held = << >> /\ span = << >> /\ next = << >>
  BY DEF Init
<1>3. Stretches(pending) /\ Stretches(held) /\ Stretches(next) /\ Spanned
  BY <1>1, <1>2 DEF Stretches, Spanned
<1>. QED
  BY <1>1, <1>2, <1>3 DEF IInv

LEMMA PrepareKeeps ==
  ASSUME IInv, NEW ixs \in Selections, NEW item \in Items, Prepare(ixs, item)
  PROVE  IInv'
<1>1. /\ pc = "idle" /\ pc' = "ready" /\ array' = array
      /\ layout' = Layout(array.shape, ixs, item[1], item[2])
      /\ pending' = pending /\ held' = held /\ span' = span /\ next' = next
  BY DEF Prepare, walkVars, spanVars
<1>2. array \in Arrays /\ pending = << >> /\ held = << >> /\ span = << >> /\ next = << >>
  BY <1>1 DEF IInv
<1>3. ixs \in Seq(Index)
  BY GatherAssumption
<1>4. layout' # Bad => Sound(layout)'
  <2>. SUFFICES ASSUME layout' # Bad
                PROVE  Sound(layout)'
    OBVIOUS
  <2>1. /\ layout'.total \in Nat
        /\ <<layout'.wide, layout'.narrow>> \in Items
        /\ layout'.walk.kind \in {"Contiguous", "Gathered"}
        /\ layout'.walk.kind = "Gathered" /\ layout'.total > 0 => Located(layout'.walk, Product(array.shape))
    BY <1>1, <1>2, <1>3, LayoutSound
  <2>. QED
    BY <1>1, <2>1 DEF Sound, Elements
<1>5. Stretches(pending)' /\ Stretches(held)' /\ Stretches(next)' /\ Spanned' /\ Len(pending') = 0 /\ Len(next') = 0
  BY <1>1, <1>2, EmptyFacts
<1>. QED
  BY <1>1, <1>2, <1>4, <1>5 DEF IInv

\* Whoever leaves the spans alone and neither walks nor copies keeps everything.
LEMMA RestKeeps ==
  ASSUME IInv, layout' = layout, array' = array, pc' = "done",
         UNCHANGED <<pending, held, span, next>>, Len(next) = 0
  PROVE  IInv'
<1>1. Sound(layout)' <=> Sound(layout)
  BY DEF Sound, Elements
<1>2. Stretches(pending)' /\ Stretches(held)' /\ Stretches(next)' /\ Spanned'
  BY StretchesSame, SpannedSame DEF IInv
<1>. QED
  BY <1>1, <1>2 DEF IInv

LEMMA ResetKeeps ==
  ASSUME IInv, layout' = layout, array' = array, pc' \in {"idle", "ready"},
         pending' = << >>, held' = << >>, span' = << >>, next' = << >>
  PROVE  IInv'
<1>1. Sound(layout)' <=> Sound(layout)
  BY DEF Sound, Elements
<1>2. /\ Stretches(pending)' /\ Stretches(held)' /\ Stretches(next)' /\ Spanned'
      /\ Len(pending') = 0 /\ Len(next') = 0
  BY EmptyFacts
<1>. QED
  BY <1>1, <1>2 DEF IInv

\* A range that begins is a range of the layout (check_range, Gathered::read).
LEMMA ReadGatheredKeeps ==
  ASSUME IInv, NEW offset \in Nat, NEW len \in Nat, ReadGathered(offset, len)
  PROVE  IInv'
<1>1. /\ pc = "ready" /\ pc' = "walk" /\ layout # Bad /\ offset + len <= layout.total
      /\ layout.walk.kind = "Gathered"
      /\ range' = <<offset, len>> /\ done' = 0 /\ pending' = << >>
      /\ layout' = layout /\ array' = array /\ held' = held /\ span' = span /\ next' = next
  BY DEF ReadGathered
<1>2. index' = Coords(offset \div narrow, Map(Dims, LAMBDA d : d.len))
  BY DEF ReadGathered
<1>3. prefix' = Refresh(<<layout.walk.base>>, index', 1)
  BY DEF ReadGathered
<1>4. /\ array \in Arrays /\ Sound(layout) /\ held = << >> /\ span = << >> /\ next = << >>
  BY <1>1 DEF IInv
<1>5. narrow \in Nat \ {0}
  BY <1>1, Sizes
<1>6. count' \in Nat
  <2>. DEFINE n == narrow
              x == offset + len + n - 1
              q == offset \div n
              r == x \div n
  <2>1. count' = r - q
    <3>1. narrow' = narrow
      BY <1>1 DEF narrow
    <3>. QED
      BY <1>1, <3>1 DEF count, first, CeilDiv
  <2>2. n \in Nat \ {0} /\ x \in Nat /\ offset <= x
    <3>1. n \in Nat \ {0}
      BY <1>5
    <3>. HIDE DEF n
    <3>. QED
      BY <3>1
  <2>. HIDE DEF n, x
  <2>3. q \in Nat /\ q * n <= offset /\ r \in Nat /\ x < r * n + n
    BY <2>2, Division
  <2>. HIDE DEF q, r
  <2>4. ASSUME r < q
        PROVE  FALSE
    <3>. DEFINE g == q - r - 1
    <3>1. g \in Nat /\ q = r + 1 + g
      BY <2>3, <2>4
    <3>. HIDE DEF g
    <3>2. (r + 1 + g) * n = r * n + n + g * n /\ g * n \in Nat /\ r * n \in Nat
      BY <2>2, <2>3, <3>1
    <3>3. q * n = r * n + n + g * n
      BY <3>1, <3>2
    <3>. QED
      BY <2>2, <2>3, <3>2, <3>3
  <2>. QED
    BY <2>1, <2>3, <2>4
<1>7. layout.total > 0 => Prefixed'
  <2>. SUFFICES ASSUME layout.total > 0
                PROVE  Prefixed'
    OBVIOUS
  <2>1. layout.walk.base \in Nat /\ Dims \in Seq(Dim) /\ \A d \in DOMAIN Dims : ProperDim(Dims[d])
    BY <1>1, <1>4 DEF Sound, Located, Dims
  <2>. DEFINE dims == Dims
              base == layout.walk.base
              n == offset \div narrow
  <2>2. dims \in Seq(ProperDims)
    <3>1. dims \in Seq(Dim) /\ \A d \in DOMAIN dims : ProperDim(dims[d])
      BY <2>1
    <3>. HIDE DEF dims
    <3>2. \A d \in 1 .. Len(dims) : dims[d] \in ProperDims
      BY <3>1 DEF ProperDims
    <3>3. dims \in [1 .. Len(dims) -> ProperDims] /\ Len(dims) \in Nat
      BY <3>1, <3>2
    <3>. QED
      BY <3>3
  <2>3. Len(Dims) \in Nat
    BY <2>1
  <2>4. n \in Nat
    BY <1>5, Division
  <2>. DEFINE ix == index'
              p == prefix'
  <2>5. ix = Coords(n, Map(dims, LAMBDA d : d.len)) /\ p = Refresh(<<base>>, ix, 1)
    BY <1>2, <1>3
  <2>6. Refreshed(p, dims, <<base>>, ix, 1)
    <3>. DEFINE old == <<base>>
    <3>. HIDE DEF ix, old, p
    <3>1. 1 \in Nat \ {0}
      OBVIOUS
    <3>2. Refreshed(Refresh(old, ix, 1), Dims, old, ix, 1)
      BY <2>3, <3>1, RefreshDef
    <3>. QED
      BY <2>5, <3>2 DEF old
  <2>7. base \in Int
    BY <2>1
  <2>8. ix = Coords(n, Map(dims, LAMBDA d : d.len))
    BY <2>5
  <2>9. PrefixOffsets(dims, base, ix, p)
    <3>. HIDE DEF ix, p, dims, base, n
    <3>. QED
      BY <2>2, <2>4, <2>6, <2>7, <2>8, StartPrefixes
  <2>10. Dims' = Dims /\ layout'.walk.base = base
    BY <1>1 DEF Dims
  <2>. QED
    BY <2>9, <2>10, PrefixedIs
<1>8. Walking'
  <2>1. range' \in Nat \X Nat /\ range'[1] + range'[2] <= layout'.total /\ done' \in 0 .. count'
    BY <1>1, <1>6
  <2>. QED
    BY <1>1, <1>7, <2>1 DEF Walking
<1>9. Stretches(pending)' /\ Stretches(held)' /\ Stretches(next)' /\ Spanned' /\ Len(pending') = 0 /\ Len(next') = 0
  BY <1>1, <1>4, EmptyFacts
<1>10. Sound(layout)'
  BY <1>1, <1>4 DEF Sound, Elements
<1>. QED
  BY <1>1, <1>4, <1>8, <1>9, <1>10 DEF IInv

\* What the walk holds back is a stretch of the array.
LEMMA PendingFacts ==
  ASSUME IInv, pending # << >>
  PROVE  pending[1] \in StretchSet /\ Within(pending[1]) /\ Len(pending) = 1
<1>1. pending \in Seq(StretchSet) /\ Len(pending) <= 1 /\ \A i \in 1 .. Len(pending) : Within(pending[i])
  BY DEF IInv, Stretches, StretchSet
<1>2. Len(pending) \in Nat /\ Len(pending) # 0
  BY <1>1
<1>3. Len(pending) = 1 /\ 1 \in 1 .. Len(pending)
  <2>. DEFINE n == Len(pending)
  <2>1. n \in Nat /\ n # 0 /\ n <= 1
    BY <1>1, <1>2
  <2>. HIDE DEF n
  <2>2. n = 1 /\ 1 \in 1 .. n
    BY <2>1
  <2>. QED
    BY <2>2 DEF n
<1>4. pending[1] \in StretchSet
  BY <1>1, <1>3
<1>. QED
  BY <1>1, <1>3, <1>4

LEMMA OneStretch ==
  ASSUME NEW s \in StretchSet, Within(s), pending' = <<s>>, layout' = layout, array' = array
  PROVE  Stretches(pending)' /\ Len(pending') = 1
<1>1. Within(s)'
  BY WithinSame
<1>2. pending' \in Seq(StretchSet) /\ Len(pending') = 1 /\ pending'[1] = s
  OBVIOUS
<1>. QED
  BY <1>1, <1>2 DEF Stretches, StretchSet

\* The walk takes in another stretch (for_each_stretch).
LEMMA StepKeeps ==
  ASSUME IInv, Step
  PROVE  IInv'
<1>1. /\ pc = "walk" /\ done < count /\ layout' = layout /\ array' = array /\ range' = range
      /\ done' = done + Here.count
  BY DEF Step
<1>2. layout # Bad /\ count \in Nat /\ done \in Nat
  BY <1>1, WalkFacts
<1>3. Within(Here) /\ Here \in StretchSet /\ Here.count \in Nat \ {0} /\ done + Here.count <= count
  BY <1>1, HereFacts DEF StretchSet
<1>4. array \in Arrays /\ Sound(layout) /\ Walking /\ Len(next) = 0
  BY <1>1, <1>2 DEF IInv
<1>. DEFINE s == Here
            p == pending[1]
<1>5. /\ Stretches(pending)' /\ Len(pending') = 1 /\ Stretches(held)' /\ Stretches(next)' /\ Spanned'
      /\ pc' \in {"walk", "copy"} /\ Len(next') = IF pc' = "copy" THEN 1 ELSE 0
  <2>1. CASE pending # << >> /\ Absorbs(p, s)
    <3>1. /\ pending' = <<[p EXCEPT !.count = @ + s.count]>>
          /\ pc' = pc /\ held' = held /\ span' = span /\ next' = next
      BY <2>1 DEF Step, spanVars
    <3>2. p \in StretchSet /\ Within(p)
      BY <2>1, PendingFacts
    <3>. DEFINE r == [p EXCEPT !.count = @ + s.count]
    <3>3. r \in StretchSet /\ Within(r)
      <4>. HIDE DEF p, s
      <4>1. s \in StretchSet /\ Within(s) /\ Absorbs(p, s) /\ p \in StretchSet /\ Within(p)
        BY <1>3, <2>1, <3>2 DEF s
      <4>. QED
        BY <4>1, MergeFacts
    <3>4. pending' = <<r>>
      BY <3>1
    <3>. HIDE DEF r
    <3>5. Stretches(pending)' /\ Len(pending') = 1
      BY <1>1, <3>3, <3>4, OneStretch
    <3>6. Stretches(held)' /\ Stretches(next)' /\ Spanned'
      BY <1>1, <3>1, StretchesSame, SpannedSame DEF IInv
    <3>. QED
      BY <1>1, <1>4, <3>1, <3>5, <3>6
  <2>2. CASE pending = << >>
    <3>1. pending' = <<s>> /\ pc' = pc /\ held' = held /\ span' = span /\ next' = next
      BY <2>2 DEF Step, spanVars
    <3>2. Stretches(pending)' /\ Len(pending') = 1
      BY <1>1, <1>3, <3>1, OneStretch
    <3>3. Stretches(held)' /\ Stretches(next)' /\ Spanned'
      BY <1>1, <3>1, StretchesSame, SpannedSame DEF IInv
    <3>. QED
      BY <1>1, <1>4, <3>1, <3>2, <3>3
  <2>3. CASE pending # << >> /\ ~Absorbs(p, s)
    <3>1. pending' = <<s>> /\ Visit(p)
      BY <2>3 DEF Step
    <3>2. p \in StretchSet /\ Within(p)
      BY <2>3, PendingFacts
    <3>3. Stretches(pending)' /\ Len(pending') = 1
      BY <1>1, <1>3, <3>1, OneStretch
    <3>4. /\ pc' \in {"walk", "copy"}
          /\ Stretches(held)' /\ Stretches(next)' /\ Spanned'
          /\ Len(next') = IF pc' = "copy" THEN 1 ELSE 0
      <4>. HIDE DEF p
      <4>. QED
        BY <1>1, <1>2, <3>1, <3>2, VisitFacts
    <3>. QED
      BY <3>3, <3>4
  <2>. QED
    BY <2>1, <2>2, <2>3
<1>6. Walking'
  <2>1. count' = count
    BY <1>1 DEF count, first, narrow
  <2>2. done' \in 0 .. count'
    BY <1>1, <1>2, <1>3, <2>1
  <2>3. Prefixed'
    BY StepPrefixed
  <2>. QED
    BY <1>1, <1>4, <2>2, <2>3 DEF Walking
<1>7. Sound(layout)'
  BY <1>1, <1>4 DEF Sound, Elements
<1>. QED
  BY <1>1, <1>4, <1>5, <1>6, <1>7 DEF IInv

LEMMA WalkingSame ==
  ASSUME layout' = layout, UNCHANGED <<range, index, prefix, done>>, Walking
  PROVE  Walking'
<1>1. Prefixed' <=> Prefixed
  BY DEF Prefixed, Dims
<1>2. count' = count
  BY DEF count, first, narrow
<1>. QED
  BY <1>1, <1>2 DEF Walking

\* The walk gives up what it held back (for_each_stretch).
LEMMA FlushKeeps ==
  ASSUME IInv, Flush
  PROVE  IInv'
<1>1. /\ pc = "walk" /\ pending # << >> /\ pending' = << >> /\ Visit(pending[1])
      /\ layout' = layout /\ array' = array /\ UNCHANGED <<range, index, prefix, done>>
  BY DEF Flush
<1>2. layout # Bad /\ array \in Arrays /\ Sound(layout) /\ Walking
  BY <1>1, WalkFacts DEF IInv
<1>. DEFINE p == pending[1]
<1>3. p \in StretchSet /\ Within(p) /\ Visit(p)
  BY <1>1, PendingFacts
<1>. HIDE DEF p
<1>4. /\ pc' \in {"walk", "copy"}
      /\ Stretches(held)' /\ Stretches(next)' /\ Spanned'
      /\ Len(next') = IF pc' = "copy" THEN 1 ELSE 0
  BY <1>1, <1>2, <1>3, VisitFacts
<1>5. Stretches(pending)' /\ Len(pending') = 0
  BY <1>1, EmptyFacts
<1>6. Walking' /\ Sound(layout)'
  <2>1. Sound(layout)'
    BY <1>1, <1>2 DEF Sound, Elements
  <2>. QED
    BY <1>1, <1>2, <2>1, WalkingSame
<1>. QED
  BY <1>1, <1>2, <1>4, <1>5, <1>6 DEF IInv

\* The next span begins with the stretch that did not join the last (copy_span).
LEMMA CopyKeeps ==
  ASSUME IInv, Copy
  PROVE  IInv'
<1>1. /\ pc = "copy" /\ pc' = "walk" /\ span' = <<SpanOf(next[1], OutAt)>> /\ held' = next /\ next' = << >>
      /\ layout' = layout /\ array' = array /\ UNCHANGED <<range, index, prefix, done, pending>>
  BY DEF Copy, walkVars
<1>2. /\ array \in Arrays /\ Walking /\ Stretches(next) /\ Len(next) = 1 /\ Spanned /\ Stretches(pending) /\ Len(pending) <= 1
  BY <1>1 DEF IInv
<1>3. layout # Bad /\ Sound(layout)
  BY <1>2 DEF Walking, IInv
<1>. DEFINE s == next[1]
<1>4. s \in StretchSet /\ Within(s) /\ next = <<s>>
  <2>1. next \in Seq(StretchSet) /\ \A i \in 1 .. Len(next) : Within(next[i])
    BY <1>2 DEF Stretches, StretchSet
  <2>2. next = <<next[1]>>
    BY <1>2, <2>1
  <2>. QED
    BY <1>2, <2>1, <2>2
<1>5. OutAt \in Nat
  <2>1. CASE span = << >>
    BY <2>1 DEF OutAt
  <2>2. CASE span # << >>
    <3>. DEFINE T == [lo : Nat, hi : Nat, at : Nat, count : Nat]
    <3>1. span[1] \in T
      <4>1. span \in Seq(T) /\ span # << >>
        BY <1>2, <2>2 DEF Spanned
      <4>. HIDE DEF T
      <4>. QED
        BY <4>1
    <3>2. span[1].at \in Nat /\ span[1].count \in Nat
      BY <3>1
    <3>. QED
      BY <2>2, <3>2 DEF OutAt
  <2>. QED
    BY <2>1, <2>2
<1>. DEFINE at == OutAt
<1>6. span' = <<SpanOf(s, at)>> /\ held' = <<s>> /\ at \in Nat
  BY <1>1, <1>4, <1>5
<1>. HIDE DEF s, at
<1>7. Spanned' /\ Stretches(held)'
  BY <1>1, <1>3, <1>4, <1>6, SpanOfFacts
<1>8. Stretches(next)' /\ Len(next') = 0
  BY <1>1, EmptyFacts
<1>9. Stretches(pending)'
  BY <1>1, <1>2, StretchesSame
<1>10. Walking' /\ Sound(layout)'
  <2>1. Sound(layout)'
    BY <1>1, <1>3 DEF Sound, Elements
  <2>. QED
    BY <1>1, <1>2, <2>1, WalkingSame
<1>. QED
  BY <1>1, <1>2, <1>7, <1>8, <1>9, <1>10 DEF IInv

LEMMA NextKeeps ==
  ASSUME IInv, [Next]_vars
  PROVE  IInv'
<1>1. CASE \E ixs \in Selections, item \in Items : Prepare(ixs, item)
  BY <1>1, PrepareKeeps
<1>2. ASSUME NEW offset \in 0 .. IF layout = Bad THEN 0 ELSE layout.total,
             NEW len \in 0 .. IF layout = Bad THEN 0 ELSE layout.total,
             ReadRun(offset, len) \/ ReadGathered(offset, len)
      PROVE  IInv'
  <2>1. offset \in Nat /\ len \in Nat
    <3>1. layout # Bad => layout.total \in Nat
      BY DEF IInv, Sound
    <3>. QED
      BY <3>1
  <2>2. CASE ReadRun(offset, len)
    <3>1. /\ pc = "ready" /\ pc' = "done" /\ layout' = layout /\ array' = array
          /\ UNCHANGED <<pending, held, span, next>>
      BY <2>2 DEF ReadRun, walkVars, spanVars
    <3>2. Len(next) = 0
      BY <3>1 DEF IInv
    <3>. QED
      BY <3>1, <3>2, RestKeeps
  <2>3. CASE ReadGathered(offset, len)
    BY <2>1, <2>3, ReadGatheredKeeps
  <2>. QED
    BY <1>2, <2>2, <2>3
<1>3. CASE Step
  BY <1>3, StepKeeps
<1>4. CASE Flush
  BY <1>4, FlushKeeps
<1>5. CASE Copy
  BY <1>5, CopyKeeps
<1>6. CASE Finish
  <2>1. /\ pc = "walk" /\ pc' = "done" /\ layout' = layout /\ array' = array
        /\ UNCHANGED <<pending, held, span, next>>
    BY <1>6 DEF Finish, walkVars
  <2>2. Len(next) = 0
    BY <2>1 DEF IInv
  <2>. QED
    BY <2>1, <2>2, RestKeeps
<1>7. CASE Fails \/ Return
  <2>1. /\ pc' \in {"idle", "ready"} /\ layout' = layout /\ array' = array
        /\ pending' = << >> /\ held' = << >> /\ span' = << >> /\ next' = << >>
    BY <1>7 DEF Fails, Return, Reset
  <2>. QED
    BY <2>1, ResetKeeps
<1>8. CASE Refuse
  <2>1. /\ pc = "ready" /\ pc' = "idle" /\ layout' = layout /\ array' = array
        /\ UNCHANGED <<pending, held, span, next>>
    BY <1>8 DEF Refuse, walkVars, spanVars
  <2>2. pending = << >> /\ held = << >> /\ span = << >> /\ next = << >>
    BY <2>1 DEF IInv
  <2>. QED
    BY <2>1, <2>2, ResetKeeps
<1>9. CASE UNCHANGED vars
  <2>1. /\ pc' = pc /\ layout' = layout /\ array' = array /\ UNCHANGED <<range, index, prefix, done>>
        /\ UNCHANGED <<pending, held, span, next>>
    BY <1>9 DEF vars, walkVars, spanVars
  <2>2. Stretches(pending)' /\ Stretches(held)' /\ Stretches(next)' /\ Spanned'
    BY <2>1, StretchesSame, SpannedSame DEF IInv
  <2>3. Sound(layout)' <=> Sound(layout)
    BY <2>1 DEF Sound, Elements
  <2>4. Walking => Walking'
    BY <2>1, WalkingSame
  <2>. QED
    BY <2>1, <2>2, <2>3, <2>4 DEF IInv
<1>. QED
  BY <1>1, <1>2, <1>3, <1>4, <1>5, <1>6, <1>7, <1>8, <1>9 DEF Next

\* What the theorems below follow from: layouts on the array, walks on their
\* layouts, stretches and spans on the array and of a size that fits
\* (SelectionLayout::read_with, Gathered::read).
THEOREM Invariant == Spec => []IInv
<1>1. Init => IInv
  BY InitInv
<1>2. IInv /\ [Next]_vars => IInv'
  BY NextKeeps
<1>. QED
  BY <1>1, <1>2, PTL DEF Spec

\* What a span of several stretches, or of one with gaps, takes of the scratch
\* buffer never exceeds the ceiling, for any steps and gaps (Gathered::read).
THEOREM ScratchStaysBounded == Spec => []ScratchBounded
<1>1. IInv => ScratchBounded
  <2>. SUFFICES ASSUME IInv, span # << >>, ~Direct
                PROVE  (span[1].hi - span[1].lo) * wide <= SPAN_MAX_BYTES
    BY DEF ScratchBounded
  <2>1. Spanned /\ Stretches(held)
    BY DEF IInv
  <2>2. CASE Len(held) # 1
    BY <2>1, <2>2 DEF Spanned
  <2>3. CASE Len(held) = 1
    <3>. DEFINE s == held[1]
                d == s.step
                n == s.count
                last == s.src + (n - 1) * d
    <3>1. s \in StretchSet /\ Within(s) /\ layout # Bad
      <4>1. held \in Seq(StretchSet) /\ \A i \in 1 .. Len(held) : Within(held[i])
        BY <2>1 DEF Stretches, StretchSet
      <4>2. layout # Bad
        BY <2>1 DEF Spanned
      <4>. QED
        BY <2>3, <4>1, <4>2
    <3>2. span[1].lo = Extent(s).lo /\ span[1].hi = Extent(s).hi
      BY <2>1, <2>3 DEF Spanned
    <3>3. d # 1
      BY <2>3 DEF Direct
    <3>4. /\ n \in Nat \ {0} /\ d \in Int /\ s.src \in Nat
          /\ ((n - 1) * (IF d < 0 THEN -d ELSE d) + 1) * wide <= SPAN_MAX_BYTES
      BY <3>1, <3>3 DEF Within, StretchSet
    <3>. DEFINE sp == span[1]
    <3>5. /\ sp.lo = IF s.src <= last THEN s.src ELSE last
          /\ sp.hi = (IF s.src >= last THEN s.src ELSE last) + 1
          /\ last \in Nat
      <4>. HIDE DEF s
      <4>1. /\ Extent(s).lo = IF s.src <= last THEN s.src ELSE last
            /\ Extent(s).hi = (IF s.src >= last THEN s.src ELSE last) + 1
            /\ last \in Nat
        BY <3>1, ExtentFacts
      <4>. QED
        BY <3>2, <4>1
    <3>. DEFINE a == s.src
                m == n - 1
                g == m * d
    <3>6. m \in Nat /\ a \in Nat /\ d \in Int /\ last = a + g
      BY <3>4
    <3>. HIDE DEF s, d, n, sp, m, a, last
    <3>7. g \in Int /\ m * (IF d < 0 THEN -d ELSE d) = (IF g < 0 THEN -g ELSE g)
      <4>1. CASE d < 0
        <5>1. m * (-d) = -(m * d) /\ m * (-d) \in Nat
          BY <3>6, <4>1
        <5>. QED
          BY <3>6, <4>1, <5>1
      <4>2. CASE ~(d < 0)
        <5>1. m * d \in Nat
          BY <3>6, <4>2
        <5>. QED
          BY <3>6, <4>2, <5>1
      <4>. QED
        BY <4>1, <4>2
    <3>8. sp.hi - sp.lo = m * (IF d < 0 THEN -d ELSE d) + 1
      <4>. HIDE DEF g
      <4>. QED
        BY <3>5, <3>6, <3>7 DEF a
    <3>. QED
      BY <3>4, <3>8 DEF sp, m
  <2>. QED
    BY <2>2, <2>3
<1>. QED
  BY <1>1, Invariant, PTL

\* No read of a span goes past the array, for any selection and any range
\* (Gathered::new, for_each_stretch, copy_span).
THEOREM StaysInside == Spec => []ReadsInside
<1>1. IInv => ReadsInside
  <2>. SUFFICES ASSUME IInv, span # << >>
                PROVE  span[1].lo >= 0 /\ span[1].lo + (IF Direct THEN span[1].count ELSE span[1].hi - span[1].lo) <= Elements
    BY DEF ReadsInside
  <2>1. Spanned /\ Stretches(held)
    BY DEF IInv
  <2>. DEFINE T == [lo : Nat, hi : Nat, at : Nat, count : Nat]
              sp == span[1]
  <2>2. sp \in T /\ sp.hi <= Elements /\ layout # Bad
    <3>1. span \in Seq(T) /\ sp.hi <= Elements /\ layout # Bad
      BY <2>1 DEF Spanned
    <3>. HIDE DEF T
    <3>. QED
      BY <3>1
  <2>3. sp.lo \in Nat /\ sp.hi \in Nat /\ sp.count \in Nat
    BY <2>2
  <2>4. CASE ~Direct
    BY <2>2, <2>3, <2>4
  <2>5. CASE Direct
    <3>. DEFINE s == held[1]
    <3>1. Len(held) = 1 /\ s.step = 1
      BY <2>5 DEF Direct
    <3>2. s \in StretchSet /\ Within(s)
      <4>1. held \in Seq(StretchSet) /\ \A i \in 1 .. Len(held) : Within(held[i])
        BY <2>1 DEF Stretches, StretchSet
      <4>2. 1 \in 1 .. Len(held)
        BY <3>1
      <4>3. held[1] \in StretchSet
        BY <4>1, <4>2
      <4>. QED
        BY <4>1, <4>2, <4>3
    <3>3. sp.lo = Extent(s).lo /\ sp.count = s.count
      BY <2>1, <3>1 DEF Spanned
    <3>. HIDE DEF s, sp
    <3>4. s.src \in 0 .. Elements - 1 /\ s.count \in Nat \ {0} /\ s.src + (s.count - 1) * 1 \in 0 .. Elements - 1
      BY <3>1, <3>2 DEF Within
    <3>5. Elements \in Nat
      BY <2>2, Sizes
    <3>6. Extent(s).lo = IF s.src <= s.src + (s.count - 1) * s.step THEN s.src ELSE s.src + (s.count - 1) * s.step
      BY <2>2, <3>2, ExtentFacts
    <3>7. Extent(s).lo = s.src
      BY <3>1, <3>4, <3>5, <3>6
    <3>8. sp.lo + sp.count <= Elements
      BY <3>3, <3>4, <3>5, <3>7
    <3>. QED
      BY <2>3, <2>5, <3>8 DEF sp
  <2>. QED
    BY <2>4, <2>5
<1>. QED
  BY <1>1, Invariant, PTL

\* The walk over a range ends: every step takes in elements that are left, or
\* gives up what was held back when none is, and a copy leaves both alone
\* (for_each_stretch).
THEOREM WalkEnds == Spec => WalkMovesOn
<1>. DEFINE Moves == pc = "walk" /\ pc' \in {"walk", "copy"} =>
                       \/ done' > done /\ done' <= count
                       \/ done' = done /\ done = count /\ Len(pending') < Len(pending)
<1>1. IInv /\ [Next]_vars => [Moves]_vars
  <2>. SUFFICES ASSUME IInv, Next, pc = "walk", pc' \in {"walk", "copy"}
                PROVE  \/ done' > done /\ done' <= count
                       \/ done' = done /\ done = count /\ Len(pending') < Len(pending)
    OBVIOUS
  <2>1. Step \/ Flush
    BY DEF Next, Prepare, ReadRun, ReadGathered, Copy, Finish, Fails, Return, Refuse
  <2>2. CASE Step
    <3>1. done < count /\ done' = done + Here.count
      BY <2>2 DEF Step
    <3>2. count \in Nat /\ done \in Nat
      BY WalkFacts
    <3>3. Here.count \in Nat \ {0} /\ done + Here.count <= count
      BY <3>1, HereFacts
    <3>. QED
      BY <3>1, <3>2, <3>3
  <2>3. CASE Flush
    <3>1. done = count /\ done' = done /\ pending # << >> /\ pending' = << >>
      BY <2>3 DEF Flush
    <3>2. Len(pending) = 1 /\ Len(<< >>) = 0
      BY <3>1, PendingFacts
    <3>. QED
      BY <3>1, <3>2
  <2>. QED
    BY <2>1, <2>2, <2>3
<1>. QED
  BY <1>1, Invariant, PTL DEF Spec, WalkMovesOn
=============================================================================
