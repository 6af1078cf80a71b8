------------------------------ MODULE Selection ------------------------------
(***************************************************************************)
(* Selections and the layouts they resolve to                              *)
(* (crates/aex-core/src/selection.rs, the part that is pure).              *)
(*                                                                         *)
(* Axes and positions count from 1; indices, offsets and element numbers   *)
(* count from 0, as in the code.  An Option is a sequence of at most one   *)
(* element.  What is refused resolves to Bad, whatever the message.        *)
(***************************************************************************)
EXTENDS Shapes, Vecs

CONSTANT Word   \* 2^64, above every number of elements and bytes

ASSUME WordAssumption == Word \in Nat \ {0}

Bad == [kind |-> "Bad"]

Single(i) == [kind |-> "Single", i |-> i]
Slice(start, stop, step) == [kind |-> "Slice", start |-> start, stop |-> stop, step |-> step]
Fancy(list) == [kind |-> "Fancy", list |-> list]
Ellipsis == [kind |-> "Ellipsis"]
NewAxis == [kind |-> "NewAxis"]

\* Index.  The options of a slice are sequences.
Index ==
  [kind : {"Single"}, i : Int]
    \cup [kind : {"Slice"}, start : Seq(Int), stop : Seq(Int), step : Seq(Int)]
    \cup [kind : {"Fancy"}, list : Seq(Int)]
    \cup {Ellipsis, NewAxis}

\* The number in C order of the position `coords` in an array of `dims`.
Linear(coords, dims) ==
  LET upTo[a \in 0 .. Len(dims)] == IF a = 0 THEN 0 ELSE upTo[a - 1] * dims[a] + coords[a]
  IN  upTo[Len(dims)]

Map(s, Op(_)) == [i \in DOMAIN s |-> Op(s[i])]

---------------------------------------------------------------------------
(* One index against one axis.                                             *)

\* What an axis contributes (AxisSel).  Each names the first index it takes,
\* for as_run, and how many.
Point(index) == [kind |-> "Point", start |-> index, len |-> 1]
Strided(start, len, step) == [kind |-> "Range", start |-> start, len |-> len, step |-> step]
Listed(list) ==
  [kind |-> "Fancy", start |-> IF list = << >> THEN 0 ELSE list[1], len |-> Len(list), list |-> list]

\* A negative index counts from the end.  The sum cannot overflow, since one
\* term is negative and the other is not.
Folded(i, dim) == IF i < 0 THEN i + dim ELSE i

InBounds(i, dim) == Folded(i, dim) \in 0 .. dim - 1

Clamp(n, lower, upper) == Max({lower, Min({n, upper})})

\* Walking backwards may end at -1, so the directions clamp differently.
ResolveSlice(index, dim) ==
  LET step == IF index.step = << >> THEN 1 ELSE index.step[1]
      lower == IF step > 0 THEN 0 ELSE -1
      upper == IF step > 0 THEN dim ELSE dim - 1
      Bound(b, default) == IF b = << >> THEN default ELSE Clamp(Folded(b[1], dim), lower, upper)
      start == Bound(index.start, IF step > 0 THEN 0 ELSE dim - 1)
      stop == Bound(index.stop, IF step > 0 THEN dim ELSE -1)
      distance == IF step > 0 THEN stop - start ELSE start - stop
  IN  CASE step = 0 -> Bad
        [] step # 0 /\ distance <= 0 -> Strided(0, 0, step)
        [] OTHER -> Strided(start, 1 + (distance - 1) \div (IF step > 0 THEN step ELSE -step), step)

\* An axis with more elements than an i64 can count is refused.
ResolveAxis(index, dim) ==
  IF 2 * dim >= Word THEN Bad
  ELSE CASE index.kind = "Single" -> IF InBounds(index.i, dim) THEN Point(Folded(index.i, dim)) ELSE Bad
         [] index.kind = "Fancy" ->
              IF \A i \in DOMAIN index.list : InBounds(index.list[i], dim)
              THEN Listed(Map(index.list, LAMBDA i : Folded(i, dim)))
              ELSE Bad
         [] index.kind = "Slice" -> ResolveSlice(index, dim)

---------------------------------------------------------------------------
(* A selection against a shape.                                            *)

Consumes(index) == index.kind \notin {"Ellipsis", "NewAxis"}

Entry(sel, advanced) == [kind |-> "Axis", sel |-> sel, advanced |-> advanced]

\* An ellipsis stands for the axes that are not mentioned, and is understood at
\* the end.
Dots(indices) == {p \in DOMAIN indices : indices[p] = Ellipsis}
Dotted(indices) == IF Dots(indices) = {} THEN Append(indices, Ellipsis) ELSE indices

Consuming(indices) == {p \in DOMAIN indices : Consumes(indices[p])}
HasArray(indices) == \E p \in DOMAIN indices : indices[p].kind = "Fancy"

WholeAxes(shape, axis, n) == [k \in 1 .. n |-> Entry(Strided(0, shape[axis + k], 1), FALSE)]

\* The entries that an index adds after the first `axis` axes.  An array makes the
\* integers beside it part of its group.
EntriesFor(shape, index, axis, implied, hasArray) ==
  CASE index = NewAxis -> <<NewAxis>>
    [] index = Ellipsis -> WholeAxes(shape, axis, implied)
    [] OTHER -> <<Entry(ResolveAxis(index, shape[axis + 1]), hasArray /\ index.kind \in {"Single", "Fancy"})>>

Passed(index, implied) ==
  CASE index = NewAxis -> 0 [] index = Ellipsis -> implied [] OTHER -> 1

\* The entries of all indices, and the axes they take.
EntriesOf(shape, all, implied, hasArray) ==
  LET upTo[p \in 0 .. Len(all)] ==
        IF p = 0 THEN [list |-> << >>, axis |-> 0]
        ELSE LET was == upTo[p - 1]
             IN  [list |-> was.list \o EntriesFor(shape, all[p], was.axis, implied, hasArray),
                  axis |-> was.axis + Passed(all[p], implied)]
  IN  upTo[Len(all)]

\* One entry for each axis and each new axis, in the order of the selection.
Expand(shape, indices) ==
  LET implied == Len(shape) - Cardinality(Consuming(indices))
      written == EntriesOf(shape, Dotted(indices), implied, HasArray(indices)).list
  IN  IF implied < 0 \/ Cardinality(Dots(indices)) > 1 THEN Bad
      ELSE IF \E p \in DOMAIN written : written[p] # NewAxis /\ written[p].sel = Bad THEN Bad
      ELSE [kind |-> "Entries", list |-> written]

\* The common length of index arrays, where a length of 1 stretches.
CanBroadcast(lengths) == Cardinality(lengths \ {1}) <= 1
BroadcastLen(lengths) == IF lengths \subseteq {1} THEN 1 ELSE CHOOSE n \in lengths : n # 1

NeverApart(positions) == TRUE
Adjacent(positions) == Max(positions) - Min(positions) + 1 = Cardinality(positions)

\* The group of index arrays contributes one dimension, where its first member
\* was or, when something came between its members, at the front.
OutDims(entries, positions, len, p) ==
  CASE entries[p] = NewAxis -> <<1>>
    [] entries[p] # NewAxis /\ entries[p].advanced ->
         IF Adjacent(positions) /\ p = Min(positions) THEN <<len>> ELSE << >>
    [] OTHER -> IF entries[p].sel.kind = "Point" THEN << >> ELSE <<entries[p].sel.len>>

OutShape(entries, positions, len) ==
  (IF positions # {} /\ ~Adjacent(positions) THEN <<len>> ELSE << >>)
    \o FlattenSeq([p \in DOMAIN entries |-> OutDims(entries, positions, len, p)])

IsAxis(entry) == entry.kind = "Axis"
AxesOf(entries) == Retain(entries, {entries[p] : p \in {q \in DOMAIN entries : IsAxis(entries[q])}})

\* What the entries of a selection take, axis by axis, and the shape it has.
Combine(entries) ==
  LET positions == {p \in DOMAIN entries : IsAxis(entries[p]) /\ entries[p].advanced}
      axes == AxesOf(entries)
      group == {a \in DOMAIN axes : axes[a].advanced}
      lengths == {axes[a].sel.len : a \in {b \in group : axes[b].sel.kind = "Fancy"}}
      len == BroadcastLen(lengths)
  IN  IF ~CanBroadcast(lengths) THEN Bad
      ELSE [kind |-> "Resolved", axes |-> Map(axes, LAMBDA e : e.sel),
            outShape |-> OutShape(entries, positions, len),
            group |-> group, len |-> len,
            adjacent |-> positions = {} \/ Adjacent(positions)]

Resolve(shape, indices) ==
  LET expanded == Expand(shape, indices)
  IN  IF expanded = Bad THEN Bad ELSE Combine(expanded.list)

---------------------------------------------------------------------------
(* How the selected elements lie in the source.                            *)

\* Whether the indices of an axis are consecutive and ascending.
IsRun(sel) ==
  \/ sel.kind = "Point"
  \/ sel.kind = "Range" /\ (sel.len <= 1 \/ sel.step = 1)
  \/ sel.kind = "Fancy" /\ \A i \in DOMAIN sel.list : sel.list[i] = sel.start + i - 1

InAnyOrder(resolved) == resolved.adjacent

\* Axes of the group are walked in step; walking them one by one is the same
\* when at most one of them has more than one index.
WalksIndependently(resolved) ==
  /\ resolved.adjacent
  /\ Cardinality({a \in resolved.group : resolved.axes[a].len > 1}) <= 1

IsEmpty(axes) == \E a \in DOMAIN axes : axes[a].len = 0

RunOffset(shape, axes) ==
  IF IsEmpty(axes) THEN 0 ELSE Linear(Map(axes, LAMBDA s : s.start), shape)

\* Past the first axis with more than one index, every axis is taken whole.
IsOneRun(shape, axes) ==
  /\ \A a \in DOMAIN axes : IsRun(axes[a])
  /\ \/ IsEmpty(axes)
     \/ \A a, b \in DOMAIN axes : a < b /\ axes[a].len > 1 =>
          axes[b].start = 0 /\ axes[b].len = shape[b]
  /\ RunOffset(shape, axes) < Word

StrideDim(len, step) == [kind |-> "Stride", len |-> len, step |-> step]
ListDim(offsets) == [kind |-> "List", len |-> Len(offsets), offsets |-> offsets]

\* An axis of the group that takes another index at each position of the group.
Listing(resolved, a) == a \in resolved.group /\ resolved.axes[a].len # 1

\* The source element where each axis is at the first index it takes.
Base(shape, resolved) ==
  LET axes == resolved.axes
  IN  Added([a \in DOMAIN axes |-> IF Listing(resolved, a) THEN 0 ELSE axes[a].start * Stride(shape, a)])

\* What the axes of the group add at its position k.
Offset(shape, resolved, k) ==
  LET axes == resolved.axes
  IN  Added([a \in DOMAIN axes |-> IF Listing(resolved, a) THEN axes[a].list[k] * Stride(shape, a) ELSE 0])

AxisDims(shape, resolved, a) ==
  LET sel == resolved.axes[a]
  IN  IF a \notin resolved.group /\ sel.len > 1
      THEN <<StrideDim(sel.len, Stride(shape, a) * sel.step)>> ELSE << >>

\* The dimensions of the first n axes, without the group's.
DimsUpTo(shape, resolved, n) == FlattenSeq([a \in 1 .. n |-> AxisDims(shape, resolved, a)])

\* The dimensions longer than 1 in output order.  Everything else is in base.
Gathered(shape, resolved) ==
  LET dims == DimsUpTo(shape, resolved, Len(resolved.axes))
      groupAt == IF resolved.adjacent THEN Len(DimsUpTo(shape, resolved, Min(resolved.group) - 1)) + 1 ELSE 1
      offsets == [k \in 1 .. resolved.len |-> Offset(shape, resolved, k)]
      tooLarge == \/ \E a \in DOMAIN resolved.axes : Stride(shape, a) >= Word
                  \/ \E d \in DOMAIN dims : dims[d].step \notin -(Word \div 2) .. (Word \div 2) - 1
  IN  IF tooLarge THEN Bad
      ELSE [kind |-> "Gathered", base |-> Base(shape, resolved),
            dims |-> IF resolved.group # {} /\ resolved.len > 1
                     THEN InsertAt(dims, groupAt, ListDim(offsets)) ELSE dims]

\* Where a resolved selection lies in the source.
WalkOf(shape, resolved, wide) ==
  IF WalksIndependently(resolved) /\ IsOneRun(shape, resolved.axes)
  THEN [kind |-> "Contiguous", offset |-> RunOffset(shape, resolved.axes) * wide]
  ELSE Gathered(shape, resolved)

\* An element takes `wide` bytes in the array and `narrow` in the stream, which
\* is fewer when it is cast on the way.  The product of the output shape wraps.
LayoutOf(shape, resolved, wide, narrow) ==
  LET elements == Product(resolved.outShape) % Word
      walk == WalkOf(shape, resolved, wide)
  IN  IF resolved = Bad \/ elements * narrow >= Word \/ walk = Bad THEN Bad
      ELSE [kind |-> "Layout", outShape |-> resolved.outShape, total |-> elements * narrow,
            wide |-> wide, narrow |-> narrow, walk |-> walk]

Layout(shape, indices, wide, narrow) ==
  LayoutOf(shape, Resolve(shape, indices), wide, narrow)
=============================================================================
