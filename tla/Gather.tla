------------------------------- MODULE Gather --------------------------------
(***************************************************************************)
(* Reading a range of a selection (SelectionLayout::read_with and          *)
(* Gathered::read of crates/aex-core/src/selection.rs) from an array       *)
(* stored in chunks.                                                       *)
(*                                                                         *)
(* A server thread prepares selections and reads ranges of them.  A range  *)
(* of a gathered layout is walked stretch by stretch; stretches that lie   *)
(* close together are read as one span of the array and cut out of it.     *)
(* Any read of the array may fail, and ends the range where it is.         *)
(***************************************************************************)
EXTENDS Numpy

CONSTANTS
  Arrays,         \* shapes and chunk shapes, [shape : , chunk : ]
  Items,          \* element sizes in the array and in the stream, <<wide, narrow>>
  Selections,     \* the selections asked for, sequences of indices
  SPAN_GAP_BYTES, \* runs further apart are read on their own
  SPAN_MAX_BYTES  \* the largest span read into the scratch buffer

ASSUME GatherAssumption ==
  /\ SPAN_GAP_BYTES \in Nat
  /\ SPAN_MAX_BYTES \in Nat
  /\ SPAN_GAP_BYTES <= SPAN_MAX_BYTES
  /\ Items \subseteq Nat \X Nat
  /\ \A item \in Items : 0 < item[2] /\ item[2] <= item[1] /\ item[1] <= SPAN_MAX_BYTES
  /\ \A one \in Arrays : one.shape \in Seq(Nat) /\ \A item \in Items : Product(one.shape) * item[1] < Word
  /\ Selections \subseteq Seq(Index)

VARIABLES
  pc,       \* "idle", "ready", "walk", "copy" or "done"
  array,    \* the array that is open
  indices,  \* the selection asked for
  layout,   \* its layout, or Bad
  range,    \* the bytes of the stream asked for, <<offset, len>>
  index,    \* the walk: where each dimension is,
  prefix,   \*   the source element with the dimensions past each at 0,
  done,     \*   how many elements it has been over
  pending,  \*   and the stretch held back, if any
  held,     \* the stretches of the span; what a read leaves here, the next clears
  span,     \* the span that is being put together, if any
  next,     \* the stretch that begins the next span while this one is copied
  out,      \* the elements read so far
  dst       \* the bytes handed back

walkVars == <<index, prefix, done, pending>>
spanVars == <<held, span, next, out>>
vars == <<pc, array, indices, layout, range, walkVars, spanVars, dst>>

---------------------------------------------------------------------------
(* The range in elements of the array.                                     *)

wide == layout.wide
narrow == layout.narrow
first == range[1] \div narrow
count == CeilDiv(range[1] + range[2], narrow) - first

\* What is read is whole elements whenever the range is not, or is cast.
\* cast_into names the bytes of an element after it; an element that was not
\* read whole makes none.
Cast(bytes) ==
  [b \in 1 .. (Len(bytes) \div wide) * narrow |->
     LET at == ((b - 1) \div narrow) * wide
         e == bytes[at + 1] \div wide
     IN  IF \A k \in 1 .. wide : bytes[at + k] = e * wide + k - 1
         THEN e * narrow + ((b - 1) % narrow) ELSE Padding]

Cut(bytes) == SubSeq(bytes, range[1] - first * narrow + 1, range[1] - first * narrow + range[2])

Source(at, n) == ReadSource(array.shape, array.chunk, wide, at, n)

---------------------------------------------------------------------------
(* Stretches and spans.                                                    *)

Dims == layout.walk.dims
Inner == Last(Dims)

\* What dimension d adds at index k.  Wrapping: a negative step only lands on
\* an element once the other terms are added.
Term(d, k) == IF d.kind = "Stride" THEN (k * d.step) % Word ELSE d.offsets[k + 1]

\* The prefixes recomputed from dimension `from` on.
Refresh(old, ix, from) ==
  LET p[i \in 1 .. Len(Dims) + 1] ==
        IF i <= from THEN old[i] ELSE (p[i - 1] + Term(Dims[i - 1], ix[i - 1])) % Word
  IN  p

\* The dimension that moves on when a row ends; those after it begin again.
Moving(ix) ==
  Max({1} \cup {d \in 1 .. Len(Dims) - 1 : ix[d] + 1 < Dims[d].len})

Advance(ix) ==
  LET m == Moving(ix)
      over == m = Len(Dims) \/ ix[m] + 1 = Dims[m].len
  IN  [d \in DOMAIN ix |-> IF d < m THEN ix[d] ELSE IF d = m /\ ~over THEN ix[d] + 1 ELSE 0]

\* How many elements of the innermost dimension make one stretch.  Elements too
\* far apart for a span are stretches of their own.
PerStride(inner) ==
  LET stride == (IF inner.step > 0 THEN inner.step ELSE -inner.step) * wide
  IN  CASE inner.step = 1 -> inner.len
        [] inner.step # 1 /\ stride <= SPAN_GAP_BYTES -> Max({1, SPAN_MAX_BYTES \div stride})
        [] OTHER -> 1

NoneOfAList(inner) == IF inner.kind = "List" THEN SPAN_MAX_BYTES \div Word ELSE PerStride(inner)
Per(inner) == IF inner.kind = "List" THEN 1 ELSE PerStride(inner)

Stretch(src, step, n) == [src |-> src, step |-> IF n = 1 THEN 1 ELSE step, count |-> n]

\* The stretch the walk has come to.
Here ==
  IF Dims = << >> THEN Stretch(layout.walk.base, 1, 1)
  ELSE LET k == Last(index)
       IN  Stretch((prefix[Len(Dims)] + Term(Inner, k)) % Word,
                   IF Inner.kind = "Stride" THEN Inner.step ELSE 1,
                   Min({Per(Inner), Inner.len - k, count - done}))

Absorbs(p, s) == p.step = 1 /\ s.step = 1 /\ p.src + p.count = s.src

Extent(s) ==
  LET last == (s.src + (s.count - 1) * s.step) % Word
  IN  [lo |-> Min({s.src, last}), hi |-> Max({s.src, last}) + 1]

Widened(w, s) ==
  [w EXCEPT !.lo = Min({@, Extent(s).lo}), !.hi = Max({@, Extent(s).hi}), !.count = @ + s.count]

JoinsAnySize(w, s) ==
  /\ Extent(s).hi + SPAN_GAP_BYTES \div wide >= w.lo
  /\ Extent(s).lo <= w.hi + SPAN_GAP_BYTES \div wide

Joins(w, s) ==
  LET gap == SPAN_GAP_BYTES \div wide
  IN  /\ Extent(s).hi + gap >= w.lo
      /\ Extent(s).lo <= w.hi + gap
      /\ (Widened(w, s).hi - Widened(w, s).lo) * wide <= SPAN_MAX_BYTES

SpanOf(s, at) == [lo |-> Extent(s).lo, hi |-> Extent(s).hi, at |-> at, count |-> s.count]

\* One run of consecutive elements is read where it is going.
Direct == Len(held) = 1 /\ held[1].step = 1

SpanBytes ==
  Source(span[1].lo * wide, (IF Direct THEN span[1].count ELSE span[1].hi - span[1].lo) * wide)

\* The bytes of stretch s, cut out of the bytes of the span.
CutOut(scratch, s) ==
  [b \in 1 .. s.count * wide |->
     scratch[(s.src - span[1].lo + ((b - 1) \div wide) * s.step) * wide + ((b - 1) % wide) + 1]]

\* The output once the span, of which `bytes` were read, has been copied to it.
CopySpan(bytes) ==
  LET at == span[1].at * wide
      size == span[1].count * wide
  IN  SubSeq(out, 1, at)
        \o (IF Direct THEN bytes ELSE FlattenSeq(Map(held, LAMBDA s : CutOut(bytes, s))))
        \o SubSeq(out, at + size + 1, Len(out))

---------------------------------------------------------------------------
(* Actions.                                                                *)

Init ==
  /\ pc = "idle"
  /\ array \in Arrays
  /\ indices = << >>
  /\ layout = Bad
  /\ range = <<0, 0>>
  /\ index = << >> /\ prefix = << >> /\ done = 0 /\ pending = << >>
  /\ held = << >> /\ span = << >> /\ next = << >> /\ out = << >>
  /\ dst = << >>

\* SelectionLayout::resolve.
Prepare(ixs, item) ==
  /\ pc = "idle"
  /\ indices' = ixs
  /\ layout' = Layout(array.shape, ixs, item[1], item[2])
  /\ pc' = "ready"
  /\ UNCHANGED <<array, range, walkVars, spanVars, dst>>

\* check_range, and a contiguous read.
ReadRun(offset, len) ==
  /\ pc = "ready" /\ layout # Bad
  /\ offset + len <= layout.total
  /\ layout.walk.kind = "Contiguous"
  /\ range' = <<offset, len>>
  /\ LET from == (offset \div narrow) * wide
         n == CeilDiv(offset + len, narrow) * wide - from
         at == layout.walk.offset
     IN  dst' = IF wide = narrow THEN Source(at + offset, len)
                ELSE SubSeq(Cast(Source(at + from, n)), (offset % narrow) + 1, (offset % narrow) + len)
  /\ pc' = "done"
  /\ UNCHANGED <<array, indices, layout, walkVars, spanVars>>

\* The beginning of Gathered::read and of for_each_stretch.
ReadGathered(offset, len) ==
  /\ pc = "ready" /\ layout # Bad
  /\ offset + len <= layout.total
  /\ layout.walk.kind = "Gathered"
  /\ range' = <<offset, len>>
  /\ index' = Coords(offset \div narrow, Map(Dims, LAMBDA d : d.len))
  /\ prefix' = Refresh(<<layout.walk.base>>, index', 1)
  /\ done' = 0 /\ pending' = << >>
  /\ UNCHANGED <<held, span, next>>
  /\ out' = [b \in 1 .. (CeilDiv(offset + len, narrow) - offset \div narrow) * wide |-> Padding]
  /\ pc' = "walk"
  /\ UNCHANGED <<array, indices, layout, dst>>

\* The closure of Gathered::read: the stretch joins the span or begins one, for
\* which the span there is must be copied first.
OutAt == IF span = << >> THEN 0 ELSE span[1].at + span[1].count

Visit(s) ==
  IF span # << >> /\ Joins(span[1], s)
  THEN /\ span' = <<Widened(span[1], s)>>
       /\ held' = Append(held, s)
       /\ UNCHANGED <<pc, next, out>>
  ELSE IF span = << >>
  THEN /\ span' = <<SpanOf(s, 0)>>
       /\ held' = Append(held, s)
       /\ UNCHANGED <<pc, next, out>>
  ELSE /\ pc' = "copy"
       /\ next' = <<s>>
       /\ UNCHANGED <<span, held, out>>

\* One stretch of for_each_stretch, with `hold`; at the end of a row the
\* dimensions above move on like an odometer.
Step ==
  /\ pc = "walk" /\ done < count
  /\ LET s == Here
         rowEnds == Dims # << >> /\ (Last(index) + s.count = Inner.len \/ done + s.count = count)
     IN  /\ done' = done + s.count
         /\ IF Dims = << >> THEN UNCHANGED <<index, prefix>>
            ELSE IF rowEnds
            THEN /\ index' = Advance(index)
                 /\ prefix' = Refresh(prefix, index', Moving(index))
            ELSE /\ index' = [index EXCEPT ![Len(index)] = @ + s.count]
                 /\ UNCHANGED prefix
         /\ IF pending # << >> /\ Absorbs(pending[1], s)
            THEN /\ pending' = <<[pending[1] EXCEPT !.count = @ + s.count]>>
                 /\ UNCHANGED <<pc, spanVars>>
            ELSE /\ pending' = <<s>>
                 /\ IF pending = << >> THEN UNCHANGED <<pc, spanVars>> ELSE Visit(pending[1])
  /\ UNCHANGED <<array, indices, layout, range, dst>>

\* The walk is over; what was held back goes last.
Flush ==
  /\ pc = "walk" /\ done = count /\ pending # << >>
  /\ pending' = << >>
  /\ Visit(pending[1])
  /\ UNCHANGED <<array, indices, layout, range, index, prefix, done, dst>>

\* copy_span for a span that the next stretch does not join.
Copy ==
  /\ pc = "copy"
  /\ \E bytes \in {SpanBytes} : out' = CopySpan(bytes)
  /\ span' = <<SpanOf(next[1], OutAt)>>
  /\ held' = next
  /\ next' = << >>
  /\ pc' = "walk"
  /\ UNCHANGED <<array, indices, layout, range, walkVars, dst>>

\* copy_span for the last one, and the cast and the cut of what was read.
Finish ==
  /\ pc = "walk" /\ done = count /\ pending = << >>
  /\ IF span = << >> THEN out' = out ELSE \E bytes \in {SpanBytes} : out' = CopySpan(bytes)
  /\ dst' = Cut(IF wide = narrow THEN out' ELSE Cast(out'))
  /\ pc' = "done"
  /\ UNCHANGED <<array, indices, layout, range, walkVars, held, span, next>>

\* What a read kept is dropped, or is cleared before it is used again.
Reset ==
  /\ range' = <<0, 0>>
  /\ index' = << >> /\ prefix' = << >> /\ done' = 0 /\ pending' = << >>
  /\ held' = << >> /\ span' = << >> /\ next' = << >> /\ out' = << >>
  /\ dst' = << >>

\* The array cannot be read; the error goes up through the walk.
Fails ==
  /\ \/ pc = "copy"
     \/ pc = "walk" /\ done = count /\ pending = << >> /\ span # << >>
  /\ pc' = "ready"
  /\ Reset
  /\ UNCHANGED <<array, indices, layout>>

\* The caller has its bytes and may ask for another range.
Return ==
  /\ pc = "done"
  /\ pc' = "ready"
  /\ Reset
  /\ UNCHANGED <<array, indices, layout>>

\* The caller has its error.
Refuse ==
  /\ pc = "ready" /\ layout = Bad
  /\ pc' = "idle"
  /\ indices' = << >>
  /\ UNCHANGED <<array, layout, range, walkVars, spanVars, dst>>

Next ==
  \/ \E ixs \in Selections, item \in Items : Prepare(ixs, item)
  \/ \E offset, len \in 0 .. IF layout = Bad THEN 0 ELSE layout.total :
       ReadRun(offset, len) \/ ReadGathered(offset, len)
  \/ Step \/ Flush \/ Copy \/ Finish
  \/ Fails
  \/ Return
  \/ Refuse

Spec == Init /\ [][Next]_vars

---------------------------------------------------------------------------
(* Properties.                                                             *)

\* The selection the code understands.  expand puts nothing in the place of an
\* ellipsis that stands for no axis, so where that is all there is between two
\* index arrays they are one group where they stand, and numpy sets them apart.
Undotted == SelectSeq(indices, LAMBDA i : i # Ellipsis)

Understood ==
  IF /\ Len(SelectSeq(indices, Consumes)) = Len(array.shape)
     /\ Apart(Written(array.shape, indices)) /\ ~Apart(Undotted)
  THEN Undotted ELSE indices

\* A selection is refused when numpy refuses it, and has numpy's shape
\* otherwise, whatever slices, new axes and index arrays it combines; one whose
\* index arrays are apart by an ellipsis of no axes has the shape numpy gives to
\* the selection without that ellipsis.
ResolvesLikeNumpy ==
  pc = "ready" =>
    /\ layout # Bad <=> Accepts(array.shape, indices)
    /\ layout # Bad =>
         /\ layout.outShape = NumpyShape(array.shape, Understood)
         /\ layout.total = Product(layout.outShape) * layout.narrow

\* Any range of the stream, wherever it begins and ends in an element or a row,
\* is the bytes numpy selects, however stretches were joined and chunks cut,
\* with the same reading of an ellipsis of no axes.
ReadsSelection ==
  pc = "done" => dst = NumpyBytes(array.shape, Understood, layout.narrow, range[1], range[2])

\* "unless a slice or a new axis came between its members, in which case numpy
\* puts it at the front instead" (selection.rs, out_shape): numpy does so for an
\* ellipsis of no axes too, and the code does not, so this does not hold.
DotsSetApart ==
  pc = "ready" /\ layout # Bad => layout.outShape = NumpyShape(array.shape, indices)

\* The scratch buffer a span is read into never exceeds its ceiling, whatever
\* the steps and gaps of the selection.
ScratchBounded ==
  span # << >> /\ ~Direct => (span[1].hi - span[1].lo) * wide <= SPAN_MAX_BYTES

\* The walk over a range ends: each step over the dimensions takes in elements
\* that are left, or gives up the stretch held back when none is, and a copy
\* leaves both alone.
WalkMovesOn ==
  [][pc = "walk" /\ pc' \in {"walk", "copy"} =>
       \/ done' > done /\ done' <= count
       \/ done' = done /\ done = count /\ Len(pending') < Len(pending)]_vars
---------------------------------------------------------------------------
(* The inductive invariant, in parts.                                      *)

Elements == Product(array.shape)

\* What a dimension adds is no less than Least and no more than Most.
Least(d) == IF d.kind = "Stride" /\ d.step < 0 THEN (d.len - 1) * d.step ELSE 0
Most(d) ==
  CASE d.kind = "List" -> Max(Range(d.offsets))
    [] d.kind = "Stride" -> IF d.step > 0 THEN (d.len - 1) * d.step ELSE 0

Lows(dims, n) == Added([d \in 1 .. n |-> Least(dims[d])])
Highs(dims, n) == Added([d \in 1 .. n |-> Most(dims[d])])

Dim == [kind : {"Stride"}, len : Nat, step : Int] \cup [kind : {"List"}, len : Nat, offsets : Seq(Nat)]

ProperDim(d) ==
  /\ d \in Dim /\ d.len >= 2
  /\ d.kind = "Stride" => d.step # 0
  /\ d.kind = "List" => Len(d.offsets) = d.len

\* Wherever the dimensions are, they add up to an element of an array of n.
Located(walk, n) ==
  /\ walk.base \in Nat
  /\ walk.dims \in Seq(Dim) /\ \A d \in DOMAIN walk.dims : ProperDim(walk.dims[d])
  /\ 0 <= walk.base + Lows(walk.dims, Len(walk.dims))
  /\ walk.base + Highs(walk.dims, Len(walk.dims)) < n

\* What resolve promises of a layout.
Sound(lay) ==
  /\ lay.total \in Nat
  /\ <<lay.wide, lay.narrow>> \in Items
  /\ lay.walk.kind \in {"Contiguous", "Gathered"}
  /\ lay.walk.kind = "Gathered" /\ lay.total > 0 => Located(lay.walk, Elements)

\* Where the walk is.  The prefixes wrap, and stand for what the dimensions
\* before them may add up to.
Prefixed ==
  /\ index \in [1 .. Len(Dims) -> Nat]
  /\ \A d \in 1 .. Len(Dims) : index[d] < Dims[d].len
  /\ prefix \in [1 .. Len(Dims) + 1 -> Int]
  /\ \A d \in 1 .. Len(Dims) :
       \E t \in layout.walk.base + Lows(Dims, d - 1) .. layout.walk.base + Highs(Dims, d - 1) :
         prefix[d] % Word = t % Word

Walking ==
  /\ layout # Bad /\ layout.walk.kind = "Gathered"
  /\ range \in Nat \X Nat /\ range[1] + range[2] <= layout.total
  /\ done \in 0 .. count
  /\ layout.total > 0 => Prefixed

\* A stretch is of elements of the array, and fits the scratch buffer unless it
\* is read where it is going.
Within(s) ==
  /\ s.count \in Nat \ {0} /\ s.step \in Int
  /\ s.src \in 0 .. Elements - 1
  /\ s.src + (s.count - 1) * s.step \in 0 .. Elements - 1
  /\ s.step # 1 => ((s.count - 1) * (IF s.step < 0 THEN -s.step ELSE s.step) + 1) * wide <= SPAN_MAX_BYTES

Stretches(seq) ==
  /\ seq \in Seq([src : Nat, step : Int, count : Nat])
  /\ \A i \in 1 .. Len(seq) : Within(seq[i])

\* A span of several stretches fits the scratch buffer.
Spanned ==
  /\ span \in Seq([lo : Nat, hi : Nat, at : Nat, count : Nat]) /\ Len(span) <= 1
  /\ span = << >> <=> held = << >>
  /\ span # << >> =>
       /\ layout # Bad /\ span[1].hi <= Elements
       /\ IF Len(held) = 1
          THEN /\ span[1].lo = Extent(held[1]).lo /\ span[1].hi = Extent(held[1]).hi
               /\ span[1].count = held[1].count
          ELSE (span[1].hi - span[1].lo) * wide <= SPAN_MAX_BYTES

IInv ==
  /\ pc \in {"idle", "ready", "walk", "copy", "done"}
  /\ array \in Arrays
  /\ layout # Bad => Sound(layout)
  /\ pc \in {"walk", "copy"} => Walking
  /\ pc \in {"idle", "ready"} => pending = << >> /\ held = << >> /\ span = << >> /\ next = << >>
  /\ Len(pending) <= 1 /\ Stretches(pending) /\ Stretches(held) /\ Stretches(next)
  /\ Len(next) = IF pc = "copy" THEN 1 ELSE 0
  /\ Spanned

\* No read goes past the array, whatever steps, orders and gaps the selection has
\* and wherever the range begins (Gathered::new, for_each_stretch, copy_span).
ReadsInside ==
  span # << >> => span[1].lo >= 0 /\ span[1].lo + (IF Direct THEN span[1].count ELSE span[1].hi - span[1].lo) <= Elements
=============================================================================
