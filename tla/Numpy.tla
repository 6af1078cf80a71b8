-------------------------------- MODULE Numpy --------------------------------
(***************************************************************************)
(* What a selection means, as numpy defines it: the reference that the     *)
(* layouts of Selection are compared with.  It is stated by coordinates,   *)
(* one loop per output dimension, without strides, bases or runs.          *)
(***************************************************************************)
EXTENDS ChunkGrid

\* Python's slice: the indices on the axis that lie from the start on, before
\* the stop, a whole number of steps from the start, in the order of travel.
SliceIndices(index, dim) ==
  LET step == IF index.step = << >> THEN 1 ELSE index.step[1]
      size == IF step > 0 THEN step ELSE -step
      From(b) == IF b < 0 THEN b + dim ELSE b
      first == IF step > 0
               THEN IF index.start = << >> THEN 0 ELSE Max({0, From(index.start[1])})
               ELSE IF index.start = << >> THEN dim - 1 ELSE Min({dim - 1, From(index.start[1])})
      Taken(x) ==
        /\ (x - first) % size = 0
        /\ IF step > 0 THEN x >= first ELSE x <= first
        /\ \/ index.stop = << >>
           \/ IF step > 0 THEN x < From(index.stop[1]) ELSE x > From(index.stop[1])
  IN  SetToSortSeq({x \in 0 .. dim - 1 : Taken(x)}, LAMBDA x, y : (x < y) = (step > 0))

\* The selection with one index for each axis: an ellipsis, or its absence at
\* the end, stands for whole axes.  The ellipsis stays behind them: it has a
\* place of its own in the selection, also when it stands for no axis.
Written(shape, indices) ==
  LET missing == Len(shape) - Len(SelectSeq(indices, Consumes))
      whole == [k \in 1 .. missing |-> Slice(<< >>, << >>, << >>)]
      dots == SelectInSeq(indices, LAMBDA i : i = Ellipsis)
  IN  IF dots = 0 THEN indices \o whole
      ELSE SubSeq(indices, 1, dots - 1) \o whole \o SubSeq(indices, dots, Len(indices))

\* The axis that position p of a written selection is about.
AxisOf(written, p) == Len(SelectSeq(SubSeq(written, 1, p), Consumes))

IndexList(index, dim) ==
  CASE index.kind = "Single" -> <<(index.i + dim) % dim>>
    [] index.kind = "Fancy" -> [k \in DOMAIN index.list |-> (index.list[k] + dim) % dim]
    [] index.kind = "Slice" -> SliceIndices(index, dim)

Accepts(shape, indices) ==
  LET written == Written(shape, indices)
      Within(p, i) == -shape[AxisOf(written, p)] <= i /\ i < shape[AxisOf(written, p)]
      arrays == {p \in DOMAIN written : written[p].kind = "Fancy"}
  IN  /\ Len(SelectSeq(indices, Consumes)) <= Len(shape)
      /\ Len(SelectSeq(indices, LAMBDA i : i = Ellipsis)) <= 1
      /\ \A p \in DOMAIN written :
           /\ written[p].kind = "Single" => Within(p, written[p].i)
           /\ written[p].kind = "Slice" => written[p].step # <<0>>
           /\ p \in arrays => \A k \in DOMAIN written[p].list : Within(p, written[p].list[k])
      /\ \A p, q \in arrays : \/ Len(written[p].list) = Len(written[q].list)
                              \/ 1 \in {Len(written[p].list), Len(written[q].list)}

\* The index arrays and, beside one, the integers.
Group(written) ==
  IF \E p \in DOMAIN written : written[p].kind = "Fancy"
  THEN {p \in DOMAIN written : written[p].kind \in {"Fancy", "Single"}} ELSE {}

\* Anything between two of them, be it an ellipsis of no axes, sets them apart.
Apart(written) ==
  \E q, r \in Group(written) : \E p \in q .. r : p \notin Group(written)

\* The loops of the result, outermost first.  A loop is the set of positions it
\* moves along and its length: one for each slice and new axis, and one for the
\* whole group, where it stands or, when its members are apart, at the front.
Loops(shape, written) ==
  LET arrays == {p \in DOMAIN written : written[p].kind = "Fancy"}
      group == Group(written)
      lengths == {Len(written[p].list) : p \in arrays}
      together == [at |-> group, len |-> IF 0 \in lengths THEN 0 ELSE Max(lengths)]
      apart == Apart(written)
      Loop(p) ==
        CASE written[p] = NewAxis -> <<[at |-> {p}, len |-> 1]>>
          [] written[p].kind = "Slice" ->
               <<[at |-> {p}, len |-> Len(SliceIndices(written[p], shape[AxisOf(written, p)]))]>>
          [] OTHER -> IF p \in group /\ ~apart /\ p = Min(group) THEN <<together>> ELSE << >>
  IN  (IF apart THEN <<together>> ELSE << >>) \o FlattenSeq([p \in DOMAIN written |-> Loop(p)])

NumpyShape(shape, indices) == Map(Loops(shape, Written(shape, indices)), LAMBDA l : l.len)

\* The element of the array behind element n of the result of these loops.
NumpyElement(shape, written, loops, n) ==
  LET counter == Coords(n, Map(loops, LAMBDA l : l.len))
      Position(axis) == CHOOSE p \in DOMAIN written : Consumes(written[p]) /\ AxisOf(written, p) = axis
      Along(p) == {l \in DOMAIN loops : p \in loops[l].at}
      Pick(p, list) ==
        list[1 + (IF Len(list) = 1 \/ Along(p) = {} THEN 0 ELSE counter[Min(Along(p))])]
  IN  Linear([axis \in DOMAIN shape |->
                Pick(Position(axis), IndexList(written[Position(axis)], shape[axis]))], shape)

ElementBytes(shape, written, loops, narrow, offset, len) ==
  [i \in 1 .. len |-> NumpyElement(shape, written, loops, (offset + i - 1) \div narrow) * narrow
                      + ((offset + i - 1) % narrow)]

\* The bytes [offset, offset + len) of the result.  Byte b of element e, as it
\* travels, is named e * narrow + b.
NumpyBytes(shape, indices, narrow, offset, len) ==
  LET written == Written(shape, indices)
  IN  ElementBytes(shape, written, Loops(shape, written), narrow, offset, len)
=============================================================================
