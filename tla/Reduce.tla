------------------------------- MODULE Reduce --------------------------------
(***************************************************************************)
(* Reductions on the server (crates/aex-core/src/reduce.rs): sum, mean,    *)
(* max, argmax and the others over axes of a selection.                    *)
(*                                                                         *)
(* The elements of the selection arrive block by block in C order; an      *)
(* odometer over the selection keeps the cell of the result that the next  *)
(* element belongs to, and an accumulator per cell takes it in.            *)
(***************************************************************************)
EXTENDS NumpyReduce

CONSTANTS
  Inputs,      \* selections, [shape : , dtype : , data : ]
  Requests,    \* what is asked, [name : , axis : , keepdims : , ddof : ]
  BLOCK_BYTES, \* how much of the selection is read at once
  MaxBytes     \* max_bytes, the largest result

\* One axis, several, or all; a negative one counts from the end.
OverAxes(axis) ==
  \/ axis.kind = "All"
  \/ axis.kind = "One" /\ axis.a \in Int
  \/ axis.kind = "Many" /\ axis.list \in Seq(Int)

\* Products of lengths do not wrap, those of an empty selection included: the code
\* leaves that to the selection.
ASSUME ReduceAssumption ==
  /\ BLOCK_BYTES \in Nat
  /\ MaxBytes \in Nat
  /\ \A input \in Inputs :
       /\ input.dtype \in [kind : {"Bool", "Int", "Uint", "Float", "Complex"}, size : 1 .. BLOCK_BYTES]
       /\ input.dtype.kind = "Complex" => input.dtype.size \in {8, 16}
       /\ input.shape \in Seq(Nat)
       /\ Product([d \in DOMAIN input.shape |-> Max({input.shape[d], 1})]) < Word
       /\ input.data \in [1 .. Product(input.shape) -> Range(input.data)]
  /\ \A r \in Requests :
       OverAxes(r.axis) /\ r \in [name : STRING, axis : {r.axis}, keepdims : BOOLEAN, ddof : Int]

VARIABLES
  stage,   \* "idle", "read", "fold" or "done"
  input,   \* the selection, as it is read
  request, \* the request
  walk,    \* how its elements map to cells
  offset,  \* bytes of the stream read so far
  buf,     \* elements of the block not folded yet
  idx,     \* where the next element is,
  cell,    \*   the cell it belongs to,
  flat,    \*   and its number
  acc,     \* one accumulator per cell
  result   \* what is answered

reduceVars == <<stage, input, request, walk, offset, buf, idx, cell, flat, acc, result>>

None == [kind |-> "None"]
Panic == [kind |-> "Panic"]

Functions == {"sum", "prod", "mean", "max", "min", "std", "var", "all", "any", "argmax",
              "argmin", "nansum", "nanmean", "nanmax", "nanmin"}

from_name(name) ==
  CASE name = "amax" -> "max"
    [] name = "amin" -> "min"
    [] OTHER -> name

result_dtype(function, dtype) ==
  CASE function \in {"sum", "prod", "nansum"} ->
         CASE dtype.kind \in {"Bool", "Int"} -> [kind |-> "Int", size |-> 8]
           [] dtype.kind = "Uint" -> [kind |-> "Uint", size |-> 8]
           [] OTHER -> dtype
    [] function \in {"mean", "nanmean"} ->
         IF Integral(dtype.kind) THEN [kind |-> "Float", size |-> 8] ELSE dtype
    [] function \in {"std", "var"} ->
         CASE dtype.kind = "Float" -> dtype
           [] dtype = [kind |-> "Complex", size |-> 8] -> [kind |-> "Float", size |-> 4]
           [] OTHER -> [kind |-> "Float", size |-> 8]
    [] function \in {"max", "min", "nanmax", "nanmin"} -> dtype
    [] function \in {"all", "any"} -> [kind |-> "Bool", size |-> 1]
    [] function \in {"argmax", "argmin"} -> [kind |-> "Int", size |-> 8]

needs_an_element(function) ==
  function \in {"max", "min", "nanmax", "nanmin", "argmax", "argmin"}

---------------------------------------------------------------------------
(* The walk.                                                               *)

\* For each axis whether it is reduced; an Option, none when it is refused.
reduced_axes(ndim, axis, function) ==
  LET axes == IF axis.kind = "One" THEN <<axis.a>> ELSE axis.list
      At(i) == Folded(axes[i], ndim)
  IN  CASE axis.kind = "All" -> <<[d \in 1 .. ndim |-> TRUE]>>
        [] axis.kind = "Many" /\ function \in {"argmax", "argmin"} -> << >>
        [] OTHER ->
             IF \/ \E i \in DOMAIN axes : At(i) \notin 0 .. ndim - 1
                \/ \E i, j \in DOMAIN axes : i # j /\ At(i) = At(j)
             THEN << >>
             ELSE <<[d \in 1 .. ndim |-> \E i \in DOMAIN axes : At(i) = d - 1]>>

\* The shape of the result where the axes reduced stay, and of what is in a cell.
KeptShape(shape, reduced) == [d \in DOMAIN shape |-> IF reduced[d] THEN 1 ELSE shape[d]]
CellShape(shape, reduced) == [d \in DOMAIN shape |-> IF reduced[d] THEN shape[d] ELSE 1]

\* Per axis, how far a step moves the cell; 0 on a reduced axis.
StrideOf(shape, reduced) ==
  [d \in DOMAIN shape |-> IF reduced[d] THEN 0 ELSE Stride(KeptShape(shape, reduced), d)]

\* The position along the one axis reduced, or 0 where it is that in the whole.
PosAxis(axis, reduced) ==
  IF axis.kind = "One" THEN CHOOSE d \in DOMAIN reduced : reduced[d] ELSE 0

WalkOver(shape, reduced, axis, out) ==
  [shape |-> shape, stride |-> StrideOf(shape, reduced), pos_axis |-> PosAxis(axis, reduced),
   cells |-> Product(KeptShape(shape, reduced)), out |-> out]

OutShapeOf(shape, reduced, keepdims) ==
  FlattenSeq([d \in DOMAIN shape |->
    IF ~reduced[d] THEN <<shape[d]>> ELSE IF keepdims THEN <<1>> ELSE << >>])

PerCell(shape, reduced) == Product(CellShape(shape, reduced))

\* Where the odometer stops carrying: the last axis with a step left.  When no
\* axis has one it runs through all of them.
Carries(ix, shape) == Max({0} \cup {d \in DOMAIN ix : ix[d] + 1 < shape[d]})

\* Every axis that moves adds its stride, and one that begins again takes all of
\* its steps back.
Ahead(w, stop) == Added([d \in DOMAIN w.shape |-> IF d >= stop THEN w.stride[d] ELSE 0])
Back(w, stop) == Added([d \in DOMAIN w.shape |-> IF d > stop THEN w.stride[d] * w.shape[d] ELSE 0])

\* Mutant: the cell is not taken back when an axis begins again.
NeverBack(w, ix, c) == c + Ahead(w, Carries(ix, w.shape))

\* The cell after one step.
NextCell(w, ix, c) == c + Ahead(w, Carries(ix, w.shape)) - Back(w, Carries(ix, w.shape))

NextIndex(ix, shape) ==
  LET stop == Carries(ix, shape)
  IN  [d \in DOMAIN ix |-> IF d < stop THEN ix[d] ELSE IF d = stop THEN ix[d] + 1 ELSE 0]

---------------------------------------------------------------------------
(* The accumulators.                                                       *)

\* Integer sums wrap; means add floats, so that they cannot.
SumsFloats(function, kind) == ~Integral(kind) \/ function \in {"mean", "nanmean"}

Welford(n, mean, m2) == [n |-> n, mean |-> mean, m2 |-> m2]

New(function, kind) ==
  CASE function \in {"sum", "nansum", "mean", "nanmean"} ->
         [sum |-> IF SumsFloats(function, kind) THEN Real(0) ELSE 0, count |-> 0]
    [] function = "prod" -> [sum |-> IF SumsFloats(function, kind) THEN Real(1) ELSE 1, count |-> 0]
    [] function \in {"var", "std"} -> Welford(0, Real(0), Whole(0))
    [] function \in {"max", "min", "nanmax", "nanmin", "argmax", "argmin"} -> None
    [] function = "all" -> TRUE
    [] function = "any" -> FALSE

PushSum(function, kind, a, x) ==
  CASE SumsFloats(function, kind) /\ function \in {"nansum", "nanmean"} /\ is_nan(x) -> a
    [] SumsFloats(function, kind) /\ ~(function \in {"nansum", "nanmean"} /\ is_nan(x)) ->
         [sum |-> IF function = "prod" THEN MulParts(a.sum, x) ELSE AddParts(a.sum, x),
          count |-> a.count + 1]
    [] OTHER ->
         [sum |-> (IF function = "prod" THEN a.sum * int_bits(x) ELSE a.sum + int_bits(x)) % Word,
          count |-> a.count + 1]

\* Welford's update: the mean moves by a part of the distance d of the element
\* from it, and the squares grow by d times the distance that is left.
Grown(m2, d, left) == Plus(m2, Plus(Times(d[1], left[1]), Times(d[2], left[2])))
Moved(n, mean, m2, x, d, left) == Welford(n, mean, Grown(m2, d, left))
PushVarAt(n, m2, x, d, mean) ==
  Moved(n, mean, m2, x, d, <<Minus(x[1], mean[1]), Minus(x[2], mean[2])>>)
PushVarBy(n, a, x, d) == PushVarAt(n, a.m2, x, d, AddParts(a.mean, Divide(d, n)))
PushVar(a, x) == PushVarBy(a.n + 1, a, x, <<Minus(x[1], a.mean[1]), Minus(x[2], a.mean[2])>>)

\* Mutant: max and min keep what they have when NaN comes.
KeepsIgnoring(function, best, x) ==
  is_nan(x) \/ (IF function \in {"max", "nanmax"} THEN ge(best, x) ELSE le(best, x))

\* numpy's maximum and fmax.
Keeps(function, best, x) ==
  \/ IF function \in {"max", "nanmax"} THEN ge(best, x) ELSE le(best, x)
  \/ IF function \in {"nanmax", "nanmin"} THEN is_nan(x) ELSE is_nan(best)

Best(x, pos) == [kind |-> "Some", x |-> x, pos |-> pos]

PushExtreme(function, a, x) ==
  IF a # None /\ Keeps(function, a.x, x) THEN a ELSE Best(x, 0)

Better(function, kind, x, best) ==
  IF function = "argmax" THEN arg_gt(kind, x, best) ELSE arg_lt(kind, x, best)

\* The first extreme, or the first NaN, after which nothing is better.
PushArg(function, kind, a, pos, x) ==
  IF a # None /\ (is_nan(a.x) \/ ~Better(function, kind, x, a.x)) THEN a ELSE Best(x, pos)

push(function, kind, a, pos, x) ==
  CASE function \in {"sum", "nansum", "mean", "nanmean", "prod"} -> PushSum(function, kind, a, x)
    [] function \in {"var", "std"} -> PushVar(a, x)
    [] function \in {"max", "min", "nanmax", "nanmin"} -> PushExtreme(function, a, x)
    [] function \in {"argmax", "argmin"} -> PushArg(function, kind, a, pos, x)
    [] function = "all" -> a /\ truthy(x)
    [] function = "any" -> a \/ truthy(x)

\* A float goes out as its real part, unless the result is complex.
write_float(out, x) ==
  CASE out.kind = "Float" -> <<x[1], Whole(0)>>
    [] out.kind = "Complex" -> x
    [] OTHER -> Panic

Spread(a, ddof, sqrt) ==
  LET v == Over(a.m2, Max({a.n - ddof, 0})) IN <<IF sqrt THEN Root(v) ELSE v, Whole(0)>>

\* A cell without an element has no extreme to write.
finish(function, kind, out, ddof, a) ==
  CASE function \in {"sum", "nansum", "prod"} ->
         IF SumsFloats(function, kind) THEN write_float(out, a.sum) ELSE a.sum
    [] function \in {"mean", "nanmean"} -> write_float(out, Divide(a.sum, a.count))
    [] function \in {"var", "std"} -> write_float(out, Spread(a, ddof, function = "std"))
    [] function \in {"max", "min", "nanmax", "nanmin"} -> IF a = None THEN Panic ELSE a.x
    [] function \in {"argmax", "argmin"} -> IF a = None THEN Panic ELSE a.pos
    [] function \in {"all", "any"} -> a

---------------------------------------------------------------------------
(* Actions.                                                                *)

ReduceInit ==
  /\ stage = "idle"
  /\ input \in Inputs
  /\ request = None
  /\ walk = None
  /\ offset = 0 /\ buf = << >> /\ idx = << >> /\ cell = 0 /\ flat = 0 /\ acc = << >>
  /\ result = None

Refuse(r) ==
  /\ stage' = "done"
  /\ request' = r
  /\ result' = Bad
  /\ UNCHANGED <<input, walk, offset, buf, idx, cell, flat, acc>>

Begin(r, function, w) ==
  /\ stage' = "read"
  /\ request' = [r EXCEPT !.name = function]
  /\ walk' = w
  /\ offset' = 0 /\ buf' = << >>
  /\ idx' = [d \in DOMAIN input.shape |-> 0] /\ cell' = 0 /\ flat' = 0
  /\ acc' = [c \in 1 .. w.cells |-> New(function, input.dtype.kind)]
  /\ UNCHANGED <<input, result>>

\* The result is larger than max_bytes, or a cell that needs an element has none.
Denied(w, reduced, function) ==
  \/ w.cells * w.out.size > MaxBytes
  \/ PerCell(w.shape, reduced) = 0 /\ w.cells > 0 /\ needs_an_element(function)

\* The checks of reduce, in their order.
Checked(r, function, reduced) ==
  IF reduced = << >> THEN Refuse(r)
  ELSE LET w == WalkOver(input.shape, reduced[1], r.axis, result_dtype(function, input.dtype))
       IN  IF Denied(w, reduced[1], function) THEN Refuse(r) ELSE Begin(r, function, w)

\* apply_function: the name is looked up and reduce called.
Apply(r) ==
  /\ stage = "idle"
  /\ IF from_name(r.name) \notin Functions THEN Refuse(r)
     ELSE Checked(r, from_name(r.name), reduced_axes(Len(input.shape), r.axis, from_name(r.name)))

total == Len(input.data) * input.dtype.size

\* A whole number of elements.
block == (BLOCK_BYTES \div input.dtype.size) * input.dtype.size

ReadBlock ==
  /\ stage = "read" /\ offset < total
  /\ LET len == Min({total - offset, block})
     IN  /\ buf' = SubSeq(input.data, offset \div input.dtype.size + 1, (offset + len) \div input.dtype.size)
         /\ offset' = offset + len
  /\ stage' = "fold"
  /\ UNCHANGED <<input, request, walk, idx, cell, flat, acc, result>>

\* The dataset cannot be read.
ReadFails ==
  /\ stage = "read" /\ offset < total
  /\ stage' = "idle"
  /\ request' = None /\ walk' = None
  /\ offset' = 0 /\ buf' = << >> /\ idx' = << >> /\ cell' = 0 /\ flat' = 0 /\ acc' = << >>
  /\ UNCHANGED <<input, result>>

\* One element of the block.
Fold ==
  /\ stage = "fold" /\ buf # << >>
  /\ LET pos == IF walk.pos_axis = 0 THEN flat ELSE idx[walk.pos_axis]
     IN  acc' = [acc EXCEPT ![cell + 1] =
                   push(request.name, input.dtype.kind, @, pos, Head(buf))]
  /\ flat' = flat + 1
  /\ cell' = NextCell(walk, idx, cell)
  /\ idx' = NextIndex(idx, walk.shape)
  /\ buf' = Tail(buf)
  /\ stage' = IF Len(buf) = 1 THEN "read" ELSE "fold"
  /\ UNCHANGED <<input, request, walk, offset, result>>

Finish ==
  /\ stage = "read" /\ offset = total
  /\ result' = [kind |-> "Reduced", dtype |-> walk.out,
                shape |-> OutShapeOf(input.shape,
                                     reduced_axes(Len(input.shape), request.axis, request.name)[1],
                                     request.keepdims),
                data |-> Map(acc, LAMBDA a :
                           finish(request.name, input.dtype.kind, walk.out, request.ddof, a))]
  /\ stage' = "done"
  /\ UNCHANGED <<input, request, walk, offset, buf, idx, cell, flat, acc>>

\* The answer is sent.
Answer ==
  /\ stage = "done"
  /\ stage' = "idle"
  /\ request' = None /\ walk' = None /\ result' = None
  /\ offset' = 0 /\ buf' = << >> /\ idx' = << >> /\ cell' = 0 /\ flat' = 0 /\ acc' = << >>
  /\ UNCHANGED input

ReduceNext ==
  \/ \E r \in Requests : Apply(r)
  \/ ReadBlock \/ ReadFails \/ Fold
  \/ Finish
  \/ Answer

ReduceSpec == ReduceInit /\ [][ReduceNext]_reduceVars

---------------------------------------------------------------------------
(* Properties.                                                             *)

\* While elements are folded the odometer says where the next element is, and the
\* cell is the one of the result that numpy has it in: at the element's own
\* coordinates on the axes that are kept (fold, Walk).
OdometerInStep ==
  stage = "fold" =>
    /\ flat < Len(input.data) /\ Head(buf) = input.data[flat + 1]
    /\ idx = Coords(flat, input.shape)
    /\ cell \in 0 .. walk.cells - 1
    /\ LET axes == NumpyAxes(Len(input.shape), request.axis)
       IN  Coords(cell, NumpyResultShape(input.shape, axes, TRUE)) =
             [d \in DOMAIN input.shape |-> IF d \in axes THEN 0 ELSE idx[d]]

\* What numpy answers to the request, or Bad.
Reference(function, axes, elements) ==
  LET cells == Product(Map(Kept(input.shape, axes), LAMBDA a : input.shape[a]))
      Positions(list) ==
        Map(list, LAMBDA n :
          IF request.axis.kind = "One" THEN Coords(n, input.shape)[CHOOSE a \in axes : TRUE] ELSE n)
      Cell(list) == NumpyCell(function, input.dtype.kind,
                              Map(list, LAMBDA n : elements[n + 1]), Positions(list), request.ddof)
  IN  [kind |-> "Reduced", dtype |-> NumpyDType(function, input.dtype),
       shape |-> NumpyResultShape(input.shape, axes, request.keepdims),
       data |-> [c \in 1 .. cells |-> Cell(Members(input.shape, axes, c - 1))]]

\* Reductions numpy has no answer to, and results over the limit.
Unanswered(function, axes) ==
  LET cells == Product(Map(Kept(input.shape, axes), LAMBDA a : input.shape[a]))
  IN  \/ cells * NumpyDType(function, input.dtype).size > MaxBytes
      \/ cells > 0 /\ needs_an_element(function) /\ \E a \in axes : input.shape[a] = 0

Answered(function, axes) ==
  IF Unanswered(function, axes) THEN result = Bad
  ELSE result = Reference(function, axes, input.data)

Infinite(x) == x[1] # NaN /\ x[1][2] = 0

\* The axes and the function of the request, as numpy takes or refuses them.
Takes(r) ==
  /\ from_name(r.name) \in Functions
  /\ NumpyTakes(Len(input.shape), r.axis, from_name(r.name), input.dtype.kind)

\* Where the code refuses what numpy may take: ScalarAxesTaken.
OfNoAxis(r) == ScalarAxis(Len(input.shape), r.axis)

\* A reduction over any axes answers as numpy does, whatever blocks the
\* elements came in, and is refused when numpy refuses it; NaN, wrapping sums,
\* ties and empty selections included.  The code departs from numpy in two
\* places and in no other: it always refuses an axis of a scalar, and what it
\* makes of the product of real elements of which one is infinite is left to
\* ProductOfReals.
ReducesLikeNumpy ==
  stage = "done" =>
    IF ~Takes(request) \/ OfNoAxis(request) THEN result = Bad
    ELSE \/ from_name(request.name) = "prod" /\ \E i \in DOMAIN input.data : Infinite(input.data[i])
         \/ Answered(from_name(request.name), NumpyAxes(Len(input.shape), request.axis))

\* An axis of 0 or -1 of a scalar is taken by the functions in which numpy takes
\* it, reduced_axes being "checked as numpy checks them" (reduce.rs).  The code
\* looks such an axis up like any other, and refuses it.
ScalarAxesTaken ==
  stage = "done" /\ OfNoAxis(request) => (result = Bad <=> ~Takes(request))

\* The product of real elements is numpy's, also when it is infinite.  The code
\* multiplies reals as complex numbers with an imaginary part of 0, and 0 times
\* an infinity is NaN, which the next element brings into the real part.
ProductOfReals ==
  stage = "done" /\ request.name = "prod" /\ result.kind = "Reduced" /\ input.dtype.kind = "Float" =>
    Answered("prod", NumpyAxes(Len(input.shape), request.axis))

---------------------------------------------------------------------------
(* The inductive invariant behind OdometerInStep, in parts.                *)

Reduced == reduced_axes(Len(input.shape), request.axis, request.name)

\* A reduction under way was accepted, and has an accumulator for each cell.
Planned ==
  /\ OverAxes(request.axis) /\ request.name \in Functions /\ Reduced # << >>
  /\ walk = WalkOver(input.shape, Reduced[1], request.axis, result_dtype(request.name, input.dtype))
  /\ ~Denied(walk, Reduced[1], request.name)
  /\ DOMAIN acc = 1 .. walk.cells

\* What is in the block is what follows the elements that were folded.
Buffered ==
  /\ flat \in Nat /\ buf \in Seq(Range(input.data))
  /\ flat + Len(buf) <= Len(input.data)
  /\ offset = (flat + Len(buf)) * input.dtype.size
  /\ \A i \in 1 .. Len(buf) : buf[i] = input.data[flat + i]

\* Until the elements are all folded, the cell is the sum of the steps that the
\* odometer has taken along each axis.
Turned ==
  flat < Len(input.data) =>
    /\ idx = Coords(flat, input.shape)
    /\ cell = Added([d \in DOMAIN input.shape |-> walk.stride[d] * idx[d]])

ReduceInv ==
  /\ stage \in {"idle", "read", "fold", "done"}
  /\ input \in Inputs
  /\ stage \in {"read", "fold"} => Planned /\ Buffered /\ Turned
  /\ stage = "read" => buf = << >>
  /\ stage = "fold" => buf # << >>

\* Every request is refused that numpy refuses, that names an axis of a scalar or
\* whose result is too large, and no other; and a result has numpy's type and
\* shape (reduced_axes, reduce).
ShapedLikeNumpy ==
  stage = "done" =>
    LET function == from_name(request.name)
        axes == NumpyAxes(Len(input.shape), request.axis)
        cells == Product(NumpyResultShape(input.shape, axes, TRUE))
    IN  /\ result = Bad <=>
             \/ ~Takes(request) \/ OfNoAxis(request)
             \/ cells * NumpyDType(function, input.dtype).size > MaxBytes
             \/ cells > 0 /\ needs_an_element(function) /\ \E a \in axes : input.shape[a] = 0
        /\ result # Bad =>
             /\ result.dtype = NumpyDType(function, input.dtype)
             /\ result.shape = NumpyResultShape(input.shape, axes, request.keepdims)
             /\ DOMAIN result.data = 1 .. cells
=============================================================================
