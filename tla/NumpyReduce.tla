----------------------------- MODULE NumpyReduce -----------------------------
(***************************************************************************)
(* What a reduction means, as numpy defines it: the reference that Reduce  *)
(* is compared with.  Each cell of the result is defined on its own, by    *)
(* the coordinates of the elements that fall into it.                      *)
(***************************************************************************)
EXTENDS Elements

Integral(kind) == kind \in {"Bool", "Int", "Uint"}

\* Axes that lie inside the array, each at most once, and not a tuple of them for
\* the position of an extreme.
ProperAxes(ndim, axis, function) ==
  CASE axis.kind = "All" -> TRUE
    [] axis.kind = "One" -> axis.a \in -ndim .. ndim - 1
    [] axis.kind = "Many" ->
         /\ function \notin {"argmax", "argmin"}
         /\ \A i \in DOMAIN axis.list : axis.list[i] \in -ndim .. ndim - 1
         /\ \A i, j \in DOMAIN axis.list : i # j => axis.list[i] \notin {axis.list[j] - ndim, axis.list[j], axis.list[j] + ndim}

\* One axis, the first or the last, of an array that has none.
ScalarAxis(ndim, axis) == ndim = 0 /\ axis.kind = "One" /\ axis.a \in {0, -1}

\* Axes as numpy takes them.  The reduction of a ufunc lets ScalarAxis through,
\* and so does the search for an extreme; a mean or a variance counts the
\* elements along the axis, which has to be there, and nanmean is a mean where
\* no element can be a NaN.
NumpyTakes(ndim, axis, function, kind) ==
  \/ ProperAxes(ndim, axis, function)
  \/ /\ ScalarAxis(ndim, axis)
     /\ function \notin {"mean", "var", "std"}
     /\ function = "nanmean" => ~Integral(kind)

NumpyAxes(ndim, axis) ==
  CASE axis.kind = "All" -> 1 .. ndim
    [] axis.kind = "One" -> IF ndim = 0 THEN {} ELSE {(axis.a % ndim) + 1}
    [] axis.kind = "Many" -> {(axis.list[i] % ndim) + 1 : i \in DOMAIN axis.list}

Kept(shape, axes) == SelectSeq([a \in DOMAIN shape |-> a], LAMBDA a : a \notin axes)

NumpyResultShape(shape, axes, keepdims) ==
  FlattenSeq([a \in DOMAIN shape |->
    IF a \notin axes THEN <<shape[a]>> ELSE IF keepdims THEN <<1>> ELSE << >>])

\* The numbers of the elements of cell c, in order.
Members(shape, axes, c) ==
  LET kept == Kept(shape, axes)
      at == Coords(c, Map(kept, LAMBDA a : shape[a]))
      In(n) == \A k \in DOMAIN kept : Coords(n, shape)[kept[k]] = at[k]
  IN  SetToSortSeq({n \in 0 .. Product(shape) - 1 : In(n)}, <)

Total(xs) == FoldLeft(AddParts, Real(0), xs)
Clean(xs) == SelectSeq(xs, LAMBDA x : ~is_nan(x))
Divide(x, n) == <<Over(x[1], n), Over(x[2], n)>>

Deviations(xs, mean) ==
  FoldLeft(LAMBDA s, x : Plus(s, Plus(Times(Minus(x[1], mean[1]), Minus(x[1], mean[1])),
                                      Times(Minus(x[2], mean[2]), Minus(x[2], mean[2])))),
           Whole(0), xs)

\* The mean square of the distances from the mean, by its definition.
Variance(xs, ddof) ==
  IF xs = << >> THEN NaN
  ELSE Over(Deviations(xs, Divide(Total(xs), Len(xs))), Max({Len(xs) - ddof, 0}))

\* Where the first extreme is, or the first NaN.
FirstNaN(xs) == SelectInSeq(xs, is_nan)
FirstMax(xs) == Min({i \in DOMAIN xs : \A j \in DOMAIN xs : ge(xs[i], xs[j])})
FirstMin(xs) == Min({i \in DOMAIN xs : \A j \in DOMAIN xs : le(xs[i], xs[j])})
FirstBest(xs, max) ==
  IF FirstNaN(xs) # 0 THEN FirstNaN(xs) ELSE IF max THEN FirstMax(xs) ELSE FirstMin(xs)

\* A result that is not complex has no imaginary part to show.
Carried(kind, x) == IF kind = "Complex" THEN x ELSE <<x[1], Whole(0)>>

\* The value of one cell, from its elements xs and, for argmax, the positions
\* ps that numpy reports for them.
NumpyCell(function, kind, xs, ps, ddof) ==
  CASE function = "sum" -> IF Integral(kind) THEN Total(xs)[1][1] % Word ELSE Total(xs)
    [] function = "nansum" -> IF Integral(kind) THEN Total(xs)[1][1] % Word ELSE Total(Clean(xs))
    [] function = "prod" ->
         IF Integral(kind) THEN FoldLeft(LAMBDA n, x : n * x[1][1], 1, xs) % Word
         ELSE IF kind = "Complex" THEN FoldLeft(MulParts, Real(1), xs)
         ELSE <<FoldLeft(LAMBDA n, x : Times(n, x[1]), Whole(1), xs), Whole(0)>>
    [] function = "mean" -> Carried(kind, Divide(Total(xs), Len(xs)))
    [] function = "nanmean" -> Carried(kind, Divide(Total(Clean(xs)), Len(Clean(xs))))
    [] function = "var" -> <<Variance(xs, ddof), Whole(0)>>
    [] function = "std" -> <<Root(Variance(xs, ddof)), Whole(0)>>
    [] function \in {"max", "min"} -> xs[FirstBest(xs, function = "max")]
    [] function \in {"nanmax", "nanmin"} ->
         IF Clean(xs) = << >> THEN xs[1] ELSE Clean(xs)[FirstBest(Clean(xs), function = "nanmax")]
    [] function \in {"argmax", "argmin"} -> ps[FirstBest(xs, function = "argmax")]
    [] function = "all" -> \A i \in DOMAIN xs : truthy(xs[i])
    [] function = "any" -> \E i \in DOMAIN xs : truthy(xs[i])

\* numpy's type of the result, by kind and bytes of an element.
NumpyDType(function, dtype) ==
  CASE function \in {"sum", "prod", "nansum"} ->
         IF Integral(dtype.kind)
         THEN [kind |-> IF dtype.kind = "Uint" THEN "Uint" ELSE "Int", size |-> 8] ELSE dtype
    [] function \in {"mean", "nanmean"} ->
         IF Integral(dtype.kind) THEN [kind |-> "Float", size |-> 8] ELSE dtype
    [] function \in {"std", "var"} ->
         [kind |-> "Float", size |-> IF Integral(dtype.kind) THEN 8
                                     ELSE IF dtype.kind = "Complex" THEN dtype.size \div 2
                                     ELSE dtype.size]
    [] function \in {"max", "min", "nanmax", "nanmin"} -> dtype
    [] function \in {"all", "any"} -> [kind |-> "Bool", size |-> 1]
    [] function \in {"argmax", "argmin"} -> [kind |-> "Int", size |-> 8]
=============================================================================
