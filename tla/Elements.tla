------------------------------ MODULE Elements -------------------------------
(***************************************************************************)
(* Array elements as the reductions see them (the Elem trait and its       *)
(* implementations in crates/aex-core/src/reduce.rs).                      *)
(*                                                                         *)
(* A number is a fraction in lowest terms, infinite or NaN: floating-point *)
(* arithmetic without its rounding.  An element is its real and imaginary  *)
(* part; that of a type that is not complex has an imaginary part of 0.    *)
(***************************************************************************)
EXTENDS ChunkGrid

CONSTANT NaN

---------------------------------------------------------------------------
(* f64 without rounding.                                                   *)

Infinity == <<1, 0>>

Sign(n) == IF n < 0 THEN -1 ELSE IF n > 0 THEN 1 ELSE 0

\* n / d in lowest terms; 0 / 0 is NaN and anything else over 0 is infinite.
Fraction(n, d) ==
  CASE d = 0 -> IF n = 0 THEN NaN ELSE <<Sign(n), 0>>
    [] d > 0 -> LET g == Max({k \in 1 .. d : n % k = 0 /\ d % k = 0}) IN <<n \div g, d \div g>>

Whole(n) == <<n, 1>>

\* An infinity added to itself is itself, and to its opposite NaN.
Plus(x, y) ==
  CASE NaN \in {x, y} -> NaN
    [] x = y /\ x[2] = 0 -> x
    [] OTHER -> Fraction(x[1] * y[2] + y[1] * x[2], x[2] * y[2])
Minus(x, y) == Plus(x, IF y = NaN THEN NaN ELSE <<-y[1], y[2]>>)
Times(x, y) == IF NaN \in {x, y} THEN NaN ELSE Fraction(x[1] * y[1], x[2] * y[2])

\* x / n for a count n.
Over(x, n) == IF x = NaN THEN NaN ELSE Fraction(x[1], x[2] * n)

\* Comparisons with NaN are false.
Below(x, y) ==
  /\ NaN \notin {x, y}
  /\ IF x[2] = 0 /\ y[2] = 0 THEN x[1] < y[1] ELSE x[1] * y[2] < y[1] * x[2]
Equal(x, y) == x # NaN /\ x = y
AtMost(x, y) == Below(x, y) \/ Equal(x, y)

\* A square root, which is only ever compared with another.
Root(x) == IF x \in {NaN, Infinity} THEN x ELSE <<"sqrt", x>>

---------------------------------------------------------------------------
(* Elements.                                                               *)

Element(re, im) == <<re, im>>
Real(n) == <<Whole(n), Whole(0)>>

\* Complex addition and multiplication, part by part as the code writes them.
AddParts(x, y) == <<Plus(x[1], y[1]), Plus(x[2], y[2])>>
MulParts(x, y) ==
  <<Minus(Times(x[1], y[1]), Times(x[2], y[2])), Plus(Times(x[1], y[2]), Times(x[2], y[1]))>>

int_bits(x) == x[1][1] % Word

is_nan(x) == NaN \in {x[1], x[2]}

truthy(x) == x # Real(0)

\* Lexicographic.  For elements without an imaginary part this is >= and <=.
ge(x, o) ==
  \/ Below(o[1], x[1]) /\ NaN \notin {x[2], o[2]}
  \/ Equal(x[1], o[1]) /\ AtMost(o[2], x[2])
le(x, o) ==
  \/ Below(x[1], o[1]) /\ NaN \notin {x[2], o[2]}
  \/ Equal(x[1], o[1]) /\ AtMost(x[2], o[2])

\* Whether argmax or argmin should move to x from b.  NaN counts as an extreme.
arg_gt(kind, x, b) ==
  IF kind = "Complex"
  THEN Below(b[1], x[1]) \/ (Equal(x[1], b[1]) /\ Below(b[2], x[2])) \/ is_nan(x)
  ELSE ~AtMost(x[1], b[1])
arg_lt(kind, x, b) ==
  IF kind = "Complex"
  THEN Below(x[1], b[1]) \/ (Equal(x[1], b[1]) /\ Below(x[2], b[2])) \/ is_nan(x)
  ELSE ~AtMost(b[1], x[1])
=============================================================================
