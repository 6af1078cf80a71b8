-------------------------------- MODULE Shapes --------------------------------
(***************************************************************************)
(* Arithmetic on the shape of an array (crates/aex-core/src/selection.rs). *)
(***************************************************************************)
EXTENDS Integers, SequencesExt

Product(dims) ==
  LET upTo[a \in 0 .. Len(dims)] == IF a = 0 THEN 1 ELSE upTo[a - 1] * dims[a]
  IN  upTo[Len(dims)]

\* The sum of a sequence of terms.
Added(terms) ==
  LET upTo[n \in 0 .. Len(terms)] == IF n = 0 THEN 0 ELSE upTo[n - 1] + terms[n]
  IN  upTo[Len(terms)]

\* The elements from one position of an axis to the next.
Stride(shape, axis) == Product(SubSeq(shape, axis + 1, Len(shape)))
=============================================================================
