--------------------------- MODULE MCDecodeCache ---------------------------
(* Instances of DecodeCache for TLC. *)
EXTENDS DecodeCache, TLC

CONSTANTS k1, k2, k3, k4, r1, r2

\* Two small chunks, one that fills the cache and one too large for it.
Sizes == k1 :> 1 @@ k2 :> 1 @@ k3 :> 2 @@ k4 :> 3

Symmetry == Permutations(Readers)
=============================================================================
