------------------------------ MODULE MCServer ------------------------------
(* Instances of Server for TLC. *)
EXTENDS Server, TLC

CONSTANTS s1, s2, w1, w2, c1, c2

Symmetry == Permutations(Workers) \cup Permutations(Conns) \cup Permutations(SessionIds)
=============================================================================
