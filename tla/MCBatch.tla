------------------------------ MODULE MCBatch ------------------------------
(* Instances of Batch for TLC. *)
EXTENDS Batch

CONSTANTS s1, t1
=============================================================================
