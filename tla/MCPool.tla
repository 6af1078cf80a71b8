------------------------------- MODULE MCPool -------------------------------
(* Instances of Pool for TLC. *)
EXTENDS Pool, TLC

CONSTANTS A, B, C

\* One call whose chunks outnumber the connections.
OneCall == A :> 3

\* Two calls that share the slots, beside one that has nothing to fetch.
ThreeCalls == A :> 2 @@ B :> 1 @@ C :> 0
=============================================================================
