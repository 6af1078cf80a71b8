------------------------------ MODULE Delivery ------------------------------
(***************************************************************************)
(* What DataPool::fetch promises its caller (crates/aex-client/src/pool.rs *)
(* lines 315-393): each chunk of a call is delivered at most once, the     *)
(* call succeeds exactly when all of them were, and it returns.            *)
(***************************************************************************)
EXTENDS Naturals

CONSTANTS Transfers, NumChunks

VARIABLES result, delivered

vars == <<result, delivered>>

Chunks(t) == 1 .. NumChunks[t]

Init ==
  /\ result = [t \in Transfers |-> "uncalled"]
  /\ delivered = [t \in Transfers |-> {}]

Call(t) ==
  /\ result[t] = "uncalled"
  /\ result' = [result EXCEPT ![t] = IF Chunks(t) = {} THEN "ok" ELSE "running"]
  /\ UNCHANGED delivered

Deliver(t) ==
  /\ result[t] = "running"
  /\ \E c \in Chunks(t) \ delivered[t] :
       delivered' = [delivered EXCEPT ![t] = @ \cup {c}]
  /\ UNCHANGED result

Return(t) ==
  /\ result[t] = "running"
  /\ result' = [result EXCEPT ![t] = IF delivered[t] = Chunks(t) THEN "ok" ELSE "failed"]
  /\ UNCHANGED delivered

Next == \E t \in Transfers : Call(t) \/ Deliver(t) \/ Return(t)

\* The promise without the last part of it: nothing says that a call returns.
Safety == Init /\ [][Next]_vars

Spec ==
  /\ Safety
  /\ \A t \in Transfers : WF_vars(Return(t))
=============================================================================
