-------------------------------- MODULE Vecs --------------------------------
(***************************************************************************)
(* Operations of the standard library's Vec that more than one component   *)
(* uses.                                                                   *)
(***************************************************************************)
EXTENDS Integers, SequencesExt

\* retain: the elements that are to be kept, in their order.
Retain(q, kept) ==
  LET upTo[i \in 0 .. Len(q)] ==
        IF i = 0 THEN << >>
        ELSE IF q[i] \in kept THEN Append(upTo[i - 1], q[i]) ELSE upTo[i - 1]
  IN  upTo[Len(q)]

\* swap_remove: the last element takes the place of the one that goes.
SwapRemove(q, i) ==
  SubSeq([q EXCEPT ![i] = Last(q)], 1, Len(q) - 1)
=============================================================================
