------------------------------- MODULE Plans -------------------------------
(***************************************************************************)
(* The transfer registry of the server: crates/aex-server/src/transfer.rs. *)
(*                                                                         *)
(* A plan is named by its ticket.  As in Sessions, an operator is what one *)
(* acquisition of the mutex over Plans does, and an entry's fields are     *)
(* kept for those who still hold its Arc.  A session without a list in     *)
(* by_session is one with an empty list.                                   *)
(***************************************************************************)
EXTENDS Sessions, Vecs

CONSTANTS
  MaxTransfers, \* limits.max_transfers_per_session
  Ttl,          \* limits.transfer_ttl_sec
  IdModulus,    \* request ids are taken modulo this: 2^32 in the code
  MaxPlans      \* bound: request ids that are ever drawn

ASSUME PlanAssumption ==
  /\ MaxTransfers \in Nat \ {0}
  /\ Ttl \in Nat \ {0}
  /\ IdModulus \in Nat \ {0, 1}
  /\ MaxPlans \in Nat

\* No request id is drawn a second time.
NoWrap == MaxPlans < IdModulus

VARIABLES
  nextId,       \* TransferRegistry.next_id
  minted,       \* request ids drawn so far, and so the latest ticket
  entries,      \* Plans.entries: the plan of each request id, or NoPlan
  bySession,    \* Plans.by_session
  planId,       \* TransferEntry.request_id
  planSession,  \* TransferEntry.session
  lastUsed      \* TransferEntry.last_used_ms

planVars == <<nextId, minted, entries, bySession, planId, planSession, lastUsed>>

Ids     == 0 .. IdModulus - 1
Tickets == 1 .. MaxPlans
NoPlan  == 0
Nobody  == "nobody"

PlansInit ==
  /\ nextId = 1
  /\ minted = 0
  /\ entries = [id \in Ids |-> NoPlan]
  /\ bySession = [s \in SessionIds |-> << >>]
  /\ planId = [p \in Tickets |-> 0]
  /\ planSession = [p \in Tickets |-> Nobody]
  /\ lastUsed = [p \in Tickets |-> 0]

PlanTypes ==
  /\ nextId \in Ids
  /\ minted \in 0 .. MaxPlans
  /\ entries \in [Ids -> Tickets \cup {NoPlan}]
  /\ bySession \in [SessionIds -> Seq(Ids)]
  /\ planId \in [Tickets -> Ids]
  /\ planSession \in [Tickets -> SessionIds \cup {Nobody}]
  /\ lastUsed \in [Tickets -> Nat]

\* next_request_id: never 0, which stands for the connection itself.
RequestId == IF nextId = 0 THEN 1 ELSE nextId

\* The id is taken before the ticket is drawn, and is lost if none can be.
SkipId ==
  /\ minted' = minted + 1
  /\ nextId' = (RequestId + 1) % IdModulus
  /\ UNCHANGED <<entries, bySession, planId, planSession, lastUsed>>

\* insert_at up to the lock: the entry is made, and its ticket drawn.
MintPlan(s, at) ==
  /\ minted' = minted + 1
  /\ nextId' = (RequestId + 1) % IdModulus
  /\ planId' = [planId EXCEPT ![minted + 1] = RequestId]
  /\ planSession' = [planSession EXCEPT ![minted + 1] = s]
  /\ lastUsed' = [lastUsed EXCEPT ![minted + 1] = at]
  /\ UNCHANGED <<entries, bySession>>

\* Request ids with a plan.
Present == {id \in Ids : entries[id] # NoPlan}

\* Mutant: the most recently used goes.
MostRecentlyUsed(ids) ==
  CHOOSE i \in DOMAIN ids :
    \A j \in DOMAIN ids : lastUsed[entries[ids[i]]] >= lastUsed[entries[ids[j]]]

\* The first of the positions whose plan was used longest ago.
LeastRecentlyUsed(ids) ==
  CHOOSE i \in DOMAIN ids :
    \A j \in DOMAIN ids :
      LET a == lastUsed[entries[ids[i]]]
          b == lastUsed[entries[ids[j]]]
      IN  a < b \/ (a = b /\ i <= j)

Full(ids) == Len(ids) >= MaxTransfers

\* The locked part of insert_at.  A session at its cap loses its least
\* recently used plan; one round of the loop always makes the room.
InsertPlan(p) ==
  LET s == planSession[p]
      ids == Retain(bySession[s], Present)
      oldest == LeastRecentlyUsed(ids)
  IN
  /\ IF Full(ids)
     THEN /\ bySession' = [bySession EXCEPT ![s] = Append(SwapRemove(ids, oldest), planId[p])]
          /\ entries' = [entries EXCEPT ![ids[oldest]] = NoPlan, ![planId[p]] = p]
     ELSE /\ bySession' = [bySession EXCEPT ![s] = Append(ids, planId[p])]
          /\ entries' = [entries EXCEPT ![planId[p]] = p]
  /\ UNCHANGED <<nextId, minted, planId, planSession, lastUsed>>

\* is_expired
IdleTooLong(p, at) == at - lastUsed[p] > Ttl

TouchPlan(p, at) ==
  /\ lastUsed' = [lastUsed EXCEPT ![p] = at]
  /\ UNCHANGED <<nextId, minted, entries, bySession, planId, planSession>>

\* Mutant: the id stays in the index.
LeaveListed(id) ==
  /\ entries' = [entries EXCEPT ![id] = NoPlan]
  /\ UNCHANGED <<nextId, minted, bySession, planId, planSession, lastUsed>>

\* remove
RemovePlan(id) ==
  /\ entries' = [entries EXCEPT ![id] = NoPlan]
  /\ bySession' = IF entries[id] = NoPlan THEN bySession
                  ELSE [bySession EXCEPT ![planSession[entries[id]]] = Retain(@, Ids \ {id})]
  /\ UNCHANGED <<nextId, minted, planId, planSession, lastUsed>>

\* remove_session
DropSession(s) ==
  /\ entries' = [id \in Ids |-> IF id \in Range(bySession[s]) THEN NoPlan ELSE entries[id]]
  /\ bySession' = [bySession EXCEPT ![s] = << >>]
  /\ UNCHANGED <<nextId, minted, planId, planSession, lastUsed>>

\* Mutant: a plan lives on without its session.
SweepIdle(id, at, alive) ==
  /\ entries' = [entries EXCEPT ![id] = IF IdleTooLong(@, at) THEN NoPlan ELSE @]
  /\ UNCHANGED <<nextId, minted, bySession, planId, planSession, lastUsed>>

\* sweep_at, one entry: kept while it is in use and its session is live.
SweepPlan(id, at, alive) ==
  /\ entries' = [entries EXCEPT ![id] = IF IdleTooLong(@, at) \/ ~alive THEN NoPlan ELSE @]
  /\ UNCHANGED <<nextId, minted, bySession, planId, planSession, lastUsed>>

\* Mutant: the index keeps whatever it held.
KeepList(s, alive) == UNCHANGED planVars

\* Mutant: every list goes, with the plans of live sessions still there.
DropList(s, alive) ==
  /\ bySession' = [bySession EXCEPT ![s] = << >>]
  /\ UNCHANGED <<nextId, minted, entries, planId, planSession, lastUsed>>

\* sweep_at, one list of the index, once every entry has been looked at.
SweepList(s, alive) ==
  /\ bySession' = [bySession EXCEPT ![s] = IF alive THEN Retain(@, Present) ELSE << >>]
  /\ UNCHANGED <<nextId, minted, entries, planId, planSession, lastUsed>>
=============================================================================
