------------------------------- MODULE Batch -------------------------------
(***************************************************************************)
(* A client that fills buffers from plans, over the registry that may      *)
(* evict or expire them: prepare_many and fill_batch of                    *)
(* crates/aex-client/src/client.rs with Plans.  Callers are threads that   *)
(* share a client, and so a session, which stays alive here.               *)
(*                                                                         *)
(* DataPool::fetch is taken at its promise (Delivery): a batch gets all of *)
(* its parts, or fails.                                                    *)
(***************************************************************************)
EXTENDS Plans

CONSTANTS
  Callers,    \* threads that prepare and fill batches
  NumItems,   \* selections of a batch
  Session,    \* the session they share
  MaxBatches, \* bound: batches all callers begin
  MaxTime     \* bound: the clock stops here

ASSUME BatchAssumption ==
  /\ NumItems \in Nat \ {0}
  /\ Session \in SessionIds
  /\ MaxBatches \in Nat
  /\ MaxTime \in Nat
  /\ MaxPlans >= 2 * NumItems * MaxBatches

VARIABLES
  now,      \* the clock of the registry
  batches,  \* batches begun
  phase,    \* where each caller is
  todo,     \* positions of the batch to prepare, in the order of the request
  ready,    \* how many of them are
  plans,    \* the plan of each position; NoPlan if it came with its data
  fetching, \* positions whose fetch is outstanding
  lost,     \* a fetch was refused because its plan is gone
  again,    \* the batch has been prepared again: retries is not 0
  got,      \* the selection each buffer was last filled from, or 0
  made      \* history: the selection each plan was minted for

batchVars == <<phase, todo, ready, plans, fetching, lost, again, got, made>>
vars == <<sessionVars, planVars, now, batches, batchVars>>

Items == 1 .. NumItems

Phases == {"idle", "prepare", "insert", "prepared", "fetch", "ok", "gone", "failed"}

Init ==
  /\ created = {Session} /\ sessions = {Session}
  /\ granted = [s \in SessionIds |-> 1]
  /\ dataConns = [s \in SessionIds |-> 1]
  /\ lastSeen = [s \in SessionIds |-> 0]
  /\ PlansInit
  /\ now = 0
  /\ batches = 0
  /\ phase = [c \in Callers |-> "idle"]
  /\ todo = [c \in Callers |-> << >>]
  /\ ready = [c \in Callers |-> 0]
  /\ plans = [c \in Callers |-> [i \in Items |-> NoPlan]]
  /\ fetching = [c \in Callers |-> {}]
  /\ lost = [c \in Callers |-> FALSE]
  /\ again = [c \in Callers |-> FALSE]
  /\ got = [c \in Callers |-> [i \in Items |-> 0]]
  /\ made = [p \in Tickets |-> 0]

Goto(c, label) == phase' = [phase EXCEPT ![c] = label]

Tick ==
  /\ now < MaxTime
  /\ now' = now + 1
  /\ UNCHANGED <<sessionVars, planVars, batches, batchVars>>

\* The sweeper takes a plan that has been idle past its TTL.
Sweep ==
  /\ \E id \in Ids : entries[id] # NoPlan /\ IdleTooLong(entries[id], now) /\ RemovePlan(id)
  /\ UNCHANGED <<sessionVars, now, batches, batchVars>>

---------------------------------------------------------------------------
(* prepare_many.                                                           *)

\* A caller asks for the plans of a batch.
Begin(c) ==
  /\ phase[c] \in {"idle", "ok", "gone", "failed"}
  /\ batches < MaxBatches
  /\ batches' = batches + 1
  /\ Goto(c, "prepare")
  /\ todo' = [todo EXCEPT ![c] = [i \in Items |-> i]]
  /\ ready' = [ready EXCEPT ![c] = 0]
  /\ plans' = [plans EXCEPT ![c] = [i \in Items |-> NoPlan]]
  /\ lost' = [lost EXCEPT ![c] = FALSE]
  /\ again' = [again EXCEPT ![c] = FALSE]
  /\ got' = [got EXCEPT ![c] = [i \in Items |-> 0]]
  /\ UNCHANGED <<sessionVars, planVars, now, fetching, made>>

\* Mutant: selections are taken by their place in the request.
InRequest(c) == ready[c] + 1

\* The selection asked for next.
Asked(c) == todo[c][ready[c] + 1]

\* One element of prepare_selections: answered inline, and counted as in its
\* buffer from here on; refused; or a plan, still to be registered.
PrepareItem(c) ==
  /\ phase[c] = "prepare" /\ ready[c] < Len(todo[c])
  /\ LET i == todo[c][ready[c] + 1] IN
     \/ /\ ready' = [ready EXCEPT ![c] = @ + 1]
        /\ plans' = [plans EXCEPT ![c][i] = NoPlan]
        /\ got' = [got EXCEPT ![c][i] = Asked(c)]
        /\ UNCHANGED <<planVars, phase, made>>
     \/ /\ Goto(c, "failed")
        /\ UNCHANGED <<planVars, ready, plans, got, made>>
     \/ /\ minted < MaxPlans
        /\ MintPlan(Session, now)
        /\ plans' = [plans EXCEPT ![c][i] = minted + 1]
        /\ made' = [made EXCEPT ![minted + 1] = Asked(c)]
        /\ Goto(c, "insert")
        /\ UNCHANGED <<ready, got>>
  /\ UNCHANGED <<sessionVars, now, batches, todo, fetching, lost, again>>

InsertItem(c) ==
  /\ phase[c] = "insert"
  /\ InsertPlan(plans[c][todo[c][ready[c] + 1]])
  /\ ready' = [ready EXCEPT ![c] = @ + 1]
  /\ Goto(c, "prepare")
  /\ UNCHANGED <<sessionVars, now, batches, todo, plans, fetching, lost, again, got, made>>

\* The reply is here.  A selection prepared again may have changed its size.
Prepared(c) ==
  /\ phase[c] = "prepare" /\ ready[c] = Len(todo[c])
  /\ Goto(c, "prepared") \/ (again[c] /\ Goto(c, "failed"))
  /\ UNCHANGED <<sessionVars, planVars, now, batches, todo, ready, plans, fetching, lost,
                 again, got, made>>

---------------------------------------------------------------------------
(* fill_batch.                                                             *)

\* What is left for the data plane.
Remote(c) == {i \in Items : plans[c][i] # NoPlan}

Fill(c) ==
  /\ phase[c] = "prepared"
  /\ Goto(c, IF Remote(c) = {} THEN "ok" ELSE "fetch")
  /\ fetching' = [fetching EXCEPT ![c] = Remote(c)]
  /\ lost' = [lost EXCEPT ![c] = FALSE]
  /\ UNCHANGED <<sessionVars, planVars, now, batches, todo, ready, plans, again, got, made>>

\* A part of the fetch is answered: with its data, or because its plan is not
\* there or has expired, with a refusal.
FetchPart(c) ==
  /\ phase[c] = "fetch"
  /\ \E i \in fetching[c] :
       LET p == plans[c][i]
           live == entries[planId[p]] = p
       IN
       /\ fetching' = [fetching EXCEPT ![c] = @ \ {i}]
       /\ \/ /\ live /\ ~IdleTooLong(p, now)
             /\ TouchPlan(p, now)
             /\ got' = [got EXCEPT ![c][i] = made[p]]
             /\ UNCHANGED lost
          \/ /\ live /\ IdleTooLong(p, now)
             /\ RemovePlan(planId[p])
             /\ lost' = [lost EXCEPT ![c] = TRUE]
             /\ UNCHANGED got
          \/ /\ ~live
             /\ lost' = [lost EXCEPT ![c] = TRUE]
             /\ UNCHANGED <<planVars, got>>
  /\ UNCHANGED <<sessionVars, now, batches, phase, todo, ready, plans, again, made>>

\* Mutant: the same plans are fetched from again.
SameAgain(c) == Goto(c, "prepared") /\ UNCHANGED <<todo, ready, again>>

\* A batch with a plan that is gone has what is remote of it prepared again, once.
AfterLoss(c) ==
  \/ /\ ~again[c]
     /\ Goto(c, "prepare")
     /\ todo' = [todo EXCEPT ![c] = Retain([i \in Items |-> i], Remote(c))]
     /\ ready' = [ready EXCEPT ![c] = 0]
     /\ again' = [again EXCEPT ![c] = TRUE]
  \/ /\ again[c]
     /\ Goto(c, "gone")
     /\ UNCHANGED <<todo, ready, again>>

\* fetch returns: it is through, or a plan was gone, or it fails otherwise.
Return(c) ==
  /\ phase[c] = "fetch"
  /\ \/ /\ fetching[c] = {} /\ ~lost[c]
        /\ Goto(c, "ok")
        /\ UNCHANGED <<todo, ready, again>>
     \/ lost[c] /\ AfterLoss(c)
     \/ /\ ~lost[c]
        /\ Goto(c, "failed")
        /\ UNCHANGED <<todo, ready, again>>
  /\ fetching' = [fetching EXCEPT ![c] = {}]
  /\ UNCHANGED <<sessionVars, planVars, now, batches, plans, lost, got, made>>

---------------------------------------------------------------------------

Proceed(c) ==
  PrepareItem(c) \/ InsertItem(c) \/ Prepared(c) \/ Fill(c) \/ FetchPart(c) \/ Return(c)

Next ==
  \/ Tick
  \/ Sweep
  \/ \E c \in Callers : Begin(c) \/ Proceed(c)

\* A fetch is answered or fails (KeepsPromise of Pool), and so does an RPC.
\* Nothing is assumed of the clock, of the sweeper or of when a batch begins.
Fairness == \A c \in Callers : WF_vars(Proceed(c))

Spec == Init /\ [][Next]_vars /\ Fairness

---------------------------------------------------------------------------
(* Properties.                                                             *)

\* A batch that succeeds has every buffer filled from its own selection, though
\* some came inline, some were prepared again and came inline then, and the
\* second request names fewer selections than the first.
RightData ==
  \A c \in Callers : phase[c] = "ok" => \A i \in Items : got[c][i] = i

\* A batch comes to an end, however often its plans are evicted.
BatchEnds ==
  \A c \in Callers : phase[c] = "prepare" ~> phase[c] \in {"ok", "gone", "failed"}

---------------------------------------------------------------------------
(* What a comment says, and the code does not quite do.                    *)

\* Whoever has a batch to himself that fits the session, and is quick enough,
\* gets it: "A plan evicted mid-transfer is prepared again once; twice in a row
\* is not eviction", says the comment on Client::fill.
TwiceIsNotEviction ==
  Cardinality(Callers) = 1 /\ NumItems <= MaxTransfers /\ MaxTime <= Ttl =>
    \A c \in Callers : phase[c] # "gone"

---------------------------------------------------------------------------
(* The inductive invariant, in parts.                                      *)

BatchTypes ==
  /\ minted \in 0 .. MaxPlans
  /\ phase \in [Callers -> Phases]
  /\ todo \in [Callers -> Seq(Items)]
  /\ ready \in [Callers -> Nat]
  /\ plans \in [Callers -> [Items -> Tickets \cup {NoPlan}]]
  /\ fetching \in [Callers -> SUBSET Items]
  /\ lost \in [Callers -> BOOLEAN]
  /\ again \in [Callers -> BOOLEAN]
  /\ got \in [Callers -> [Items -> Nat]]
  /\ made \in [Tickets -> Nat]

\* A position that came inline has its data, and the plan of any other is for
\* the selection of that position.
Settled(c, i) ==
  /\ plans[c][i] = NoPlan => got[c][i] = i
  /\ plans[c][i] # NoPlan => plans[c][i] <= minted /\ made[plans[c][i]] = i

\* Every position is settled, or is yet to be prepared.
Preparing(c) ==
  phase[c] \in {"prepare", "insert"} =>
    /\ ready[c] <= Len(todo[c])
    /\ \A i \in Items :
         Settled(c, i) \/ \E j \in 1 .. Len(todo[c]) : j > ready[c] /\ todo[c][j] = i

\* The position whose plan is about to be inserted is settled.
Inserting(c) ==
  phase[c] = "insert" => ready[c] < Len(todo[c]) /\ Settled(c, Asked(c))

\* What has been fetched without a loss is in its buffer.
Fetching(c) ==
  /\ phase[c] \in {"prepared", "fetch"} => \A i \in Items : Settled(c, i)
  /\ phase[c] = "fetch" => fetching[c] \subseteq Remote(c)
  /\ phase[c] = "fetch" /\ ~lost[c] =>
       \A i \in Items : plans[c][i] # NoPlan /\ i \notin fetching[c] => got[c][i] = i

\* The inductive invariant behind RightData, which BatchProofs proves.
IInv ==
  /\ BatchTypes
  /\ \A c \in Callers : Preparing(c) /\ Inserting(c) /\ Fetching(c)
  /\ RightData
=============================================================================
