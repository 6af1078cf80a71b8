---------------------------- MODULE BatchProofs ----------------------------
(***************************************************************************)
(* Proofs about batches: whatever the registry evicts or expires, and for  *)
(* any number of callers, selections and batches, a buffer is filled from  *)
(* its own selection.                                                      *)
(***************************************************************************)
EXTENDS Batch, SeqFacts

\* What the invariant says of one caller.
Kept(c) ==
  /\ Preparing(c) /\ Inserting(c) /\ Fetching(c)
  /\ phase[c] = "ok" => \A i \in Items : got[c][i] = i

\* What a caller has is left alone.
Idle(c) ==
  /\ phase'[c] = phase[c] /\ todo'[c] = todo[c] /\ ready'[c] = ready[c]
  /\ plans'[c] = plans[c] /\ fetching'[c] = fetching[c] /\ lost'[c] = lost[c]
  /\ got'[c] = got[c]

\* No plan changes the selection it is for.
Grows == minted' \in Nat /\ minted <= minted' /\ \A p \in Tickets : p <= minted => made'[p] = made[p]

LEMMA Constants ==
  /\ NumItems \in Nat /\ MaxPlans \in Nat /\ Items \subseteq Nat /\ 0 \notin Items
  /\ NoPlan \notin Tickets /\ Tickets \subseteq Nat
  /\ [i \in Items |-> i] \in Seq(Items) /\ Len([i \in Items |-> i]) = NumItems
BY BatchAssumption, PlanAssumption DEF Items, NoPlan, Tickets

LEMMA InvParts == IInv <=> BatchTypes /\ \A c \in Callers : Kept(c)
BY DEF IInv, Kept, RightData

LEMMA KeptInit == Init => IInv
<1>. SUFFICES ASSUME Init
              PROVE  IInv
  OBVIOUS
<1>1. BatchTypes
  BY Constants DEF Init, PlansInit, BatchTypes, Phases
<1>. QED
  BY <1>1 DEF Init, IInv, Preparing, Inserting, Fetching, RightData

\* A settled position stays settled while plans are minted for others.
LEMMA StaysSettled ==
  ASSUME BatchTypes, Grows, NEW c \in Callers, NEW i \in Items, Settled(c, i),
         plans'[c][i] = plans[c][i], got'[c][i] = got[c][i]
  PROVE  Settled(c, i)'
<1>1. plans[c][i] # NoPlan => plans[c][i] \in Tickets /\ plans[c][i] \in Nat
  <2>1. plans[c][i] \in Tickets \cup {NoPlan}
    BY DEF BatchTypes
  <2>2. Tickets \subseteq Nat
    BY Constants
  <2>. QED
    BY <2>1, <2>2
<1>2. minted \in Nat /\ minted' \in Nat /\ minted <= minted'
  BY DEF BatchTypes, Grows
<1>3. plans[c][i] # NoPlan => made'[plans[c][i]] = made[plans[c][i]]
  BY <1>1 DEF Settled, Grows
<1>4. plans[c][i] # NoPlan => plans[c][i] <= minted'
  BY <1>1, <1>2 DEF Settled
<1>. QED
  BY <1>3, <1>4 DEF Settled

LEMMA StaysKept ==
  ASSUME BatchTypes, Grows, NEW c \in Callers, Kept(c), Idle(c)
  PROVE  Kept(c)'
<1>1. \A i \in Items : Settled(c, i) => Settled(c, i)'
  BY StaysSettled DEF Idle
<1>2. Preparing(c)'
  BY <1>1 DEF Kept, Idle, Preparing
<1>3. Inserting(c)'
  <2>. SUFFICES ASSUME phase'[c] = "insert"
                PROVE  ready'[c] < Len(todo'[c]) /\ Settled(c, Asked(c))'
    BY DEF Inserting
  <2>1. ready[c] < Len(todo[c]) /\ Settled(c, Asked(c)) /\ Asked(c)' = Asked(c)
    BY DEF Kept, Idle, Inserting, Asked
  <2>2. Asked(c) \in Items
    <3>1. ready[c] \in Nat /\ todo[c] \in Seq(Items)
      BY DEF BatchTypes
    <3>. QED
      BY <2>1, <3>1 DEF Asked
  <2>3. PICK i \in Items : i = Asked(c)
    BY <2>2
  <2>4. Settled(c, i)'
    BY <1>1, <2>1, <2>3
  <2>. QED
    BY <2>1, <2>3, <2>4 DEF Idle, Settled
<1>4. Fetching(c)'
  BY <1>1 DEF Kept, Idle, Fetching, Remote
<1>. QED
  BY <1>2, <1>3, <1>4 DEF Kept, Idle

\* A step of one caller's, and what becomes of that caller, is all there is to
\* show.
LEMMA OneMoves ==
  ASSUME IInv, Grows, BatchTypes', NEW c \in Callers, Kept(c)',
         \A d \in Callers \ {c} : Idle(d)
  PROVE  IInv'
<1>1. \A d \in Callers : Kept(d)'
  BY InvParts, StaysKept
<1>. QED
  BY <1>1 DEF IInv, Kept, RightData

---------------------------------------------------------------------------
(* One lemma for each of a caller's steps.                                 *)

\* The selection a caller is about to prepare is one of its batch.
LEMMA AskedIsItem ==
  ASSUME BatchTypes, NEW c \in Callers, ready[c] < Len(todo[c])
  PROVE  Asked(c) \in Items /\ ready[c] \in Nat /\ Len(todo[c]) \in Nat
         /\ ready[c] + 1 \in 1 .. Len(todo[c])
<1>1. ready[c] \in Nat /\ todo[c] \in Seq(Items)
  BY DEF BatchTypes
<1>. QED
  BY <1>1 DEF Asked

LEMMA BeginKeeps ==
  ASSUME IInv, NEW c \in Callers, Begin(c)
  PROVE  IInv'
<1>0. BatchTypes
  BY DEF IInv
<1>1. Grows
  BY <1>0, PlanAssumption DEF Begin, planVars, Grows, BatchTypes
<1>2. BatchTypes'
  BY <1>0, Constants DEF Begin, planVars, Goto, BatchTypes, Phases
<1>3. \A d \in Callers \ {c} : Idle(d)
  BY <1>0 DEF Begin, Goto, Idle, BatchTypes
<1>4. phase'[c] = "prepare" /\ todo'[c] = [i \in Items |-> i] /\ ready'[c] = 0
  BY <1>0 DEF Begin, Goto, BatchTypes
<1>5. Preparing(c)'
  <2>1. /\ Len(todo'[c]) = NumItems /\ NumItems \in Nat
        /\ \A i \in Items : todo'[c][i] = i /\ i \in 1 .. NumItems /\ i > 0
    BY <1>4, Constants DEF Items
  <2>2. ready'[c] <= Len(todo'[c])
    BY <1>4, <2>1
  <2>. QED
    BY <1>4, <2>1, <2>2 DEF Preparing
<1>6. Kept(c)'
  BY <1>4, <1>5 DEF Kept, Inserting, Fetching
<1>. QED
  BY <1>1, <1>2, <1>3, <1>6, OneMoves

\* A selection answered inline is in its buffer; one that is planned has a plan
\* of its own.
LEMMA PrepareKeeps ==
  ASSUME IInv, NEW c \in Callers, PrepareItem(c)
  PROVE  IInv'
<1>0. BatchTypes /\ Preparing(c) /\ phase[c] = "prepare" /\ ready[c] < Len(todo[c])
  BY DEF IInv, PrepareItem
<1>. PICK i \in Items : i = Asked(c)
  BY <1>0, AskedIsItem
<1>1. /\ i \in Items /\ i \in Nat /\ ready[c] \in Nat /\ Len(todo[c]) \in Nat
      /\ ready[c] + 1 \in 1 .. Len(todo[c]) /\ todo[c][ready[c] + 1] = i
  BY <1>0, AskedIsItem, Constants DEF Asked
<1>2. CASE /\ ready' = [ready EXCEPT ![c] = ready[c] + 1]
           /\ plans' = [plans EXCEPT ![c][i] = NoPlan]
           /\ got' = [got EXCEPT ![c][i] = i]
           /\ UNCHANGED <<planVars, phase, made, todo, fetching, lost, again>>
  <2>1. Grows
    BY <1>0, <1>2, PlanAssumption DEF planVars, Grows, BatchTypes
  <2>2. BatchTypes'
    <3>1. plans' \in [Callers -> [Items -> Tickets \cup {NoPlan}]]
      BY <1>0, <1>1, <1>2 DEF BatchTypes
    <3>2. got' \in [Callers -> [Items -> Nat]]
      BY <1>0, <1>1, <1>2 DEF BatchTypes
    <3>3. ready' \in [Callers -> Nat]
      BY <1>0, <1>1, <1>2 DEF BatchTypes
    <3>. QED
      BY <1>0, <1>2, <3>1, <3>2, <3>3 DEF BatchTypes, planVars
  <2>3. \A d \in Callers \ {c} : Idle(d)
    BY <1>0, <1>2 DEF Idle, BatchTypes
  <2>4. /\ phase'[c] = "prepare" /\ todo'[c] = todo[c] /\ ready'[c] = ready[c] + 1
        /\ plans'[c][i] = NoPlan /\ got'[c][i] = i
        /\ \A k \in Items \ {i} : plans'[c][k] = plans[c][k] /\ got'[c][k] = got[c][k]
    BY <1>0, <1>1, <1>2 DEF BatchTypes
  <2>5. ASSUME NEW k \in Items
        PROVE  Settled(c, k)' \/ \E j \in 1 .. Len(todo'[c]) : j > ready'[c] /\ todo'[c][j] = k
    <3>1. CASE k = i
      BY <2>4, <3>1 DEF Settled
    <3>2. CASE k # i /\ Settled(c, k)
      BY <1>0, <2>1, <2>4, <3>2, StaysSettled
    <3>3. ASSUME k # i, NEW j \in 1 .. Len(todo[c]), j > ready[c], todo[c][j] = k
          PROVE  j > ready'[c]
      <4>1. j # ready[c] + 1
        BY <1>1, <3>3
      <4>. QED
        BY <1>1, <2>4, <3>3, <4>1
    <3>. QED
      BY <1>0, <2>4, <3>1, <3>2, <3>3 DEF Preparing
  <2>6. ready'[c] <= Len(todo'[c])
    BY <1>1, <2>4
  <2>7. Kept(c)'
    BY <2>4, <2>5, <2>6 DEF Kept, Preparing, Inserting, Fetching
  <2>. QED
    BY <2>1, <2>2, <2>3, <2>7, OneMoves
<1>3. CASE Goto(c, "failed") /\ UNCHANGED <<planVars, ready, plans, got, made, todo, fetching, lost, again>>
  <2>1. Grows
    BY <1>0, <1>3, PlanAssumption DEF planVars, Grows, BatchTypes
  <2>2. BatchTypes'
    BY <1>0, <1>3 DEF planVars, Goto, BatchTypes, Phases
  <2>3. \A d \in Callers \ {c} : Idle(d)
    BY <1>0, <1>3 DEF Goto, Idle, BatchTypes
  <2>4. phase'[c] = "failed"
    BY <1>0, <1>3 DEF Goto, BatchTypes
  <2>5. Kept(c)'
    BY <2>4 DEF Kept, Preparing, Inserting, Fetching
  <2>. QED
    BY <2>1, <2>2, <2>3, <2>5, OneMoves
<1>4. CASE /\ minted < MaxPlans /\ MintPlan(Session, now)
           /\ plans' = [plans EXCEPT ![c][i] = minted + 1]
           /\ made' = [made EXCEPT ![minted + 1] = i]
           /\ Goto(c, "insert")
           /\ UNCHANGED <<ready, got, todo, fetching, lost, again>>
  <2>0. minted \in Nat /\ minted + 1 \in Tickets /\ minted' = minted + 1 /\ minted' \in 0 .. MaxPlans
        /\ minted + 1 # NoPlan
    BY <1>0, <1>4, PlanAssumption DEF BatchTypes, MintPlan, Tickets, NoPlan
  <2>1. /\ made'[minted + 1] = i
        /\ \A p \in Tickets : p # minted + 1 => made'[p] = made[p]
    BY <1>0, <1>4, <2>0 DEF BatchTypes
  <2>2. Grows
    <3>1. \A p \in Tickets : p <= minted => p # minted + 1
      BY <2>0
    <3>. QED
      BY <2>0, <2>1, <3>1 DEF Grows
  <2>3. BatchTypes'
    <3>1. plans' \in [Callers -> [Items -> Tickets \cup {NoPlan}]]
      BY <1>0, <1>1, <1>4, <2>0 DEF BatchTypes
    <3>2. made' \in [Tickets -> Nat]
      BY <1>0, <1>1, <1>4, <2>0 DEF BatchTypes
    <3>3. phase' \in [Callers -> Phases]
      BY <1>0, <1>4 DEF BatchTypes, Goto, Phases
    <3>. QED
      BY <1>0, <1>4, <2>0, <3>1, <3>2, <3>3 DEF BatchTypes
  <2>4. \A d \in Callers \ {c} : Idle(d)
    BY <1>0, <1>4 DEF Goto, Idle, BatchTypes
  <2>5. /\ phase'[c] = "insert" /\ todo'[c] = todo[c] /\ ready'[c] = ready[c] /\ got' = got
        /\ plans'[c][i] = minted + 1
        /\ \A k \in Items \ {i} : plans'[c][k] = plans[c][k]
    BY <1>0, <1>1, <1>4 DEF Goto, BatchTypes
  <2>6. Settled(c, i)'
    BY <2>0, <2>1, <2>5 DEF Settled
  <2>7. ASSUME NEW k \in Items
        PROVE  Settled(c, k)' \/ \E j \in 1 .. Len(todo'[c]) : j > ready'[c] /\ todo'[c][j] = k
    <3>1. CASE k # i /\ Settled(c, k)
      BY <1>0, <2>2, <2>5, <3>1, StaysSettled
    <3>2. CASE k # i /\ ~Settled(c, k)
      BY <1>0, <2>5, <3>2 DEF Preparing
    <3>. QED
      BY <2>6, <3>1, <3>2
  <2>8. Inserting(c)'
    <3>1. Asked(c)' = i
      BY <1>1, <2>5 DEF Asked
    <3>. QED
      BY <1>0, <2>5, <2>6, <3>1 DEF Inserting, Settled
  <2>9. Kept(c)'
    BY <1>0, <2>5, <2>7, <2>8 DEF Kept, Preparing, Fetching
  <2>. QED
    BY <2>2, <2>3, <2>4, <2>9, OneMoves
<1>. QED
  BY <1>2, <1>3, <1>4 DEF PrepareItem, Asked

LEMMA InsertKeeps ==
  ASSUME IInv, NEW c \in Callers, InsertItem(c)
  PROVE  IInv'
<1>0. BatchTypes /\ Preparing(c) /\ Inserting(c) /\ phase[c] = "insert"
  BY DEF IInv, InsertItem
<1>1. ready[c] < Len(todo[c]) /\ Settled(c, Asked(c))
  BY <1>0 DEF Inserting
<1>2. /\ Asked(c) \in Items /\ ready[c] \in Nat /\ Len(todo[c]) \in Nat
      /\ Asked(c) = todo[c][ready[c] + 1]
  BY <1>0, <1>1, AskedIsItem DEF Asked
<1>3. UNCHANGED <<minted, made>>
  BY DEF InsertItem, InsertPlan
<1>4. Grows
  BY <1>0, <1>3, PlanAssumption DEF Grows, BatchTypes
<1>5. BatchTypes'
  BY <1>0, <1>2, <1>3 DEF InsertItem, Goto, BatchTypes, Phases
<1>6. \A d \in Callers \ {c} : Idle(d)
  BY <1>0 DEF InsertItem, Goto, Idle, BatchTypes
<1>7. /\ phase'[c] = "prepare" /\ todo'[c] = todo[c] /\ ready'[c] = ready[c] + 1
      /\ plans'[c] = plans[c] /\ got'[c] = got[c]
  BY <1>0 DEF InsertItem, Goto, BatchTypes
<1>8. ASSUME NEW k \in Items
      PROVE  Settled(c, k)' \/ \E j \in 1 .. Len(todo'[c]) : j > ready'[c] /\ todo'[c][j] = k
  <2>1. CASE Settled(c, k)
    BY <1>0, <1>4, <1>7, <2>1, StaysSettled
  <2>2. ASSUME ~Settled(c, k), NEW j \in 1 .. Len(todo[c]), j > ready[c], todo[c][j] = k
        PROVE  j > ready'[c]
    <3>1. j # ready[c] + 1
      BY <1>1, <1>2, <2>2
    <3>. QED
      BY <1>2, <1>7, <2>2, <3>1
  <2>. QED
    BY <1>0, <1>7, <2>1, <2>2 DEF Preparing
<1>9. ready'[c] <= Len(todo'[c])
  BY <1>1, <1>2, <1>7
<1>10. Kept(c)'
  BY <1>7, <1>8, <1>9 DEF Kept, Preparing, Inserting, Fetching
<1>. QED
  BY <1>4, <1>5, <1>6, <1>10, OneMoves

LEMMA PreparedKeeps ==
  ASSUME IInv, NEW c \in Callers, Prepared(c)
  PROVE  IInv'
<1>0. BatchTypes /\ Preparing(c) /\ phase[c] = "prepare" /\ ready[c] = Len(todo[c])
      /\ todo[c] \in Seq(Items)
  BY DEF IInv, Prepared, BatchTypes
<1>1. Grows
  BY <1>0, PlanAssumption DEF Prepared, planVars, Grows, BatchTypes
<1>2. BatchTypes'
  BY <1>0 DEF Prepared, planVars, Goto, BatchTypes, Phases
<1>3. \A d \in Callers \ {c} : Idle(d)
  BY <1>0 DEF Prepared, Goto, Idle, BatchTypes
<1>4. phase'[c] \in {"prepared", "failed"} /\ plans'[c] = plans[c] /\ got'[c] = got[c]
  BY <1>0 DEF Prepared, Goto, BatchTypes
<1>5. \A i \in Items : Settled(c, i)
  <2>1. \A j \in 1 .. Len(todo[c]) : ~(j > ready[c])
    BY <1>0
  <2>. QED
    BY <1>0, <2>1 DEF Preparing
<1>6. \A i \in Items : Settled(c, i)'
  BY <1>0, <1>1, <1>4, <1>5, StaysSettled
<1>7. Kept(c)'
  BY <1>4, <1>6 DEF Kept, Preparing, Inserting, Fetching
<1>. QED
  BY <1>1, <1>2, <1>3, <1>7, OneMoves

LEMMA FillKeeps ==
  ASSUME IInv, NEW c \in Callers, Fill(c)
  PROVE  IInv'
<1>0. BatchTypes /\ Fetching(c) /\ phase[c] = "prepared" /\ Remote(c) \subseteq Items
  BY DEF IInv, Fill, Remote
<1>1. Grows
  BY <1>0, PlanAssumption DEF Fill, planVars, Grows, BatchTypes
<1>2. BatchTypes'
  BY <1>0 DEF Fill, planVars, Goto, BatchTypes, Phases
<1>3. \A d \in Callers \ {c} : Idle(d)
  BY <1>0 DEF Fill, Goto, Idle, BatchTypes
<1>4. /\ phase'[c] = (IF Remote(c) = {} THEN "ok" ELSE "fetch")
      /\ fetching'[c] = Remote(c) /\ plans'[c] = plans[c] /\ got'[c] = got[c]
  BY <1>0 DEF Fill, Goto, BatchTypes
<1>5. \A i \in Items : Settled(c, i) /\ Settled(c, i)'
  BY <1>0, <1>1, <1>4, StaysSettled DEF Fetching
<1>6. CASE Remote(c) = {}
  <2>1. \A i \in Items : got'[c][i] = i
    BY <1>4, <1>5, <1>6 DEF Settled, Remote
  <2>2. Kept(c)'
    BY <1>4, <1>6, <2>1 DEF Kept, Preparing, Inserting, Fetching
  <2>. QED
    BY <1>1, <1>2, <1>3, <2>2, OneMoves
<1>7. CASE Remote(c) # {}
  <2>1. Kept(c)'
    BY <1>4, <1>5, <1>7 DEF Kept, Preparing, Inserting, Fetching, Remote
  <2>. QED
    BY <1>1, <1>2, <1>3, <2>1, OneMoves
<1>. QED
  BY <1>6, <1>7

LEMMA FetchKeeps ==
  ASSUME IInv, NEW c \in Callers, FetchPart(c)
  PROVE  IInv'
<1>0. BatchTypes /\ Fetching(c) /\ phase[c] = "fetch"
  BY DEF IInv, FetchPart
<1>1. PICK i \in fetching[c] :
        /\ fetching' = [fetching EXCEPT ![c] = fetching[c] \ {i}]
        /\ \/ /\ got' = [got EXCEPT ![c][i] = made[plans[c][i]]]
              /\ UNCHANGED lost
           \/ lost' = [lost EXCEPT ![c] = TRUE] /\ UNCHANGED got
  BY DEF FetchPart
<1>2. UNCHANGED <<minted, made, phase, todo, ready, plans, again>>
  BY DEF FetchPart, TouchPlan, RemovePlan, planVars
<1>3. i \in Items /\ plans[c][i] # NoPlan /\ made[plans[c][i]] = i /\ i \in Nat
  <2>1. i \in Items /\ plans[c][i] # NoPlan
    BY <1>0, <1>1 DEF Fetching, Remote
  <2>. QED
    BY <1>0, <2>1, Constants DEF Fetching, Settled
<1>4. Grows
  BY <1>0, <1>2, PlanAssumption DEF Grows, BatchTypes
<1>5. BatchTypes'
  <2>1. got' \in [Callers -> [Items -> Nat]]
    <3>1. got \in [Callers -> [Items -> Nat]]
      BY <1>0 DEF BatchTypes
    <3>2. got' = got \/ got' = [got EXCEPT ![c][i] = i]
      BY <1>1, <1>3
    <3>. QED
      BY <1>3, <3>1, <3>2
  <2>2. fetching' \in [Callers -> SUBSET Items] /\ lost' \in [Callers -> BOOLEAN]
    BY <1>0, <1>1 DEF BatchTypes
  <2>. QED
    BY <1>0, <1>2, <2>1, <2>2 DEF BatchTypes
<1>6. \A d \in Callers \ {c} : Idle(d)
  BY <1>0, <1>1, <1>2 DEF Idle, BatchTypes
<1>7. /\ phase'[c] = "fetch" /\ plans' = plans /\ fetching'[c] = fetching[c] \ {i}
      /\ \A k \in Items \ {i} : got'[c][k] = got[c][k]
      /\ ~lost'[c] => ~lost[c] /\ got'[c][i] = i
  <2>1. fetching'[c] = fetching[c] \ {i}
    BY <1>0, <1>1 DEF BatchTypes
  <2>2. CASE got' = [got EXCEPT ![c][i] = made[plans[c][i]]] /\ UNCHANGED lost
    BY <1>0, <1>2, <1>3, <2>1, <2>2 DEF BatchTypes
  <2>3. CASE lost' = [lost EXCEPT ![c] = TRUE] /\ UNCHANGED got
    BY <1>0, <1>2, <2>1, <2>3 DEF BatchTypes
  <2>. QED
    BY <1>1, <2>2, <2>3
<1>8. \A k \in Items : Settled(c, k)'
  BY <1>0, <1>2, <1>3, <1>7 DEF Fetching, Settled
<1>9. Kept(c)'
  BY <1>0, <1>7, <1>8 DEF Kept, Preparing, Inserting, Fetching, Remote
<1>. QED
  BY <1>4, <1>5, <1>6, <1>9, OneMoves

LEMMA ReturnKeeps ==
  ASSUME IInv, NEW c \in Callers, Return(c)
  PROVE  IInv'
<1>. DEFINE q == Retain([i \in Items |-> i], Remote(c))
<1>0. BatchTypes /\ Fetching(c) /\ phase[c] = "fetch"
  BY DEF IInv, Return
<1>1. q \in Seq(Items) /\ Len(q) \in Nat
  <2>1. [i \in Items |-> i] \in Seq(Items)
    BY Constants
  <2>2. q \in Seq(Items)
    BY <2>1, RetainFacts
  <2>. QED
    BY <2>2
<1>. HIDE DEF q
<1>2. \/ /\ fetching[c] = {} /\ ~lost[c] /\ Goto(c, "ok")
         /\ UNCHANGED <<todo, ready, again>>
      \/ /\ Goto(c, "prepare") /\ todo' = [todo EXCEPT ![c] = q]
         /\ ready' = [ready EXCEPT ![c] = 0] /\ again' = [again EXCEPT ![c] = TRUE]
      \/ (Goto(c, "gone") \/ Goto(c, "failed")) /\ UNCHANGED <<todo, ready, again>>
  BY DEF Return, AfterLoss, q
<1>3. /\ fetching' = [fetching EXCEPT ![c] = {}]
      /\ UNCHANGED <<minted, made, plans, lost, got>>
  BY DEF Return, planVars
<1>4. Grows
  BY <1>0, <1>3, PlanAssumption DEF Grows, BatchTypes
<1>5. BatchTypes'
  <2>1. todo' \in [Callers -> Seq(Items)] /\ ready' \in [Callers -> Nat]
        /\ again' \in [Callers -> BOOLEAN]
    <3>1. /\ todo \in [Callers -> Seq(Items)] /\ ready \in [Callers -> Nat]
          /\ again \in [Callers -> BOOLEAN]
      BY <1>0 DEF BatchTypes
    <3>2. CASE UNCHANGED <<todo, ready, again>>
      BY <3>1, <3>2
    <3>3. CASE /\ todo' = [todo EXCEPT ![c] = q] /\ ready' = [ready EXCEPT ![c] = 0]
               /\ again' = [again EXCEPT ![c] = TRUE]
      BY <1>1, <3>1, <3>3
    <3>. QED
      BY <1>2, <3>2, <3>3
  <2>2. phase' \in [Callers -> Phases]
    BY <1>0, <1>2 DEF BatchTypes, Goto, Phases
  <2>. QED
    BY <1>0, <1>3, <2>1, <2>2 DEF BatchTypes
<1>6. \A d \in Callers \ {c} : Idle(d)
  BY <1>0, <1>2, <1>3 DEF Goto, Idle, BatchTypes
<1>7. \A i \in Items : Settled(c, i)'
  BY <1>0, <1>3 DEF Fetching, Settled
<1>8. CASE fetching[c] = {} /\ ~lost[c] /\ Goto(c, "ok")
  <2>1. phase'[c] = "ok" /\ got' = got
    BY <1>0, <1>3, <1>8 DEF Goto, BatchTypes
  <2>2. \A i \in Items : got[c][i] = i
    BY <1>0, <1>8 DEF Fetching, Settled
  <2>3. Kept(c)'
    BY <2>1, <2>2 DEF Kept, Preparing, Inserting, Fetching
  <2>. QED
    BY <1>4, <1>5, <1>6, <2>3, OneMoves
<1>9. CASE Goto(c, "prepare") /\ todo' = [todo EXCEPT ![c] = q] /\ ready' = [ready EXCEPT ![c] = 0]
  <2>1. phase'[c] = "prepare" /\ todo'[c] = q /\ ready'[c] = 0
    BY <1>0, <1>9 DEF Goto, BatchTypes
  <2>2. ready'[c] <= Len(todo'[c])
    BY <1>1, <2>1
  <2>3. Kept(c)'
    BY <1>7, <2>1, <2>2 DEF Kept, Preparing, Inserting, Fetching
  <2>. QED
    BY <1>4, <1>5, <1>6, <2>3, OneMoves
<1>10. CASE Goto(c, "gone") \/ Goto(c, "failed")
  <2>1. phase'[c] \in {"gone", "failed"}
    BY <1>0, <1>10 DEF Goto, BatchTypes
  <2>2. Kept(c)'
    BY <2>1 DEF Kept, Preparing, Inserting, Fetching
  <2>. QED
    BY <1>4, <1>5, <1>6, <2>2, OneMoves
<1>. QED
  BY <1>2, <1>8, <1>9, <1>10

\* A step of the clock or of the sweeper's leaves every caller alone.
LEMMA OthersKeep ==
  ASSUME IInv, Tick \/ Sweep \/ UNCHANGED vars
  PROVE  IInv'
<1>1. UNCHANGED <<minted, batchVars>>
  BY DEF Tick, Sweep, RemovePlan, planVars, vars
<1>2. BatchTypes /\ \A c \in Callers : Kept(c)
  BY InvParts
<1>3. Grows /\ BatchTypes' /\ \A c \in Callers : Idle(c)
  BY <1>1, <1>2, PlanAssumption DEF Grows, BatchTypes, Idle, batchVars
<1>4. \A c \in Callers : Kept(c)'
  BY <1>2, <1>3, StaysKept
<1>. QED
  BY <1>3, <1>4 DEF IInv, Kept, RightData

---------------------------------------------------------------------------

\* fill_batch: a batch that succeeds has in every buffer what its selection
\* reads, however many of its plans came inline, were evicted, expired, or were
\* prepared again as part of a shorter request, and whatever other callers of
\* the client do in the meantime.
THEOREM BuffersAreRight == Spec => []RightData
<1>1. IInv /\ [Next]_vars => IInv'
  BY BeginKeeps, PrepareKeeps, InsertKeeps, PreparedKeeps, FillKeeps, FetchKeeps, ReturnKeeps,
     OthersKeep DEF Next, Proceed
<1>2. IInv => RightData
  BY DEF IInv
<1>. QED
  BY <1>1, <1>2, KeptInit, PTL DEF Spec
=============================================================================
