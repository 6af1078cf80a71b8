---------------------------- MODULE ServerProofs ----------------------------
(***************************************************************************)
(* Proofs about the server's registries and the threads that share them,   *)
(* for every number of sessions, handlers, connections and plans.          *)
(***************************************************************************)
EXTENDS Server, SeqFacts, FiniteSetTheorems

---------------------------------------------------------------------------
(* Types, threads and counters.                                            *)

\* The request id that is drawn, and the one after it.
LEMMA NextIds ==
  ASSUME nextId \in Ids
  PROVE  /\ RequestId \in Ids /\ (RequestId + 1) % IdModulus \in Ids
         /\ RequestId # 0
         /\ \A a \in Nat : a < IdModulus => a % IdModulus = a
<1>1. IdModulus \in Nat /\ IdModulus > 1
  BY PlanAssumption
<1>2. RequestId \in Ids /\ RequestId # 0
  BY <1>1 DEF RequestId, Ids
<1>3. \A a \in Nat : a % IdModulus \in 0 .. IdModulus - 1
  BY <1>1
<1>4. \A a \in Nat : a < IdModulus => a % IdModulus = a
  BY <1>1
<1>. QED
  BY <1>2, <1>3, <1>4 DEF Ids

\* Sets of threads are finite.
LEMMA ThreadSets ==
  ASSUME NEW s
  PROVE  /\ IsFiniteSet(Minting) /\ Cardinality(Minting) \in Nat
         /\ IsFiniteSet(Open(s)) /\ Cardinality(Open(s)) \in Nat
<1>1. Minting \in SUBSET Workers /\ Open(s) \in SUBSET Conns
  BY DEF Minting, Open
<1>2. IsFiniteSet(Minting) /\ IsFiniteSet(Open(s))
  BY <1>1, ServerAssumption, FS_Subset
<1>. QED
  BY <1>2, FS_CardinalityType

LEMMA GrantIsNatural ==
  ASSUME NEW desired \in Desired
  PROVE  Grant(desired) \in Nat
BY ServerAssumption, SessionAssumption DEF Grant

LEMMA InvInit == Init => IInv
<1>. SUFFICES ASSUME Init
              PROVE  IInv
  OBVIOUS
<1>1. TypeOK
  BY PlanAssumption, ServerAssumption
     DEF Init, SessionsInit, PlansInit, TypeOK, SessionTypes, PlanTypes, ThreadTypes,
         SweepTypes, Labels, Ids, Tickets,
         NoPlan, Nobody, Threads
<1>2. \A h \in Threads : Serving(h)
  BY DEF Init, Serving, Threads
<1>3. Present = {} /\ Minting = {} /\ minted = 0 /\ issued = {}
  BY DEF Init, PlansInit, Present, Minting, Threads, NoPlan
<1>4. Registry
  BY <1>3, FS_EmptySet, PlanAssumption DEF Registry
<1>5. \A s \in SessionIds : Open(s) = {}
  BY DEF Init, Open, Threads
<1>6. \A s \in SessionIds : dataConns[s] = 0 /\ granted[s] = 0
  BY DEF Init, SessionsInit
<1>7. StreamsCapped
  BY <1>5, <1>6, FS_EmptySet DEF StreamsCapped
<1>. QED
  BY <1>1, <1>2, <1>4, <1>6, <1>7 DEF IInv

\* What a thread is about while it serves a session, and what it has to do
\* with plans.
LEMMA ThreadFacts ==
  ASSUME IInv, NEW h \in Threads
  PROVE  /\ pc[h] \notin {"idle", "create"} => about[h] \in created /\ about[h] \in SessionIds
         /\ pc[h] \in {"insert", "fetch", "unplan", "send"} =>
              /\ plan[h] \in Tickets /\ plan[h] \in 1 .. minted
              /\ planId[plan[h]] \in Ids
         /\ pc[h] \in {"insert", "send"} => planSession[plan[h]] = about[h]
         /\ at[h] \in Nat /\ now \in Nat /\ minted \in 0 .. MaxPlans /\ MaxPlans \in Nat
<1>1. TypeOK /\ Serving(h)
  BY DEF IInv
<1>2. at[h] \in Nat /\ now \in Nat /\ minted \in 0 .. MaxPlans /\ MaxPlans \in Nat
  BY <1>1, PlanAssumption DEF TypeOK, ThreadTypes, PlanTypes
<1>3. pc[h] \notin {"idle", "create"} => about[h] \in created /\ about[h] \in SessionIds
  BY <1>1 DEF Serving, TypeOK, SessionTypes
<1>4. \A p \in 1 .. minted : p \in Tickets
  BY <1>2 DEF Tickets
<1>. QED
  BY <1>1, <1>2, <1>3, <1>4 DEF Serving, TypeOK, PlanTypes

\* A handler at "mint" has a request id left to draw.
LEMMA MintLeft ==
  ASSUME IInv, NEW w \in Workers, pc[w] = "mint"
  PROVE  w \in Minting /\ minted + 1 \in Tickets /\ minted < MaxPlans
<1>1. TypeOK /\ Serving(w) /\ Registry
  BY DEF IInv, Threads
<1>2. w \in Minting
  BY <1>1 DEF Serving, Minting
<1>3. Cardinality(Minting) >= 1
  <2>1. IsFiniteSet(Minting) /\ Cardinality(Minting) \in Nat
    BY ThreadSets
  <2>2. Cardinality(Minting) # 0
    BY <1>2, <2>1, FS_EmptySet
  <2>. QED
    BY <2>1, <2>2
<1>4. minted + Cardinality(Minting) <= MaxPlans /\ minted \in Nat /\ MaxPlans \in Nat
  BY <1>1, PlanAssumption DEF Registry, TypeOK, PlanTypes
<1>. QED
  BY <1>2, <1>3, <1>4, ThreadSets DEF Tickets

\* What a step does to the registry of sessions.
SessionMove ==
  \/ UNCHANGED sessionVars
  \/ \E s \in SessionIds \ created, desired \in Desired, a \in Nat : CreateSession(s, desired, a)
  \/ \E s \in SessionIds, a \in Nat : TouchSession(s, a)
  \/ \E s \in SessionIds : RemoveSession(s)
  \/ SweepExpired(now)
  \/ \E c \in Conns : /\ pc[c] = "count" /\ about[c] \in SessionIds /\ StreamFree(about[c])
                      /\ CountConn(about[c], 1) /\ Goto(c, "ready")
  \/ \E c \in Conns : c \in Open(about[c]) /\ about[c] \in SessionIds
                      /\ CountConn(about[c], -1) /\ Finish(c)

LEMMA SessionMoves == IInv /\ [Next]_vars => SessionMove
<1>. SUFFICES ASSUME IInv, [Next]_vars
              PROVE  SessionMove
  OBVIOUS
<1>1. CASE UNCHANGED vars \/ Tick
  BY <1>1 DEF vars, Tick, SessionMove
<1>2. CASE Sweep
  BY <1>2 DEF Sweep, SweepSessions, SweepBegins, SweepEntry, SweepIndex, SweepEnds, SessionMove
<1>3. ASSUME NEW h \in Threads, Get(h) \/ Expire(h)
      PROVE  SessionMove
  <2>1. about[h] \in SessionIds /\ at[h] \in Nat
    BY <1>3, ThreadFacts DEF Get, Expire
  <2>. QED
    BY <1>3, <2>1 DEF Get, Expire, SessionMove
<1>4. ASSUME NEW h \in Threads, NEW s, NEW next, Ask(h, s, next)
      PROVE  SessionMove
  BY <1>4 DEF Ask, SessionMove
<1>5. ASSUME NEW w \in Workers, Request(w) \/ Handle(w)
      PROVE  SessionMove
  <2>0. w \in Threads
    BY DEF Threads
  <2>1. CASE Connect(w)
    BY <2>1 DEF Connect, SessionMove
  <2>2. CASE UseSession(w) \/ Prepare(w) \/ Disconnect(w)
    BY <1>4, <2>0, <2>2 DEF UseSession, Prepare, Disconnect
  <2>3. CASE Create(w)
    <3>1. at[w] \in Nat
      BY <2>0, ThreadFacts
    <3>. QED
      BY <2>3, <3>1 DEF Create, SessionMove
  <2>4. CASE Mint(w) \/ Insert(w) \/ Drop(w)
    BY <2>4 DEF Mint, Insert, Drop, SessionMove
  <2>5. CASE EndSession(w)
    <3>1. about[w] \in SessionIds
      BY <2>0, <2>5, ThreadFacts DEF EndSession
    <3>. QED
      BY <2>5, <3>1 DEF EndSession, SessionMove
  <2>. QED
    BY <1>3, <1>5, <2>0, <2>1, <2>2, <2>3, <2>4, <2>5 DEF Request, Handle
<1>6. ASSUME NEW c \in Conns, Hello(c) \/ Serve(c)
      PROVE  SessionMove
  <2>0. c \in Threads /\ now \in Nat /\ at[c] \in Nat
    BY ThreadFacts DEF Threads
  <2>1. CASE Hello(c)
    BY <1>4, <2>0, <2>1 DEF Hello
  <2>2. CASE Count(c)
    <3>1. about[c] \in SessionIds
      BY <2>0, <2>2, ThreadFacts DEF Count
    <3>. QED
      BY <2>2, <3>1 DEF Count, SessionMove
  <2>3. CASE Touch(c)
    <3>1. about[c] \in SessionIds
      BY <2>0, <2>3, ThreadFacts DEF Touch
    <3>. QED
      BY <2>0, <2>3, <3>1 DEF Touch, SessionMove
  <2>4. CASE Fetch(c) \/ HangUp(c)
    <3>1. about[c] \in SessionIds /\ c \in Open(about[c])
      BY <2>0, <2>4, ThreadFacts DEF Fetch, HangUp, Open
    <3>. QED
      BY <2>4, <3>1 DEF Fetch, HangUp, SessionMove
  <2>5. CASE Ready(c) \/ Frame(c) \/ ReadClock(c) \/ Unplan(c) \/ Piece(c) \/ Refuse(c)
    BY <2>5 DEF Ready, Frame, ReadClock, Unplan, Piece, Refuse, SessionMove
  <2>. QED
    BY <1>3, <1>6, <2>0, <2>1, <2>2, <2>3, <2>4, <2>5 DEF Serve
<1>. QED
  BY <1>1, <1>2, <1>5, <1>6 DEF Next

\* What a step does to the registry of plans.
PlanMove ==
  \/ UNCHANGED planVars
  \/ \E w \in Workers : pc[w] = "mint" /\ Finish(w) /\ SkipId
  \/ \E w \in Workers : /\ pc[w] = "mint" /\ MintPlan(about[w], now)
                        /\ pc' = [pc EXCEPT ![w] = "insert"]
                        /\ plan' = [plan EXCEPT ![w] = minted + 1]
  \/ \E w \in Workers : pc[w] = "insert" /\ PlansFree /\ InsertPlan(plan[w]) /\ Finish(w)
  \/ \E p \in Tickets, a \in Nat : TouchPlan(p, a)
  \/ \E id \in Ids : PlansFree /\ RemovePlan(id)
  \/ \E s \in SessionIds : PlansFree /\ DropSession(s)
  \/ \E id \in todoIds : /\ sweeping = "sweep"
                         /\ SweepPlan(id, sweptAt, planSession[entries[id]] \in sessions)
  \/ \E s \in todoLists : sweeping = "sweep" /\ todoIds = {} /\ SweepList(s, s \in sessions)

LEMMA PlanMoves == IInv /\ [Next]_vars => PlanMove
<1>. SUFFICES ASSUME IInv, [Next]_vars
              PROVE  PlanMove
  OBVIOUS
<1>1. CASE UNCHANGED vars \/ Tick
  BY <1>1 DEF vars, Tick, PlanMove
<1>2. CASE Sweep
  BY <1>2 DEF Sweep, SweepSessions, SweepBegins, SweepEntry, SweepIndex, SweepEnds, PlanMove
<1>3. ASSUME NEW h \in Threads, Get(h) \/ Expire(h)
      PROVE  PlanMove
  BY <1>3 DEF Get, Expire, PlanMove
<1>4. ASSUME NEW h \in Threads, NEW s, NEW next, Ask(h, s, next)
      PROVE  PlanMove
  BY <1>4 DEF Ask, PlanMove
<1>5. ASSUME NEW w \in Workers, Request(w) \/ Handle(w)
      PROVE  PlanMove
  <2>0. w \in Threads
    BY DEF Threads
  <2>1. CASE Connect(w) \/ Create(w) \/ EndSession(w)
    BY <2>1 DEF Connect, Create, EndSession, PlanMove
  <2>2. CASE UseSession(w) \/ Prepare(w) \/ Disconnect(w)
    BY <1>4, <2>0, <2>2 DEF UseSession, Prepare, Disconnect
  <2>3. CASE Mint(w)
    BY <2>3 DEF Mint, PlanMove
  <2>4. CASE Insert(w)
    BY <2>4 DEF Insert, PlanMove
  <2>5. CASE Drop(w)
    <3>1. about[w] \in SessionIds
      BY <2>0, <2>5, ThreadFacts DEF Drop
    <3>. QED
      BY <2>5, <3>1 DEF Drop, PlanMove
  <2>. QED
    BY <1>3, <1>5, <2>0, <2>1, <2>2, <2>3, <2>4, <2>5 DEF Request, Handle
<1>6. ASSUME NEW c \in Conns, Hello(c) \/ Serve(c)
      PROVE  PlanMove
  <2>0. c \in Threads /\ now \in Nat /\ at[c] \in Nat
    BY ThreadFacts DEF Threads
  <2>1. CASE Hello(c)
    BY <1>4, <2>0, <2>1 DEF Hello
  <2>2. CASE Count(c) \/ Ready(c) \/ Frame(c) \/ Touch(c) \/ ReadClock(c)
             \/ Refuse(c) \/ HangUp(c)
    BY <2>2 DEF Count, Ready, Frame, Touch, ReadClock, Refuse, HangUp, PlanMove
  <2>3. CASE Fetch(c)
    <3>1. planId[plan[c]] \in Ids
      BY <2>0, <2>3, ThreadFacts DEF Fetch
    <3>2. entries[planId[plan[c]]] # NoPlan => entries[planId[plan[c]]] \in Tickets
      BY <3>1 DEF IInv, TypeOK, PlanTypes
    <3>. QED
      BY <2>0, <2>3, <3>2 DEF Fetch, PlanMove
  <2>4. CASE Unplan(c)
    <3>1. planId[plan[c]] \in Ids
      BY <2>0, <2>4, ThreadFacts DEF Unplan
    <3>. QED
      BY <2>4, <3>1 DEF Unplan, PlanMove
  <2>5. CASE Piece(c)
    <3>1. plan[c] \in Tickets
      BY <2>0, <2>5, ThreadFacts DEF Piece
    <3>. QED
      BY <2>0, <2>5, <3>1 DEF Piece, PlanMove
  <2>. QED
    BY <1>3, <1>6, <2>0, <2>1, <2>2, <2>3, <2>4, <2>5 DEF Serve
<1>. QED
  BY <1>1, <1>2, <1>5, <1>6 DEF Next

\* What a thread does when it only moves on to another label.
MovesOn(h, label) ==
  /\ Goto(h, label)
  /\ label \in {"expire", "mint", "remove", "drop", "count", "ready", "unplan", "send"}
  /\ pc[h] \notin {"idle", "create"}
  /\ label = "mint" => pc[h] = "get" /\ then[h] = "mint"
  /\ label \in {"unplan", "send"} => pc[h] \in {"fetch", "send"}
  /\ label = "send" => planSession[plan[h]] = about[h]
  /\ label = "ready" => CountConn(about[h], 1)

\* What a data connection does from a frame to the fetch that it asks for, and
\* back to the next frame.
Reads(c) ==
  \/ Frame(c) \/ Touch(c) \/ ReadClock(c)
  \/ pc[c] \in {"ready", "clock", "fetch", "unplan", "send"} /\ Resume(c)

\* What a thread does when it is given an RPC or a HELLO.
Begins(h) ==
  \E s \in created, next \in {"idle", "mint", "remove", "count"} :
    /\ Ask(h, s, next)
    /\ next = "mint" => h \in Workers /\ minted + Cardinality(Minting) < MaxPlans

\* What a step does to the threads.
ThreadMove ==
  \/ UNCHANGED threadVars
  \/ \E h \in Threads : Finish(h)
  \/ \E h \in Threads : Begins(h)
  \/ \E h \in Threads, label \in Labels : MovesOn(h, label)
  \/ \E w \in Workers : Connect(w)
  \/ \E c \in Conns : Reads(c)
  \/ \E w \in Workers : /\ pc[w] = "mint" /\ MintPlan(about[w], now)
                        /\ pc' = [pc EXCEPT ![w] = "insert"]
                        /\ plan' = [plan EXCEPT ![w] = minted + 1]
                        /\ UNCHANGED <<about, at, then>>

LEMMA ThreadMoves == IInv /\ [Next]_vars => ThreadMove
<1>. SUFFICES ASSUME IInv, [Next]_vars
              PROVE  ThreadMove
  OBVIOUS
<1>0. TypeOK /\ \A h \in Threads : then[h] \in {"idle", "mint", "remove", "count"}
  BY DEF IInv, TypeOK, ThreadTypes
<1>1. CASE UNCHANGED vars \/ Tick
  BY <1>1 DEF vars, Tick, ThreadMove
<1>2. CASE Sweep
  BY <1>2 DEF Sweep, SweepSessions, SweepBegins, SweepEntry, SweepIndex, SweepEnds, ThreadMove
<1>3. ASSUME NEW h \in Threads, Get(h) \/ Expire(h)
      PROVE  ThreadMove
  <2>1. CASE Finish(h)
    BY <2>1 DEF ThreadMove
  <2>2. CASE pc[h] = "get" /\ Goto(h, "expire")
    <3>1. MovesOn(h, "expire") /\ "expire" \in Labels
      BY <2>2 DEF MovesOn, Labels
    <3>. QED
      BY <3>1 DEF ThreadMove
  <2>3. CASE pc[h] = "get" /\ Goto(h, then[h]) /\ then[h] # "idle"
    <3>1. PICK label \in {"mint", "remove", "count"} : label = then[h]
      BY <1>0, <2>3
    <3>2. MovesOn(h, label) /\ label \in Labels
      BY <2>3, <3>1 DEF MovesOn, Labels
    <3>. QED
      BY <3>2 DEF ThreadMove
  <2>. QED
    BY <1>3, <2>1, <2>2, <2>3 DEF Get, Expire
<1>4. ASSUME NEW h \in Threads, NEW s, NEW next \in {"idle", "remove", "count"}, Ask(h, s, next)
      PROVE  ThreadMove
  <2>1. Begins(h)
    BY <1>4 DEF Begins, Ask
  <2>. QED
    BY <2>1 DEF ThreadMove
<1>5. ASSUME NEW w \in Workers, Request(w) \/ Handle(w)
      PROVE  ThreadMove
  <2>0. w \in Threads
    BY DEF Threads
  <2>1. CASE Connect(w)
    BY <2>1 DEF ThreadMove
  <2>2. CASE UseSession(w) \/ Disconnect(w)
    BY <1>4, <2>0, <2>2 DEF UseSession, Disconnect
  <2>3. CASE Prepare(w)
    <3>1. Begins(w)
      BY <2>3 DEF Prepare, Begins, Ask
    <3>. QED
      BY <2>0, <3>1 DEF ThreadMove
  <2>4. CASE Create(w) \/ Insert(w) \/ Drop(w)
    BY <2>0, <2>4 DEF Create, Insert, Drop, ThreadMove
  <2>5. CASE Mint(w)
    BY <2>0, <2>5 DEF Mint, ThreadMove
  <2>6. CASE EndSession(w)
    <3>1. MovesOn(w, "drop") /\ "drop" \in Labels
      BY <2>6 DEF EndSession, MovesOn, Labels
    <3>. QED
      BY <2>0, <3>1 DEF ThreadMove
  <2>. QED
    BY <1>3, <1>5, <2>0, <2>1, <2>2, <2>3, <2>4, <2>5, <2>6 DEF Request, Handle
<1>6. ASSUME NEW c \in Conns, Hello(c) \/ Serve(c)
      PROVE  ThreadMove
  <2>0. c \in Threads
    BY DEF Threads
  <2>1. CASE Hello(c)
    BY <1>4, <2>0, <2>1 DEF Hello
  <2>2. CASE Reads(c)
    BY <2>2 DEF ThreadMove
  <2>3. CASE Finish(c)
    BY <2>0, <2>3 DEF ThreadMove
  <2>4. ASSUME NEW label \in {"ready", "unplan", "send"}, Goto(c, label),
               Count(c) \/ Fetch(c) \/ Piece(c),
               label = "ready" => pc[c] = "count" /\ CountConn(about[c], 1),
               label \in {"unplan", "send"} => pc[c] \in {"fetch", "send"},
               label = "send" => planSession[plan[c]] = about[c]
        PROVE  ThreadMove
    <3>1. pc[c] \notin {"idle", "create"}
      BY <2>4 DEF Count, Fetch, Piece
    <3>2. MovesOn(c, label) /\ label \in Labels
      BY <2>4, <3>1 DEF MovesOn, Labels
    <3>. QED
      BY <2>0, <3>2 DEF ThreadMove
  <2>5. CASE Count(c)
    BY <2>3, <2>4, <2>5 DEF Count
  <2>6. CASE Ready(c) \/ Unplan(c) \/ Refuse(c)
    BY <2>2, <2>3, <2>6 DEF Ready, Unplan, Refuse, Reads
  <2>7. CASE Fetch(c)
    BY <2>2, <2>3, <2>4, <2>7 DEF Fetch, Authorised, Reads
  <2>8. CASE Piece(c)
    <3>1. pc[c] = "send" /\ planSession[plan[c]] = about[c]
      BY <2>0, <2>8, ThreadFacts DEF Piece
    <3>. QED
      BY <2>2, <2>4, <2>8, <3>1 DEF Piece, Reads
  <2>9. CASE HangUp(c)
    BY <2>3, <2>9 DEF HangUp
  <2>. QED
    BY <1>3, <1>6, <2>0, <2>1, <2>2, <2>5, <2>6, <2>7, <2>8, <2>9 DEF Serve, Reads
<1>. QED
  BY <1>1, <1>2, <1>5, <1>6 DEF Next

\* A data connection that reads frames stays with its session, and has been
\* told of a plan when it comes to fetch one.
LEMMA ReadsFacts ==
  ASSUME IInv, NEW c \in Conns, Reads(c)
  PROVE  /\ c \in Threads /\ UNCHANGED <<about, then>>
         /\ pc[c] \in {"ready", "serve", "touch", "clock", "fetch", "unplan", "send"}
         /\ pc'[c] \in {"serve", "touch", "clock", "fetch"}
         /\ pc'[c] = "fetch" => plan'[c] \in issued
         /\ \A h \in Threads \ {c} : pc'[h] = pc[h] /\ plan'[h] = plan[h]
         /\ ThreadTypes'
<1>1. ThreadTypes /\ c \in Threads /\ now \in 0 .. MaxTime /\ 0 \in 0 .. MaxTime
      /\ issued \subseteq Tickets
  BY ServerAssumption DEF IInv, TypeOK, Threads
<1>2. PICK label \in {"serve", "touch", "clock", "fetch"}, t \in 0 .. MaxTime,
           p \in Tickets \cup {NoPlan} :
        /\ pc' = [pc EXCEPT ![c] = label]
        /\ at' = [at EXCEPT ![c] = t]
        /\ plan' = [plan EXCEPT ![c] = p]
        /\ label = "fetch" => p \in issued
        /\ UNCHANGED <<about, then>>
        /\ pc[c] \in {"ready", "serve", "touch", "clock", "fetch", "unplan", "send"}
  <2>1. plan = [plan EXCEPT ![c] = plan[c]] /\ plan[c] \in Tickets \cup {NoPlan}
    BY <1>1 DEF ThreadTypes
  <2>2. CASE Frame(c)
    BY <1>1, <2>1, <2>2 DEF Frame
  <2>3. CASE Touch(c)
    BY <1>1, <2>1, <2>3 DEF Touch
  <2>4. CASE ReadClock(c)
    BY <1>1, <2>4 DEF ReadClock
  <2>5. CASE pc[c] \in {"ready", "clock", "fetch", "unplan", "send"} /\ Resume(c)
    BY <1>1, <2>5 DEF Resume
  <2>. QED
    BY <2>2, <2>3, <2>4, <2>5 DEF Reads
<1>3. ThreadTypes'
  BY <1>1, <1>2 DEF ThreadTypes, Labels
<1>. QED
  BY <1>1, <1>2, <1>3 DEF ThreadTypes

---------------------------------------------------------------------------
(* IInv is inductive.                                                      *)

\* A connection that is counted out was counted in.
LEMMA OpenIsCounted ==
  ASSUME IInv, NEW s \in SessionIds, NEW c \in Open(s)
  PROVE  dataConns[s] \in Nat /\ dataConns[s] >= 1
<1>1. dataConns[s] \in Nat /\ Cardinality(Open(s)) <= dataConns[s]
  BY DEF IInv, TypeOK, SessionTypes, StreamsCapped
<1>2. IsFiniteSet(Open(s)) /\ Cardinality(Open(s)) \in Nat
  BY ThreadSets
<1>3. Cardinality(Open(s)) # 0
  BY <1>2, FS_EmptySet
<1>. QED
  BY <1>1, <1>2, <1>3

LEMMA SessionTypesStep ==
  ASSUME IInv, SessionMove
  PROVE  SessionTypes'
<1>0. SessionTypes
  BY DEF IInv, TypeOK
<1>1. CASE UNCHANGED sessionVars
  BY <1>0, <1>1 DEF SessionTypes, sessionVars
<1>2. ASSUME NEW s \in SessionIds \ created, NEW desired \in Desired, NEW a \in Nat,
             CreateSession(s, desired, a)
      PROVE  SessionTypes'
  BY <1>0, <1>2, GrantIsNatural DEF SessionTypes, CreateSession
<1>3. ASSUME NEW s \in SessionIds, NEW a \in Nat, TouchSession(s, a)
      PROVE  SessionTypes'
  BY <1>0, <1>3 DEF SessionTypes, TouchSession
<1>4. ASSUME NEW s \in SessionIds, RemoveSession(s)
      PROVE  SessionTypes'
  BY <1>0, <1>4 DEF SessionTypes, RemoveSession
<1>5. CASE SweepExpired(now)
  BY <1>0, <1>5 DEF SessionTypes, SweepExpired
<1>6. ASSUME NEW s \in SessionIds, CountConn(s, 1)
      PROVE  SessionTypes'
  BY <1>0, <1>6 DEF SessionTypes, CountConn
<1>7. ASSUME NEW s \in SessionIds, NEW c \in Open(s), CountConn(s, -1)
      PROVE  SessionTypes'
  <2>1. dataConns[s] - 1 \in Nat
    BY OpenIsCounted
  <2>2. dataConns' = [dataConns EXCEPT ![s] = dataConns[s] - 1]
    BY <1>7 DEF CountConn
  <2>. QED
    BY <1>0, <1>7, <2>1, <2>2 DEF SessionTypes, CountConn
<1>. QED
  BY <1>1, <1>2, <1>3, <1>4, <1>5, <1>6, <1>7 DEF SessionMove

\* A position of a list was used longest ago, and the first of those goes.
LEMMA OldestIsThere ==
  ASSUME PlanTypes, NEW q \in Seq(Present), Len(q) >= 1
  PROVE  /\ LeastRecentlyUsed(q) \in 1 .. Len(q)
         /\ \A j \in 1 .. Len(q) :
              lastUsed[entries[q[LeastRecentlyUsed(q)]]] <= lastUsed[entries[q[j]]]
<1>. DEFINE Used(i) == lastUsed[entries[q[i]]]
            First(i) == \A j \in 1 .. Len(q) : Used(i) < Used(j) \/ (Used(i) = Used(j) /\ i <= j)
<1>1. Len(q) \in Nat /\ DOMAIN q = 1 .. Len(q)
  OBVIOUS
<1>2. \A i \in 1 .. Len(q) : Used(i) \in Nat
  <2>1. \A id \in Present : entries[id] \in Tickets
    BY DEF PlanTypes, Present
  <2>2. \A p \in Tickets : lastUsed[p] \in Nat
    BY DEF PlanTypes
  <2>. QED
    BY <2>1, <2>2
<1>3. \E i \in 1 .. Len(q) : First(i)
  <2>. HIDE DEF Used
  <2>1. PICK m \in {Used(i) : i \in 1 .. Len(q)} : \A n \in {Used(i) : i \in 1 .. Len(q)} : m <= n
    <3>1. {Used(i) : i \in 1 .. Len(q)} \subseteq Nat /\ {Used(i) : i \in 1 .. Len(q)} # {}
      BY <1>1, <1>2
    <3>. QED
      BY <3>1, NatLeast
  <2>2. PICK k \in {i \in 1 .. Len(q) : Used(i) = m} :
               \A n \in {i \in 1 .. Len(q) : Used(i) = m} : k <= n
    <3>1. {i \in 1 .. Len(q) : Used(i) = m} \subseteq Nat /\ {i \in 1 .. Len(q) : Used(i) = m} # {}
      BY <1>1, <2>1
    <3>. QED
      BY <3>1, NatLeast
  <2>3. \A j \in 1 .. Len(q) : m <= Used(j) /\ (Used(j) = m => k <= j)
    BY <2>1, <2>2
  <2>4. k \in 1 .. Len(q) /\ Used(k) = m
    BY <2>2
  <2>5. First(k)
    BY <1>2, <2>3, <2>4
  <2>. QED
    BY <2>4, <2>5
<1>4. LeastRecentlyUsed(q) = CHOOSE i \in 1 .. Len(q) : First(i)
  BY <1>1 DEF LeastRecentlyUsed
<1>5. LeastRecentlyUsed(q) \in 1 .. Len(q) /\ First(LeastRecentlyUsed(q))
  <2>. HIDE DEF First
  <2>. QED
    BY <1>3, <1>4
<1>. QED
  BY <1>2, <1>5

\* What is left of a session's list when a plan is inserted, before the plan is
\* added: all that is present, or all but the one that was used longest ago.
Making(s, p, ids, q) ==
  /\ bySession' = [bySession EXCEPT ![s] = Append(q, planId[p])]
  /\ \/ /\ Len(ids) < MaxTransfers /\ q = ids
        /\ entries' = [entries EXCEPT ![planId[p]] = p]
     \/ \E old \in Range(ids) :
          /\ Len(ids) >= MaxTransfers /\ Len(q) = Len(ids) - 1
          /\ IsInjective(ids) => IsInjective(q) /\ Range(q) = Range(ids) \ {old}
          /\ entries' = [entries EXCEPT ![old] = NoPlan, ![planId[p]] = p]
          /\ \A other \in Range(ids) : lastUsed[entries[old]] <= lastUsed[entries[other]]

LEMMA InsertFacts ==
  ASSUME PlanTypes, NEW p \in Tickets, planSession[p] \in SessionIds, InsertPlan(p)
  PROVE  \E ids, q \in Seq(Ids) :
           /\ Len(ids) <= Len(bySession[planSession[p]])
           /\ Range(ids) = Range(bySession[planSession[p]]) \cap Present
           /\ IsInjective(bySession[planSession[p]]) => IsInjective(ids)
           /\ Making(planSession[p], p, ids, q)
<1>. DEFINE s == planSession[p]
            b == bySession[s]
            ids == Retain(b, Present)
            i == LeastRecentlyUsed(ids)
<1>1. b \in Seq(Ids)
  BY DEF PlanTypes
<1>. HIDE DEF b
<1>2. /\ ids \in Seq(Ids) /\ Len(ids) <= Len(b) /\ Range(ids) = Range(b) \cap Present
      /\ IsInjective(b) => IsInjective(ids)
  BY <1>1, RetainFacts
<1>3. CASE ~Full(ids)
  <2>1. Making(s, p, ids, ids)
    <3>1. Len(ids) < MaxTransfers
      BY <1>2, <1>3, PlanAssumption DEF Full
    <3>2. bySession' = [bySession EXCEPT ![s] = Append(ids, planId[p])]
          /\ entries' = [entries EXCEPT ![planId[p]] = p]
      BY <1>3 DEF InsertPlan, b
    <3>. HIDE DEF ids, s
    <3>. QED
      BY <3>1, <3>2 DEF Making
  <2>. HIDE DEF ids
  <2>. QED
    BY <1>2, <2>1 DEF b
<1>4. CASE Full(ids)
  <2>1. Len(ids) >= MaxTransfers /\ Len(ids) >= 1
    BY <1>2, <1>4, PlanAssumption DEF Full
  <2>2. bySession' = [bySession EXCEPT ![s] = Append(SwapRemove(ids, i), planId[p])]
        /\ entries' = [entries EXCEPT ![ids[i]] = NoPlan, ![planId[p]] = p]
    BY <1>4 DEF InsertPlan, b
  <2>. HIDE DEF ids, s
  <2>3. DOMAIN ids = 1 .. Len(ids) /\ Range(ids) = {ids[j] : j \in 1 .. Len(ids)}
    BY <1>2 DEF Range
  <2>4. ids \in Seq(Present)
    <3>1. \A j \in 1 .. Len(ids) : ids[j] \in Present
      BY <1>2, <2>3
    <3>. QED
      BY <1>2, <3>1
  <2>5. i \in 1 .. Len(ids)
        /\ \A j \in 1 .. Len(ids) : lastUsed[entries[ids[i]]] <= lastUsed[entries[ids[j]]]
    BY <2>1, <2>4, OldestIsThere
  <2>. HIDE DEF i
  <2>6. /\ SwapRemove(ids, i) \in Seq(Ids) /\ Len(SwapRemove(ids, i)) = Len(ids) - 1
        /\ IsInjective(ids) => /\ IsInjective(SwapRemove(ids, i))
                               /\ Range(SwapRemove(ids, i)) = Range(ids) \ {ids[i]}
    BY <1>2, <2>5, SwapRemoveFacts
  <2>7. ids[i] \in Range(ids)
        /\ \A other \in Range(ids) : lastUsed[entries[ids[i]]] <= lastUsed[entries[other]]
    BY <2>3, <2>5
  <2>8. Making(s, p, ids, SwapRemove(ids, i))
    BY <2>1, <2>2, <2>6, <2>7 DEF Making
  <2>. QED
    BY <1>2, <2>6, <2>8 DEF b, s
<1>. QED
  BY <1>3, <1>4

LEMMA PlanTypesStep ==
  ASSUME IInv, PlanMove
  PROVE  PlanTypes'
<1>0. PlanTypes /\ MaxPlans \in Nat
  BY PlanAssumption DEF IInv, TypeOK
<1>1. CASE UNCHANGED planVars
  BY <1>0, <1>1 DEF PlanTypes, planVars
<1>2. ASSUME NEW w \in Workers, pc[w] = "mint", SkipId \/ MintPlan(about[w], now)
      PROVE  PlanTypes'
  <2>1. w \in Threads /\ about[w] \in SessionIds /\ now \in Nat
    BY <1>2, ThreadFacts DEF Threads
  <2>2. minted + 1 \in Tickets /\ minted + 1 \in 0 .. MaxPlans
    BY <1>0, <1>2, MintLeft DEF PlanTypes
  <2>3. RequestId \in Ids /\ (RequestId + 1) % IdModulus \in Ids
    BY <1>0, NextIds DEF PlanTypes
  <2>. QED
    BY <1>0, <1>2, <2>1, <2>2, <2>3 DEF PlanTypes, SkipId, MintPlan
<1>3. ASSUME NEW w \in Workers, pc[w] = "insert", InsertPlan(plan[w])
      PROVE  PlanTypes'
  <2>. DEFINE p == plan[w]
  <2>1. p \in Tickets /\ planSession[p] \in SessionIds /\ planId[p] \in Ids
    BY <1>3, ThreadFacts DEF Threads
  <2>. HIDE DEF p
  <2>2. PICK ids, q \in Seq(Ids) :
          /\ Range(ids) = Range(bySession[planSession[p]]) \cap Present
          /\ Making(planSession[p], p, ids, q)
    BY <1>0, <1>3, <2>1, InsertFacts DEF p
  <2>3. Append(q, planId[p]) \in Seq(Ids)
    BY <2>1, <2>2
  <2>4. \A old \in Range(ids) : old \in Ids
    BY <2>2 DEF Present
  <2>5. bySession' \in [SessionIds -> Seq(Ids)]
    BY <1>0, <2>1, <2>2, <2>3 DEF PlanTypes, Making
  <2>6. entries' \in [Ids -> Tickets \cup {NoPlan}]
    BY <1>0, <2>1, <2>2, <2>4 DEF PlanTypes, Making
  <2>. QED
    BY <1>0, <1>3, <2>5, <2>6 DEF PlanTypes, InsertPlan
<1>4. ASSUME NEW p \in Tickets, NEW a \in Nat, TouchPlan(p, a)
      PROVE  PlanTypes'
  BY <1>0, <1>4 DEF PlanTypes, TouchPlan
<1>5. ASSUME NEW id \in Ids, RemovePlan(id)
      PROVE  PlanTypes'
  <2>1. entries' \in [Ids -> Tickets \cup {NoPlan}]
    BY <1>0, <1>5 DEF PlanTypes, RemovePlan
  <2>2. bySession' \in [SessionIds -> Seq(Ids)]
    <3>1. CASE entries[id] = NoPlan
      BY <1>0, <1>5, <3>1 DEF PlanTypes, RemovePlan
    <3>2. CASE entries[id] # NoPlan
      <4>. DEFINE s == planSession[entries[id]]
                  b == bySession[s]
      <4>1. s \in SessionIds
        BY <3>2 DEF IInv, Registry, Present, TypeOK, SessionTypes
      <4>2. bySession' = [bySession EXCEPT ![s] = Retain(b, Ids \ {id})]
        BY <1>5, <3>2 DEF RemovePlan
      <4>. HIDE DEF s
      <4>3. b \in Seq(Ids)
        BY <1>0, <4>1 DEF PlanTypes
      <4>. HIDE DEF b
      <4>4. Retain(b, Ids \ {id}) \in Seq(Ids)
        BY <4>3, RetainFacts
      <4>. QED
        BY <1>0, <4>2, <4>4 DEF PlanTypes
    <3>. QED
      BY <3>1, <3>2
  <2>. QED
    BY <1>0, <1>5, <2>1, <2>2 DEF PlanTypes, RemovePlan
<1>6. ASSUME NEW s \in SessionIds, DropSession(s)
      PROVE  PlanTypes'
  BY <1>0, <1>6 DEF PlanTypes, DropSession
<1>7. ASSUME NEW id \in Ids, SweepPlan(id, sweptAt, planSession[entries[id]] \in sessions)
      PROVE  PlanTypes'
  BY <1>0, <1>7 DEF PlanTypes, SweepPlan
<1>8. ASSUME NEW s \in SessionIds, SweepList(s, s \in sessions)
      PROVE  PlanTypes'
  <2>. DEFINE b == bySession[s]
  <2>1. b \in Seq(Ids)
    BY <1>0 DEF PlanTypes
  <2>2. bySession' = [bySession EXCEPT ![s] = IF s \in sessions THEN Retain(b, Present) ELSE << >>]
    BY <1>8 DEF SweepList
  <2>. HIDE DEF b
  <2>3. Retain(b, Present) \in Seq(Ids)
    BY <2>1, RetainFacts
  <2>4. bySession' \in [SessionIds -> Seq(Ids)]
    BY <1>0, <2>2, <2>3 DEF PlanTypes
  <2>. QED
    BY <1>0, <1>8, <2>4 DEF PlanTypes, SweepList
<1>9. todoIds \subseteq Ids /\ todoLists \subseteq SessionIds
  BY DEF IInv, TypeOK, SweepTypes
<1>. QED
  BY <1>1, <1>2, <1>3, <1>4, <1>5, <1>6, <1>7, <1>8, <1>9 DEF PlanMove

LEMMA ThreadTypesStep ==
  ASSUME IInv, ThreadMove
  PROVE  ThreadTypes'
<1>0. ThreadTypes /\ now \in 0 .. MaxTime /\ 0 \in 0 .. MaxTime /\ created \subseteq SessionIds
      /\ issued \subseteq Tickets
  BY ServerAssumption DEF IInv, TypeOK, SessionTypes
<1>1. CASE UNCHANGED threadVars
  BY <1>0, <1>1 DEF ThreadTypes, threadVars
<1>2. ASSUME NEW h \in Threads, Finish(h)
      PROVE  ThreadTypes'
  BY <1>0, <1>2 DEF ThreadTypes, Finish, Labels
<1>3. ASSUME NEW h \in Threads, Begins(h)
      PROVE  ThreadTypes'
  BY <1>0, <1>3 DEF ThreadTypes, Begins, Ask, Labels
<1>4. ASSUME NEW h \in Threads, NEW label \in Labels, MovesOn(h, label)
      PROVE  ThreadTypes'
  BY <1>0, <1>4 DEF ThreadTypes, MovesOn, Goto
<1>5. ASSUME NEW w \in Workers, Connect(w)
      PROVE  ThreadTypes'
  BY <1>0, <1>5 DEF ThreadTypes, Connect, Labels
<1>6. ASSUME NEW c \in Conns, Reads(c)
      PROVE  ThreadTypes'
  BY <1>6, ReadsFacts
<1>8. ASSUME NEW w \in Workers, pc[w] = "mint", pc' = [pc EXCEPT ![w] = "insert"],
             plan' = [plan EXCEPT ![w] = minted + 1], UNCHANGED <<about, at, then>>
      PROVE  ThreadTypes'
  <2>1. minted + 1 \in Tickets
    BY <1>8, MintLeft
  <2>. QED
    BY <1>0, <1>8, <2>1 DEF ThreadTypes, Labels
<1>. QED
  BY <1>1, <1>2, <1>3, <1>4, <1>5, <1>6, <1>8 DEF ThreadMove

\* Sessions are never forgotten, nor are plans, and a plan stays one of its
\* session under its request id.
LEMMA Monotone ==
  ASSUME IInv, SessionMove, PlanMove
  PROVE  /\ created \subseteq created' /\ minted \in Nat /\ minted' \in Nat /\ minted <= minted'
         /\ \A p \in 1 .. minted : planSession'[p] = planSession[p] /\ planId'[p] = planId[p]
<1>0. TypeOK /\ minted \in Nat /\ MaxPlans \in Nat
  BY PlanAssumption DEF IInv, TypeOK, PlanTypes
<1>1. created \subseteq created'
  BY DEF SessionMove, sessionVars, CreateSession, TouchSession, RemoveSession, SweepExpired,
         CountConn
<1>2. CASE UNCHANGED <<minted, planSession, planId>>
  BY <1>0, <1>1, <1>2
<1>3. CASE UNCHANGED <<planSession, planId>> /\ minted' = minted + 1
  BY <1>0, <1>1, <1>3
<1>4. ASSUME NEW w \in Workers, MintPlan(about[w], now)
      PROVE  /\ minted' = minted + 1
             /\ \A p \in 1 .. minted : planSession'[p] = planSession[p] /\ planId'[p] = planId[p]
  <2>1. planId \in [Tickets -> Ids] /\ DOMAIN planSession = Tickets
    BY <1>0 DEF TypeOK, PlanTypes
  <2>2. \A p \in 1 .. minted : p \in Tickets /\ p # minted + 1
    BY <1>0 DEF Tickets, TypeOK, PlanTypes
  <2>. QED
    BY <1>4, <2>1, <2>2 DEF MintPlan
<1>5. \/ UNCHANGED <<minted, planSession, planId>>
      \/ UNCHANGED <<planSession, planId>> /\ minted' = minted + 1
      \/ \E w \in Workers : MintPlan(about[w], now)
  <2>1. CASE UNCHANGED planVars \/ \E w \in Workers : InsertPlan(plan[w])
    BY <2>1 DEF planVars, InsertPlan
  <2>2. CASE \E w \in Workers : SkipId
    BY <2>2 DEF SkipId
  <2>3. CASE \E w \in Workers : MintPlan(about[w], now)
    BY <2>3
  <2>4. CASE \/ \E p \in Tickets, a \in Nat : TouchPlan(p, a)
             \/ \E id \in Ids : RemovePlan(id)
             \/ \E s \in SessionIds : DropSession(s)
    BY <2>4 DEF TouchPlan, RemovePlan, DropSession
  <2>5. CASE \/ \E id \in todoIds : SweepPlan(id, sweptAt, planSession[entries[id]] \in sessions)
             \/ \E s \in todoLists : SweepList(s, s \in sessions)
    BY <2>5 DEF SweepPlan, SweepList
  <2>. QED
    BY <2>1, <2>2, <2>3, <2>4, <2>5 DEF PlanMove
<1>. QED
  BY <1>0, <1>1, <1>2, <1>3, <1>4, <1>5

LEMMA ServingStep ==
  ASSUME IInv, SessionMove, PlanMove, ThreadMove
  PROVE  \A h \in Threads : Serving(h)'
<1>. DEFINE Planned == {"insert", "fetch", "unplan", "send"}
<1>0. /\ ThreadTypes /\ minted \in Nat
      /\ \A h \in Threads : Serving(h)
      /\ issued \subseteq 1 .. minted
  BY DEF IInv, TypeOK, PlanTypes, Registry
<1>1. /\ created \subseteq created' /\ minted' \in Nat
      /\ \A p \in 1 .. minted : p \in 1 .. minted'
      /\ \A p \in 1 .. minted : planSession'[p] = planSession[p]
  BY Monotone
<1>2. ASSUME NEW h \in Threads, pc'[h] = pc[h], about'[h] = about[h], then'[h] = then[h],
             plan'[h] = plan[h]
      PROVE  Serving(h)'
  BY <1>0, <1>1, <1>2 DEF Serving
<1>3. CASE UNCHANGED threadVars
  BY <1>2, <1>3 DEF threadVars
<1>4. ASSUME NEW k \in Threads, Finish(k)
      PROVE  \A h \in Threads : Serving(h)'
  <2>. TAKE h \in Threads
  <2>1. CASE h = k
    BY <1>0, <1>4, <2>1 DEF Finish, ThreadTypes, Serving
  <2>2. CASE h # k
    BY <1>0, <1>2, <1>4, <2>2 DEF Finish, ThreadTypes
  <2>. QED
    BY <2>1, <2>2
<1>5. ASSUME NEW k \in Threads, Begins(k)
      PROVE  \A h \in Threads : Serving(h)'
  <2>. TAKE h \in Threads
  <2>1. CASE h = k
    <3>1. pc'[k] = "get" /\ about'[k] \in created'
      BY <1>0, <1>1, <1>5 DEF Begins, Ask, ThreadTypes
    <3>. QED
      BY <2>1, <3>1 DEF Serving
  <2>2. CASE h # k
    BY <1>0, <1>2, <1>5, <2>2 DEF Begins, Ask, ThreadTypes
  <2>. QED
    BY <2>1, <2>2
<1>6. ASSUME NEW k \in Threads, NEW label \in Labels, MovesOn(k, label)
      PROVE  \A h \in Threads : Serving(h)'
  <2>. TAKE h \in Threads
  <2>1. CASE h = k
    <3>1. pc'[k] = label /\ about'[k] = about[k] /\ then'[k] = then[k] /\ plan'[k] = plan[k]
      BY <1>0, <1>6 DEF MovesOn, Goto, ThreadTypes
    <3>2. about'[k] \in created'
      BY <1>0, <1>1, <1>6, <3>1 DEF MovesOn, Serving
    <3>3. label = "mint" => then'[k] = "mint"
      BY <1>6, <3>1 DEF MovesOn
    <3>4. /\ label \in Planned => plan'[k] \in 1 .. minted'
          /\ label \in {"insert", "send"} => planSession'[plan'[k]] = about'[k]
      BY <1>0, <1>1, <1>6, <3>1 DEF MovesOn, Serving
    <3>. QED
      BY <2>1, <3>1, <3>2, <3>3, <3>4 DEF Serving
  <2>2. CASE h # k
    BY <1>0, <1>2, <1>6, <2>2 DEF MovesOn, Goto, ThreadTypes
  <2>. QED
    BY <2>1, <2>2
<1>7. ASSUME NEW w \in Workers, Connect(w)
      PROVE  \A h \in Threads : Serving(h)'
  <2>. TAKE h \in Threads
  <2>1. CASE h = w
    BY <1>0, <1>7, <2>1 DEF Connect, ThreadTypes, Serving
  <2>2. CASE h # w
    BY <1>0, <1>2, <1>7, <2>2 DEF Connect, ThreadTypes
  <2>. QED
    BY <2>1, <2>2
<1>8. ASSUME NEW c \in Conns, Reads(c)
      PROVE  \A h \in Threads : Serving(h)'
  <2>. TAKE h \in Threads
  <2>0. UNCHANGED <<about, then>>
    BY <1>8, ReadsFacts
  <2>1. CASE h = c
    <3>1. /\ pc[c] \in {"ready", "serve", "touch", "clock", "fetch", "unplan", "send"}
          /\ pc'[c] \in {"serve", "touch", "clock", "fetch"}
          /\ pc'[c] = "fetch" => plan'[c] \in 1 .. minted'
          /\ c \in Threads
      BY <1>0, <1>1, <1>8, ReadsFacts
    <3>2. about[c] \in created'
      BY <1>0, <1>1, <3>1 DEF Serving
    <3>. QED
      BY <2>0, <2>1, <3>1, <3>2 DEF Serving
  <2>2. CASE h # c
    <3>1. pc'[h] = pc[h] /\ plan'[h] = plan[h]
      BY <1>8, <2>2, ReadsFacts
    <3>. QED
      BY <1>2, <2>0, <3>1
  <2>. QED
    BY <2>1, <2>2
<1>10. ASSUME NEW w \in Workers, pc[w] = "mint", MintPlan(about[w], now),
              pc' = [pc EXCEPT ![w] = "insert"], plan' = [plan EXCEPT ![w] = minted + 1],
              UNCHANGED <<about, at, then>>
       PROVE  \A h \in Threads : Serving(h)'
  <2>. TAKE h \in Threads
  <2>1. CASE h = w
    <3>1. pc'[w] = "insert" /\ about'[w] = about[w] /\ plan'[w] = minted + 1
      BY <1>0, <1>10, <2>1 DEF ThreadTypes
    <3>2. minted + 1 \in 1 .. minted' /\ planSession'[minted + 1] = about[w]
      <4>1. minted + 1 \in Tickets /\ DOMAIN planSession = Tickets
        BY <1>10, MintLeft DEF IInv, TypeOK, PlanTypes
      <4>. QED
        BY <1>0, <1>10, <4>1 DEF MintPlan
    <3>3. about[w] \in created'
      BY <1>0, <1>1, <1>10, <2>1 DEF Serving
    <3>. QED
      BY <2>1, <3>1, <3>2, <3>3 DEF Serving
  <2>2. CASE h # w
    BY <1>0, <1>2, <1>10, <2>2 DEF ThreadTypes
  <2>. QED
    BY <2>1, <2>2
<1>. QED
  BY <1>3, <1>4, <1>5, <1>6, <1>7, <1>8, <1>10 DEF ThreadMove

\* Handlers that may draw a request id were counted as such, but for one that
\* begins to prepare, while there are ids to be had.
LEMMA MintingMoves ==
  ASSUME IInv, ThreadMove
  PROVE  \/ Minting' \subseteq Minting
         \/ /\ minted' = minted /\ minted + Cardinality(Minting) < MaxPlans
            /\ \E w \in Workers : Minting' \subseteq Minting \cup {w}
<1>0. ThreadTypes /\ \A w \in Workers : w \in Threads
  BY DEF IInv, TypeOK, Threads
<1>1. ASSUME NEW h \in Threads, pc'[h] \notin {"get", "mint"},
             \A k \in Threads \ {h} : pc'[k] = pc[k] /\ then'[k] = then[k]
      PROVE  Minting' \subseteq Minting
  BY <1>0, <1>1 DEF Minting
<1>2. CASE UNCHANGED threadVars
  BY <1>2 DEF threadVars, Minting
<1>3. ASSUME NEW h \in Threads, Finish(h)
      PROVE  Minting' \subseteq Minting
  BY <1>0, <1>1, <1>3 DEF Finish, ThreadTypes
<1>4. ASSUME NEW h \in Threads, NEW s, NEW next, Ask(h, s, next), next # "mint"
      PROVE  Minting' \subseteq Minting
  <2>1. /\ then'[h] # "mint"
        /\ \A k \in Threads \ {h} : pc'[k] = pc[k] /\ then'[k] = then[k]
    BY <1>0, <1>4 DEF Ask, ThreadTypes
  <2>. QED
    BY <1>0, <2>1 DEF Minting
<1>5. ASSUME NEW w \in Workers, NEW s, Ask(w, s, "mint"), minted + Cardinality(Minting) < MaxPlans
      PROVE  /\ minted' = minted /\ minted + Cardinality(Minting) < MaxPlans
             /\ \E v \in Workers : Minting' \subseteq Minting \cup {v}
  <2>1. \A k \in Threads \ {w} : pc'[k] = pc[k] /\ then'[k] = then[k]
    BY <1>0, <1>5 DEF Ask, ThreadTypes
  <2>2. Minting' \subseteq Minting \cup {w}
    BY <1>0, <2>1 DEF Minting
  <2>3. minted' = minted
    BY <1>5 DEF Ask, planVars
  <2>. QED
    BY <1>5, <2>2, <2>3
<1>6. ASSUME NEW h \in Threads, NEW label \in Labels, MovesOn(h, label)
      PROVE  Minting' \subseteq Minting
  <2>1. /\ pc'[h] = label /\ then'[h] = then[h]
        /\ \A k \in Threads \ {h} : pc'[k] = pc[k] /\ then'[k] = then[k]
    BY <1>0, <1>6 DEF MovesOn, Goto, ThreadTypes
  <2>2. CASE label = "mint"
    <3>1. pc[h] = "get" /\ then[h] = "mint"
      BY <1>6, <2>2 DEF MovesOn
    <3>. QED
      BY <1>0, <2>1, <3>1 DEF Minting
  <2>3. CASE label # "mint"
    <3>1. label \notin {"get", "mint"}
      BY <1>6, <2>3 DEF MovesOn
    <3>. QED
      BY <1>1, <2>1, <3>1
  <2>. QED
    BY <2>2, <2>3
<1>7. ASSUME NEW w \in Workers, Connect(w)
      PROVE  Minting' \subseteq Minting
  BY <1>0, <1>1, <1>7 DEF Connect, ThreadTypes
<1>8. ASSUME NEW c \in Conns, Reads(c)
      PROVE  Minting' \subseteq Minting
  BY <1>1, <1>8, ReadsFacts
<1>9. ASSUME NEW w \in Workers, pc' = [pc EXCEPT ![w] = "insert"], UNCHANGED <<about, at, then>>
      PROVE  Minting' \subseteq Minting
  BY <1>0, <1>1, <1>9 DEF ThreadTypes
<1>10. ASSUME NEW h \in Threads, Begins(h)
       PROVE  \/ Minting' \subseteq Minting
              \/ /\ minted' = minted /\ minted + Cardinality(Minting) < MaxPlans
                 /\ \E w \in Workers : Minting' \subseteq Minting \cup {w}
  BY <1>4, <1>5, <1>10 DEF Begins
<1>. QED
  BY <1>2, <1>3, <1>6, <1>7, <1>8, <1>9, <1>10 DEF ThreadMove

\* Every handler that may draw a request id will find one.
LEMMA MintingStep ==
  ASSUME IInv, PlanMove, ThreadMove
  PROVE  minted' + Cardinality(Minting') <= MaxPlans
<1>0. /\ minted \in Nat /\ MaxPlans \in Nat /\ ThreadTypes
      /\ minted + Cardinality(Minting) <= MaxPlans
      /\ IsFiniteSet(Minting) /\ Cardinality(Minting) \in Nat
  <2>1. IsFiniteSet(Minting) /\ Cardinality(Minting) \in Nat
    BY ThreadSets
  <2>. QED
    BY <2>1, PlanAssumption DEF IInv, TypeOK, PlanTypes, Registry
<1>1. CASE Minting' \subseteq Minting /\ minted' = minted
  <2>1. Minting' \in SUBSET Minting
    BY <1>1
  <2>2. Cardinality(Minting') <= Cardinality(Minting) /\ Cardinality(Minting') \in Nat
    BY <1>0, <2>1, FS_Subset, FS_CardinalityType
  <2>. QED
    BY <1>0, <1>1, <2>2
<1>2. ASSUME NEW w \in Workers, Minting' \subseteq Minting \cup {w}, minted' = minted,
             minted + Cardinality(Minting) < MaxPlans
      PROVE  minted' + Cardinality(Minting') <= MaxPlans
  <2>1. /\ IsFiniteSet(Minting \cup {w})
        /\ Cardinality(Minting \cup {w}) = Cardinality(Minting)
             \/ Cardinality(Minting \cup {w}) = Cardinality(Minting) + 1
    BY <1>0, FS_AddElement
  <2>2. Minting' \in SUBSET (Minting \cup {w})
    BY <1>2
  <2>3. Cardinality(Minting') <= Cardinality(Minting \cup {w}) /\ Cardinality(Minting') \in Nat
    BY <2>1, <2>2, FS_Subset, FS_CardinalityType
  <2>. QED
    BY <1>0, <1>2, <2>1, <2>3
<1>3. ASSUME NEW w \in Workers, pc[w] = "mint", pc'[w] \notin {"get", "mint"}, minted' = minted + 1
      PROVE  minted' + Cardinality(Minting') <= MaxPlans
  <2>1. w \in Minting /\ w \notin Minting'
    BY <1>3, MintLeft DEF Minting
  <2>2. Minting' \subseteq Minting
    BY <1>0, <1>3, MintingMoves
  <2>3. Minting' \in SUBSET (Minting \ {w})
    BY <2>1, <2>2
  <2>4. IsFiniteSet(Minting \ {w}) /\ Cardinality(Minting \ {w}) = Cardinality(Minting) - 1
    BY <1>0, <2>1, FS_RemoveElement
  <2>5. Cardinality(Minting') <= Cardinality(Minting \ {w}) /\ Cardinality(Minting') \in Nat
    BY <2>3, <2>4, FS_Subset, FS_CardinalityType
  <2>. QED
    BY <1>0, <1>3, <2>4, <2>5
<1>4. \/ minted' = minted
      \/ \E w \in Workers : pc[w] = "mint" /\ pc'[w] \notin {"get", "mint"} /\ minted' = minted + 1
  <2>1. \A w \in Workers : w \in Threads
    BY DEF Threads
  <2>2. CASE UNCHANGED planVars \/ \E w \in Workers : InsertPlan(plan[w])
    BY <2>2 DEF planVars, InsertPlan
  <2>3. ASSUME NEW w \in Workers, pc[w] = "mint", Finish(w), SkipId
        PROVE  \E v \in Workers : pc[v] = "mint" /\ pc'[v] \notin {"get", "mint"} /\ minted' = minted + 1
    BY <1>0, <2>1, <2>3 DEF SkipId, Finish, ThreadTypes
  <2>4. ASSUME NEW w \in Workers, pc[w] = "mint", MintPlan(about[w], now),
               pc' = [pc EXCEPT ![w] = "insert"]
        PROVE  \E v \in Workers : pc[v] = "mint" /\ pc'[v] \notin {"get", "mint"} /\ minted' = minted + 1
    BY <1>0, <2>1, <2>4 DEF MintPlan, ThreadTypes
  <2>5. CASE \/ \E p \in Tickets, a \in Nat : TouchPlan(p, a)
             \/ \E id \in Ids : RemovePlan(id)
             \/ \E s \in SessionIds : DropSession(s)
    BY <2>5 DEF TouchPlan, RemovePlan, DropSession
  <2>6. CASE \/ \E id \in todoIds : SweepPlan(id, sweptAt, planSession[entries[id]] \in sessions)
             \/ \E s \in todoLists : SweepList(s, s \in sessions)
    BY <2>6 DEF SweepPlan, SweepList
  <2>. QED
    BY <2>2, <2>3, <2>4, <2>5, <2>6 DEF PlanMove
<1>. QED
  BY <1>1, <1>2, <1>3, <1>4, MintingMoves

\* What is registered stays in place, but for one plan that is inserted.
LEMMA EntriesMove ==
  ASSUME IInv, PlanMove
  PROVE  \A id \in Ids : \/ entries'[id] = entries[id]
                         \/ entries'[id] = NoPlan
                         \/ \E w \in Workers : /\ pc[w] = "insert" /\ id = planId[plan[w]]
                                               /\ entries'[id] = plan[w]
<1>0. PlanTypes /\ todoIds \subseteq Ids
  BY DEF IInv, TypeOK, SweepTypes
<1>. TAKE id \in Ids
<1>1. CASE UNCHANGED planVars \/ \E w \in Workers : SkipId \/ MintPlan(about[w], now)
  BY <1>1 DEF planVars, SkipId, MintPlan
<1>2. ASSUME NEW w \in Workers, pc[w] = "insert", InsertPlan(plan[w])
      PROVE  entries'[id] = entries[id] \/ entries'[id] = NoPlan
               \/ (id = planId[plan[w]] /\ entries'[id] = plan[w])
  <2>. DEFINE p == plan[w]
  <2>1. p \in Tickets /\ planSession[p] \in SessionIds /\ planId[p] \in Ids
    BY <1>2, ThreadFacts DEF Threads
  <2>. HIDE DEF p
  <2>2. PICK ids, q \in Seq(Ids) : Making(planSession[p], p, ids, q)
    BY <1>0, <1>2, <2>1, InsertFacts DEF p
  <2>3. entries' = [entries EXCEPT ![planId[p]] = p]
          \/ \E old : entries' = [entries EXCEPT ![old] = NoPlan, ![planId[p]] = p]
    BY <2>2 DEF Making
  <2>. QED
    BY <1>0, <2>1, <2>3 DEF PlanTypes, p
<1>3. CASE \E p \in Tickets, a \in Nat : TouchPlan(p, a)
  BY <1>3 DEF TouchPlan
<1>4. CASE \E x \in Ids : RemovePlan(x)
  BY <1>0, <1>4 DEF RemovePlan, PlanTypes
<1>5. CASE \E s \in SessionIds : DropSession(s)
  BY <1>0, <1>5 DEF DropSession, PlanTypes
<1>6. CASE \E x \in todoIds : SweepPlan(x, sweptAt, planSession[entries[x]] \in sessions)
  BY <1>0, <1>6 DEF SweepPlan, PlanTypes
<1>7. CASE \E s \in todoLists : SweepList(s, s \in sessions)
  BY <1>7 DEF SweepList
<1>. QED
  BY <1>1, <1>2, <1>3, <1>4, <1>5, <1>6, <1>7 DEF PlanMove

\* Plans are told of when they are inserted.
LEMMA IssuedMove ==
  ASSUME IInv, [Next]_vars
  PROVE  issued' \subseteq 1 .. minted
<1>0. issued \subseteq 1 .. minted
  BY DEF IInv, Registry
<1>1. ASSUME NEW w \in Workers, Insert(w)
      PROVE  issued' \subseteq 1 .. minted
  <2>1. plan[w] \in 1 .. minted
    BY <1>1, ThreadFacts DEF Insert, Threads
  <2>. QED
    BY <1>0, <1>1, <2>1 DEF Insert
<1>2. CASE UNCHANGED issued
  BY <1>0, <1>2
<1>3. UNCHANGED issued \/ \E w \in Workers : Insert(w)
  <2>1. CASE Tick \/ UNCHANGED vars
    BY <2>1 DEF Tick, vars
  <2>2. CASE Sweep
    BY <2>2 DEF Sweep, SweepSessions, SweepBegins, SweepEntry, SweepIndex, SweepEnds
  <2>3. ASSUME NEW h, NEW s, NEW next, Ask(h, s, next)
        PROVE  UNCHANGED issued
    BY <2>3 DEF Ask
  <2>4. ASSUME NEW h, Get(h) \/ Expire(h)
        PROVE  UNCHANGED issued
    BY <2>4 DEF Get, Expire
  <2>5. ASSUME NEW w \in Workers, Request(w)
        PROVE  UNCHANGED issued
    BY <2>3, <2>5 DEF Request, Connect, UseSession, Prepare, Disconnect
  <2>6. ASSUME NEW w \in Workers, Handle(w)
        PROVE  UNCHANGED issued \/ Insert(w)
    BY <2>4, <2>6 DEF Handle, Create, Mint, EndSession, Drop
  <2>7. ASSUME NEW c \in Conns, Hello(c) \/ Serve(c)
        PROVE  UNCHANGED issued
    BY <2>3, <2>4, <2>7 DEF Hello, Serve, Count, Ready, Frame, Touch, ReadClock, Fetch, Unplan, Piece,
                            Refuse, HangUp
  <2>. QED
    BY <2>1, <2>2, <2>5, <2>6, <2>7 DEF Next
<1>. QED
  BY <1>1, <1>2, <1>3

LEMMA RegistryStep ==
  ASSUME IInv, [Next]_vars, SessionMove, PlanMove, ThreadMove
  PROVE  Registry'
<1>0. PlanTypes /\ PlanTypes' /\ created \subseteq created'
  BY PlanTypesStep, Monotone DEF IInv, TypeOK
<1>1. \A p \in 1 .. minted : /\ p \in 1 .. minted' /\ planSession'[p] = planSession[p]
                             /\ planId'[p] = planId[p]
  BY Monotone
<1>2. issued' \subseteq 1 .. minted'
  BY <1>1, IssuedMove
<1>3. ASSUME NEW id \in Present'
      PROVE  /\ entries'[id] \in 1 .. minted' /\ planId'[entries'[id]] = id
             /\ planSession'[entries'[id]] \in created'
  <2>0. id \in Ids /\ entries'[id] # NoPlan
    BY <1>3 DEF Present
  <2>1. CASE entries'[id] = entries[id]
    <3>1. id \in Present
      BY <2>0, <2>1 DEF Present
    <3>2. /\ entries[id] \in 1 .. minted /\ planId[entries[id]] = id
          /\ planSession[entries[id]] \in created
      BY <3>1 DEF IInv, Registry
    <3>. QED
      BY <1>0, <1>1, <2>1, <3>2
  <2>2. ASSUME NEW w \in Workers, pc[w] = "insert", id = planId[plan[w]], entries'[id] = plan[w]
        PROVE  /\ entries'[id] \in 1 .. minted' /\ planId'[entries'[id]] = id
               /\ planSession'[entries'[id]] \in created'
    <3>1. plan[w] \in 1 .. minted /\ planSession[plan[w]] = about[w] /\ about[w] \in created
      BY <2>2, ThreadFacts DEF Threads
    <3>. QED
      BY <1>0, <1>1, <2>2, <3>1
  <2>. QED
    BY <2>0, <2>1, <2>2, EntriesMove
<1>4. minted' + Cardinality(Minting') <= MaxPlans
  BY MintingStep
<1>. QED
  BY <1>2, <1>3, <1>4 DEF Registry

\* A connection is open only if it was, or was counted in.
LEMMA OpenMoves ==
  ASSUME IInv, ThreadMove, dataConns' = dataConns, NEW s \in SessionIds
  PROVE  Open(s)' \subseteq Open(s)
<1>. DEFINE Ends == {"idle", "create", "get", "insert", "expire", "mint", "remove", "drop", "count"}
<1>0. /\ ThreadTypes /\ dataConns \in [SessionIds -> Nat]
      /\ \A c \in Conns : c \in Threads
      /\ \A w \in Workers : w \notin Conns
  BY ServerAssumption DEF IInv, TypeOK, SessionTypes, Threads
<1>1. ASSUME NEW h \in Threads, pc'[h] \in Ends,
             \A k \in Threads \ {h} : pc'[k] = pc[k] /\ about'[k] = about[k]
      PROVE  Open(s)' \subseteq Open(s)
  BY <1>0, <1>1 DEF Open
<1>2. ASSUME NEW h \in Threads, pc[h] \in {"ready", "serve", "touch", "clock", "fetch", "unplan", "send"},
             about'[h] = about[h],
             \A k \in Threads \ {h} : pc'[k] = pc[k] /\ about'[k] = about[k]
      PROVE  Open(s)' \subseteq Open(s)
  BY <1>0, <1>2 DEF Open
<1>3. CASE UNCHANGED threadVars
  BY <1>3 DEF threadVars, Open
<1>4. ASSUME NEW h \in Threads, Finish(h)
      PROVE  Open(s)' \subseteq Open(s)
  BY <1>0, <1>1, <1>4 DEF Finish, ThreadTypes
<1>5. ASSUME NEW h \in Threads, Begins(h)
      PROVE  Open(s)' \subseteq Open(s)
  BY <1>0, <1>1, <1>5 DEF Begins, Ask, ThreadTypes
<1>6. ASSUME NEW h \in Threads, NEW label \in Labels, MovesOn(h, label)
      PROVE  Open(s)' \subseteq Open(s)
  <2>1. /\ pc'[h] = label /\ about'[h] = about[h]
        /\ \A k \in Threads \ {h} : pc'[k] = pc[k] /\ about'[k] = about[k]
    BY <1>0, <1>6 DEF MovesOn, Goto, ThreadTypes
  <2>2. CASE label \in Ends
    BY <1>1, <2>1, <2>2
  <2>3. CASE label \in {"unplan", "send"}
    <3>1. pc[h] \in {"ready", "serve", "touch", "clock", "fetch", "unplan", "send"}
      BY <1>6, <2>3 DEF MovesOn
    <3>. QED
      BY <1>2, <2>1, <3>1
  <2>4. label # "ready"
    <3>1. ASSUME label = "ready"
          PROVE  FALSE
      <4>1. PICK x \in SessionIds : CountConn(x, 1)
        BY <1>6, <3>1, ThreadFacts DEF MovesOn
      <4>2. dataConns = [dataConns EXCEPT ![x] = dataConns[x] + 1]
        BY <4>1 DEF CountConn
      <4>3. dataConns[x] \in Nat /\ DOMAIN dataConns = SessionIds
        BY <1>0, <4>1
      <4>4. dataConns[x] = dataConns[x] + 1
        BY <4>1, <4>2, <4>3
      <4>. QED
        BY <4>3, <4>4
    <3>. QED
      BY <3>1
  <2>. QED
    BY <1>6, <2>2, <2>3, <2>4 DEF MovesOn
<1>7. ASSUME NEW w \in Workers, Connect(w)
      PROVE  Open(s)' \subseteq Open(s)
  BY <1>0, <1>1, <1>7 DEF Connect, ThreadTypes, Threads
<1>8. ASSUME NEW c \in Conns, Reads(c)
      PROVE  Open(s)' \subseteq Open(s)
  BY <1>2, <1>8, ReadsFacts
<1>9. ASSUME NEW w \in Workers, pc' = [pc EXCEPT ![w] = "insert"], UNCHANGED <<about, at, then>>
      PROVE  Open(s)' \subseteq Open(s)
  BY <1>0, <1>1, <1>9 DEF ThreadTypes, Threads
<1>. QED
  BY <1>3, <1>4, <1>5, <1>6, <1>7, <1>8, <1>9 DEF ThreadMove

LEMMA StreamsStep ==
  ASSUME IInv, SessionMove, ThreadMove
  PROVE  StreamsCapped' /\ \A s \in SessionIds \ created' : granted'[s] = 0
<1>0. /\ ThreadTypes /\ (\A c \in Conns : c \in Threads)
      /\ created \subseteq SessionIds
      /\ dataConns \in [SessionIds -> Nat] /\ granted \in [SessionIds -> Nat]
      /\ \A s \in SessionIds : Cardinality(Open(s)) <= dataConns[s] /\ dataConns[s] <= granted[s]
      /\ \A s \in SessionIds \ created : granted[s] = 0
  BY DEF IInv, TypeOK, SessionTypes, StreamsCapped, Threads
<1>1. \A s \in SessionIds : IsFiniteSet(Open(s)) /\ Cardinality(Open(s)) \in Nat
  BY ThreadSets
<1>2. ASSUME dataConns' = dataConns, \A s \in SessionIds : granted[s] <= granted'[s],
             granted' \in [SessionIds -> Nat]
      PROVE  StreamsCapped'
  <2>. SUFFICES ASSUME NEW s \in SessionIds
                PROVE  Cardinality(Open(s)') <= dataConns'[s] /\ dataConns'[s] <= granted'[s]
    BY DEF StreamsCapped
  <2>1. Open(s)' \in SUBSET Open(s)
    BY <1>2, OpenMoves
  <2>2. Cardinality(Open(s)') <= Cardinality(Open(s)) /\ Cardinality(Open(s)') \in Nat
    BY <1>1, <2>1, FS_Subset, FS_CardinalityType
  <2>3. dataConns'[s] = dataConns[s] /\ dataConns[s] \in Nat /\ granted[s] \in Nat
        /\ granted'[s] \in Nat /\ granted[s] <= granted'[s]
        /\ Cardinality(Open(s)) \in Nat /\ Cardinality(Open(s)) <= dataConns[s]
        /\ dataConns[s] <= granted[s]
    BY <1>0, <1>1, <1>2
  <2>. QED
    BY <2>2, <2>3
<1>3. CASE UNCHANGED <<created, granted, dataConns>>
  <2>1. \A s \in SessionIds : granted[s] <= granted'[s]
    BY <1>0, <1>3
  <2>2. StreamsCapped'
    BY <1>0, <1>2, <1>3, <2>1
  <2>. QED
    BY <1>0, <1>3, <2>2
<1>4. ASSUME NEW x \in SessionIds \ created, NEW desired \in Desired, NEW a \in Nat,
             CreateSession(x, desired, a)
      PROVE  StreamsCapped' /\ \A s \in SessionIds \ created' : granted'[s] = 0
  <2>1. Grant(desired) \in Nat
    BY GrantIsNatural
  <2>2. granted' = [granted EXCEPT ![x] = Grant(desired)] /\ created' = created \cup {x}
        /\ dataConns' = dataConns
    BY <1>4 DEF CreateSession
  <2>3. \A s \in SessionIds : granted'[s] = (IF s = x THEN Grant(desired) ELSE granted[s])
    BY <1>0, <2>2
  <2>4. \A s \in SessionIds : granted[s] <= granted'[s]
    BY <1>0, <2>1, <2>3
  <2>5. granted' \in [SessionIds -> Nat]
    BY <1>0, <2>1, <2>2
  <2>6. StreamsCapped'
    BY <1>2, <2>2, <2>4, <2>5
  <2>. QED
    BY <1>0, <2>2, <2>3, <2>6
<1>5. ASSUME NEW c \in Conns, about[c] \in SessionIds, StreamFree(about[c]), CountConn(about[c], 1),
             Goto(c, "ready"), pc[c] = "count"
      PROVE  StreamsCapped' /\ \A s \in SessionIds \ created' : granted'[s] = 0
  <2>1. UNCHANGED <<granted, created>>
    BY <1>5 DEF CountConn
  <2>2. ASSUME NEW s \in SessionIds
        PROVE  Cardinality(Open(s)') <= dataConns'[s] /\ dataConns'[s] <= granted'[s]
    <3>0. dataConns[s] \in Nat /\ granted[s] \in Nat /\ Cardinality(Open(s)) \in Nat
          /\ Cardinality(Open(s)) <= dataConns[s] /\ dataConns[s] <= granted[s]
      BY <1>0, <1>1
    <3>1. CASE s = about[c]
      <4>1. Open(s)' = Open(s) \cup {c}
        BY <1>0, <1>5, <3>1 DEF Goto, Open, ThreadTypes
      <4>2. Cardinality(Open(s)') <= Cardinality(Open(s)) + 1 /\ Cardinality(Open(s)') \in Nat
        <5>1. /\ IsFiniteSet(Open(s) \cup {c})
              /\ Cardinality(Open(s) \cup {c}) = Cardinality(Open(s))
                   \/ Cardinality(Open(s) \cup {c}) = Cardinality(Open(s)) + 1
          BY <1>1, FS_AddElement
        <5>. QED
          BY <3>0, <4>1, <5>1
      <4>3. dataConns'[s] = dataConns[s] + 1 /\ dataConns[s] < granted[s] /\ granted'[s] = granted[s]
        BY <1>0, <1>5, <2>1, <3>1 DEF CountConn, StreamFree
      <4>. QED
        BY <3>0, <4>2, <4>3
    <3>2. CASE s # about[c]
      <4>1. Open(s)' = Open(s)
        BY <1>0, <1>5, <3>2 DEF Goto, Open, ThreadTypes
      <4>2. dataConns'[s] = dataConns[s] /\ granted'[s] = granted[s]
        BY <1>0, <1>5, <2>1, <3>2 DEF CountConn
      <4>. QED
        BY <3>0, <4>1, <4>2
    <3>. QED
      BY <3>1, <3>2
  <2>. QED
    BY <1>0, <2>1, <2>2 DEF StreamsCapped
<1>6. ASSUME NEW c \in Conns, about[c] \in SessionIds, c \in Open(about[c]),
             CountConn(about[c], -1), Finish(c)
      PROVE  StreamsCapped' /\ \A s \in SessionIds \ created' : granted'[s] = 0
  <2>1. UNCHANGED <<granted, created>>
    BY <1>6 DEF CountConn
  <2>2. ASSUME NEW s \in SessionIds
        PROVE  Cardinality(Open(s)') <= dataConns'[s] /\ dataConns'[s] <= granted'[s]
    <3>0. dataConns[s] \in Nat /\ granted[s] \in Nat /\ Cardinality(Open(s)) \in Nat
          /\ Cardinality(Open(s)) <= dataConns[s] /\ dataConns[s] <= granted[s]
      BY <1>0, <1>1
    <3>1. CASE s = about[c]
      <4>1. Open(s)' = Open(s) \ {c}
        BY <1>0, <1>6, <3>1 DEF Finish, Open, ThreadTypes
      <4>2. Cardinality(Open(s)') = Cardinality(Open(s)) - 1
        BY <1>1, <1>6, <3>1, <4>1, FS_RemoveElement
      <4>3. dataConns'[s] = dataConns[s] - 1 /\ granted'[s] = granted[s]
        BY <1>0, <1>6, <2>1, <3>1 DEF CountConn
      <4>. QED
        BY <3>0, <4>2, <4>3
    <3>2. CASE s # about[c]
      <4>1. Open(s)' = Open(s)
        <5>1. c \notin Open(s) /\ c \notin Open(s)'
          BY <1>0, <1>6, <3>2 DEF Finish, Open, ThreadTypes
        <5>2. \A d \in Conns \ {c} : pc'[d] = pc[d] /\ about'[d] = about[d]
          BY <1>0, <1>6 DEF Finish, ThreadTypes
        <5>. QED
          BY <5>1, <5>2 DEF Open
      <4>2. dataConns'[s] = dataConns[s] /\ granted'[s] = granted[s]
        BY <1>0, <1>6, <2>1, <3>2 DEF CountConn
      <4>. QED
        BY <3>0, <4>1, <4>2
    <3>. QED
      BY <3>1, <3>2
  <2>. QED
    BY <1>0, <2>1, <2>2 DEF StreamsCapped
<1>7. CASE UNCHANGED sessionVars \/ (\E s \in SessionIds, a \in Nat : TouchSession(s, a))
           \/ (\E s \in SessionIds : RemoveSession(s)) \/ SweepExpired(now)
  BY <1>3, <1>7 DEF sessionVars, TouchSession, RemoveSession, SweepExpired
<1>. QED
  BY <1>4, <1>5, <1>6, <1>7 DEF SessionMove

LEMMA SweepTypesStep ==
  ASSUME IInv, [Next]_vars
  PROVE  SweepTypes' /\ now' \in 0 .. MaxTime
<1>0. SweepTypes /\ now \in 0 .. MaxTime /\ 0 \in 0 .. MaxTime
  BY ServerAssumption DEF IInv, TypeOK
<1>1. CASE Tick
  BY <1>0, <1>1, ServerAssumption DEF Tick, SweepTypes, sweepVars
<1>2. CASE UNCHANGED <<now, sweepVars>>
  BY <1>0, <1>2 DEF SweepTypes, sweepVars
<1>3. CASE Sweep
  BY <1>0, <1>3 DEF Sweep, SweepSessions, SweepBegins, SweepEntry, SweepIndex, SweepEnds, SweepTypes
<1>4. ASSUME NEW h, NEW s, NEW next, Ask(h, s, next)
      PROVE  UNCHANGED <<now, sweepVars>>
  BY <1>4 DEF Ask
<1>5. ASSUME NEW h, Get(h) \/ Expire(h)
      PROVE  UNCHANGED <<now, sweepVars>>
  BY <1>5 DEF Get, Expire
<1>6. ASSUME NEW w \in Workers, Request(w) \/ Handle(w)
      PROVE  UNCHANGED <<now, sweepVars>>
  <2>1. CASE Request(w)
    BY <1>4, <2>1 DEF Request, Connect, UseSession, Prepare, Disconnect
  <2>2. CASE Handle(w)
    BY <1>5, <2>2 DEF Handle, Create, Mint, Insert, EndSession, Drop
  <2>. QED
    BY <1>6, <2>1, <2>2
<1>7. ASSUME NEW c \in Conns, Hello(c) \/ Serve(c)
      PROVE  UNCHANGED <<now, sweepVars>>
  BY <1>4, <1>5, <1>7 DEF Hello, Serve, Count, Ready, Frame, Touch, ReadClock, Fetch, Unplan, Piece,
                          Refuse, HangUp
<1>8. CASE UNCHANGED vars
  BY <1>2, <1>8 DEF vars
<1>. QED
  BY <1>1, <1>2, <1>3, <1>6, <1>7, <1>8 DEF Next

LEMMA InvStep == IInv /\ [Next]_vars => IInv'
<1>. SUFFICES ASSUME IInv, [Next]_vars
              PROVE  IInv'
  OBVIOUS
<1>1. SessionMove /\ PlanMove /\ ThreadMove
  BY SessionMoves, PlanMoves, ThreadMoves
<1>2. issued' \subseteq Tickets
  <2>1. minted \in 0 .. MaxPlans /\ MaxPlans \in Nat
    BY PlanAssumption DEF IInv, TypeOK, PlanTypes
  <2>2. \A p \in 1 .. minted : p \in Tickets
    BY <2>1 DEF Tickets
  <2>. QED
    BY <2>2, IssuedMove
<1>3. TypeOK'
  BY <1>1, <1>2, SessionTypesStep, PlanTypesStep, ThreadTypesStep, SweepTypesStep DEF TypeOK
<1>. QED
  BY <1>1, <1>3, ServingStep, RegistryStep, StreamsStep DEF IInv

LEMMA InvHolds == Spec => []IInv
BY InvInit, InvStep, PTL DEF Spec

---------------------------------------------------------------------------
(* What follows from IInv.                                                 *)

\* No counter of the registries goes below zero, and every thread, list and
\* table keeps to its type, whatever the order of the steps of the threads.
THEOREM TypesKept == Spec => []TypeOK
<1>1. IInv => TypeOK
  BY DEF IInv
<1>. QED
  BY <1>1, InvHolds, PTL

\* open_data_conn and close_data_conn: for any number of connections and any
\* grant, a session never has more of them than it was granted, nor more than
\* it counts, and so the counter cannot wrap below zero.
THEOREM StreamsStayCapped == Spec => []StreamsCapped
<1>1. IInv => StreamsCapped
  BY DEF IInv
<1>. QED
  BY <1>1, InvHolds, PTL

---------------------------------------------------------------------------
(* The index of plans, for request ids that are drawn once each.           *)

\* What a step does to the index and to the sweeper's notes, which change
\* together only when it is the sweeper that holds the lock.
IndexMove ==
  \/ /\ UNCHANGED <<entries, bySession>>
     /\ UNCHANGED sweepVars \/ SweepSessions \/ SweepBegins \/ SweepEnds
  \/ \E w \in Workers : /\ pc[w] = "insert" /\ PlansFree /\ InsertPlan(plan[w]) /\ Finish(w)
                        /\ UNCHANGED sweepVars
  \/ \E id \in Ids : PlansFree /\ RemovePlan(id) /\ UNCHANGED sweepVars
  \/ \E s \in SessionIds : PlansFree /\ DropSession(s) /\ UNCHANGED sweepVars
  \/ SweepEntry
  \/ SweepIndex

LEMMA IndexMoves == IInv /\ [Next]_vars => IndexMove
<1>. SUFFICES ASSUME IInv, [Next]_vars
              PROVE  IndexMove
  OBVIOUS
<1>0. CASE UNCHANGED <<entries, bySession>> /\ UNCHANGED sweepVars
  BY <1>0 DEF IndexMove
<1>1. CASE UNCHANGED vars \/ Tick
  BY <1>0, <1>1 DEF vars, Tick, planVars
<1>2. CASE Sweep
  <2>1. CASE SweepSessions \/ SweepBegins \/ SweepEnds
    BY <2>1 DEF SweepSessions, SweepBegins, SweepEnds, planVars, IndexMove
  <2>. QED
    BY <1>2, <2>1 DEF Sweep, IndexMove
<1>3. ASSUME NEW h \in Threads, Get(h) \/ Expire(h)
      PROVE  IndexMove
  BY <1>0, <1>3 DEF Get, Expire, planVars
<1>4. ASSUME NEW h \in Threads, NEW s, NEW next, Ask(h, s, next)
      PROVE  IndexMove
  BY <1>0, <1>4 DEF Ask, planVars
<1>5. ASSUME NEW w \in Workers, Request(w) \/ Handle(w)
      PROVE  IndexMove
  <2>0. w \in Threads
    BY DEF Threads
  <2>1. CASE Connect(w) \/ Create(w) \/ EndSession(w)
    BY <1>0, <2>1 DEF Connect, Create, EndSession, planVars
  <2>2. CASE UseSession(w) \/ Prepare(w) \/ Disconnect(w)
    BY <1>4, <2>0, <2>2 DEF UseSession, Prepare, Disconnect
  <2>3. CASE Mint(w)
    BY <1>0, <2>3 DEF Mint, SkipId, MintPlan, planVars
  <2>4. CASE Insert(w)
    BY <2>4 DEF Insert, IndexMove
  <2>5. CASE Drop(w)
    <3>1. about[w] \in SessionIds
      BY <2>0, <2>5, ThreadFacts DEF Drop
    <3>. QED
      BY <2>5, <3>1 DEF Drop, IndexMove
  <2>. QED
    BY <1>3, <1>5, <2>0, <2>1, <2>2, <2>3, <2>4, <2>5 DEF Request, Handle
<1>6. ASSUME NEW c \in Conns, Hello(c) \/ Serve(c)
      PROVE  IndexMove
  <2>0. c \in Threads
    BY DEF Threads
  <2>1. CASE Hello(c)
    BY <1>4, <2>0, <2>1 DEF Hello
  <2>2. CASE Count(c) \/ Ready(c) \/ Frame(c) \/ Touch(c) \/ ReadClock(c)
             \/ Refuse(c) \/ HangUp(c)
    BY <1>0, <2>2 DEF Count, Ready, Frame, Touch, ReadClock, Refuse, HangUp, planVars
  <2>3. CASE Fetch(c) \/ Piece(c)
    BY <1>0, <2>3 DEF Fetch, Piece, TouchPlan, planVars
  <2>4. CASE Unplan(c)
    <3>1. planId[plan[c]] \in Ids
      BY <2>0, <2>4, ThreadFacts DEF Unplan
    <3>. QED
      BY <2>4, <3>1 DEF Unplan, IndexMove
  <2>. QED
    BY <1>3, <1>6, <2>0, <2>1, <2>2, <2>3, <2>4 DEF Serve
<1>. QED
  BY <1>1, <1>2, <1>5, <1>6 DEF Next

\* The inductive invariant of the index, in the terms the cases below use.
LEMMA IndexFacts ==
  ASSUME IInv, Indexed
  PROVE  /\ \A id \in Present : /\ entries[id] = id /\ id \in 1 .. minted
                                /\ planSession[id] \in created
         /\ \A s \in SessionIds : /\ bySession[s] \in Seq(Ids) /\ IsInjective(bySession[s])
                                  /\ Len(bySession[s]) <= MaxTransfers
         /\ \A s \in SessionIds : \A id \in Range(bySession[s]) : planSession[id] = s /\ id \in Ids
         /\ \A s \in sessions : \A id \in Present :
              planSession[id] = s => id \in Range(bySession[s])
         /\ PlansFree => \A s \in SessionIds : Range(bySession[s]) \subseteq Present
<1>1. \A id \in Present : entries[id] = id /\ id \in 1 .. minted /\ planSession[id] \in created
  BY DEF IInv, Indexed, Registry
<1>2. \A s \in SessionIds : /\ bySession[s] \in Seq(Ids) /\ IsInjective(bySession[s])
                            /\ Len(bySession[s]) <= MaxTransfers
  BY DEF IInv, Indexed, TypeOK, PlanTypes, Listed
<1>3. ASSUME NEW s \in SessionIds, NEW id \in Range(bySession[s])
      PROVE  planSession[id] = s /\ id \in Ids
  <2>1. planSession[id] = s
    BY DEF Indexed, Listed
  <2>2. id \in Ids
    BY <1>2 DEF Range
  <2>. QED
    BY <2>1, <2>2
<1>4. ASSUME NEW s \in sessions, NEW id \in Present, planSession[id] = s
      PROVE  id \in Range(bySession[s])
  <2>1. id \in Registered(s)
    BY <1>1, <1>4 DEF Registered, Present
  <2>. QED
    BY <2>1 DEF Indexed, IndexComplete
<1>5. PlansFree => \A s \in SessionIds : Range(bySession[s]) \subseteq Present
  BY DEF Indexed, Swept
<1>. QED
  BY <1>1, <1>2, <1>3, <1>4, <1>5

\* Every id on a list was there, or is that of a plan just inserted; and each is
\* there once.
ListKept(s) ==
  /\ IsInjective(bySession'[s]) /\ Len(bySession'[s]) <= MaxTransfers
  /\ \A id \in Range(bySession'[s]) :
       \/ id \in Range(bySession[s])
       \/ \E w \in Workers : pc[w] = "insert" /\ Finish(w) /\ plan[w] = id /\ planSession[id] = s

\* The plans of a live session are on its list, and a list without stale ids
\* stays one.
IndexKept ==
  /\ \A s \in SessionIds : ListKept(s)
  /\ \A s \in sessions : \A id \in Present' : planSession[id] = s => id \in Range(bySession'[s])
  /\ \A s \in SessionIds : PlansFree' \/ s \notin todoLists' => Range(bySession'[s]) \subseteq Present'
  /\ sweeping' = "sweep" /\ todoIds' # {} =>
       \A s \in SessionIds \ todoLists' : bySession'[s] = << >>

\* A step of the sweeper's that leaves the index alone, or a step of others'
\* that does.
LEMMA KeptWhenSame ==
  ASSUME IInv, Indexed, UNCHANGED <<entries, bySession>>,
         UNCHANGED sweepVars \/ SweepSessions \/ SweepBegins \/ SweepEnds
  PROVE  IndexKept
<1>0. Present' = Present
  BY DEF Present
<1>1. \A s \in SessionIds : ListKept(s)
  BY IndexFacts DEF ListKept
<1>2. \A s \in sessions : \A id \in Present' : planSession[id] = s => id \in Range(bySession'[s])
  BY <1>0, IndexFacts
<1>3. Swept
  BY DEF Indexed
<1>4. CASE UNCHANGED sweepVars
  BY <1>0, <1>1, <1>2, <1>3, <1>4 DEF sweepVars, Swept, IndexKept, PlansFree
<1>5. CASE SweepSessions
  BY <1>0, <1>1, <1>2, <1>3, <1>5 DEF SweepSessions, Swept, IndexKept, PlansFree
<1>6. CASE SweepBegins
  BY <1>0, <1>1, <1>2, <1>3, <1>6 DEF SweepBegins, Swept, IndexKept, PlansFree
<1>7. CASE SweepEnds
  BY <1>0, <1>1, <1>2, <1>3, <1>7 DEF SweepEnds, Swept, IndexKept, PlansFree
<1>. QED
  BY <1>4, <1>5, <1>6, <1>7

\* insert_at: the new plan is added to its session's list, and the plan that
\* makes room for it goes from the list and from the table.
LEMMA KeptWhenInserted ==
  ASSUME IInv, Indexed, NEW w \in Workers, pc[w] = "insert", PlansFree, InsertPlan(plan[w]),
         Finish(w), UNCHANGED sweepVars
  PROVE  IndexKept
<1>. DEFINE p == plan[w]
            x == planSession[p]
            b == bySession[x]
<1>0. PlanTypes /\ Fresh(w) /\ MaxTransfers \in Nat
  BY PlanAssumption DEF IInv, Indexed, TypeOK
<1>1. /\ p \in Tickets /\ x \in SessionIds /\ planId[p] = p /\ p \in Ids /\ p # NoPlan
      /\ p \notin Present
      /\ \A s \in SessionIds : p \notin Range(bySession[s])
  BY <1>0, ThreadFacts DEF Threads, Fresh, Tickets, NoPlan
<1>2. \A s \in SessionIds : /\ bySession[s] \in Seq(Ids) /\ IsInjective(bySession[s])
                            /\ Len(bySession[s]) <= MaxTransfers
                            /\ Range(bySession[s]) \subseteq Present
                            /\ \A id \in Range(bySession[s]) : planSession[id] = s
  BY IndexFacts
<1>3. PICK ids, q \in Seq(Ids) :
             /\ Len(ids) <= Len(b) /\ Range(ids) = Range(b) \cap Present
             /\ IsInjective(b) => IsInjective(ids)
             /\ Making(x, p, ids, q)
  BY <1>0, <1>1, InsertFacts
<1>. HIDE DEF p, x
<1>4. Range(ids) = Range(b) /\ IsInjective(ids) /\ Len(ids) <= MaxTransfers
  <2>1. Len(b) \in Nat /\ Len(ids) \in Nat /\ Len(b) <= MaxTransfers
    BY <1>1, <1>2, <1>3
  <2>2. Range(ids) = Range(b) /\ IsInjective(ids)
    BY <1>1, <1>2, <1>3
  <2>. QED
    BY <1>0, <1>3, <2>1, <2>2
<1>5. bySession' = [bySession EXCEPT ![x] = Append(q, p)]
  BY <1>1, <1>3 DEF Making
\* Gone is what makes room, if anything does.
<1>6. \E gone \in SUBSET Range(b) :
        /\ IsInjective(q) /\ Range(q) = Range(b) \ gone /\ Len(q) < MaxTransfers
        /\ \A id \in Ids : entries'[id] = IF id = p THEN p ELSE IF id \in gone THEN NoPlan
                                          ELSE entries[id]
  <2>1. CASE Len(ids) < MaxTransfers /\ q = ids /\ entries' = [entries EXCEPT ![planId[p]] = p]
    <3>1. \A id \in Ids : entries'[id] = IF id = p THEN p ELSE entries[id]
      BY <1>0, <1>1, <2>1 DEF PlanTypes
    <3>2. {} \in SUBSET Range(b) /\ Range(q) = Range(b) \ {} /\ IsInjective(q)
      BY <1>4, <2>1
    <3>3. \A id \in Ids : entries'[id] = IF id = p THEN p ELSE IF id \in {} THEN NoPlan
                                         ELSE entries[id]
      BY <3>1
    <3>. QED
      BY <2>1, <3>2, <3>3
  <2>2. ASSUME NEW old \in Range(ids), Len(q) = Len(ids) - 1,
               IsInjective(ids) => IsInjective(q) /\ Range(q) = Range(ids) \ {old},
               entries' = [entries EXCEPT ![old] = NoPlan, ![planId[p]] = p]
        PROVE  /\ {old} \in SUBSET Range(b)
               /\ IsInjective(q) /\ Range(q) = Range(b) \ {old} /\ Len(q) < MaxTransfers
               /\ \A id \in Ids : entries'[id] = IF id = p THEN p ELSE IF id \in {old} THEN NoPlan
                                                 ELSE entries[id]
    <3>1. old \in Ids /\ old # p
      BY <1>1, <1>2, <1>4, <2>2 DEF Present
    <3>2. \A id \in Ids : entries'[id] = IF id = p THEN p ELSE IF id = old THEN NoPlan
                                         ELSE entries[id]
      BY <1>0, <1>1, <2>2, <3>1 DEF PlanTypes
    <3>3. Len(ids) \in Nat
      BY <1>3
    <3>4. Len(q) < MaxTransfers
      BY <1>0, <1>4, <2>2, <3>3
    <3>. QED
      BY <1>4, <2>2, <3>2, <3>4
  <2>. QED
    BY <1>3, <2>1, <2>2 DEF Making
<1>7. PICK gone \in SUBSET Range(b) :
        /\ IsInjective(q) /\ Range(q) = Range(b) \ gone /\ Len(q) < MaxTransfers
        /\ \A id \in Ids : entries'[id] = IF id = p THEN p ELSE IF id \in gone THEN NoPlan
                                          ELSE entries[id]
  BY <1>6
<1>8. /\ bySession'[x] = Append(q, p)
      /\ \A s \in SessionIds \ {x} : bySession'[s] = bySession[s]
  BY <1>0, <1>1, <1>5 DEF PlanTypes
<1>9. /\ Range(Append(q, p)) = (Range(b) \ gone) \cup {p} /\ IsInjective(Append(q, p))
      /\ Len(Append(q, p)) <= MaxTransfers
  <2>1. p \notin Range(q)
    BY <1>1, <1>7
  <2>2. Len(Append(q, p)) = Len(q) + 1 /\ Len(q) \in Nat
    BY <1>1, <1>3
  <2>3. Range(Append(q, p)) = Range(q) \cup {p} /\ IsInjective(Append(q, p))
    BY <1>1, <1>3, <1>7, <2>1, AppendRange
  <2>. QED
    BY <1>0, <1>7, <2>2, <2>3
<1>10. Present' = (Present \ gone) \cup {p}
  BY <1>1, <1>2, <1>7 DEF Present
<1>11. \A s \in SessionIds \ {x} : Range(bySession[s]) \cap gone = {}
  <2>. SUFFICES ASSUME NEW s \in SessionIds \ {x}, NEW id \in Range(bySession[s]), id \in gone
                PROVE  FALSE
    OBVIOUS
  <2>1. planSession[id] = s
    BY <1>2
  <2>2. planSession[id] = x
    BY <1>1, <1>2, <1>7
  <2>. QED
    BY <2>1, <2>2
<1>12. \A s \in SessionIds : ListKept(s)
  <2>. TAKE s \in SessionIds
  <2>1. CASE s = x
    <3>1. \A id \in Range(bySession'[x]) : id \in Range(bySession[x]) \/ id = p
      BY <1>8, <1>9
    <3>2. plan[w] = p /\ planSession[p] = x /\ pc[w] = "insert" /\ Finish(w)
      BY DEF p, x
    <3>. QED
      BY <1>8, <1>9, <2>1, <3>1, <3>2 DEF ListKept
  <2>2. CASE s # x
    BY <1>2, <1>8, <2>2 DEF ListKept
  <2>. QED
    BY <2>1, <2>2
<1>13. \A s \in sessions : \A id \in Present' : planSession[id] = s => id \in Range(bySession'[s])
  <2>. TAKE s \in sessions
  <2>. TAKE id \in Present'
  <2>. HAVE planSession[id] = s
  <2>1. CASE id = p
    BY <1>8, <1>9, <2>1 DEF x
  <2>2. CASE id # p
    <3>1. id \in Present /\ id \notin gone
      BY <1>10, <2>2
    <3>2. id \in Range(bySession[s]) /\ s \in SessionIds
      BY <3>1, IndexFacts DEF IInv, TypeOK, SessionTypes
    <3>. QED
      BY <1>8, <1>9, <3>1, <3>2
  <2>. QED
    BY <2>1, <2>2
<1>14. \A s \in SessionIds : Range(bySession'[s]) \subseteq Present'
  <2>. TAKE s \in SessionIds
  <2>1. CASE s = x
    BY <1>1, <1>2, <1>8, <1>9, <1>10, <2>1
  <2>2. CASE s # x
    BY <1>2, <1>8, <1>10, <1>11, <2>2
  <2>. QED
    BY <2>1, <2>2
<1>. QED
  BY <1>12, <1>13, <1>14 DEF IndexKept, PlansFree, sweepVars

\* What is kept when the index changes at one list, and the table at ids of
\* that list's session, in step with each other.
LEMMA KeptWhenShortened ==
  ASSUME IInv, Indexed, NEW x \in SessionIds, NEW q \in Seq(Ids), NEW gone,
         bySession' = [bySession EXCEPT ![x] = q],
         IsInjective(q), Len(q) <= MaxTransfers, Range(q) = Range(bySession[x]) \ gone,
         \A id \in gone \cap Present : planSession[id] = x,
         \A id \in Ids : entries'[id] = IF id \in gone THEN NoPlan ELSE entries[id],
         PlansFree, UNCHANGED sweepVars
  PROVE  IndexKept
<1>1. /\ bySession'[x] = q
      /\ \A s \in SessionIds \ {x} : bySession'[s] = bySession[s]
  BY DEF IInv, TypeOK, PlanTypes
<1>2. Present' = Present \ gone
  BY DEF Present
<1>3. \A s \in SessionIds : /\ IsInjective(bySession[s])
                            /\ Len(bySession[s]) <= MaxTransfers
                            /\ Range(bySession[s]) \subseteq Present
                            /\ \A id \in Range(bySession[s]) : planSession[id] = s
  BY IndexFacts
<1>4. \A s \in SessionIds : ListKept(s)
  BY <1>1, <1>3 DEF ListKept
<1>5. ASSUME NEW s \in sessions, NEW id \in Present', planSession[id] = s
      PROVE  id \in Range(bySession'[s])
  <2>1. id \in Present /\ id \notin gone
    BY <1>2
  <2>2. id \in Range(bySession[s]) /\ s \in SessionIds
    BY <1>5, <2>1, IndexFacts DEF IInv, TypeOK, SessionTypes
  <2>. QED
    BY <1>1, <2>1, <2>2
<1>6. ASSUME NEW s \in SessionIds, NEW id \in Range(bySession'[s])
      PROVE  id \in Present'
  <2>1. CASE s = x
    BY <1>1, <1>2, <1>3, <2>1
  <2>2. CASE s # x
    <3>1. id \in Present /\ planSession[id] = s
      BY <1>1, <1>3, <2>2
    <3>. QED
      BY <1>2, <2>2, <3>1
  <2>. QED
    BY <2>1, <2>2
<1>. QED
  BY <1>4, <1>5, <1>6 DEF IndexKept, PlansFree, sweepVars

\* remove
LEMMA KeptWhenRemoved ==
  ASSUME IInv, Indexed, NEW id \in Ids, PlansFree, RemovePlan(id), UNCHANGED sweepVars
  PROVE  IndexKept
<1>0. PlanTypes
  BY DEF IInv, TypeOK
<1>1. CASE entries[id] = NoPlan
  <2>1. UNCHANGED <<entries, bySession>>
    BY <1>0, <1>1 DEF RemovePlan, PlanTypes
  <2>. QED
    BY <2>1, KeptWhenSame
<1>2. CASE entries[id] # NoPlan
  <2>. DEFINE x == planSession[id]
              b == bySession[x]
              q == Retain(b, Ids \ {id})
  <2>1. id \in Present /\ entries[id] = id /\ x \in SessionIds
    BY <1>2, IndexFacts DEF Present, IInv, TypeOK, SessionTypes
  <2>2. bySession' = [bySession EXCEPT ![x] = q]
    BY <1>2, <2>1 DEF RemovePlan
  <2>. HIDE DEF x
  <2>3. b \in Seq(Ids) /\ IsInjective(b) /\ Len(b) <= MaxTransfers /\ Range(b) \subseteq Ids
    BY <2>1, IndexFacts
  <2>. HIDE DEF b
  <2>4. q \in Seq(Ids) /\ Len(q) <= Len(b) /\ Range(q) = Range(b) \cap (Ids \ {id})
        /\ IsInjective(q)
    BY <2>3, RetainFacts
  <2>5. Len(q) <= MaxTransfers
    BY <2>3, <2>4, PlanAssumption
  <2>6. Range(q) = Range(b) \ {id}
    BY <2>3, <2>4
  <2>7. \A i \in Ids : entries'[i] = IF i \in {id} THEN NoPlan ELSE entries[i]
    BY <1>0 DEF RemovePlan, PlanTypes
  <2>8. \A i \in {id} \cap Present : planSession[i] = x
    BY DEF x
  <2>. HIDE DEF q
  <2>. QED
    BY <2>1, <2>2, <2>4, <2>5, <2>6, <2>7, <2>8, KeptWhenShortened DEF b
<1>. QED
  BY <1>1, <1>2

\* remove_session
LEMMA KeptWhenDropped ==
  ASSUME IInv, Indexed, NEW x \in SessionIds, PlansFree, DropSession(x), UNCHANGED sweepVars
  PROVE  IndexKept
<1>. DEFINE gone == Range(bySession[x])
<1>1. bySession' = [bySession EXCEPT ![x] = << >>]
      /\ \A id \in Ids : entries'[id] = IF id \in gone THEN NoPlan ELSE entries[id]
  BY DEF DropSession
<1>2. << >> \in Seq(Ids) /\ Len(<< >>) = 0 /\ Len(<< >>) <= MaxTransfers
  BY PlanAssumption
<1>3. IsInjective(<< >>) /\ Range(<< >>) = Range(bySession[x]) \ gone
  BY ShortSeqs
<1>4. \A id \in gone \cap Present : planSession[id] = x
  BY IndexFacts
<1>. HIDE DEF gone
<1>. QED
  BY <1>1, <1>2, <1>3, <1>4, KeptWhenShortened

\* sweep_at, an entry: while entries are looked at, every list may hold a stale
\* id, and none has been looked at.
LEMMA KeptWhenEntrySwept ==
  ASSUME IInv, Indexed, SweepEntry
  PROVE  IndexKept
<1>0. PlanTypes /\ todoIds \subseteq Ids /\ Swept
  BY DEF IInv, TypeOK, SweepTypes, Indexed
<1>1. sweeping = "sweep" /\ sweeping' = "sweep" /\ todoLists' = todoLists /\ bySession' = bySession
      /\ todoIds # {}
  BY DEF SweepEntry, SweepPlan
<1>2. \A id \in Ids : entries'[id] = entries[id] \/ entries'[id] = NoPlan
  BY <1>0 DEF SweepEntry, SweepPlan, PlanTypes
<1>3. Present' \subseteq Present
  BY <1>2 DEF Present
<1>4. \A s \in SessionIds \ todoLists : bySession[s] = << >>
  BY <1>0, <1>1 DEF Swept
<1>5. \A s \in SessionIds : ListKept(s)
  BY <1>1, IndexFacts DEF ListKept
<1>6. \A s \in sessions : \A id \in Present' : planSession[id] = s => id \in Range(bySession'[s])
  BY <1>1, <1>3, IndexFacts
<1>7. \A s \in SessionIds : s \notin todoLists' => Range(bySession'[s]) = {}
  BY <1>1, <1>4, ShortSeqs
<1>. QED
  BY <1>1, <1>4, <1>5, <1>6, <1>7 DEF IndexKept, PlansFree

\* sweep_at, a list: it loses its stale ids, or all of them if the session is
\* gone.
LEMMA KeptWhenListSwept ==
  ASSUME IInv, Indexed, SweepIndex
  PROVE  IndexKept
<1>0. PlanTypes /\ todoLists \subseteq SessionIds /\ Swept
  BY DEF IInv, TypeOK, SweepTypes, Indexed
<1>1. PICK x \in todoLists : SweepList(x, x \in sessions) /\ todoLists' = todoLists \ {x}
  BY DEF SweepIndex
<1>2. /\ sweeping = "sweep" /\ sweeping' = "sweep" /\ todoIds' = {} /\ entries' = entries
      /\ x \in SessionIds
  BY <1>0, <1>1 DEF SweepIndex, SweepList
<1>. DEFINE b == bySession[x]
            q == IF x \in sessions THEN Retain(b, Present) ELSE << >>
<1>3. bySession'[x] = q /\ \A s \in SessionIds \ {x} : bySession'[s] = bySession[s]
  BY <1>0, <1>1, <1>2 DEF SweepList, PlanTypes
<1>4. b \in Seq(Ids) /\ IsInjective(b) /\ Len(b) <= MaxTransfers
  BY <1>2, IndexFacts
<1>. HIDE DEF b
<1>5. /\ IsInjective(q) /\ Len(q) <= MaxTransfers /\ Range(q) \subseteq Range(b) \cap Present
      /\ x \in sessions => Range(q) = Range(b) \cap Present
  <2>1. CASE x \in sessions
    <3>1. /\ Retain(b, Present) \in Seq(Ids) /\ Len(Retain(b, Present)) <= Len(b)
          /\ Range(Retain(b, Present)) = Range(b) \cap Present /\ IsInjective(Retain(b, Present))
      BY <1>4, RetainFacts
    <3>2. Len(Retain(b, Present)) <= MaxTransfers
      BY <1>4, <3>1, PlanAssumption
    <3>. QED
      BY <2>1, <3>1, <3>2
  <2>2. CASE x \notin sessions
    <3>1. q = << >> /\ Len(<< >>) = 0
      BY <2>2
    <3>. QED
      BY <2>2, <3>1, ShortSeqs, PlanAssumption
  <2>. QED
    BY <2>1, <2>2
<1>. HIDE DEF q
<1>6. Present' = Present
  BY <1>2 DEF Present
<1>7. \A s \in SessionIds : ListKept(s)
  <2>. TAKE s \in SessionIds
  <2>1. CASE s = x
    BY <1>3, <1>5, <2>1 DEF ListKept, b
  <2>2. CASE s # x
    BY <1>3, <2>2, IndexFacts DEF ListKept
  <2>. QED
    BY <2>1, <2>2
<1>8. ASSUME NEW s \in sessions, NEW id \in Present', planSession[id] = s
      PROVE  id \in Range(bySession'[s])
  <2>1. id \in Range(bySession[s]) /\ s \in SessionIds /\ id \in Present
    BY <1>6, <1>8, IndexFacts DEF IInv, TypeOK, SessionTypes
  <2>2. CASE s = x
    BY <1>3, <1>5, <2>1, <2>2 DEF b
  <2>3. CASE s # x
    BY <1>3, <2>1, <2>3
  <2>. QED
    BY <2>2, <2>3
<1>9. \A s \in SessionIds : s \notin todoLists' => Range(bySession'[s]) \subseteq Present'
  <2>. TAKE s \in SessionIds
  <2>. HAVE s \notin todoLists'
  <2>1. CASE s = x
    BY <1>3, <1>5, <1>6, <2>1
  <2>2. CASE s # x
    BY <1>0, <1>1, <1>2, <1>3, <1>6, <2>2 DEF Swept
  <2>. QED
    BY <2>1, <2>2
<1>. QED
  BY <1>2, <1>7, <1>8, <1>9 DEF IndexKept, PlansFree

LEMMA IndexIsKept ==
  ASSUME IInv, Indexed, IndexMove
  PROVE  IndexKept
BY KeptWhenSame, KeptWhenInserted, KeptWhenRemoved, KeptWhenDropped, KeptWhenEntrySwept,
   KeptWhenListSwept DEF IndexMove

\* A handler is about to insert a plan only if it was, or has just minted it.
LEMMA InsertingMoves ==
  ASSUME IInv, ThreadMove
  PROVE  \/ \A w \in Workers : pc'[w] = "insert" => pc[w] = "insert" /\ plan'[w] = plan[w]
         \/ \E w \in Workers : /\ pc[w] = "mint" /\ MintPlan(about[w], now)
                               /\ plan'[w] = minted + 1
                               /\ \A v \in Workers \ {w} : pc'[v] = pc[v] /\ plan'[v] = plan[v]
<1>0. ThreadTypes /\ \A w \in Workers : w \in Threads
  BY DEF IInv, TypeOK, Threads
<1>1. ASSUME NEW h \in Threads, pc'[h] # "insert",
             \A k \in Threads \ {h} : pc'[k] = pc[k] /\ plan'[k] = plan[k]
      PROVE  \A w \in Workers : pc'[w] = "insert" => pc[w] = "insert" /\ plan'[w] = plan[w]
  BY <1>0, <1>1
<1>2. CASE UNCHANGED threadVars
  BY <1>2 DEF threadVars
<1>3. CASE \E h \in Threads : Finish(h)
  BY <1>0, <1>1, <1>3 DEF Finish, ThreadTypes
<1>4. CASE \E h \in Threads : Begins(h)
  BY <1>0, <1>1, <1>4 DEF Begins, Ask, ThreadTypes
<1>5. ASSUME NEW h \in Threads, NEW label \in Labels, MovesOn(h, label)
      PROVE  \A w \in Workers : pc'[w] = "insert" => pc[w] = "insert" /\ plan'[w] = plan[w]
  BY <1>0, <1>1, <1>5 DEF MovesOn, Goto, ThreadTypes
<1>6. CASE \E w \in Workers : Connect(w)
  BY <1>0, <1>1, <1>6 DEF Connect, ThreadTypes
<1>7. ASSUME NEW c \in Conns, Reads(c)
      PROVE  \A w \in Workers : pc'[w] = "insert" => pc[w] = "insert" /\ plan'[w] = plan[w]
  BY <1>1, <1>7, ReadsFacts
<1>8. ASSUME NEW w \in Workers, pc[w] = "mint", MintPlan(about[w], now),
             pc' = [pc EXCEPT ![w] = "insert"], plan' = [plan EXCEPT ![w] = minted + 1]
      PROVE  /\ plan'[w] = minted + 1
             /\ \A v \in Workers \ {w} : pc'[v] = pc[v] /\ plan'[v] = plan[v]
  BY <1>0, <1>8 DEF ThreadTypes
<1>. QED
  BY <1>2, <1>3, <1>4, <1>5, <1>6, <1>7, <1>8 DEF ThreadMove

\* The request id a handler draws is the ticket's number, while ids have not
\* wrapped around.
LEMMA IdIsTicket ==
  ASSUME NoWrap, IInv, Indexed, NEW w \in Workers, pc[w] = "mint"
  PROVE  /\ RequestId = minted + 1
         /\ (minted + 1) + 1 < IdModulus => (RequestId + 1) % IdModulus = (minted + 1) + 1
<1>1. minted \in Nat /\ MaxPlans \in Nat /\ IdModulus \in Nat /\ nextId \in Ids /\ minted < MaxPlans
  BY MintLeft, PlanAssumption DEF IInv, TypeOK, PlanTypes
<1>2. minted + 1 < IdModulus
  BY <1>1 DEF NoWrap
<1>3. nextId = minted + 1
  BY <1>2 DEF Indexed
<1>4. RequestId = minted + 1
  BY <1>1, <1>3 DEF RequestId
<1>5. (minted + 1) + 1 < IdModulus => ((minted + 1) + 1) % IdModulus = (minted + 1) + 1
  BY <1>1, NextIds
<1>. QED
  BY <1>4, <1>5

LEMMA NextIdStep ==
  ASSUME NoWrap, IInv, Indexed, PlanMove
  PROVE  minted' + 1 < IdModulus => nextId' = minted' + 1
<1>1. CASE UNCHANGED <<minted, nextId>>
  BY <1>1 DEF Indexed
<1>2. ASSUME NEW w \in Workers, pc[w] = "mint", SkipId \/ MintPlan(about[w], now)
      PROVE  minted' + 1 < IdModulus => nextId' = minted' + 1
  <2>1. minted' = minted + 1 /\ nextId' = (RequestId + 1) % IdModulus
    BY <1>2 DEF SkipId, MintPlan
  <2>. QED
    BY <1>2, <2>1, IdIsTicket
<1>3. \/ UNCHANGED <<minted, nextId>>
      \/ \E w \in Workers : pc[w] = "mint" /\ (SkipId \/ MintPlan(about[w], now))
  <2>1. CASE UNCHANGED planVars \/ \E w \in Workers : InsertPlan(plan[w])
    BY <2>1 DEF planVars, InsertPlan
  <2>2. CASE \/ \E p \in Tickets, a \in Nat : TouchPlan(p, a)
             \/ \E id \in Ids : RemovePlan(id)
             \/ \E s \in SessionIds : DropSession(s)
    BY <2>2 DEF TouchPlan, RemovePlan, DropSession
  <2>3. CASE \/ \E id \in todoIds : SweepPlan(id, sweptAt, planSession[entries[id]] \in sessions)
             \/ \E s \in todoLists : SweepList(s, s \in sessions)
    BY <2>3 DEF SweepPlan, SweepList
  <2>. QED
    BY <2>1, <2>2, <2>3 DEF PlanMove
<1>. QED
  BY <1>1, <1>2, <1>3

LEMMA FreshStep ==
  ASSUME NoWrap, IInv, Indexed, SessionMove, PlanMove, ThreadMove, IndexKept
  PROVE  \A w \in Workers : Fresh(w)'
<1>0. /\ ThreadTypes /\ PlanTypes /\ (\A w \in Workers : w \in Threads) /\ minted \in Nat
      /\ \A w \in Workers : Fresh(w)
  BY DEF IInv, Indexed, TypeOK, PlanTypes, Threads
<1>1. \A w \in Workers : pc[w] = "insert" => plan[w] \in 1 .. minted /\ plan[w] \in Ids
  <2>. TAKE w \in Workers
  <2>. HAVE pc[w] = "insert"
  <2>1. plan[w] \in 1 .. minted /\ planId[plan[w]] \in Ids
    BY <1>0, ThreadFacts
  <2>. QED
    BY <1>0, <2>1 DEF Fresh
<1>2. ASSUME NEW w \in Workers, pc'[w] = "insert", pc[w] = "insert", plan'[w] = plan[w]
      PROVE  /\ planId'[plan'[w]] = plan'[w] /\ plan'[w] \notin Present'
             /\ \A s \in SessionIds : plan'[w] \notin Range(bySession'[s])
  <2>1. planId'[plan[w]] = plan[w]
    BY <1>0, <1>1, <1>2, Monotone DEF Fresh
  <2>2. ASSUME NEW v \in Workers, pc[v] = "insert", Finish(v)
        PROVE  plan[v] # plan[w]
    <3>1. v # w
      BY <1>0, <1>2, <2>2 DEF Finish, ThreadTypes
    <3>. QED
      BY <1>0, <1>2, <2>2, <3>1 DEF Fresh
  <2>3. plan[w] \notin Present'
    <3>1. CASE \E v \in Workers : pc[v] = "insert" /\ InsertPlan(plan[v]) /\ Finish(v)
      <4>1. PICK v \in Workers : pc[v] = "insert" /\ InsertPlan(plan[v]) /\ Finish(v)
        BY <3>1
      <4>. DEFINE p == plan[v]
      <4>2. p \in Tickets /\ planSession[p] \in SessionIds /\ planId[p] = p /\ p # plan[w]
        BY <1>0, <2>2, <4>1, ThreadFacts DEF Fresh
      <4>. HIDE DEF p
      <4>3. PICK ids, q \in Seq(Ids) : Making(planSession[p], p, ids, q)
        BY <1>0, <4>1, <4>2, InsertFacts DEF p
      <4>4. entries' = [entries EXCEPT ![p] = p]
              \/ \E old : entries' = [entries EXCEPT ![old] = NoPlan, ![p] = p]
        BY <4>2, <4>3 DEF Making
      <4>5. plan[w] \in Ids /\ entries[plan[w]] = NoPlan
        BY <1>0, <1>1, <1>2 DEF Fresh, Present
      <4>6. entries'[plan[w]] = NoPlan
        BY <1>0, <4>2, <4>4, <4>5 DEF PlanTypes
      <4>. QED
        BY <4>6 DEF Present
    <3>2. CASE \A id \in Ids : entries'[id] = entries[id] \/ entries'[id] = NoPlan
      BY <1>0, <1>1, <1>2, <3>2 DEF Fresh, Present
    <3>3. \/ \E v \in Workers : pc[v] = "insert" /\ InsertPlan(plan[v]) /\ Finish(v)
          \/ \A id \in Ids : entries'[id] = entries[id] \/ entries'[id] = NoPlan
      <4>0. todoIds \subseteq Ids
        BY DEF IInv, TypeOK, SweepTypes
      <4>1. CASE UNCHANGED planVars \/ \E v \in Workers : SkipId \/ MintPlan(about[v], now)
        BY <4>1 DEF planVars, SkipId, MintPlan
      <4>2. CASE \/ \E p \in Tickets, a \in Nat : TouchPlan(p, a)
                 \/ \E s \in todoLists : SweepList(s, s \in sessions)
        BY <4>2 DEF TouchPlan, SweepList
      <4>3. CASE \E id \in Ids : RemovePlan(id)
        BY <1>0, <4>3 DEF RemovePlan, PlanTypes
      <4>4. CASE \E s \in SessionIds : DropSession(s)
        BY <1>0, <4>4 DEF DropSession, PlanTypes
      <4>5. CASE \E id \in todoIds : SweepPlan(id, sweptAt, planSession[entries[id]] \in sessions)
        BY <1>0, <4>0, <4>5 DEF SweepPlan, PlanTypes
      <4>. QED
        BY <4>1, <4>2, <4>3, <4>4, <4>5 DEF PlanMove
    <3>. QED
      BY <3>1, <3>2, <3>3
  <2>4. \A s \in SessionIds : plan[w] \notin Range(bySession'[s])
    BY <1>0, <1>2, <2>2 DEF IndexKept, ListKept, Fresh
  <2>. QED
    BY <1>2, <2>1, <2>3, <2>4
<1>3. ASSUME \A w \in Workers : pc'[w] = "insert" => pc[w] = "insert" /\ plan'[w] = plan[w]
      PROVE  \A w \in Workers : Fresh(w)'
  BY <1>0, <1>2, <1>3 DEF Fresh
<1>4. ASSUME NEW x \in Workers, pc[x] = "mint", MintPlan(about[x], now), plan'[x] = minted + 1,
             \A v \in Workers \ {x} : pc'[v] = pc[v] /\ plan'[v] = plan[v]
      PROVE  \A w \in Workers : Fresh(w)'
  <2>1. minted + 1 \notin 1 .. minted
    BY <1>0
  <2>2. \A v \in Workers \ {x} : pc'[v] = "insert" =>
          pc[v] = "insert" /\ plan'[v] = plan[v] /\ plan'[v] # minted + 1
    BY <1>1, <1>4, <2>1
  <2>3. entries' = entries /\ bySession' = bySession /\ Present' = Present
    BY <1>4 DEF MintPlan, Present
  <2>4. planId'[minted + 1] = minted + 1
    <3>1. minted + 1 \in Tickets /\ DOMAIN planId = Tickets
      BY <1>0, <1>4, MintLeft DEF PlanTypes
    <3>. QED
      BY <1>4, <3>1, IdIsTicket DEF MintPlan
  <2>5. minted + 1 \notin Present'
    BY <2>1, <2>3, IndexFacts
  <2>6. \A s \in SessionIds : minted + 1 \notin Range(bySession'[s])
    BY <2>1, <2>3 DEF Indexed, Listed
  <2>. TAKE w \in Workers
  <2>7. CASE w = x
    BY <1>4, <2>2, <2>4, <2>5, <2>6, <2>7 DEF Fresh
  <2>8. CASE w # x
    <3>. SUFFICES ASSUME pc'[w] = "insert"
                  PROVE  /\ planId'[plan'[w]] = plan'[w] /\ plan'[w] \notin Present'
                         /\ \A s \in SessionIds : plan'[w] \notin Range(bySession'[s])
                         /\ \A v \in Workers : v # w /\ pc'[v] = "insert" => plan'[v] # plan'[w]
      BY DEF Fresh
    <3>1. pc[w] = "insert" /\ plan'[w] = plan[w] /\ plan'[w] # minted + 1
      BY <2>2, <2>8
    <3>2. \A v \in Workers : v # w /\ pc'[v] = "insert" => plan'[v] # plan'[w]
      BY <1>0, <1>4, <2>2, <3>1 DEF Fresh
    <3>. QED
      BY <1>2, <3>1, <3>2
  <2>. QED
    BY <2>7, <2>8
<1>. QED
  BY <1>3, <1>4, InsertingMoves

LEMMA IndexedInit == NoWrap /\ Init => Indexed
<1>. SUFFICES ASSUME NoWrap, Init
              PROVE  Indexed
  OBVIOUS
<1>1. Present = {} /\ (\A w \in Workers : pc[w] = "idle") /\ minted = 0 /\ nextId = 1
      /\ \A s \in SessionIds : bySession[s] = << >>
  BY DEF Init, PlansInit, Present, Threads
<1>2. \A w \in Workers : Fresh(w)
  BY <1>1 DEF Fresh
<1>3. \A s \in SessionIds : Listed(s)
  <2>1. Len(<< >>) = 0 /\ 0 <= MaxTransfers
    BY PlanAssumption
  <2>. QED
    BY <1>1, <2>1, ShortSeqs DEF Listed
<1>4. Swept
  BY <1>1, ShortSeqs DEF Swept
<1>5. IndexComplete
  BY DEF Init, SessionsInit, IndexComplete
<1>. QED
  BY <1>1, <1>2, <1>3, <1>4, <1>5 DEF Indexed

LEMMA IndexedStep == NoWrap /\ IInv /\ Indexed /\ [Next]_vars => Indexed'
<1>. SUFFICES ASSUME NoWrap, IInv, Indexed, [Next]_vars
              PROVE  Indexed'
  OBVIOUS
<1>0. SessionMove /\ PlanMove /\ ThreadMove /\ IndexKept
  BY SessionMoves, PlanMoves, ThreadMoves, IndexMoves, IndexIsKept
<1>1. minted' + 1 < IdModulus => nextId' = minted' + 1
  BY <1>0, NextIdStep
<1>2. \A w \in Workers : Fresh(w)'
  BY <1>0, FreshStep
<1>3. /\ created \subseteq created' /\ minted \in Nat /\ minted' \in Nat
      /\ \A p \in 1 .. minted : p \in 1 .. minted' /\ planSession'[p] = planSession[p]
  BY <1>0, Monotone
<1>4. \A w \in Workers : pc[w] = "insert" => plan[w] \in 1 .. minted /\ planId[plan[w]] = plan[w]
  <2>. TAKE w \in Workers
  <2>. HAVE pc[w] = "insert"
  <2>1. w \in Threads /\ Fresh(w)
    BY DEF Threads, Indexed
  <2>. QED
    BY <2>1, ThreadFacts DEF Fresh
<1>5. ASSUME NEW id \in Present'
      PROVE  entries'[id] = id /\ id \in 1 .. minted
  <2>1. id \in Ids /\ entries'[id] # NoPlan
    BY DEF Present
  <2>2. CASE entries'[id] = entries[id]
    <3>1. id \in Present
      BY <2>1, <2>2 DEF Present
    <3>. QED
      BY <2>2, <3>1, IndexFacts
  <2>3. CASE \E w \in Workers : /\ pc[w] = "insert" /\ id = planId[plan[w]]
                                /\ entries'[id] = plan[w]
    BY <1>4, <2>3
  <2>. QED
    BY <1>0, <2>1, <2>2, <2>3, EntriesMove
<1>6. ASSUME NEW s \in SessionIds
      PROVE  Listed(s)'
  <2>1. ListKept(s)
    BY <1>0 DEF IndexKept
  <2>2. ASSUME NEW id \in Range(bySession'[s])
        PROVE  id \in 1 .. minted /\ planSession[id] = s
    <3>1. CASE id \in Range(bySession[s])
      BY <3>1 DEF Indexed, Listed
    <3>2. CASE \E w \in Workers : pc[w] = "insert" /\ plan[w] = id /\ planSession[id] = s
      BY <1>4, <3>2
    <3>. QED
      BY <2>1, <3>1, <3>2 DEF ListKept
  <2>. QED
    BY <1>3, <2>1, <2>2 DEF Listed, ListKept
<1>7. Swept'
  BY <1>0 DEF IndexKept, Swept
<1>8. IndexComplete'
  <2>. SUFFICES ASSUME NEW s \in sessions', NEW id \in Registered(s)'
                PROVE  id \in Range(bySession'[s])
    BY DEF IndexComplete
  <2>1. id \in Present' /\ planSession'[entries'[id]] = s
    BY DEF Registered, Present
  <2>2. entries'[id] = id /\ planSession[id] = s
    BY <1>3, <1>5, <2>1
  <2>3. s \in sessions \/ s \notin created
    BY <1>0 DEF SessionMove, sessionVars, CreateSession, TouchSession, RemoveSession,
                SweepExpired, CountConn
  <2>4. s \in created
    <3>1. CASE entries'[id] = entries[id]
      <4>1. id \in Present
        BY <2>1, <3>1 DEF Present
      <4>. QED
        BY <2>2, <4>1, IndexFacts
    <3>2. CASE \E w \in Workers : /\ pc[w] = "insert" /\ id = planId[plan[w]]
                                  /\ entries'[id] = plan[w]
      <4>1. PICK w \in Workers : /\ pc[w] = "insert" /\ entries'[id] = plan[w]
        BY <3>2
      <4>. QED
        BY <2>2, <4>1, ThreadFacts DEF Threads
    <3>. QED
      BY <1>0, <2>1, <3>1, <3>2, EntriesMove DEF Present
  <2>5. s \in sessions
    BY <2>3, <2>4
  <2>. QED
    BY <1>0, <2>1, <2>2, <2>5 DEF IndexKept
<1>. QED
  BY <1>1, <1>2, <1>5, <1>6, <1>7, <1>8 DEF Indexed

LEMMA IndexedHolds == NoWrap /\ Spec => [](IInv /\ Indexed)
<1>. SUFFICES ASSUME NoWrap
              PROVE  Spec => [](IInv /\ Indexed)
  OBVIOUS
<1>1. Init => IInv /\ Indexed
  BY InvInit, IndexedInit
<1>2. IInv /\ Indexed /\ [Next]_vars => IInv' /\ Indexed'
  BY InvStep, IndexedStep
<1>. QED
  BY <1>1, <1>2, PTL DEF Spec

\* by_session and entries: whenever the lock over both is free, a list holds
\* plans of its session that are registered, each of them once.
THEOREM IndexStaysSound == NoWrap /\ Spec => []IndexSound
<1>1. ASSUME IInv, Indexed
      PROVE  IndexSound
  <2>. SUFFICES ASSUME PlansFree, NEW s \in SessionIds
                PROVE  IsInjective(bySession[s]) /\ Range(bySession[s]) \subseteq Registered(s)
    BY DEF IndexSound
  <2>1. IsInjective(bySession[s])
    BY <1>1, IndexFacts
  <2>2. ASSUME NEW id \in Range(bySession[s])
        PROVE  id \in Registered(s)
    <3>1. id \in Present /\ planSession[id] = s
      BY <1>1, IndexFacts
    <3>2. entries[id] = id
      BY <1>1, <3>1, IndexFacts
    <3>. QED
      BY <3>1, <3>2 DEF Registered, Present
  <2>. QED
    BY <2>1, <2>2
<1>. QED
  BY <1>1, IndexedHolds, PTL

\* A plan of a live session is never outside the session's list, whatever the
\* sweeper, a prepare, an expiry or an eviction is in the middle of: so
\* remove_session finds every plan, and the cap of insert_at counts every plan.
THEOREM IndexStaysComplete == NoWrap /\ Spec => []IndexComplete
<1>1. Indexed => IndexComplete
  BY DEF Indexed
<1>. QED
  BY <1>1, IndexedHolds, PTL

\* A list without repetition has as many elements as positions.
LEMMA CountOfList ==
  ASSUME NEW X, NEW q \in Seq(X), IsInjective(q)
  PROVE  Cardinality(Range(q)) = Len(q)
<1>1. Len(q) \in Nat /\ DOMAIN q = 1 .. Len(q) /\ q = [i \in 1 .. Len(q) |-> q[i]]
  OBVIOUS
<1>2. q \in [1 .. Len(q) -> Range(q)]
  BY <1>1 DEF Range
<1>3. q \in Bijection(1 .. Len(q), Range(q))
  BY <1>1, <1>2 DEF Bijection, Injection, Surjection, Range
<1>4. ExistsBijection(1 .. Len(q), Range(q))
  BY <1>3 DEF ExistsBijection
<1>. QED
  BY <1>1, <1>4, FS_CountingElements

\* insert_at: what goes to make room for a plan of a live session is a plan of
\* that session, which has exactly max_transfers_per_session of them, and none
\* of the others was used longer ago.
THEOREM OldestIsEvicted == NoWrap /\ Spec => EvictsTheOldest
<1>. DEFINE Gone(w) == {id \in Ids \ {planId[plan[w]]} :
                          entries[id] # NoPlan /\ entries'[id] # entries[id]}
            Rule(s, gone) == /\ gone # {} => Cardinality(Registered(s)) = MaxTransfers
                             /\ \A id \in gone :
                                  /\ id \in Registered(s)
                                  /\ \A other \in Registered(s) :
                                       lastUsed[entries[id]] <= lastUsed[entries[other]]
<1>1. ASSUME IInv, Indexed, NEW w \in Workers, Insert(w), planSession[plan[w]] \in sessions
      PROVE  Rule(planSession[plan[w]], Gone(w))
  <2>. DEFINE p == plan[w]
              s == planSession[p]
              b == bySession[s]
  <2>0. PlanTypes /\ MaxTransfers \in Nat /\ Fresh(w)
    BY <1>1, PlanAssumption DEF IInv, TypeOK, Indexed
  <2>1. /\ p \in Tickets /\ s \in SessionIds /\ s \in sessions /\ planId[p] = p /\ p \in Ids
        /\ PlansFree /\ InsertPlan(p)
    BY <1>1, <2>0, ThreadFacts DEF Insert, Threads, Fresh
  <2>2. PICK ids, q \in Seq(Ids) :
               /\ Len(ids) <= Len(b) /\ Range(ids) = Range(b) \cap Present
               /\ IsInjective(b) => IsInjective(ids)
               /\ Making(s, p, ids, q)
    BY <2>0, <2>1, InsertFacts
  <2>. HIDE DEF p, s
  <2>3. b \in Seq(Ids) /\ IsInjective(b) /\ Len(b) <= MaxTransfers /\ Range(b) \subseteq Present
    BY <1>1, <2>1, IndexFacts
  <2>4. Registered(s) = Range(b)
    <3>1. ASSUME NEW id \in Range(b)
          PROVE  id \in Registered(s)
      <4>1. id \in Present /\ planSession[id] = s /\ entries[id] = id
        BY <1>1, <2>1, <2>3, IndexFacts
      <4>. QED
        BY <4>1 DEF Registered, Present
    <3>2. Registered(s) \subseteq Range(b)
      BY <1>1, <2>1 DEF Indexed, IndexComplete
    <3>. QED
      BY <3>1, <3>2
  <2>5. CASE entries' = [entries EXCEPT ![planId[p]] = p]
    <3>1. \A id \in Ids \ {p} : entries'[id] = entries[id]
      BY <2>0, <2>1, <2>5 DEF PlanTypes
    <3>2. Gone(w) = {}
      BY <2>1, <3>1 DEF p
    <3>. HIDE DEF Gone
    <3>. QED
      BY <3>2 DEF s, p
  <2>6. ASSUME NEW old \in Range(ids), Len(ids) >= MaxTransfers,
               entries' = [entries EXCEPT ![old] = NoPlan, ![planId[p]] = p],
               \A other \in Range(ids) : lastUsed[entries[old]] <= lastUsed[entries[other]]
        PROVE  Rule(planSession[plan[w]], Gone(w))
    <3>1. \A id \in Ids \ {p} : id # old => entries'[id] = entries[id]
      BY <2>0, <2>1, <2>6 DEF PlanTypes
    <3>2. Gone(w) \subseteq {old}
      BY <2>1, <3>1 DEF p
    <3>3. Len(b) = MaxTransfers
      <4>1. Len(ids) \in Nat /\ Len(b) \in Nat
        BY <2>2, <2>3
      <4>. QED
        BY <2>0, <2>2, <2>3, <2>6, <4>1
    <3>4. Cardinality(Registered(s)) = MaxTransfers
      BY <2>3, <2>4, <3>3, CountOfList
    <3>5. Range(ids) = Registered(s)
      BY <2>2, <2>3, <2>4
    <3>. HIDE DEF Gone
    <3>. QED
      BY <2>6, <3>2, <3>4, <3>5 DEF s, p
  <2>. QED
    BY <2>2, <2>5, <2>6 DEF Making
<1>2. IInv /\ Indexed /\ [Next]_vars =>
        [\A w \in Workers : Insert(w) /\ planSession[plan[w]] \in sessions =>
           Rule(planSession[plan[w]], Gone(w))]_vars
  BY <1>1
<1>. QED
  BY <1>2, IndexedHolds, PTL DEF Spec, EvictsTheOldest
=============================================================================
