------------------------------- MODULE Server -------------------------------
(***************************************************************************)
(* The threads of the server that share its two registries: RPC handlers   *)
(* (control.rs), data connections (dataplane.rs) and the sweeper (lib.rs). *)
(*                                                                         *)
(* A step is what a thread does between two moments at which another may   *)
(* come in between: a mutex is taken, a message read or sent, or a clock   *)
(* value read that is used later.  Only the sweeper holds the mutex over   *)
(* Plans for longer than a step: it asks about sessions while it does.     *)
(***************************************************************************)
EXTENDS Plans

CONSTANTS
  Workers,   \* handlers of RPCs, each of them at one RPC at a time
  Conns,     \* threads of data connections, likewise
  Desired,   \* desired_streams clients ask for
  MaxTime,   \* bound: the clock stops here
  NoSession  \* a thread about no session

ASSUME ServerAssumption ==
  /\ Workers \cap Conns = {}
  /\ IsFiniteSet(Workers) /\ IsFiniteSet(Conns)
  /\ Desired \subseteq Nat
  /\ MaxTime \in Nat
  /\ NoSession \notin SessionIds

VARIABLES
  now,       \* the monotonic clock both registries read
  pc,        \* what each thread is about to do
  about,     \* the session it serves
  at,        \* the clock value it has read
  then,      \* what it does once the session is looked up
  plan,      \* the plan it mints, was asked for or sends
  issued,    \* plans a reply has told a client of
  sweeping,  \* the sweeper: asleep, past the sessions, or holding the plans
  sweptAt,   \* the clock value it sweeps plans against
  todoIds,   \* entries it has still to look at
  todoLists  \* lists of the index it has still to look at

threadVars == <<pc, about, at, then, plan>>
sweepVars  == <<sweeping, sweptAt, todoIds, todoLists>>
vars == <<sessionVars, planVars, now, threadVars, issued, sweepVars>>

Threads == Workers \cup Conns

Labels == {"idle", "create", "get", "expire", "mint", "insert", "remove", "drop",
           "count", "ready", "serve", "touch", "clock", "fetch", "unplan", "send"}

ThreadTypes ==
  /\ pc \in [Threads -> Labels]
  /\ about \in [Threads -> SessionIds \cup {NoSession}]
  /\ at \in [Threads -> 0 .. MaxTime]
  /\ then \in [Threads -> {"idle", "mint", "remove", "count"}]
  /\ plan \in [Threads -> Tickets \cup {NoPlan}]

SweepTypes ==
  /\ sweeping \in {"asleep", "awake", "sweep"}
  /\ sweptAt \in 0 .. MaxTime
  /\ todoIds \subseteq Ids
  /\ todoLists \subseteq SessionIds

\* The counters of the registries stay natural numbers: nothing counts below 0.
TypeOK ==
  /\ SessionTypes /\ PlanTypes /\ ThreadTypes /\ SweepTypes
  /\ now \in 0 .. MaxTime
  /\ issued \subseteq Tickets

Init ==
  /\ SessionsInit
  /\ PlansInit
  /\ now = 0
  /\ pc = [h \in Threads |-> "idle"]
  /\ about = [h \in Threads |-> NoSession]
  /\ at = [h \in Threads |-> 0]
  /\ then = [h \in Threads |-> "idle"]
  /\ plan = [h \in Threads |-> NoPlan]
  /\ issued = {}
  /\ sweeping = "asleep"
  /\ sweptAt = 0
  /\ todoIds = {}
  /\ todoLists = {}

Tick ==
  /\ now < MaxTime
  /\ now' = now + 1
  /\ UNCHANGED <<sessionVars, planVars, threadVars, issued, sweepVars>>

\* The mutex over Plans.
PlansFree == sweeping # "sweep"

---------------------------------------------------------------------------
(* What threads have in common.                                            *)

Goto(h, label) ==
  /\ pc' = [pc EXCEPT ![h] = label]
  /\ UNCHANGED <<about, at, then, plan>>

\* The thread is through, and forgets what it was about.
Finish(h) ==
  /\ pc' = [pc EXCEPT ![h] = "idle"]
  /\ about' = [about EXCEPT ![h] = NoSession]
  /\ at' = [at EXCEPT ![h] = 0]
  /\ then' = [then EXCEPT ![h] = "idle"]
  /\ plan' = [plan EXCEPT ![h] = NoPlan]

\* A data connection goes back to reading frames, and forgets the last one.
Resume(h) ==
  /\ pc' = [pc EXCEPT ![h] = "serve"]
  /\ at' = [at EXCEPT ![h] = 0]
  /\ plan' = [plan EXCEPT ![h] = NoPlan]
  /\ UNCHANGED <<about, then>>

\* SessionRegistry::get, called with the clock as it is now.
Ask(h, s, next) ==
  /\ pc[h] = "idle"
  /\ s \in created
  /\ pc' = [pc EXCEPT ![h] = "get"]
  /\ about' = [about EXCEPT ![h] = s]
  /\ at' = [at EXCEPT ![h] = now]
  /\ then' = [then EXCEPT ![h] = next]
  /\ UNCHANGED <<sessionVars, planVars, now, plan, issued, sweepVars>>

\* get_at: the session is found, marked as used and handed to the caller, or
\* is not there, or has expired.
Get(h) ==
  /\ pc[h] = "get"
  /\ \/ /\ about[h] \notin sessions
        /\ Finish(h)
        /\ UNCHANGED sessionVars
     \/ /\ about[h] \in sessions
        /\ Expired(about[h], at[h])
        /\ Goto(h, "expire")
        /\ UNCHANGED sessionVars
     \/ /\ about[h] \in sessions
        /\ ~Expired(about[h], at[h])
        /\ TouchSession(about[h], at[h])
        /\ IF then[h] = "idle" THEN Finish(h) ELSE Goto(h, then[h])
  /\ UNCHANGED <<planVars, now, issued, sweepVars>>

\* The second lock of get_at.
Expire(h) ==
  /\ pc[h] = "expire"
  /\ RemoveSession(about[h])
  /\ Finish(h)
  /\ UNCHANGED <<planVars, now, issued, sweepVars>>

---------------------------------------------------------------------------
(* RPCs.                                                                   *)

\* connect, with the limit checked.  The guard on ids bounds the sessions.
Connect(w) ==
  /\ pc[w] = "idle"
  /\ HasRoom
  /\ Cardinality(created) + Cardinality({v \in Workers : pc[v] = "create"})
       < Cardinality(SessionIds)
  /\ pc' = [pc EXCEPT ![w] = "create"]
  /\ at' = [at EXCEPT ![w] = now]
  /\ UNCHANGED <<sessionVars, planVars, now, about, then, plan, issued, sweepVars>>

\* The session is made, unless no random bytes are to be had.
Create(w) ==
  /\ pc[w] = "create"
  /\ \/ UNCHANGED sessionVars
     \/ \E s \in SessionIds \ created, desired \in Desired : CreateSession(s, desired, at[w])
  /\ Finish(w)
  /\ UNCHANGED <<planVars, now, issued, sweepVars>>

\* An RPC that only needs its session: files are opened, listed and closed.
UseSession(w) == \E s \in SessionIds : Ask(w, s, "idle")

\* Handlers that may yet draw a request id.
Minting == {v \in Workers : then[v] = "mint" /\ pc[v] \in {"get", "mint"}}

\* prepare, for any plan that may still be minted.
Prepare(w) ==
  /\ minted + Cardinality(Minting) < MaxPlans
  /\ \E s \in SessionIds : Ask(w, s, "mint")

\* A selection that fails to resolve or is answered inline mints nothing, and
\* one for which no ticket can be drawn only takes a request id.
Mint(w) ==
  /\ pc[w] = "mint"
  /\ \/ /\ Finish(w)
        /\ SkipId \/ UNCHANGED planVars
     \/ /\ MintPlan(about[w], now)
        /\ pc' = [pc EXCEPT ![w] = "insert"]
        /\ plan' = [plan EXCEPT ![w] = minted + 1]
        /\ UNCHANGED <<about, at, then>>
  /\ UNCHANGED <<sessionVars, now, issued, sweepVars>>

Insert(w) ==
  /\ pc[w] = "insert"
  /\ PlansFree
  /\ InsertPlan(plan[w])
  /\ issued' = issued \cup {plan[w]}
  /\ Finish(w)
  /\ UNCHANGED <<sessionVars, now, sweepVars>>

Disconnect(w) == \E s \in SessionIds : Ask(w, s, "remove")

EndSession(w) ==
  /\ pc[w] = "remove"
  /\ RemoveSession(about[w])
  /\ Goto(w, "drop")
  /\ UNCHANGED <<planVars, now, issued, sweepVars>>

Drop(w) ==
  /\ pc[w] = "drop"
  /\ PlansFree
  /\ DropSession(about[w])
  /\ Finish(w)
  /\ UNCHANGED <<sessionVars, now, issued, sweepVars>>

---------------------------------------------------------------------------
(* A data connection.                                                      *)

\* A HELLO.  One with the wrong token is refused only once its session has
\* been looked up, and so marked as used.
Hello(c) == \E s \in SessionIds, next \in {"count", "idle"} : Ask(c, s, next)

\* Mutant: counted out when it ends, and never in.
CountNone(c) ==
  /\ pc[c] = "count"
  /\ IF StreamFree(about[c]) THEN Goto(c, "ready") ELSE Finish(c)
  /\ UNCHANGED <<sessionVars, planVars, now, issued, sweepVars>>

\* Mutant: the check is apart from the count, and a connection that is between
\* them is not seen by the others.
CountLate(c) ==
  /\ pc[c] = "count"
  /\ IF Cardinality({d \in Conns : about[d] = about[c] /\ pc[d] \notin {"get", "expire", "count", "ready"}})
          < granted[about[c]]
     THEN CountConn(about[c], 1) /\ Goto(c, "ready")
     ELSE Finish(c) /\ UNCHANGED sessionVars
  /\ UNCHANGED <<planVars, now, issued, sweepVars>>

\* The end of check_hello; refused when every stream granted is taken.
Count(c) ==
  /\ pc[c] = "count"
  /\ IF StreamFree(about[c])
     THEN CountConn(about[c], 1) /\ Goto(c, "ready")
     ELSE Finish(c) /\ UNCHANGED sessionVars
  /\ UNCHANGED <<planVars, now, issued, sweepVars>>

\* READY is written, or the write fails and the thread ends.
Ready(c) ==
  /\ pc[c] = "ready"
  /\ Resume(c) \/ Finish(c)
  /\ UNCHANGED <<sessionVars, planVars, now, issued, sweepVars>>

\* The header of a frame is read, and the clock for the session's sake ...
Frame(c) ==
  /\ pc[c] = "serve"
  /\ pc' = [pc EXCEPT ![c] = "touch"]
  /\ at' = [at EXCEPT ![c] = now]
  /\ UNCHANGED <<sessionVars, planVars, now, about, then, plan, issued, sweepVars>>

\* ... which is marked as used if it is still in the map.
Touch(c) ==
  /\ pc[c] = "touch"
  /\ IF about[c] \in sessions THEN TouchSession(about[c], at[c]) ELSE UNCHANGED sessionVars
  /\ pc' = [pc EXCEPT ![c] = "clock"]
  /\ at' = [at EXCEPT ![c] = 0]
  /\ UNCHANGED <<planVars, now, about, then, plan, issued, sweepVars>>

\* A FETCH names a plan that some client was told of, of this session or of
\* another; TransferRegistry::fetch reads the clock before it takes the lock.
ReadClock(c) ==
  /\ pc[c] = "clock"
  /\ pc' = [pc EXCEPT ![c] = "fetch"]
  /\ at' = [at EXCEPT ![c] = now]
  /\ \E p \in issued : plan' = [plan EXCEPT ![c] = p]
  /\ UNCHANGED <<sessionVars, planVars, now, about, then, issued, sweepVars>>

\* The plan found is the one the client means, and the session's.
Authorised(c, p) == p = plan[c] /\ planSession[p] = about[c]

\* fetch: no such plan, which is reported; one that has expired; one that is
\* refused, which ends the connection, as it always may be, for the ticket that
\* comes with a request id may be any; or the plan.
Fetch(c) ==
  /\ pc[c] = "fetch"
  /\ PlansFree
  /\ LET p == entries[planId[plan[c]]] IN
     \/ /\ p = NoPlan
        /\ Resume(c)
        /\ UNCHANGED <<sessionVars, planVars>>
     \/ /\ p # NoPlan /\ IdleTooLong(p, at[c])
        /\ Goto(c, "unplan")
        /\ UNCHANGED <<sessionVars, planVars>>
     \/ /\ p # NoPlan /\ ~IdleTooLong(p, at[c])
        /\ CountConn(about[c], -1)
        /\ Finish(c)
        /\ UNCHANGED planVars
     \/ /\ p # NoPlan /\ ~IdleTooLong(p, at[c]) /\ Authorised(c, p)
        /\ TouchPlan(p, at[c])
        /\ Goto(c, "send")
        /\ UNCHANGED sessionVars
  /\ UNCHANGED <<now, issued, sweepVars>>

\* The second lock of fetch, for an expired plan.
Unplan(c) ==
  /\ pc[c] = "unplan"
  /\ PlansFree
  /\ RemovePlan(planId[plan[c]])
  /\ Resume(c)
  /\ UNCHANGED <<sessionVars, now, issued, sweepVars>>

\* One piece of the reply, and perhaps the last.
Piece(c) ==
  /\ pc[c] = "send"
  /\ TouchPlan(plan[c], now)
  /\ Goto(c, "send") \/ Resume(c)
  /\ UNCHANGED <<sessionVars, now, issued, sweepVars>>

\* Nothing is sent, or nothing more: the frame was a PING, or the fetch is over
\* the limit or out of range, or the storage fails, and the client is told.
Refuse(c) ==
  /\ pc[c] \in {"clock", "send"}
  /\ Resume(c)
  /\ UNCHANGED <<sessionVars, planVars, now, issued, sweepVars>>

\* The peer hangs up, breaks the protocol, goes quiet, or cannot be written to.
HangUp(c) ==
  /\ pc[c] \in {"serve", "clock", "send"}
  /\ CountConn(about[c], -1)
  /\ Finish(c)
  /\ UNCHANGED <<planVars, now, issued, sweepVars>>

---------------------------------------------------------------------------
(* The sweeper: expired sessions, then plans, then the index.              *)

SweepSessions ==
  /\ sweeping = "asleep"
  /\ SweepExpired(now)
  /\ sweeping' = "awake"
  /\ UNCHANGED <<planVars, now, threadVars, issued, sweptAt, todoIds, todoLists>>

SweepBegins ==
  /\ sweeping = "awake"
  /\ sweeping' = "sweep"
  /\ sweptAt' = now
  /\ todoIds' = {id \in Ids : entries[id] # NoPlan}
  /\ todoLists' = {s \in SessionIds : bySession[s] # << >>}
  /\ UNCHANGED <<sessionVars, planVars, now, threadVars, issued>>

SweepEntry ==
  /\ sweeping = "sweep"
  /\ \E id \in todoIds :
       /\ SweepPlan(id, sweptAt, planSession[entries[id]] \in sessions)
       /\ todoIds' = todoIds \ {id}
  /\ UNCHANGED <<sessionVars, now, threadVars, issued, sweeping, sweptAt, todoLists>>

SweepIndex ==
  /\ sweeping = "sweep"
  /\ todoIds = {}
  /\ \E s \in todoLists :
       /\ SweepList(s, s \in sessions)
       /\ todoLists' = todoLists \ {s}
  /\ UNCHANGED <<sessionVars, now, threadVars, issued, sweeping, sweptAt, todoIds>>

SweepEnds ==
  /\ sweeping = "sweep"
  /\ todoIds = {} /\ todoLists = {}
  /\ sweeping' = "asleep"
  /\ sweptAt' = 0
  /\ UNCHANGED <<sessionVars, planVars, now, threadVars, issued, todoIds, todoLists>>

Sweep == SweepSessions \/ SweepBegins \/ SweepEntry \/ SweepIndex \/ SweepEnds

---------------------------------------------------------------------------

Request(w) == Connect(w) \/ UseSession(w) \/ Prepare(w) \/ Disconnect(w)

\* A handler that has begun goes through with it.
Handle(w) ==
  Get(w) \/ Expire(w) \/ Create(w) \/ Mint(w) \/ Insert(w) \/ EndSession(w) \/ Drop(w)

Serve(c) ==
  \/ Get(c) \/ Expire(c) \/ Count(c) \/ Ready(c) \/ Frame(c) \/ Touch(c) \/ ReadClock(c)
  \/ Fetch(c) \/ Unplan(c) \/ Piece(c) \/ Refuse(c) \/ HangUp(c)

Next ==
  \/ Tick
  \/ Sweep
  \/ \E w \in Workers : Request(w) \/ Handle(w)
  \/ \E c \in Conns : Hello(c) \/ Serve(c)

\* The runtime polls every handler and the sweeper's interval keeps firing.
\* Nothing is assumed of clients or of the clock.
Fairness ==
  /\ WF_vars(Sweep)
  /\ \A w \in Workers : WF_vars(Handle(w))

Spec == Init /\ [][Next]_vars /\ Fairness

---------------------------------------------------------------------------
(* Properties.                                                             *)

Registered(s) == {id \in Ids : entries[id] # NoPlan /\ planSession[entries[id]] = s}

\* The index lists the plans of a session and nothing else, and each of them
\* once, whenever the lock over both is free; stale ids are never left behind.
IndexSound ==
  PlansFree => \A s \in SessionIds :
    /\ IsInjective(bySession[s])
    /\ Range(bySession[s]) \subseteq Registered(s)

\* A live session has no plan outside the index, even while the sweeper is at
\* work: disconnecting will find them all, and the cap counts them all.
IndexComplete ==
  \A s \in sessions : Registered(s) \subseteq Range(bySession[s])

\* A plan that goes when one is inserted for a live session had its request id,
\* or is of the same session, at its cap, and no other plan of it was used
\* longer ago.
EvictsTheOldest ==
  [][\A w \in Workers : Insert(w) /\ planSession[plan[w]] \in sessions =>
       LET s == planSession[plan[w]]
           gone == {id \in Ids \ {planId[plan[w]]} :
                      entries[id] # NoPlan /\ entries'[id] # entries[id]}
       IN  /\ gone # {} => Cardinality(Registered(s)) = MaxTransfers
           /\ \A id \in gone : /\ id \in Registered(s)
                               /\ \A other \in Registered(s) :
                                    lastUsed[entries[id]] <= lastUsed[entries[other]]]_vars

\* Connections that belong to a session and have not ended.
Open(s) == {c \in Conns : about[c] = s /\ pc[c] \in {"ready", "serve", "touch", "clock", "fetch",
                                                     "unplan", "send"}}

\* Connections never outnumber the streams granted, and a session never counts
\* fewer than it has: the counter cannot wrap below zero.
StreamsCapped ==
  \A s \in SessionIds : Cardinality(Open(s)) <= dataConns[s] /\ dataConns[s] <= granted[s]

\* Whatever the order of a disconnect, a prepare and a sweep, the plans of a
\* session that is gone go too, and so does its list in the index.
OrphansGo ==
  \A s \in SessionIds :
    (s \in created /\ s \notin sessions) ~> (Registered(s) = {} /\ bySession[s] = << >>)

---------------------------------------------------------------------------
(* What comments, tests and SPEC.md say, and the code does not quite do.   *)

\* max_sessions bounds the sessions that are live, as the test
\* the_session_limit_is_enforced has it for calls made one after another.
SessionLimit == Cardinality(sessions) <= MaxSessions

\* A session counts the data connections it has: check_hello counts one in "so
\* that it is released exactly when the connection ends".
CountsExactly == \A s \in SessionIds : dataConns[s] = Cardinality(Open(s))

\* A session is not expired while a connection of it sends pieces of a fetch,
\* one of them within the timeout: "a transfer in progress must not be
\* cut off by the control plane's idle timeout", says SessionRegistry::touch.
TransferKeepsSession ==
  [][\A s \in sessions \ sessions', c \in Conns :
       about[c] = s /\ pc[c] = "send" =>
         \/ lastUsed[plan[c]] <= at[c]
         \/ now - lastUsed[plan[c]] > IdleTimeout
         \/ \E w \in Workers : about[w] = s /\ pc[w] = "remove"]_vars

---------------------------------------------------------------------------
(* The inductive invariant, in parts.                                      *)

\* A thread past its first step serves a session that was created, and the
\* plan it is about is one of that session.
Serving(h) ==
  /\ pc[h] \notin {"idle", "create"} => about[h] \in created
  /\ pc[h] = "mint" => then[h] = "mint"
  /\ pc[h] \in {"insert", "fetch", "unplan", "send"} => plan[h] \in 1 .. minted
  /\ pc[h] \in {"insert", "send"} => planSession[plan[h]] = about[h]

\* Plans are registered under their request ids, for sessions that were created.
Registry ==
  /\ minted + Cardinality(Minting) <= MaxPlans
  /\ issued \subseteq 1 .. minted
  /\ \A id \in Present : /\ entries[id] \in 1 .. minted /\ planId[entries[id]] = id
                         /\ planSession[entries[id]] \in created

\* The inductive invariant behind the first theorems of ServerProofs: threads
\* and registries agree about sessions and plans.
IInv ==
  /\ TypeOK
  /\ \A h \in Threads : Serving(h)
  /\ Registry
  /\ StreamsCapped
  /\ \A s \in SessionIds \ created : granted[s] = 0

---------------------------------------------------------------------------
(* The rest of it, for request ids that have not wrapped around: the index. *)

\* A plan about to be inserted is new to both maps, and to no other handler.
Fresh(w) ==
  pc[w] = "insert" =>
    /\ planId[plan[w]] = plan[w] /\ plan[w] \notin Present
    /\ \A s \in SessionIds : plan[w] \notin Range(bySession[s])
    /\ \A v \in Workers : v # w /\ pc[v] = "insert" => plan[v] # plan[w]

\* A list of the index holds plans of its session, once each, within the cap.
Listed(s) ==
  /\ IsInjective(bySession[s])
  /\ Len(bySession[s]) <= MaxTransfers
  /\ \A id \in Range(bySession[s]) : id \in 1 .. minted /\ planSession[id] = s

\* A list with a stale id is one the sweeper has still to look at, and it looks
\* at lists only when it is through with the entries.
Swept ==
  /\ \A s \in SessionIds : PlansFree \/ s \notin todoLists =>
       Range(bySession[s]) \subseteq Present
  /\ sweeping = "sweep" /\ todoIds # {} => \A s \in SessionIds \ todoLists : bySession[s] = << >>

\* The inductive invariant behind the theorems of ServerProofs about the index.
Indexed ==
  /\ minted + 1 < IdModulus => nextId = minted + 1
  /\ \A id \in Present : entries[id] = id
  /\ \A w \in Workers : Fresh(w)
  /\ \A s \in SessionIds : Listed(s)
  /\ Swept
  /\ IndexComplete
=============================================================================
