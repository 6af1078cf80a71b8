-------------------------------- MODULE Pool --------------------------------
(***************************************************************************)
(* The client's data-connection pool: crates/aex-client/src/pool.rs.       *)
(*                                                                         *)
(* DataPool keeps one slot per data connection, Mutex<Option<DataConn>>.   *)
(* Every call of DataPool::fetch is a transfer: a queue of chunks shared   *)
(* by one thread per slot it uses.  A thread locks its slot for the whole  *)
(* of its share, keeps up to Credit fetches outstanding on the connection, *)
(* puts chunks back when the connection breaks, and rebuilds it.  Calls    *)
(* share the slots, at the same time or one after another.                 *)
(*                                                                         *)
(* The lock over State is held between two labels of pc, never across one, *)
(* and every wait for it, for the network or for a slot is a label.  The   *)
(* retries and wire_bytes statistics, which nothing reads, are left out.   *)
(***************************************************************************)
EXTENDS Integers, FiniteSets, SequencesExt

CONSTANTS
  Transfers,   \* calls of DataPool::fetch
  NumChunks,   \* chunks of each call, all parts together
  NumSlots,    \* connections of the pool
  Credit,      \* FetchSpec.credit, after max(1)
  MaxRetries,  \* FetchSpec.max_retries
  Pieces,      \* data frames the server splits a fetch into
  NoOne        \* holds the lock of a free slot

ASSUME PoolAssumption ==
  /\ NumChunks \in [Transfers -> Nat]
  /\ NumSlots \in Nat \ {0}
  /\ Credit \in Nat \ {0}
  /\ MaxRetries \in Nat
  /\ Pieces \in Nat \ {0}
  /\ NoOne \notin Transfers

VARIABLES
  owner,          \* the transfer whose thread holds each slot's lock, or NoOne
  open,           \* whether the slot is Some(conn)
  asked,          \* fetches the server has yet to answer on each connection
  sent,           \* data frames already sent of the oldest of them
  pc,             \* where each thread is
  fresh,          \* chunks taken off the queue and not asked for yet
  flight,         \* chunks asked for, oldest first
  back,           \* a chunk off the flight and not yet counted or queued, or 0
  why,            \* the error a thread is about to report
  queue,          \* State.queue
  remaining,      \* State.remaining
  live,           \* State.live
  error,          \* State.error
  lastConnError,  \* State.last_conn_error
  attempts,       \* Chunk.attempts
  received,       \* InFlight.received of the oldest in flight; the others have none
  claims,         \* ranges of the buffer claimed in the ScatterBuffer
  outcome,        \* what the call returned
  done,           \* history: chunks that were counted complete
  faults          \* history: breaks and retryable errors a thread has met

slotVars     == <<owner, open, asked, sent>>
threadVars   == <<pc, fresh, flight, back, why>>
sharedVars   == <<queue, remaining, live, error, lastConnError>>
chunkVars    == <<attempts, received, claims>>
historyVars  == <<done, faults>>
vars == <<slotVars, threadVars, sharedVars, chunkVars, outcome, historyVars>>

Slots     == 1 .. NumSlots
Threads   == Transfers \X Slots   \* the thread of a call on a slot
Chunks(t) == 1 .. NumChunks[t]
Chunk     == UNION {Chunks(t) : t \in Transfers}

None      == "none"

\* ClientError as far as drive and fetch tell the values apart: Io, an error
\* about the connection or a reply that makes no sense, a refusal of one
\* fetch, a connection that could not be rebuilt, and the three checks of the
\* client's own bookkeeping.
Internal == {"overlap", "mismatch", "unaccounted"}
Errors   == {"io", "conn", "refused", "reconnect"} \cup Internal

Reasons  == Errors \cup {None}

Labels == {"uncalled", "spawn", "lock", "drive", "reconnect", "take", "wait",
           "send", "giveback", "read", "complete", "drain", "retry", "fail",
           "unlock", "leave", "gone"}

\* Slots the call uses: min(chunks, connections).
Used(t) == {s \in Slots : s <= NumChunks[t]}

---------------------------------------------------------------------------

SlotTypes ==
  /\ owner \in [Slots -> Transfers \cup {NoOne}]
  /\ open \in [Slots -> BOOLEAN]
  /\ asked \in [Slots -> Seq(Transfers \X Chunk)]
  /\ sent \in [Slots -> Nat]

ThreadTypes ==
  /\ pc \in [Threads -> Labels]
  /\ fresh \in [Threads -> Seq(Chunk)]
  /\ flight \in [Threads -> Seq(Chunk)]
  /\ back \in [Threads -> Chunk \cup {0}]
  /\ why \in [Threads -> Reasons]

SharedTypes ==
  /\ queue \in [Transfers -> Seq(Chunk)]
  /\ remaining \in [Transfers -> Int]
  /\ live \in [Transfers -> Int]
  /\ error \in [Transfers -> Reasons]
  /\ lastConnError \in [Transfers -> BOOLEAN]

ChunkTypes ==
  /\ attempts \in [Transfers \X Chunk -> Nat]
  /\ received \in [Threads -> Nat]
  /\ claims \in [Transfers -> SUBSET Chunk]

CallTypes ==
  /\ outcome \in [Transfers -> {"uncalled", "running", "ok", "lost"} \cup Errors]
  /\ done \in [Transfers -> SUBSET Chunk]
  /\ faults \in [Transfers -> Nat]

\* The types of the variables, by the part of the pool they belong to.
TypeOK == SlotTypes /\ ThreadTypes /\ SharedTypes /\ ChunkTypes /\ CallTypes

\* DataPool::connect: every slot holds a connection past its handshake.
Init ==
  /\ owner = [s \in Slots |-> NoOne]
  /\ open = [s \in Slots |-> TRUE]
  /\ asked = [s \in Slots |-> << >>]
  /\ sent = [s \in Slots |-> 0]
  /\ pc = [th \in Threads |-> "uncalled"]
  /\ fresh = [th \in Threads |-> << >>]
  /\ flight = [th \in Threads |-> << >>]
  /\ back = [th \in Threads |-> 0]
  /\ why = [th \in Threads |-> None]
  /\ queue = [t \in Transfers |-> << >>]
  /\ remaining = [t \in Transfers |-> 0]
  /\ live = [t \in Transfers |-> 0]
  /\ error = [t \in Transfers |-> None]
  /\ lastConnError = [t \in Transfers |-> FALSE]
  /\ attempts = [x \in Transfers \X Chunk |-> 0]
  /\ received = [th \in Threads |-> 0]
  /\ claims = [t \in Transfers |-> {}]
  /\ outcome = [t \in Transfers |-> "uncalled"]
  /\ done = [t \in Transfers |-> {}]
  /\ faults = [t \in Transfers |-> 0]

---------------------------------------------------------------------------
(* Steps of a thread: s names both the slot and the thread of t on it.     *)

Goto(t, s, label) == pc' = [pc EXCEPT ![<<t, s>>] = label]

\* Condvar::notify_all, as the notifying thread moves on.
NotifyGoto(t, s, label) ==
  pc' = [th \in Threads |->
           IF th = <<t, s>> THEN label
           ELSE IF th[1] = t /\ pc[th] = "wait" THEN "take"
           ELSE pc[th]]

\* Mutant: offsets counted from zero.
FromZero(t) == [i \in Chunks(t) |-> i - 1]

\* The chunks of every part, queued in order.
InOrder(t) == [i \in Chunks(t) |-> i]

\* The call: with no chunks it returns at once, otherwise the queue is set up
\* and one thread is spawned per slot used.
Fetch(t) ==
  /\ outcome[t] = "uncalled"
  /\ IF Used(t) = {}
     THEN /\ outcome' = [outcome EXCEPT ![t] = "ok"]
          /\ UNCHANGED <<threadVars, sharedVars>>
     ELSE /\ outcome' = [outcome EXCEPT ![t] = "running"]
          /\ queue' = [queue EXCEPT ![t] = InOrder(t)]
          /\ remaining' = [remaining EXCEPT ![t] = NumChunks[t]]
          /\ live' = [live EXCEPT ![t] = Cardinality(Used(t))]
          /\ pc' = [th \in Threads |->
                      IF th[1] # t THEN pc[th]
                      ELSE IF th[2] \in Used(t) THEN "spawn" ELSE "gone"]
          /\ UNCHANGED <<error, lastConnError, fresh, flight, back, why>>
  /\ UNCHANGED <<slotVars, chunkVars, historyVars>>

\* The thread starts, or it cannot be spawned and is taken out by the caller.
Spawn(t, s) ==
  /\ pc[<<t, s>>] = "spawn"
  /\ \/ Goto(t, s, "lock") /\ UNCHANGED why
     \/ Goto(t, s, "leave") /\ why' = [why EXCEPT ![<<t, s>>] = "reconnect"]
  /\ UNCHANGED <<slotVars, fresh, flight, back, sharedVars, chunkVars, outcome, historyVars>>

\* work: lock(slot), held until the thread is through.
LockSlot(t, s) ==
  /\ pc[<<t, s>>] = "lock"
  /\ owner[s] = NoOne
  /\ owner' = [owner EXCEPT ![s] = t]
  /\ Goto(t, s, "drive")
  /\ UNCHANGED <<open, asked, sent, fresh, flight, back, why, sharedVars, chunkVars,
                 outcome, historyVars>>

\* The head of drive's loop: a slot without a connection is not rebuilt for a
\* transfer that has already failed.
Drive(t, s) ==
  /\ pc[<<t, s>>] = "drive"
  /\ Goto(t, s, IF open[s] THEN "take"
                ELSE IF error[t] # None THEN "unlock"
                ELSE "reconnect")
  /\ UNCHANGED <<slotVars, fresh, flight, back, why, sharedVars, chunkVars, outcome,
                 historyVars>>

\* reconnect, after all its attempts: a fresh connection, or the reason to leave.
Reconnect(t, s) ==
  /\ pc[<<t, s>>] = "reconnect"
  /\ \/ /\ open' = [open EXCEPT ![s] = TRUE]
        /\ Goto(t, s, "take")
        /\ UNCHANGED why
     \/ /\ Goto(t, s, "unlock")
        /\ why' = [why EXCEPT ![<<t, s>>] = "reconnect"]
        /\ UNCHANGED open
  /\ UNCHANGED <<owner, asked, sent, fresh, flight, back, sharedVars, chunkVars, outcome,
                 historyVars>>

---------------------------------------------------------------------------
(* step: top the connection up, then handle one frame.                     *)

\* *held = None: the connection is dropped with every answer it still owed.
HangUp(s) ==
  /\ open' = [open EXCEPT ![s] = FALSE]
  /\ asked' = [asked EXCEPT ![s] = << >>]
  /\ sent' = [sent EXCEPT ![s] = 0]
  /\ UNCHANGED owner

\* Mutant: what is already in flight is not counted against the credit.
PoppedAnew(t, s) ==
  IF error[t] # None THEN 0
  ELSE IF Credit <= Len(queue[t]) THEN Credit ELSE Len(queue[t])

\* Chunks the thread pops: what its credit has room for, unless the transfer
\* has failed.
Popped(t, s) ==
  LET room == Credit - Len(flight[<<t, s>>])
  IN  IF error[t] # None THEN 0
      ELSE IF room <= Len(queue[t]) THEN room ELSE Len(queue[t])

\* The locked part of step.  With nothing popped and nothing in flight the
\* thread is through, or is the last one and reports what is missing, or waits.
Take(t, s) ==
  /\ pc[<<t, s>>] = "take"
  /\ LET n == Popped(t, s) IN
     \/ /\ flight[<<t, s>>] # << >> \/ n > 0
        /\ fresh' = [fresh EXCEPT ![<<t, s>>] = SubSeq(queue[t], 1, n)]
        /\ queue' = [queue EXCEPT ![t] = SubSeq(queue[t], n + 1, Len(queue[t]))]
        /\ Goto(t, s, "send")
        /\ UNCHANGED <<slotVars, why>>
     \/ /\ flight[<<t, s>>] = << >> /\ n = 0
        /\ \/ /\ error[t] # None \/ remaining[t] = 0
              /\ Goto(t, s, "unlock")
              /\ UNCHANGED <<slotVars, why>>
           \/ /\ error[t] = None /\ remaining[t] # 0 /\ live[t] = 1
              /\ HangUp(s)
              /\ why' = [why EXCEPT ![<<t, s>>] = "unaccounted"]
              /\ Goto(t, s, "fail")
           \/ /\ error[t] = None /\ remaining[t] # 0 /\ live[t] # 1
              /\ Goto(t, s, "wait")
              /\ UNCHANGED <<slotVars, why>>
        /\ UNCHANGED <<fresh, queue>>
  /\ UNCHANGED <<flight, back, remaining, live, error, lastConnError, chunkVars, outcome,
                 historyVars>>

\* A condition variable may also wake up for no reason.
SpuriousWake(t, s) ==
  /\ pc[<<t, s>>] = "wait"
  /\ Goto(t, s, "take")
  /\ UNCHANGED <<slotVars, fresh, flight, back, why, sharedVars, chunkVars, outcome,
                 historyVars>>

\* Mutant: the claim outlives its chunk.
Hoard(t, c) == UNCHANGED claims

\* Claim's drop: the chunk's range may be claimed again.
Release(t, c) == claims' = [claims EXCEPT ![t] = @ \ {c}]

\* One turn of the loop over fresh: claim the chunk's range, put it in flight
\* and ask for it.  A range still claimed is an error, and so is a connection
\* that breaks; either way what is left of fresh is given back first.
Send(t, s) ==
  /\ pc[<<t, s>>] = "send"
  /\ fresh[<<t, s>>] # << >>
  /\ LET c == Head(fresh[<<t, s>>]) IN
     /\ fresh' = [fresh EXCEPT ![<<t, s>>] = Tail(@)]
     /\ \/ /\ c \in claims[t]
           /\ HangUp(s)
           /\ why' = [why EXCEPT ![<<t, s>>] = "overlap"]
           /\ Goto(t, s, "giveback")
           /\ UNCHANGED <<flight, claims, received, faults>>
        \/ /\ c \notin claims[t]
           /\ claims' = [claims EXCEPT ![t] = @ \cup {c}]
           /\ flight' = [flight EXCEPT ![<<t, s>>] = Append(@, c)]
           /\ received' = [received EXCEPT ![<<t, s>>] = IF flight[<<t, s>>] = << >> THEN 0 ELSE @]
           /\ \/ /\ asked' = [asked EXCEPT ![s] = Append(@, <<t, c>>)]
                 /\ UNCHANGED <<owner, open, sent, pc, faults>>
              \/ /\ HangUp(s)
                 /\ faults' = [faults EXCEPT ![t] = @ + 1]
                 /\ Goto(t, s, "giveback")
           /\ UNCHANGED why
  /\ UNCHANGED <<back, sharedVars, attempts, outcome, done>>

AllSent(t, s) ==
  /\ pc[<<t, s>>] = "send"
  /\ fresh[<<t, s>>] = << >>
  /\ Goto(t, s, "read")
  /\ UNCHANGED <<slotVars, fresh, flight, back, why, sharedVars, chunkVars, outcome,
                 historyVars>>

\* Mutant: the chunks are lost with the connection.
Forget(t, chunks) == UNCHANGED queue

\* Back to the front of the queue.
PushFront(t, chunks) == queue' = [queue EXCEPT ![t] = chunks \o @]

\* give_back, then on to drive's handling of the error.
GiveBack(t, s) ==
  /\ pc[<<t, s>>] = "giveback"
  /\ LET next == IF why[<<t, s>>] = None THEN "drain" ELSE "fail" IN
     IF fresh[<<t, s>>] = << >> THEN Goto(t, s, next) ELSE NotifyGoto(t, s, next)
  /\ PushFront(t, fresh[<<t, s>>])
  /\ fresh' = [fresh EXCEPT ![<<t, s>>] = << >>]
  /\ UNCHANGED <<slotVars, flight, back, why, remaining, live, error, lastConnError,
                 chunkVars, outcome, historyVars>>

\* A frame about a fetch other than the oldest one outstanding.
Mismatch(t, s) ==
  /\ HangUp(s)
  /\ why' = [why EXCEPT ![<<t, s>>] = "mismatch"]
  /\ Goto(t, s, "fail")

\* A data frame: the server answers the oldest fetch it was sent, a piece at
\* a time.  The last piece takes the chunk out of flight, on to complete.
ReadData(t, s) ==
  /\ pc[<<t, s>>] = "read"
  /\ asked[s] # << >>
  /\ LET c == Head(flight[<<t, s>>])
         got == received[<<t, s>>] + 1
     IN
     \/ /\ Head(asked[s]) # <<t, c>>
        /\ Mismatch(t, s)
        /\ UNCHANGED <<flight, back, received, claims>>
     \/ /\ Head(asked[s]) = <<t, c>>
        /\ received' = [received EXCEPT ![<<t, s>>] = IF got >= Pieces THEN 0 ELSE got]
        /\ IF sent[s] + 1 = Pieces
           THEN /\ asked' = [asked EXCEPT ![s] = Tail(@)]
                /\ sent' = [sent EXCEPT ![s] = 0]
           ELSE /\ sent' = [sent EXCEPT ![s] = @ + 1]
                /\ UNCHANGED asked
        /\ IF got >= Pieces
           THEN /\ flight' = [flight EXCEPT ![<<t, s>>] = Tail(@)]
                /\ back' = [back EXCEPT ![<<t, s>>] = c]
                /\ Release(t, c)
                /\ Goto(t, s, "complete")
           ELSE /\ Goto(t, s, "take")
                /\ UNCHANGED <<flight, back, claims>>
        /\ UNCHANGED <<owner, open, why>>
  /\ UNCHANGED <<fresh, sharedVars, attempts, outcome, historyVars>>

\* An ERROR frame about the fetch the server is on, before or between its
\* data frames.  A retryable one sends the chunk to retry, charged.
ReadError(t, s, retryable) ==
  /\ pc[<<t, s>>] = "read"
  /\ asked[s] # << >>
  /\ LET c == Head(flight[<<t, s>>]) IN
     /\ flight' = [flight EXCEPT ![<<t, s>>] = Tail(@)]
     /\ received' = [received EXCEPT ![<<t, s>>] = 0]
     /\ Release(t, c)
     /\ \/ /\ Head(asked[s]) # <<t, c>>
           /\ Mismatch(t, s)
           /\ UNCHANGED <<back, attempts, faults>>
        \/ /\ Head(asked[s]) = <<t, c>>
           /\ asked' = [asked EXCEPT ![s] = Tail(@)]
           /\ sent' = [sent EXCEPT ![s] = 0]
           /\ IF retryable
              THEN /\ back' = [back EXCEPT ![<<t, s>>] = c]
                   /\ attempts' = [attempts EXCEPT ![<<t, c>>] = @ + 1]
                   /\ faults' = [faults EXCEPT ![t] = @ + 1]
                   /\ Goto(t, s, "retry")
                   /\ UNCHANGED why
              ELSE /\ why' = [why EXCEPT ![<<t, s>>] = "refused"]
                   /\ Goto(t, s, "fail")
                   /\ UNCHANGED <<back, attempts, faults>>
           /\ UNCHANGED <<owner, open>>
  /\ UNCHANGED <<fresh, sharedVars, outcome, done>>

\* The read fails: the connection broke, or IO_TIMEOUT passed.
ReadBreaks(t, s) ==
  /\ pc[<<t, s>>] = "read"
  /\ HangUp(s)
  /\ faults' = [faults EXCEPT ![t] = @ + 1]
  /\ Goto(t, s, "drain")
  /\ UNCHANGED <<fresh, flight, back, why, sharedVars, chunkVars, outcome, done>>

\* An ERROR frame about the connection (request id 0), or a frame that makes
\* no sense: not an Io error, so nothing of it is retried.
ReadConnError(t, s) ==
  /\ pc[<<t, s>>] = "read"
  /\ HangUp(s)
  /\ why' = [why EXCEPT ![<<t, s>>] = "conn"]
  /\ Goto(t, s, "fail")
  /\ UNCHANGED <<fresh, flight, back, sharedVars, chunkVars, outcome, historyVars>>

\* complete: the others are only told when there is nothing left.
Complete(t, s) ==
  /\ pc[<<t, s>>] = "complete"
  /\ remaining' = [remaining EXCEPT ![t] = @ - 1]
  /\ IF remaining[t] = 1 THEN NotifyGoto(t, s, "take") ELSE Goto(t, s, "take")
  /\ back' = [back EXCEPT ![<<t, s>>] = 0]
  /\ done' = [done EXCEPT ![t] = @ \cup {back[<<t, s>>]}]
  /\ UNCHANGED <<slotVars, fresh, flight, why, queue, live, error, lastConnError,
                 chunkVars, outcome, faults>>

---------------------------------------------------------------------------
(* After an error: put back what was in flight, or end the transfer.       *)

\* Mutant: a break is charged to everything behind the chunk it hit.
ChargeAll(t, s) == 1

\* Only the oldest chunk is charged with an attempt.
Charge(t, s) == IF Len(flight[<<t, s>>]) = 1 THEN 1 ELSE 0

\* One turn of drive's drain, newest first: the range is released before the
\* chunk is queued.
Drain(t, s) ==
  /\ pc[<<t, s>>] = "drain"
  /\ flight[<<t, s>>] # << >>
  /\ LET c == Last(flight[<<t, s>>]) IN
     /\ flight' = [flight EXCEPT ![<<t, s>>] = Front(@)]
     /\ Release(t, c)
     /\ back' = [back EXCEPT ![<<t, s>>] = c]
     /\ attempts' = [attempts EXCEPT ![<<t, c>>] = @ + Charge(t, s)]
  /\ Goto(t, s, "retry")
  /\ UNCHANGED <<slotVars, fresh, why, sharedVars, received, outcome, historyVars>>

Drained(t, s) ==
  /\ pc[<<t, s>>] = "drain"
  /\ flight[<<t, s>>] = << >>
  /\ Goto(t, s, IF why[<<t, s>>] = None THEN "drive" ELSE "fail")
  /\ UNCHANGED <<slotVars, fresh, flight, back, why, sharedVars, chunkVars, outcome,
                 historyVars>>

\* The chunk has used up its retries.
Spent(t, c) == attempts[<<t, c>>] > MaxRetries

\* retry: back to the front of the queue, unless the chunk has used up its
\* retries; then the error that brought it here ends the transfer.
Retry(t, s) ==
  /\ pc[<<t, s>>] = "retry"
  /\ LET c == back[<<t, s>>] IN
     \/ /\ ~Spent(t, c)
        /\ PushFront(t, <<c>>)
        /\ NotifyGoto(t, s, IF open[s] THEN "take" ELSE "drain")
        /\ UNCHANGED why
     \/ /\ Spent(t, c)
        /\ why' = [why EXCEPT ![<<t, s>>] = IF open[s] THEN "refused" ELSE "io"]
        /\ Goto(t, s, IF open[s] THEN "fail" ELSE "drain")
        /\ UNCHANGED queue
  /\ back' = [back EXCEPT ![<<t, s>>] = 0]
  /\ UNCHANGED <<slotVars, fresh, flight, remaining, live, error, lastConnError,
                 chunkVars, outcome, historyVars>>

\* Mutant: in flight is cleared with answers still to come.
AbandonAll(t, s) ==
  /\ flight' = [flight EXCEPT ![<<t, s>>] = << >>]
  /\ claims' = [claims EXCEPT ![t] = @ \ Range(flight[<<t, s>>])]

\* Without a connection what is still in flight is dropped; with one, its
\* answers are still to be read.
Abandon(t, s) ==
  IF open[s]
  THEN UNCHANGED <<flight, claims>>
  ELSE /\ flight' = [flight EXCEPT ![<<t, s>>] = << >>]
       /\ claims' = [claims EXCEPT ![t] = @ \ Range(flight[<<t, s>>])]

\* fail: the first error is the one reported.
Fail(t, s) ==
  /\ pc[<<t, s>>] = "fail"
  /\ error' = [error EXCEPT ![t] = IF @ = None THEN why[<<t, s>>] ELSE @]
  /\ why' = [why EXCEPT ![<<t, s>>] = None]
  /\ Abandon(t, s)
  /\ NotifyGoto(t, s, IF open[s] THEN "take" ELSE "drive")
  /\ UNCHANGED <<slotVars, fresh, back, queue, remaining, live, lastConnError, attempts,
                 received, outcome, historyVars>>

\* The end of work: the slot's guard is dropped before Leave is.
UnlockSlot(t, s) ==
  /\ pc[<<t, s>>] = "unlock"
  /\ owner' = [owner EXCEPT ![s] = NoOne]
  /\ Goto(t, s, "leave")
  /\ UNCHANGED <<open, asked, sent, fresh, flight, back, why, sharedVars, chunkVars,
                 outcome, historyVars>>

\* Mutant: the reason is dropped with the thread.
Unrecorded(t, s) == lastConnError[t]

\* Whether some thread has left because its connection could not be rebuilt.
Recorded(t, s) == IF why[<<t, s>>] # None THEN TRUE ELSE lastConnError[t]

Leave(t, s) ==
  /\ pc[<<t, s>>] = "leave"
  /\ live' = [live EXCEPT ![t] = @ - 1]
  /\ lastConnError' = [lastConnError EXCEPT ![t] = Recorded(t, s)]
  /\ why' = [why EXCEPT ![<<t, s>>] = None]
  /\ NotifyGoto(t, s, "gone")
  /\ UNCHANGED <<slotVars, fresh, flight, back, queue, remaining, error, chunkVars,
                 outcome, historyVars>>

\* fetch, once every thread of the scope has ended.
Return(t) ==
  /\ outcome[t] = "running"
  /\ \A s \in Slots : pc[<<t, s>>] = "gone"
  /\ outcome' = [outcome EXCEPT ![t] = IF error[t] # None THEN error[t]
                                       ELSE IF remaining[t] = 0 THEN "ok"
                                       ELSE IF lastConnError[t] THEN "reconnect"
                                       ELSE "lost"]
  /\ UNCHANGED <<slotVars, threadVars, sharedVars, chunkVars, historyVars>>

---------------------------------------------------------------------------

Read(t, s) ==
  \/ ReadData(t, s)
  \/ ReadError(t, s, TRUE)
  \/ ReadError(t, s, FALSE)
  \/ ReadBreaks(t, s)
  \/ ReadConnError(t, s)

\* A step the thread takes by itself.  A read always ends, if only by its
\* timeout, and so does an attempt to reconnect.
ThreadStep(t, s) ==
  \/ Spawn(t, s) \/ LockSlot(t, s) \/ Drive(t, s) \/ Reconnect(t, s)
  \/ Take(t, s) \/ Send(t, s) \/ AllSent(t, s) \/ GiveBack(t, s)
  \/ Read(t, s) \/ Complete(t, s)
  \/ Drain(t, s) \/ Drained(t, s) \/ Retry(t, s) \/ Fail(t, s)
  \/ UnlockSlot(t, s) \/ Leave(t, s)

Next ==
  \E t \in Transfers :
    \/ Fetch(t)
    \/ Return(t)
    \/ \E s \in Slots : ThreadStep(t, s) \/ SpuriousWake(t, s)

\* The scheduler runs every thread, and a mutex that stays free is acquired.
\* Nothing is assumed of callers, of spurious wake-ups or of what is read.
Fairness ==
  \A t \in Transfers :
    /\ WF_vars(Return(t))
    /\ \A s \in Slots : WF_vars(ThreadStep(t, s))

Spec == Init /\ [][Next]_vars /\ Fairness

---------------------------------------------------------------------------
(* Properties.                                                             *)

\* The chunks a thread answers for.
Holds(t, s) ==
  Range(fresh[<<t, s>>]) \cup Range(flight[<<t, s>>]) \cup ({back[<<t, s>>]} \ {0})

\* Chunks that are neither complete nor anywhere they could be fetched from.
Dropped(t) ==
  {c \in Chunks(t) : /\ c \notin done[t]
                     /\ c \notin Range(queue[t])
                     /\ \A s \in Slots : c \notin Holds(t, s)}

\* A thread on its way to end the transfer.
Failing(t) == \E s \in Slots : why[<<t, s>>] # None /\ pc[<<t, s>>] \in {"fail", "drain", "retry", "giveback"}

\* What a thread holds is in one place, and neither queued nor complete.
Placed(t, s) ==
  /\ IsInjective(fresh[<<t, s>>]) /\ IsInjective(flight[<<t, s>>])
  /\ Range(fresh[<<t, s>>]) \cap Range(flight[<<t, s>>]) = {}
  /\ back[<<t, s>>] \notin Range(fresh[<<t, s>>]) \cup Range(flight[<<t, s>>])
  /\ Holds(t, s) \cap (Range(queue[t]) \cup done[t]) = {}

\* No chunk of the call is in two places.
OnePlace(t) ==
  /\ IsInjective(queue[t])
  /\ Range(queue[t]) \cap done[t] = {}
  /\ \A s \in Slots : Placed(t, s)
  /\ \A s, r \in Slots : s # r => Holds(t, s) \cap Holds(t, r) = {}

\* Every chunk of a transfer is in one place: queued, with one thread, or
\* complete.  No break, give-back or retry duplicates one, and one disappears
\* only from a transfer that has failed or is about to.
ChunkAccounting ==
  \A t \in Transfers : outcome[t] = "running" =>
    /\ OnePlace(t)
    /\ remaining[t] = Cardinality(Chunks(t) \ done[t])
    /\ error[t] = None /\ ~Failing(t) => Dropped(t) = {}

\* The three checks the client makes of its own bookkeeping never fire: no
\* range is claimed twice, no frame arrives for another fetch, and the last
\* thread of a transfer never finds chunks unaccounted for.
NoInternalError ==
  \A t \in Transfers : error[t] \notin Internal

\* A connection left in its slot for the next transfer owes no answers: a
\* failed transfer reads them all before it lets go of the slot.
CleanSlot ==
  \A s \in Slots : owner[s] = NoOne => asked[s] = << >> /\ sent[s] = 0

\* A thread that waits has nothing it could do: no wake-up was lost.  And it
\* is not alone, so somebody is there to wake it.
WaitsForSomething ==
  \A t \in Transfers : \A s \in Slots : pc[<<t, s>>] = "wait" =>
    /\ queue[t] = << >> /\ error[t] = None /\ remaining[t] > 0
    /\ \E r \in Slots \ {s} : pc[<<t, r>>] \notin {"wait", "gone"}

\* The server never has more fetches of a connection to answer than the
\* credit of FetchSpec, through every break, retry and give-back.
WithinCredit == \A s \in Slots : Len(asked[s]) <= Credit

\* The attempts the chunks of a call were charged with, one by one.
Charges(t) == UNION {{c} \X (1 .. attempts[<<t, c>>]) : c \in Chunks(t)}

\* A fault is charged to one chunk at most, however many were in flight behind
\* the one it hit: deeper credit does not use up the retries sooner.
OneChargePerFault ==
  \A t \in Transfers : Cardinality(Charges(t)) <= faults[t]

\* The fallback "every data connection was lost" is never needed: a transfer
\* that runs out of threads reports why a connection could not be rebuilt.
FailureHasAReason ==
  \A t \in Transfers : outcome[t] # "lost"

\* The pool as Delivery sees it.
Promise ==
  INSTANCE Delivery WITH
    delivered <- done,
    result <- [t \in Transfers |-> IF outcome[t] \in {"uncalled", "running", "ok"}
                                   THEN outcome[t] ELSE "failed"]

\* The pool delivers what DataPool::fetch promises: no chunk is delivered
\* twice, a call succeeds only with all of its chunks delivered and fails only
\* with one missing, and every call that was made returns.
KeepsPromise == Promise!Spec

---------------------------------------------------------------------------
(* The inductive invariant, in parts.                                      *)

\* Labels between lock(slot) and the drop of its guard.
Locked == {"drive", "reconnect", "take", "wait", "send", "giveback", "read",
           "complete", "drain", "retry", "fail", "unlock"}

\* What the thread holds at each of its labels.
Shape(t, s) ==
  LET th == <<t, s>> IN
  /\ outcome[t] = "uncalled" => pc[th] = "uncalled"
  /\ outcome[t] # "running" => pc[th] \in {"uncalled", "gone"}
  /\ pc[th] \in Locked <=> owner[s] = t
  /\ fresh[th] # << >> => pc[th] \in {"send", "giveback"}
  /\ flight[th] # << >> =>
       pc[th] \in {"take", "send", "giveback", "read", "complete", "drain", "retry", "fail"}
  /\ pc[th] = "send" => fresh[th] # << >> \/ flight[th] # << >>
  /\ pc[th] = "read" => flight[th] # << >>
  /\ back[th] # 0 <=> pc[th] \in {"complete", "retry"}
  /\ pc[th] = "fail" => why[th] # None
  /\ why[th] # None => pc[th] \in {"fail", "drain", "retry", "giveback", "unlock", "leave"}
  /\ pc[th] \in {"unlock", "leave"} => why[th] \in {None, "reconnect"}
  /\ pc[th] \in {"take", "wait", "send", "read", "complete"} => open[s]
  /\ pc[th] \in {"giveback", "drain", "reconnect"} => ~open[s]
  /\ pc[th] = "retry" /\ open[s] => why[th] = None

ThreadShape == \A t \in Transfers : \A s \in Slots : Shape(t, s)

\* A thread takes no more chunks off the queue than its credit allows.
InCredit ==
  \A t \in Transfers : \A s \in Slots :
    Len(fresh[<<t, s>>]) + Len(flight[<<t, s>>]) <= Credit

\* The fetches a server has to answer are those of the chunks t has in flight.
Agree(t, fetches, chunks) ==
  /\ Len(fetches) = Len(chunks)
  /\ \A i \in 1 .. Len(fetches) : fetches[i] = <<t, chunks[i]>>

\* The server's fetches on a connection are the holder's, in its order, and
\* both have counted the same data frames of the oldest.
SlotInStep(s) ==
  /\ sent[s] < Pieces
  /\ owner[s] = NoOne \/ ~open[s] => asked[s] = << >> /\ sent[s] = 0
  /\ \A t \in Transfers : owner[s] = t /\ open[s] =>
       /\ Agree(t, asked[s], flight[<<t, s>>])
       /\ sent[s] = IF asked[s] = << >> THEN 0 ELSE received[<<t, s>>]

InStep == \A s \in Slots : SlotInStep(s)

\* The inductive invariant behind the theorems of PoolProofs: at every label a
\* thread holds what its slot and its connection expect of it, within its
\* credit, and the server owes exactly the answers the thread waits for.
IInv == TypeOK /\ ThreadShape /\ InCredit /\ InStep

---------------------------------------------------------------------------
(* The rest of it: what becomes of the chunks.                             *)

\* All that is queued, held or complete are chunks of the call.
OwnChunks(t) ==
  /\ Range(queue[t]) \cup done[t] \subseteq Chunks(t)
  /\ \A s \in Slots : Holds(t, s) \subseteq Chunks(t)

\* A range is claimed while its chunk is in flight, and no longer.
ClaimsExact(t) == claims[t] = UNION {Range(flight[<<t, s>>]) : s \in Slots}

\* Threads of the call that have not left it.
Around(t) == {s \in Slots : pc[<<t, s>>] \notin {"uncalled", "gone"}}

\* The counters of State count.
Counted(t) ==
  /\ live[t] = Cardinality(Around(t))
  /\ IF outcome[t] = "uncalled"
     THEN queue[t] = << >> /\ done[t] = {} /\ error[t] = None /\ remaining[t] = 0
     ELSE remaining[t] = Cardinality(Chunks(t) \ done[t])

\* A chunk is given up by a thread that fails the transfer for it, and a
\* transfer fails for want of a chunk.  With the connection lost to something
\* other than an Io error, the chunks go when the thread reports it.
Blame(t) ==
  /\ outcome[t] # "uncalled" /\ error[t] = None /\ ~Failing(t) => Dropped(t) = {}
  /\ error[t] # None => error[t] \in {"io", "conn", "refused"} /\ Dropped(t) # {}
  /\ \A s \in Slots :
       /\ why[<<t, s>>] = "reconnect" => pc[<<t, s>>] \in {"unlock", "leave"}
       /\ why[<<t, s>>] \in {None, "reconnect", "io", "conn", "refused"}
       /\ why[<<t, s>>] \in {"io", "conn", "refused"} =>
            \/ Dropped(t) # {}
            \/ pc[<<t, s>>] = "fail" /\ ~open[s] /\ flight[<<t, s>>] # << >>

\* A thread waits only for others, and leaves only when the call is decided or
\* its connection cannot be rebuilt.
Excused(t) ==
  \A s \in Slots :
    /\ pc[<<t, s>>] = "wait" => queue[t] = << >> /\ error[t] = None /\ remaining[t] # 0
    /\ pc[<<t, s>>] \in {"unlock", "leave"} /\ why[<<t, s>>] = None =>
         error[t] # None \/ remaining[t] = 0
    /\ outcome[t] = "running" /\ pc[<<t, s>>] = "gone" /\ s \in Used(t) =>
         error[t] # None \/ remaining[t] = 0 \/ lastConnError[t]

\* Which calls have threads.
Called(t) == /\ outcome[t] = "running" => NumChunks[t] > 0
             /\ outcome[t] # "lost"

\* The inductive invariant behind the theorems about chunks and faults: with IInv,
\* every chunk of a call is in one place, what is claimed and counted is what
\* there is, and nothing is given up without a reason.
Accounted ==
  \A t \in Transfers : OnePlace(t) /\ OwnChunks(t) /\ ClaimsExact(t) /\ Counted(t)
                        /\ Blame(t) /\ Excused(t) /\ Called(t)

---------------------------------------------------------------------------
(* And what becomes of the faults.                                         *)

\* Threads whose connection broke and that have yet to charge a chunk for it.
Pending(t) ==
  {s \in Slots : /\ pc[<<t, s>>] \in {"giveback", "drain", "retry"}
                 /\ ~open[s] /\ flight[<<t, s>>] # << >>}

\* The inductive invariant behind FaultsPayForCharges: a fault is still
\* to be charged, or was charged, or is charged to nobody.
Charged ==
  \A t \in Transfers :
    /\ IsFiniteSet(Charges(t))
    /\ Cardinality(Charges(t)) + Cardinality(Pending(t)) <= faults[t]
=============================================================================
