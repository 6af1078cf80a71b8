----------------------------- MODULE PoolProofs -----------------------------
(***************************************************************************)
(* Proofs about the connection pool, for every number of calls, chunks,    *)
(* connections, credits, retries and pieces: first what a connection and   *)
(* its slot are in, then what becomes of the chunks of a call and of the   *)
(* faults it meets.                                                        *)
(***************************************************************************)
EXTENDS Pool, SeqFacts, FiniteSetTheorems, TLAPS

\* Names for parts of actions, never needed unexpanded.
USE DEF InOrder, PushFront, Charge, Spent, Abandon, Recorded

\* Chunk identifiers are positive, and a call's chunks are chunks.
LEMMA ChunkFacts ==
  /\ Chunk \subseteq Nat \ {0}
  /\ \A t \in Transfers : Chunks(t) \subseteq Chunk
BY PoolAssumption DEF Chunk, Chunks

\* The queue a call starts with.
LEMMA FirstQueue ==
  ASSUME NEW t \in Transfers
  PROVE  [i \in Chunks(t) |-> i] \in Seq(Chunk)
<1>1. NumChunks[t] \in Nat /\ Chunks(t) \subseteq Chunk
  BY PoolAssumption, ChunkFacts
<1>2. [i \in 1 .. NumChunks[t] |-> i] \in [1 .. NumChunks[t] -> Chunk]
  BY <1>1 DEF Chunks
<1>. QED
  BY <1>1, <1>2 DEF Chunks

LEMMA TypeInit == Init => TypeOK
BY PoolAssumption DEF Init, TypeOK, SlotTypes, ThreadTypes, SharedTypes, ChunkTypes,
                      CallTypes, Labels, Reasons

\* Pieces of a sequence.
LEMMA SeqParts ==
  ASSUME NEW S, NEW q \in Seq(S)
  PROVE  /\ q # << >> => Head(q) \in S /\ Tail(q) \in Seq(S)
         /\ q # << >> => Last(q) \in S /\ Front(q) \in Seq(S)
         /\ \A n \in 0 .. Len(q) : /\ SubSeq(q, 1, n) \in Seq(S)
                                   /\ SubSeq(q, n + 1, Len(q)) \in Seq(S)
<1>1. q # << >> => Head(q) \in S /\ Tail(q) \in Seq(S)
  OBVIOUS
<1>2. q # << >> => Last(q) \in S /\ Front(q) \in Seq(S)
  BY DEF Last, Front
<1>3. ASSUME NEW n \in 0 .. Len(q)
      PROVE  SubSeq(q, 1, n) \in Seq(S) /\ SubSeq(q, n + 1, Len(q)) \in Seq(S)
  OBVIOUS
<1>. QED
  BY <1>1, <1>2, <1>3

\* Lengths of pieces of a sequence.
LEMMA SeqLengths ==
  ASSUME NEW S, NEW q \in Seq(S)
  PROVE  /\ Len(q) \in Nat
         /\ q = << >> <=> Len(q) = 0
         /\ q # << >> => Len(Tail(q)) = Len(q) - 1 /\ Len(Front(q)) = Len(q) - 1
         /\ \A x \in S : Append(q, x) \in Seq(S) /\ Len(Append(q, x)) = Len(q) + 1
         /\ \A n \in 0 .. Len(q) : Len(SubSeq(q, 1, n)) = n
<1>1. q # << >> => Len(Tail(q)) = Len(q) - 1
  OBVIOUS
<1>3. \A n \in 0 .. Len(q) : Len(SubSeq(q, 1, n)) = n
  OBVIOUS
<1>2. q # << >> => Len(Front(q)) = Len(q) - 1
  <2>1. q # << >> => Len(q) - 1 \in 0 .. Len(q)
    OBVIOUS
  <2>. QED
    BY <1>3, <2>1, Zenon DEF Front
<1>4. \A x \in S : Append(q, x) \in Seq(S) /\ Len(Append(q, x)) = Len(q) + 1
  OBVIOUS
<1>5. q = << >> <=> Len(q) = 0
  OBVIOUS
<1>. QED
  BY <1>1, <1>2, <1>3, <1>4, <1>5

\* A thread pops no more than there is.
LEMMA PoppedFacts ==
  ASSUME TypeOK, NEW t \in Transfers, NEW s \in Slots, Len(flight[<<t, s>>]) <= Credit
  PROVE  /\ Popped(t, s) \in 0 .. Len(queue[t])
         /\ Popped(t, s) + Len(flight[<<t, s>>]) <= Credit
<1>1. queue[t] \in Seq(Chunk) /\ flight[<<t, s>>] \in Seq(Chunk)
  BY DEF TypeOK, SharedTypes, ThreadTypes, Threads
<1>2. Len(queue[t]) \in Nat /\ Len(flight[<<t, s>>]) \in Nat
  BY <1>1
<1>3. CASE error[t] # None
  BY <1>2, <1>3 DEF Popped
<1>4. CASE error[t] = None
  <2>1. Credit \in Nat
    BY PoolAssumption
  <2>2. \A q, f, c \in Nat : f <= c =>
          LET n == IF c - f <= q THEN c - f ELSE q IN n \in 0 .. q /\ n + f <= c
    OBVIOUS
  <2>. QED
    BY <1>2, <1>4, <2>1, <2>2, Zenon DEF Popped
<1>. QED
  BY <1>3, <1>4

\* What it takes is as long as it should be.
LEMMA PoppedLength ==
  ASSUME TypeOK, InCredit, NEW t \in Transfers, NEW s \in Slots
  PROVE  /\ Popped(t, s) \in 0 .. Len(queue[t])
         /\ Popped(t, s) + Len(flight[<<t, s>>]) <= Credit
         /\ SubSeq(queue[t], 1, Popped(t, s)) \in Seq(Chunk)
         /\ SubSeq(queue[t], Popped(t, s) + 1, Len(queue[t])) \in Seq(Chunk)
         /\ Len(SubSeq(queue[t], 1, Popped(t, s))) = Popped(t, s)
<1>1. /\ queue[t] \in Seq(Chunk) /\ flight[<<t, s>>] \in Seq(Chunk)
      /\ fresh[<<t, s>>] \in Seq(Chunk)
  BY DEF TypeOK, SharedTypes, ThreadTypes, Threads
<1>2. Len(flight[<<t, s>>]) <= Credit
  <2>1. Len(fresh[<<t, s>>]) + Len(flight[<<t, s>>]) <= Credit
    BY DEF InCredit
  <2>2. Len(fresh[<<t, s>>]) \in Nat /\ Len(flight[<<t, s>>]) \in Nat /\ Credit \in Nat
    BY <1>1, SeqLengths, PoolAssumption
  <2>3. \A a, b, c \in Nat : a + b <= c => b <= c
    OBVIOUS
  <2>. QED
    BY <2>1, <2>2, <2>3, Zenon
<1>3. /\ Popped(t, s) \in 0 .. Len(queue[t])
      /\ Popped(t, s) + Len(flight[<<t, s>>]) <= Credit
  BY <1>2, PoppedFacts
<1>. QED
  BY <1>1, <1>3, SeqParts, SeqLengths

\* A thread's move to another label keeps the types, with or without a
\* notify_all.
LEMMA MoveTypes ==
  ASSUME TypeOK, NEW t \in Transfers, NEW s \in Slots, NEW label \in Labels,
         Goto(t, s, label) \/ NotifyGoto(t, s, label)
  PROVE  pc' \in [Threads -> Labels]
<1>1. "take" \in Labels
  BY DEF Labels
<1>. QED
  BY <1>1 DEF TypeOK, ThreadTypes, Goto, NotifyGoto, Threads

\* Dropping a connection keeps the types.
LEMMA HangUpTypes ==
  ASSUME TypeOK, NEW s \in Slots, HangUp(s)
  PROVE  SlotTypes'
BY DEF TypeOK, SlotTypes, HangUp

\* Every step of a call, of a thread or of the condition variable keeps the
\* types.
LEMMA TypeStep == TypeOK /\ ThreadShape /\ InCredit /\ [Next]_vars => TypeOK'
<1>. SUFFICES ASSUME TypeOK, ThreadShape, InCredit, [Next]_vars
              PROVE  TypeOK'
  OBVIOUS
<1>. USE DEF TypeOK
<1>a. {None, "io", "conn", "refused", "reconnect", "overlap", "mismatch", "unaccounted"}
        \subseteq Reasons
  BY DEF Reasons, Errors, Internal
<1>b. Labels = {"uncalled", "spawn", "lock", "drive", "reconnect", "take", "wait",
                "send", "giveback", "read", "complete", "drain", "retry", "fail",
                "unlock", "leave", "gone"}
  BY DEF Labels
<1>1. CASE UNCHANGED vars
  BY <1>1 DEF vars, slotVars, threadVars, sharedVars, chunkVars, historyVars,
              SlotTypes, ThreadTypes, SharedTypes, ChunkTypes, CallTypes
<1>2. ASSUME NEW t \in Transfers, Fetch(t) PROVE TypeOK'
  <2>1. Cardinality(Used(t)) \in Nat
    <3>1. IsFiniteSet(Slots)
      BY PoolAssumption, FS_Interval DEF Slots
    <3>. QED
      BY <3>1, FS_Subset, FS_CardinalityType DEF Used
  <2>2. ThreadTypes'
    BY <1>2, <1>b DEF Fetch, ThreadTypes, threadVars, Threads
  <2>3. SharedTypes'
    <3>a. NumChunks[t] \in Int /\ Cardinality(Used(t)) \in Int
      BY <2>1, PoolAssumption
    <3>b. UNCHANGED <<error, lastConnError>>
      BY <1>2 DEF Fetch, sharedVars
    <3>c. \E q \in Seq(Chunk) : queue' = [queue EXCEPT ![t] = q] \/ queue' = queue
      BY <1>2, FirstQueue DEF Fetch, sharedVars
    <3>d. \E m \in Int : remaining' = [remaining EXCEPT ![t] = m] \/ remaining' = remaining
      BY <1>2, <3>a DEF Fetch, sharedVars
    <3>e. \E n \in Int : live' = [live EXCEPT ![t] = n] \/ live' = live
      BY <1>2, <3>a DEF Fetch, sharedVars
    <3>. QED
      BY <3>b, <3>c, <3>d, <3>e DEF SharedTypes
  <2>4. SlotTypes' /\ ChunkTypes' /\ CallTypes'
    BY <1>2 DEF Fetch, SlotTypes, ChunkTypes, CallTypes, slotVars, chunkVars, historyVars
  <2>. QED
    BY <2>2, <2>3, <2>4
<1>3. ASSUME NEW t \in Transfers, Return(t) PROVE TypeOK'
  <2>1. SlotTypes' /\ ThreadTypes' /\ SharedTypes' /\ ChunkTypes'
    BY <1>3 DEF Return, slotVars, threadVars, sharedVars, chunkVars,
                SlotTypes, ThreadTypes, SharedTypes, ChunkTypes
  <2>2. \E o \in {"uncalled", "running", "ok", "lost"} \cup Errors :
          outcome' = [outcome EXCEPT ![t] = o]
    <3>1. error[t] # None => error[t] \in Errors
      BY DEF SharedTypes, Reasons
    <3>2. "reconnect" \in Errors
      BY DEF Errors
    <3>. QED
      BY <1>3, <3>1, <3>2 DEF Return
  <2>3. CallTypes'
    BY <1>3, <2>2 DEF Return, CallTypes, historyVars
  <2>. QED
    BY <2>1, <2>3
<1>4. ASSUME NEW t \in Transfers, NEW s \in Slots, ThreadStep(t, s) \/ SpuriousWake(t, s)
      PROVE  TypeOK'
  <2>a. /\ <<t, s>> \in Threads
        /\ fresh[<<t, s>>] \in Seq(Chunk) /\ flight[<<t, s>>] \in Seq(Chunk)
        /\ back[<<t, s>>] \in Chunk \cup {0} /\ why[<<t, s>>] \in Reasons
    BY DEF ThreadTypes, Threads
  <2>b. queue[t] \in Seq(Chunk)
    BY DEF SharedTypes
  <2>c. \A c \in Chunk : <<t, c>> \in Transfers \X Chunk
    OBVIOUS
  <2>1. CASE Spawn(t, s)
    <3>1. pc' \in [Threads -> Labels]
      BY <2>1, MoveTypes, <1>b DEF Spawn
    <3>2. SlotTypes'
      BY <2>1 DEF Spawn, SlotTypes, slotVars
    <3>3. ThreadTypes'
      BY <2>1, <3>1, <1>a DEF Spawn, ThreadTypes, threadVars, Threads
    <3>4. SharedTypes'
      BY <2>1 DEF Spawn, SharedTypes, sharedVars
    <3>5. ChunkTypes'
      BY <2>1 DEF Spawn, ChunkTypes, chunkVars
    <3>6. CallTypes'
      BY <2>1 DEF Spawn, CallTypes, historyVars
    <3>. QED BY <3>2, <3>3, <3>4, <3>5, <3>6
  <2>2. CASE LockSlot(t, s)
    <3>1. pc' \in [Threads -> Labels]
      BY <2>2, MoveTypes, <1>b DEF LockSlot
    <3>2. SlotTypes'
      BY <2>2 DEF LockSlot, SlotTypes, slotVars
    <3>3. ThreadTypes'
      BY <2>2, <3>1, <1>a DEF LockSlot, ThreadTypes, threadVars, Threads
    <3>4. SharedTypes'
      BY <2>2 DEF LockSlot, SharedTypes, sharedVars
    <3>5. ChunkTypes'
      BY <2>2 DEF LockSlot, ChunkTypes, chunkVars
    <3>6. CallTypes'
      BY <2>2 DEF LockSlot, CallTypes, historyVars
    <3>. QED BY <3>2, <3>3, <3>4, <3>5, <3>6
  <2>3. CASE Drive(t, s)
    <3>1. pc' \in [Threads -> Labels]
      BY <2>3, MoveTypes, <1>b DEF Drive
    <3>2. SlotTypes'
      BY <2>3 DEF Drive, SlotTypes, slotVars
    <3>3. ThreadTypes'
      BY <2>3, <3>1, <1>a DEF Drive, ThreadTypes, threadVars, Threads
    <3>4. SharedTypes'
      BY <2>3 DEF Drive, SharedTypes, sharedVars
    <3>5. ChunkTypes'
      BY <2>3 DEF Drive, ChunkTypes, chunkVars
    <3>6. CallTypes'
      BY <2>3 DEF Drive, CallTypes, historyVars
    <3>. QED BY <3>2, <3>3, <3>4, <3>5, <3>6
  <2>4. CASE Reconnect(t, s)
    <3>1. pc' \in [Threads -> Labels]
      BY <2>4, MoveTypes, <1>b DEF Reconnect
    <3>2. SlotTypes'
      BY <2>4 DEF Reconnect, SlotTypes, slotVars
    <3>3. ThreadTypes'
      BY <2>4, <3>1, <1>a DEF Reconnect, ThreadTypes, threadVars, Threads
    <3>4. SharedTypes'
      BY <2>4 DEF Reconnect, SharedTypes, sharedVars
    <3>5. ChunkTypes'
      BY <2>4 DEF Reconnect, ChunkTypes, chunkVars
    <3>6. CallTypes'
      BY <2>4 DEF Reconnect, CallTypes, historyVars
    <3>. QED BY <3>2, <3>3, <3>4, <3>5, <3>6
  <2>5. CASE Take(t, s)
    <3>0. pc' \in [Threads -> Labels]
      BY <2>5, MoveTypes, <1>b DEF Take
    <3>1. SlotTypes'
      BY <2>5, HangUpTypes DEF Take, SlotTypes, slotVars
    <3>2. /\ SubSeq(queue[t], 1, Popped(t, s)) \in Seq(Chunk)
          /\ SubSeq(queue[t], Popped(t, s) + 1, Len(queue[t])) \in Seq(Chunk)
      BY PoppedLength
    <3>3. \E f \in Seq(Chunk), q \in Seq(Chunk), e \in Reasons :
            /\ fresh' = [fresh EXCEPT ![<<t, s>>] = f] \/ fresh' = fresh
            /\ queue' = [queue EXCEPT ![t] = q] \/ queue' = queue
            /\ why' = [why EXCEPT ![<<t, s>>] = e] \/ why' = why
      BY <2>5, <3>2, <1>a DEF Take
    <3>4. ThreadTypes'
      BY <2>5, <2>a, <3>0, <3>3 DEF Take, ThreadTypes
    <3>5. SharedTypes'
      BY <2>5, <3>3 DEF Take, SharedTypes
    <3>6. ChunkTypes' /\ CallTypes'
      BY <2>5 DEF Take, ChunkTypes, CallTypes, chunkVars, historyVars
    <3>. QED BY <3>1, <3>4, <3>5, <3>6
  <2>6. CASE Send(t, s)
    <3>. DEFINE c == Head(fresh[<<t, s>>])
    <3>0. c \in Chunk /\ Tail(fresh[<<t, s>>]) \in Seq(Chunk)
      BY <2>6, <2>a, SeqParts DEF Send
    <3>1. Goto(t, s, "giveback") \/ pc' = pc
      BY <2>6 DEF Send
    <3>2. pc' \in [Threads -> Labels]
      BY <3>1, <1>b, MoveTypes DEF ThreadTypes
    <3>3. HangUp(s) \/ (asked' = [asked EXCEPT ![s] = Append(@, <<t, c>>)]
                        /\ UNCHANGED <<owner, open, sent>>)
      BY <2>6 DEF Send
    <3>4. SlotTypes'
      <4>1. CASE HangUp(s)
        BY <4>1, HangUpTypes
      <4>2. CASE /\ asked' = [asked EXCEPT ![s] = Append(@, <<t, c>>)]
                 /\ UNCHANGED <<owner, open, sent>>
        <5>1. asked[s] \in Seq(Transfers \X Chunk)
          BY DEF SlotTypes
        <5>2. Append(asked[s], <<t, c>>) \in Seq(Transfers \X Chunk)
          BY <5>1, <3>0
        <5>. QED
          BY <4>2, <5>2 DEF SlotTypes
      <4>. QED
        BY <3>3, <4>1, <4>2
    <3>5. \E f \in Seq(Chunk), g \in Seq(Chunk), e \in Reasons :
            /\ fresh' = [fresh EXCEPT ![<<t, s>>] = g]
            /\ flight' = [flight EXCEPT ![<<t, s>>] = f] \/ flight' = flight
            /\ why' = [why EXCEPT ![<<t, s>>] = e] \/ why' = why
      <4>1. Append(flight[<<t, s>>], c) \in Seq(Chunk)
        BY <2>a, <3>0
      <4>. QED
        BY <2>6, <3>0, <4>1, <1>a DEF Send
    <3>6. ThreadTypes'
      <4>1. UNCHANGED back
        BY <2>6 DEF Send
      <4>. QED
        BY <2>a, <3>2, <3>5, <4>1 DEF ThreadTypes
    <3>7. SharedTypes'
      BY <2>6 DEF Send, SharedTypes, sharedVars
    <3>8. ChunkTypes'
      <4>1. /\ claims' = [claims EXCEPT ![t] = @ \cup {c}] \/ claims' = claims
            /\ \/ received' = [received EXCEPT ![<<t, s>>] = 0]
               \/ received' = [received EXCEPT ![<<t, s>>] = @]
               \/ received' = received
            /\ attempts' = attempts
        BY <2>6 DEF Send
      <4>2. \E d \in Chunk :
              /\ claims' = [claims EXCEPT ![t] = @ \cup {d}] \/ claims' = claims
              /\ \/ received' = [received EXCEPT ![<<t, s>>] = 0]
                 \/ received' = [received EXCEPT ![<<t, s>>] = @]
                 \/ received' = received
              /\ attempts' = attempts
        BY <3>0, <4>1
      <4>. QED
        BY <4>2, <2>c DEF ChunkTypes
    <3>9. CallTypes'
      <4>1. /\ faults' = [faults EXCEPT ![t] = @ + 1] \/ faults' = faults
            /\ UNCHANGED <<outcome, done>>
        BY <2>6 DEF Send
      <4>. QED
        BY <4>1 DEF CallTypes
    <3>. QED BY <3>4, <3>6, <3>7, <3>8, <3>9
  <2>7. CASE AllSent(t, s)
    <3>1. pc' \in [Threads -> Labels]
      BY <2>7, MoveTypes, <1>b DEF AllSent
    <3>2. SlotTypes'
      BY <2>7 DEF AllSent, SlotTypes, slotVars
    <3>3. ThreadTypes'
      BY <2>7, <3>1, <1>a DEF AllSent, ThreadTypes, threadVars, Threads
    <3>4. SharedTypes'
      BY <2>7 DEF AllSent, SharedTypes, sharedVars
    <3>5. ChunkTypes'
      BY <2>7 DEF AllSent, ChunkTypes, chunkVars
    <3>6. CallTypes'
      BY <2>7 DEF AllSent, CallTypes, historyVars
    <3>. QED BY <3>2, <3>3, <3>4, <3>5, <3>6
  <2>8. CASE GiveBack(t, s)
    <3>1. pc' \in [Threads -> Labels]
      BY <2>8, MoveTypes, <1>b DEF GiveBack
    <3>2. SlotTypes'
      BY <2>8 DEF GiveBack, SlotTypes, slotVars
    <3>3. ThreadTypes'
      BY <2>8, <3>1, <1>a DEF GiveBack, ThreadTypes, threadVars, Threads
    <3>4. SharedTypes'
      <4>1. fresh[<<t, s>>] \o queue[t] \in Seq(Chunk)
        BY <2>a, <2>b
      <4>. QED
        BY <2>8, <4>1 DEF GiveBack, SharedTypes
    <3>5. ChunkTypes'
      BY <2>8 DEF GiveBack, ChunkTypes, chunkVars
    <3>6. CallTypes'
      BY <2>8 DEF GiveBack, CallTypes, historyVars
    <3>. QED BY <3>2, <3>3, <3>4, <3>5, <3>6
  <2>9. CASE ReadData(t, s)
    <3>. DEFINE c == Head(flight[<<t, s>>])
    <3>0. c \in Chunk /\ Tail(flight[<<t, s>>]) \in Seq(Chunk)
      BY <2>9, <2>a, SeqParts DEF ReadData, ThreadShape, Shape
    <3>1. pc' \in [Threads -> Labels]
      BY <2>9, <1>b, MoveTypes DEF ReadData, Mismatch
    <3>2. asked[s] \in Seq(Transfers \X Chunk) /\ sent[s] \in Nat
      BY DEF SlotTypes
    <3>3. asked[s] # << >> => Tail(asked[s]) \in Seq(Transfers \X Chunk)
      BY <3>2, SeqParts
    <3>4. HangUp(s) \/ \E q \in Seq(Transfers \X Chunk), k \in Nat :
                         /\ asked' = [asked EXCEPT ![s] = q] \/ asked' = asked
                         /\ sent' = [sent EXCEPT ![s] = k]
                         /\ UNCHANGED <<owner, open>>
      <4>1. CASE Head(asked[s]) # <<t, c>>
        BY <2>9, <4>1 DEF ReadData, Mismatch
      <4>2. CASE Head(asked[s]) = <<t, c>>
        <5>1. /\ asked' = [asked EXCEPT ![s] = Tail(asked[s])] \/ asked' = asked
              /\ \/ sent' = [sent EXCEPT ![s] = 0]
                 \/ sent' = [sent EXCEPT ![s] = sent[s] + 1]
              /\ UNCHANGED <<owner, open>>
              /\ asked[s] # << >>
          BY <2>9, <4>2 DEF ReadData
        <5>2. sent[s] + 1 \in Nat /\ 0 \in Nat
          BY <3>2
        <5>. QED
          BY <5>1, <5>2, <3>2, <3>3
      <4>. QED
        BY <4>1, <4>2
    <3>5. SlotTypes'
      BY ZenonT(30), <3>4, HangUpTypes DEF SlotTypes
    <3>6. \E f \in Seq(Chunk), b \in Chunk \cup {0}, e \in Reasons :
            /\ flight' = [flight EXCEPT ![<<t, s>>] = f] \/ flight' = flight
            /\ back' = [back EXCEPT ![<<t, s>>] = b] \/ back' = back
            /\ why' = [why EXCEPT ![<<t, s>>] = e] \/ why' = why
      BY <2>9, <3>0, <1>a DEF ReadData, Mismatch
    <3>7. ThreadTypes'
      <4>1. UNCHANGED fresh
        BY <2>9 DEF ReadData
      <4>. QED
        BY <2>a, <3>1, <3>6, <4>1 DEF ThreadTypes
    <3>8. SharedTypes'
      BY <2>9 DEF ReadData, SharedTypes, sharedVars
    <3>9. ChunkTypes'
      <4>1. received[<<t, s>>] + 1 \in Nat
        BY <2>c DEF ChunkTypes, Threads
      <4>2. \E k \in Nat :
              /\ received' = [received EXCEPT ![<<t, s>>] = k] \/ received' = received
              /\ claims' = [claims EXCEPT ![t] = @ \ {c}] \/ claims' = claims
              /\ attempts' = attempts
        BY <2>9, <4>1 DEF ReadData, Release
      <4>. QED
        BY <3>0, <4>2, <2>c DEF ChunkTypes
    <3>10. CallTypes'
      BY <2>9 DEF ReadData, CallTypes, historyVars
    <3>. QED BY <3>5, <3>7, <3>8, <3>9, <3>10
  <2>10. ASSUME NEW r \in BOOLEAN, ReadError(t, s, r) PROVE TypeOK'
    <3>. DEFINE c == Head(flight[<<t, s>>])
    <3>0. c \in Chunk /\ Tail(flight[<<t, s>>]) \in Seq(Chunk)
      BY <2>10, <2>a, SeqParts DEF ReadError, ThreadShape, Shape
    <3>1. pc' \in [Threads -> Labels]
      BY <2>10, <1>b, MoveTypes DEF ReadError, Mismatch
    <3>2. asked[s] \in Seq(Transfers \X Chunk) /\ sent[s] \in Nat
      BY DEF SlotTypes
    <3>3. asked[s] # << >> => Tail(asked[s]) \in Seq(Transfers \X Chunk)
      BY <3>2, SeqParts
    <3>4. HangUp(s) \/ \E q \in Seq(Transfers \X Chunk), k \in Nat :
                         /\ asked' = [asked EXCEPT ![s] = q] \/ asked' = asked
                         /\ sent' = [sent EXCEPT ![s] = k]
                         /\ UNCHANGED <<owner, open>>
      BY <2>10, <3>2, <3>3 DEF ReadError, Mismatch
    <3>5. SlotTypes'
      BY ZenonT(30), <3>4, HangUpTypes DEF SlotTypes
    <3>6. \E f \in Seq(Chunk), b \in Chunk \cup {0}, e \in Reasons :
            /\ flight' = [flight EXCEPT ![<<t, s>>] = f] \/ flight' = flight
            /\ back' = [back EXCEPT ![<<t, s>>] = b] \/ back' = back
            /\ why' = [why EXCEPT ![<<t, s>>] = e] \/ why' = why
      BY <2>10, <3>0, <1>a DEF ReadError, Mismatch
    <3>7. ThreadTypes'
      <4>1. UNCHANGED fresh
        BY <2>10 DEF ReadError
      <4>. QED
        BY <2>a, <3>1, <3>6, <4>1 DEF ThreadTypes
    <3>8. SharedTypes'
      BY <2>10 DEF ReadError, SharedTypes, sharedVars
    <3>9. ChunkTypes'
      <4>1. attempts[<<t, c>>] + 1 \in Nat
        BY <3>0, <2>c DEF ChunkTypes
      <4>2. \E k \in Nat :
              /\ attempts' = [attempts EXCEPT ![<<t, c>>] = k] \/ attempts' = attempts
              /\ claims' = [claims EXCEPT ![t] = @ \ {c}]
              /\ received' = [received EXCEPT ![<<t, s>>] = 0]
        BY <2>10, <4>1 DEF ReadError, Release
      <4>3. \E d \in Chunk : \E k \in Nat :
              /\ attempts' = [attempts EXCEPT ![<<t, d>>] = k] \/ attempts' = attempts
              /\ claims' = [claims EXCEPT ![t] = @ \ {d}]
              /\ received' = [received EXCEPT ![<<t, s>>] = 0]
        BY <3>0, <4>2
      <4>4. received' \in [Threads -> Nat]
        <5>1. received' = [received EXCEPT ![<<t, s>>] = 0]
          BY <4>3
        <5>. QED
          BY <5>1, <2>c DEF ChunkTypes
      <4>5. attempts' \in [Transfers \X Chunk -> Nat] /\ claims' \in [Transfers -> SUBSET Chunk]
        BY <4>3, <2>c DEF ChunkTypes
      <4>. QED
        BY <4>4, <4>5 DEF ChunkTypes
    <3>10. CallTypes'
      <4>1. /\ faults' = [faults EXCEPT ![t] = @ + 1] \/ faults' = faults
            /\ UNCHANGED <<outcome, done>>
        BY <2>10 DEF ReadError
      <4>. QED
        BY <4>1 DEF CallTypes
    <3>. QED BY <3>5, <3>7, <3>8, <3>9, <3>10
  <2>11. CASE ReadBreaks(t, s)
    <3>1. pc' \in [Threads -> Labels]
      BY <2>11, MoveTypes, <1>b DEF ReadBreaks
    <3>2. SlotTypes'
      BY <2>11, HangUpTypes DEF ReadBreaks, SlotTypes, slotVars
    <3>3. ThreadTypes'
      BY <2>11, <3>1, <1>a DEF ReadBreaks, ThreadTypes, threadVars, Threads
    <3>4. SharedTypes'
      BY <2>11 DEF ReadBreaks, SharedTypes, sharedVars
    <3>5. ChunkTypes'
      BY <2>11 DEF ReadBreaks, ChunkTypes, chunkVars
    <3>6. CallTypes'
      BY <2>11 DEF ReadBreaks, CallTypes, historyVars
    <3>. QED BY <3>2, <3>3, <3>4, <3>5, <3>6
  <2>12. CASE ReadConnError(t, s)
    <3>1. pc' \in [Threads -> Labels]
      BY <2>12, MoveTypes, <1>b DEF ReadConnError
    <3>2. SlotTypes'
      BY <2>12, HangUpTypes DEF ReadConnError, SlotTypes, slotVars
    <3>3. ThreadTypes'
      BY <2>12, <3>1, <1>a DEF ReadConnError, ThreadTypes, threadVars, Threads
    <3>4. SharedTypes'
      BY <2>12 DEF ReadConnError, SharedTypes, sharedVars
    <3>5. ChunkTypes'
      BY <2>12 DEF ReadConnError, ChunkTypes, chunkVars
    <3>6. CallTypes'
      BY <2>12 DEF ReadConnError, CallTypes, historyVars
    <3>. QED BY <3>2, <3>3, <3>4, <3>5, <3>6
  <2>13. CASE Complete(t, s)
    <3>1. pc' \in [Threads -> Labels]
      BY <2>13, MoveTypes, <1>b DEF Complete
    <3>2. SlotTypes'
      BY <2>13 DEF Complete, SlotTypes, slotVars
    <3>3. ThreadTypes'
      BY <2>13, <3>1, <1>a DEF Complete, ThreadTypes, threadVars, Threads
    <3>4. SharedTypes'
      BY <2>13 DEF Complete, SharedTypes, sharedVars
    <3>5. ChunkTypes'
      BY <2>13 DEF Complete, ChunkTypes, chunkVars
    <3>6. CallTypes'
      <4>1. back[<<t, s>>] \in Chunk
        BY <2>13, <2>a DEF Complete, ThreadShape, Shape
      <4>. QED
        BY <2>13, <4>1 DEF Complete, CallTypes
    <3>. QED BY <3>2, <3>3, <3>4, <3>5, <3>6
  <2>14. CASE Drain(t, s)
    <3>1. pc' \in [Threads -> Labels]
      BY <2>14, MoveTypes, <1>b DEF Drain
    <3>2. SlotTypes'
      BY <2>14 DEF Drain, SlotTypes, slotVars
    <3>3. ThreadTypes'
      BY <2>14, <3>1, <1>a DEF Drain, ThreadTypes, threadVars, Threads, Last, Front
    <3>4. SharedTypes'
      BY <2>14 DEF Drain, SharedTypes, sharedVars
    <3>5. ChunkTypes'
      <4>. DEFINE c == Last(flight[<<t, s>>])
      <4>1. c \in Chunk
        BY <2>14, <2>a, SeqParts DEF Drain
      <4>2. attempts[<<t, c>>] \in Nat
        BY <4>1, <2>c DEF ChunkTypes
      <4>3. \E k \in Nat : /\ attempts' = [attempts EXCEPT ![<<t, c>>] = k]
                           /\ claims' = [claims EXCEPT ![t] = @ \ {c}]
                           /\ received' = received
        <5>1. \/ attempts' = [attempts EXCEPT ![<<t, c>>] = attempts[<<t, c>>] + 1]
              \/ attempts' = [attempts EXCEPT ![<<t, c>>] = attempts[<<t, c>>] + 0]
          BY <2>14 DEF Drain
        <5>2. /\ claims' = [claims EXCEPT ![t] = @ \ {c}]
              /\ received' = received
          BY <2>14 DEF Drain, Release
        <5>3. attempts[<<t, c>>] + 1 \in Nat /\ attempts[<<t, c>>] + 0 \in Nat
          BY <4>2
        <5>. QED
          BY <5>1, <5>2, <5>3, Zenon
      <4>4. \E d \in Chunk : \E k \in Nat :
              /\ attempts' = [attempts EXCEPT ![<<t, d>>] = k]
              /\ claims' = [claims EXCEPT ![t] = @ \ {d}]
              /\ received' = received
        BY <4>1, <4>3
      <4>. QED
        BY <4>4, <2>c DEF ChunkTypes
    <3>6. CallTypes'
      BY <2>14 DEF Drain, CallTypes, historyVars
    <3>. QED BY <3>2, <3>3, <3>4, <3>5, <3>6
  <2>15. CASE Drained(t, s)
    <3>1. pc' \in [Threads -> Labels]
      BY <2>15, MoveTypes, <1>b DEF Drained
    <3>2. SlotTypes'
      BY <2>15 DEF Drained, SlotTypes, slotVars
    <3>3. ThreadTypes'
      BY <2>15, <3>1, <1>a DEF Drained, ThreadTypes, threadVars, Threads
    <3>4. SharedTypes'
      BY <2>15 DEF Drained, SharedTypes, sharedVars
    <3>5. ChunkTypes'
      BY <2>15 DEF Drained, ChunkTypes, chunkVars
    <3>6. CallTypes'
      BY <2>15 DEF Drained, CallTypes, historyVars
    <3>. QED BY <3>2, <3>3, <3>4, <3>5, <3>6
  <2>16. CASE Retry(t, s)
    <3>1. pc' \in [Threads -> Labels]
      BY <2>16, MoveTypes, <1>b DEF Retry
    <3>2. SlotTypes'
      BY <2>16 DEF Retry, SlotTypes, slotVars
    <3>3. ThreadTypes'
      BY ZenonT(30), <2>16, <3>1, <1>a DEF Retry, ThreadTypes, threadVars, Threads
    <3>4. SharedTypes'
      <4>1. back[<<t, s>>] \in Chunk
        BY <2>16, <2>a DEF Retry, ThreadShape, Shape
      <4>2. <<back[<<t, s>>]>> \o queue[t] \in Seq(Chunk)
        BY <4>1, <2>b
      <4>3. \E q \in Seq(Chunk) : queue' = [queue EXCEPT ![t] = q] \/ queue' = queue
        BY <2>16, <4>2 DEF Retry
      <4>. QED
        BY <2>16, <4>3 DEF Retry, SharedTypes
    <3>5. ChunkTypes'
      BY <2>16 DEF Retry, ChunkTypes, chunkVars
    <3>6. CallTypes'
      BY <2>16 DEF Retry, CallTypes, historyVars
    <3>. QED BY <3>2, <3>3, <3>4, <3>5, <3>6
  <2>17. CASE Fail(t, s)
    <3>1. pc' \in [Threads -> Labels]
      BY <2>17, MoveTypes, <1>b DEF Fail
    <3>2. SlotTypes'
      BY <2>17 DEF Fail, SlotTypes, slotVars
    <3>3. ThreadTypes'
      <4>1. \E f \in Seq(Chunk), e \in Reasons :
              /\ flight' = [flight EXCEPT ![<<t, s>>] = f] \/ flight' = flight
              /\ why' = [why EXCEPT ![<<t, s>>] = e]
        <5>1. << >> \in Seq(Chunk) /\ None \in Reasons
          BY <1>a
        <5>. QED
          BY <2>17, <5>1 DEF Fail
      <4>. QED
        BY <2>17, <2>a, <3>1, <4>1 DEF Fail, ThreadTypes
    <3>4. SharedTypes'
      <4>1. \E e \in Reasons : error' = [error EXCEPT ![t] = e]
        BY <2>17, <2>a DEF Fail, SharedTypes
      <4>. QED
        BY <2>17, <4>1 DEF Fail, SharedTypes
    <3>5. ChunkTypes'
      BY <2>17 DEF Fail, ChunkTypes, chunkVars
    <3>6. CallTypes'
      BY <2>17 DEF Fail, CallTypes, historyVars
    <3>. QED BY <3>2, <3>3, <3>4, <3>5, <3>6
  <2>18. CASE UnlockSlot(t, s)
    <3>1. pc' \in [Threads -> Labels]
      BY <2>18, MoveTypes, <1>b DEF UnlockSlot
    <3>2. SlotTypes'
      BY <2>18 DEF UnlockSlot, SlotTypes, slotVars
    <3>3. ThreadTypes'
      BY <2>18, <3>1, <1>a DEF UnlockSlot, ThreadTypes, threadVars, Threads
    <3>4. SharedTypes'
      BY <2>18 DEF UnlockSlot, SharedTypes, sharedVars
    <3>5. ChunkTypes'
      BY <2>18 DEF UnlockSlot, ChunkTypes, chunkVars
    <3>6. CallTypes'
      BY <2>18 DEF UnlockSlot, CallTypes, historyVars
    <3>. QED BY <3>2, <3>3, <3>4, <3>5, <3>6
  <2>19. CASE Leave(t, s)
    <3>1. pc' \in [Threads -> Labels]
      BY <2>19, MoveTypes, <1>b DEF Leave
    <3>2. SlotTypes'
      BY <2>19 DEF Leave, SlotTypes, slotVars
    <3>3. ThreadTypes'
      BY <2>19, <3>1, <1>a DEF Leave, ThreadTypes, threadVars, Threads
    <3>4. SharedTypes'
      <4>1. \E b \in BOOLEAN, k \in Int :
              /\ lastConnError' = [lastConnError EXCEPT ![t] = b]
              /\ live' = [live EXCEPT ![t] = k]
        <5>1. lastConnError[t] \in BOOLEAN /\ live[t] - 1 \in Int
          BY DEF SharedTypes
        <5>. QED
          BY <2>19, <5>1, Zenon DEF Leave
      <4>. QED
        BY <2>19, <4>1 DEF Leave, SharedTypes
    <3>5. ChunkTypes'
      BY <2>19 DEF Leave, ChunkTypes, chunkVars
    <3>6. CallTypes'
      BY <2>19 DEF Leave, CallTypes, historyVars
    <3>. QED BY <3>2, <3>3, <3>4, <3>5, <3>6
  <2>20. CASE SpuriousWake(t, s)
    <3>1. pc' \in [Threads -> Labels]
      BY <2>20, MoveTypes, <1>b DEF SpuriousWake
    <3>2. SlotTypes'
      BY <2>20 DEF SpuriousWake, SlotTypes, slotVars
    <3>3. ThreadTypes'
      BY <2>20, <3>1, <1>a DEF SpuriousWake, ThreadTypes, threadVars, Threads
    <3>4. SharedTypes'
      BY <2>20 DEF SpuriousWake, SharedTypes, sharedVars
    <3>5. ChunkTypes'
      BY <2>20 DEF SpuriousWake, ChunkTypes, chunkVars
    <3>6. CallTypes'
      BY <2>20 DEF SpuriousWake, CallTypes, historyVars
    <3>. QED BY <3>2, <3>3, <3>4, <3>5, <3>6
  <2>. QED
    BY <1>4, <2>1, <2>2, <2>3, <2>4, <2>5, <2>6, <2>7, <2>8, <2>9, <2>10, <2>11, <2>12,
       <2>13, <2>14, <2>15, <2>16, <2>17, <2>18, <2>19, <2>20 DEF ThreadStep, Read
<1>. QED
  BY <1>1, <1>2, <1>3, <1>4 DEF Next

---------------------------------------------------------------------------
(* What a thread's step leaves alone.                                      *)

\* Another thread keeps what it holds and moves only if it is woken; another
\* slot is not touched; and neither is a connection the thread does not hold.
Frame(t, s) ==
  /\ \A u \in Transfers : \A r \in Slots : <<u, r>> # <<t, s>> =>
       /\ fresh'[<<u, r>>] = fresh[<<u, r>>] /\ flight'[<<u, r>>] = flight[<<u, r>>]
       /\ back'[<<u, r>>] = back[<<u, r>>] /\ why'[<<u, r>>] = why[<<u, r>>]
       /\ received'[<<u, r>>] = received[<<u, r>>]
       /\ \/ pc'[<<u, r>>] = pc[<<u, r>>]
          \/ u = t /\ pc[<<u, r>>] = "wait" /\ pc'[<<u, r>>] = "take"
  /\ \A r \in Slots : r # s \/ pc[<<t, s>>] \notin Locked =>
       open'[r] = open[r] /\ asked'[r] = asked[r] /\ sent'[r] = sent[r]
  /\ \A r \in Slots : r # s => owner'[r] = owner[r]
  /\ \/ owner'[s] = owner[s]
     \/ pc[<<t, s>>] = "lock" /\ owner[s] = NoOne /\ owner'[s] = t
     \/ pc[<<t, s>>] = "unlock" /\ owner'[s] = NoOne
  /\ outcome' = outcome

LEMMA FrameStep ==
  ASSUME TypeOK, NEW t \in Transfers, NEW s \in Slots,
         ThreadStep(t, s) \/ SpuriousWake(t, s)
  PROVE  Frame(t, s)
<1>. DEFINE Keeps(f, g) == \A u \in Transfers : \A r \in Slots :
                             <<u, r>> # <<t, s>> => g[<<u, r>>] = f[<<u, r>>]
<1>1. \A u \in Transfers : \A r \in Slots : <<u, r>> # <<t, s>> =>
        \/ pc'[<<u, r>>] = pc[<<u, r>>]
        \/ u = t /\ pc[<<u, r>>] = "wait" /\ pc'[<<u, r>>] = "take"
  <2>1. (\E l \in Labels : Goto(t, s, l) \/ NotifyGoto(t, s, l)) \/ pc' = pc
    BY DEF ThreadStep, SpuriousWake, Read, Spawn, LockSlot, Drive, Reconnect, Take, Send,
           AllSent, GiveBack, ReadData, ReadError, Mismatch, ReadBreaks, ReadConnError,
           Complete, Drain, Drained, Retry, Fail, UnlockSlot, Leave, Labels
  <2>. QED
    BY <2>1 DEF Goto, NotifyGoto, TypeOK, ThreadTypes, Threads
<1>2. Keeps(fresh, fresh')
  <2>1. (\E v : fresh' = [fresh EXCEPT ![<<t, s>>] = v]) \/ fresh' = fresh
    BY DEF ThreadStep, SpuriousWake, Read, Spawn, LockSlot, Drive, Reconnect, Take, Send,
           AllSent, GiveBack, ReadData, ReadError, Mismatch, ReadBreaks, ReadConnError,
           Complete, Drain, Drained, Retry, Fail, UnlockSlot, Leave,
           sharedVars, threadVars
  <2>. QED
    BY <2>1 DEF TypeOK, ThreadTypes, Threads
<1>3. Keeps(flight, flight')
  <2>1. (\E v : flight' = [flight EXCEPT ![<<t, s>>] = v]) \/ flight' = flight
    BY DEF ThreadStep, SpuriousWake, Read, Spawn, LockSlot, Drive, Reconnect, Take, Send,
           AllSent, GiveBack, ReadData, ReadError, Mismatch, ReadBreaks, ReadConnError,
           Complete, Drain, Drained, Retry, Fail, UnlockSlot, Leave,
           sharedVars, threadVars
  <2>. QED
    BY <2>1 DEF TypeOK, ThreadTypes, Threads
<1>4. Keeps(back, back')
  <2>1. (\E v : back' = [back EXCEPT ![<<t, s>>] = v]) \/ back' = back
    BY DEF ThreadStep, SpuriousWake, Read, Spawn, LockSlot, Drive, Reconnect, Take, Send,
           AllSent, GiveBack, ReadData, ReadError, Mismatch, ReadBreaks, ReadConnError,
           Complete, Drain, Drained, Retry, Fail, UnlockSlot, Leave,
           sharedVars, threadVars
  <2>. QED
    BY <2>1 DEF TypeOK, ThreadTypes, Threads
<1>5. Keeps(why, why')
  <2>1. (\E v : why' = [why EXCEPT ![<<t, s>>] = v]) \/ why' = why
    BY DEF ThreadStep, SpuriousWake, Read, Spawn, LockSlot, Drive, Reconnect, Take, Send,
           AllSent, GiveBack, ReadData, ReadError, Mismatch, ReadBreaks, ReadConnError,
           Complete, Drain, Drained, Retry, Fail, UnlockSlot, Leave,
           sharedVars, threadVars
  <2>. QED
    BY <2>1 DEF TypeOK, ThreadTypes, Threads
<1>11. Keeps(received, received')
  <2>1. (\E v : received' = [received EXCEPT ![<<t, s>>] = v]) \/ received' = received
    BY DEF ThreadStep, SpuriousWake, Read, Spawn, LockSlot, Drive, Reconnect, Take, Send,
           AllSent, GiveBack, ReadData, ReadError, Mismatch, ReadBreaks, ReadConnError,
           Complete, Drain, Drained, Retry, Fail, UnlockSlot, Leave, chunkVars
  <2>. QED
    BY <2>1 DEF TypeOK, ChunkTypes, Threads
<1>6. UNCHANGED <<open, asked, sent>> \/ pc[<<t, s>>] \in Locked
  BY DEF ThreadStep, SpuriousWake, Read, Spawn, LockSlot, Drive, Reconnect, Take, Send,
           AllSent, GiveBack, ReadData, ReadError, Mismatch, ReadBreaks, ReadConnError,
           Complete, Drain, Drained, Retry, Fail, UnlockSlot, Leave,
         slotVars, Locked
<1>7. \A r \in Slots : r # s => open'[r] = open[r] /\ asked'[r] = asked[r] /\ sent'[r] = sent[r]
  <2>1. /\ (\E v : open' = [open EXCEPT ![s] = v]) \/ open' = open
        /\ (\E v : asked' = [asked EXCEPT ![s] = v]) \/ asked' = asked
        /\ (\E v : sent' = [sent EXCEPT ![s] = v]) \/ sent' = sent
    BY DEF ThreadStep, SpuriousWake, Read, Spawn, LockSlot, Drive, Reconnect, Take, Send,
           AllSent, GiveBack, ReadData, ReadError, Mismatch, ReadBreaks, ReadConnError,
           Complete, Drain, Drained, Retry, Fail, UnlockSlot, Leave,
           HangUp, slotVars
  <2>. QED
    BY <2>1 DEF TypeOK, SlotTypes
<1>8. \/ owner' = owner
      \/ pc[<<t, s>>] = "lock" /\ owner[s] = NoOne /\ owner' = [owner EXCEPT ![s] = t]
      \/ pc[<<t, s>>] = "unlock" /\ owner' = [owner EXCEPT ![s] = NoOne]
  BY DEF ThreadStep, SpuriousWake, Read, Spawn, LockSlot, Drive, Reconnect, Take, Send,
           AllSent, GiveBack, ReadData, ReadError, Mismatch, ReadBreaks, ReadConnError,
           Complete, Drain, Drained, Retry, Fail, UnlockSlot, Leave,
         HangUp, slotVars
<1>9. /\ \A r \in Slots : r # s => owner'[r] = owner[r]
      /\ \/ owner'[s] = owner[s]
         \/ pc[<<t, s>>] = "lock" /\ owner[s] = NoOne /\ owner'[s] = t
         \/ pc[<<t, s>>] = "unlock" /\ owner'[s] = NoOne
  BY <1>8 DEF TypeOK, SlotTypes
<1>10. outcome' = outcome
  BY DEF ThreadStep, SpuriousWake, Read, Spawn, LockSlot, Drive, Reconnect, Take, Send,
         AllSent, GiveBack, ReadData, ReadError, Mismatch, ReadBreaks, ReadConnError,
         Complete, Drain, Drained, Retry, Fail, UnlockSlot, Leave
<1>. QED
  BY <1>1, <1>2, <1>3, <1>4, <1>5, <1>6, <1>7, <1>9, <1>10, <1>11 DEF Frame

---------------------------------------------------------------------------
(* What a thread holds.                                                    *)

LEMMA ShapeInit == Init => ThreadShape
<1>. SUFFICES ASSUME Init, NEW t \in Transfers, NEW s \in Slots
              PROVE  Shape(t, s)
  BY DEF ThreadShape
<1>1. <<t, s>> \in Threads /\ owner[s] # t /\ outcome[t] = "uncalled"
  BY PoolAssumption DEF Init, Threads
<1>2. /\ pc[<<t, s>>] = "uncalled" /\ fresh[<<t, s>>] = << >> /\ flight[<<t, s>>] = << >>
      /\ back[<<t, s>>] = 0 /\ why[<<t, s>>] = None
  BY <1>1 DEF Init
<1>. QED
  BY <1>1, <1>2, PoolAssumption DEF Shape, Locked

\* A thread keeps its shape while another one steps.
LEMMA ShapeOthers ==
  ASSUME TypeOK, ThreadShape, NEW t \in Transfers, NEW s \in Slots, Frame(t, s),
         NEW u \in Transfers, NEW r \in Slots, <<u, r>> # <<t, s>>
  PROVE  Shape(u, r)'
<1>1. Shape(u, r) /\ Shape(t, s)
  BY DEF ThreadShape
<1>2. /\ fresh'[<<u, r>>] = fresh[<<u, r>>] /\ flight'[<<u, r>>] = flight[<<u, r>>]
      /\ back'[<<u, r>>] = back[<<u, r>>] /\ why'[<<u, r>>] = why[<<u, r>>]
      /\ \/ pc'[<<u, r>>] = pc[<<u, r>>]
         \/ pc[<<u, r>>] = "wait" /\ pc'[<<u, r>>] = "take"
  BY DEF Frame
<1>3. pc'[<<u, r>>] \in Locked <=> owner'[r] = u
  <2>1. pc'[<<u, r>>] \in Locked <=> pc[<<u, r>>] \in Locked
    BY <1>2 DEF Locked
  <2>2. owner'[r] = u <=> owner[r] = u
    <3>1. CASE r # s
      BY <3>1 DEF Frame
    <3>2. CASE r = s
      <4>1. u # t
        BY <3>2
      <4>2. NoOne # u
        BY PoolAssumption
      <4>3. pc[<<t, s>>] = "unlock" => owner[s] = t
        BY <1>1 DEF Shape, Locked
      <4>. QED
        BY <3>2, <4>1, <4>2, <4>3 DEF Frame
    <3>. QED
      BY <3>1, <3>2
  <2>. QED
    BY <1>1, <2>1, <2>2 DEF Shape
<1>5. outcome' = outcome
  BY DEF Frame
<1>4. pc[<<u, r>>] \in Locked => open'[r] = open[r]
  <2>1. CASE r # s
    BY <2>1 DEF Frame
  <2>2. CASE r = s /\ pc[<<u, r>>] \in Locked
    <3>1. owner[s] = u /\ u # t
      BY <2>2, <1>1 DEF Shape
    <3>2. pc[<<t, s>>] \notin Locked
      BY <3>1, <1>1 DEF Shape
    <3>. QED
      BY <2>2, <3>2 DEF Frame
  <2>. QED
    BY <2>1, <2>2
<1>. QED
  BY <1>1, <1>2, <1>3, <1>4, <1>5 DEF Shape, Locked

\* A step of the call itself keeps every shape.
LEMMA ShapeCalls ==
  ASSUME TypeOK, ThreadShape, NEW c \in Transfers, Fetch(c) \/ Return(c)
  PROVE  ThreadShape'
<1>. SUFFICES ASSUME NEW t \in Transfers, NEW s \in Slots
              PROVE  Shape(t, s)'
  BY DEF ThreadShape
<1>0. Shape(t, s) /\ <<t, s>> \in Threads
  BY DEF ThreadShape, Threads
<1>1. UNCHANGED <<owner, open, fresh, flight, back, why>>
  BY DEF Fetch, Return, slotVars, threadVars
<1>2. outcome \in [Transfers -> {"uncalled", "running", "ok", "lost"} \cup Errors]
  BY DEF TypeOK, CallTypes
<1>3. CASE t # c
  <2>1. outcome'[t] = outcome[t]
    BY <1>2, <1>3 DEF Fetch, Return
  <2>2. pc'[<<t, s>>] = pc[<<t, s>>]
    BY <1>0, <1>3 DEF Fetch, Return, threadVars
  <2>. QED
    BY <1>0, <1>1, <2>1, <2>2 DEF Shape
<1>4. CASE t = c /\ Fetch(c)
  <2>1. outcome[t] = "uncalled" /\ pc[<<t, s>>] = "uncalled"
    BY <1>0, <1>4 DEF Fetch, Shape
  <2>2. /\ pc'[<<t, s>>] \in {"uncalled", "spawn", "gone"}
        /\ outcome'[t] # "uncalled"
        /\ outcome'[t] # "running" => pc'[<<t, s>>] = "uncalled"
    BY <1>0, <1>2, <1>4, <2>1 DEF Fetch, threadVars
  <2>. QED
    BY <1>0, <1>1, <2>1, <2>2 DEF Shape, Locked
<1>5. CASE t = c /\ Return(c)
  <2>1. outcome[t] = "running" /\ pc[<<t, s>>] = "gone" /\ pc' = pc
    BY <1>5 DEF Return, threadVars
  <2>2. outcome'[t] # "uncalled"
    <3>1. "uncalled" \notin Errors
      BY DEF Errors, Internal
    <3>2. error[t] # None => error[t] \in Errors
      BY DEF TypeOK, SharedTypes, Reasons
    <3>. QED
      BY <1>2, <1>5, <3>1, <3>2 DEF Return
  <2>. QED
    BY <1>0, <1>1, <2>1, <2>2 DEF Shape, Locked
<1>. QED
  BY <1>3, <1>4, <1>5

\* A thread's own step leaves it with what its new label calls for.
LEMMA ShapeSelf ==
  ASSUME TypeOK, ThreadShape, InCredit, NEW t \in Transfers, NEW s \in Slots,
         ThreadStep(t, s) \/ SpuriousWake(t, s)
  PROVE  Shape(t, s)'
<1>. DEFINE th == <<t, s>>
<1>0. Shape(t, s) /\ th \in Threads
  BY DEF ThreadShape, Threads
<1>a. /\ DOMAIN pc = Threads /\ DOMAIN fresh = Threads /\ DOMAIN flight = Threads
      /\ DOMAIN back = Threads /\ DOMAIN why = Threads
      /\ DOMAIN owner = Slots /\ DOMAIN open = Slots
  BY DEF TypeOK, ThreadTypes, SlotTypes
<1>b. /\ fresh[th] \in Seq(Chunk) /\ flight[th] \in Seq(Chunk)
      /\ back[th] \in Chunk \cup {0} /\ NoOne # t /\ 0 \notin Chunk
  BY <1>0, PoolAssumption, ChunkFacts DEF TypeOK, ThreadTypes
<1>c. outcome[t] = "running" \/ pc[th] \in {"uncalled", "gone"}
  BY <1>0 DEF Shape
<1>d. outcome' = outcome
  BY FrameStep DEF Frame
<1>1. CASE Spawn(t, s)
  BY <1>1, <1>0, <1>a, <1>b, <1>c, <1>d DEF Spawn, Shape, Goto, NotifyGoto, Locked, None, slotVars
<1>2. CASE LockSlot(t, s)
  BY <1>2, <1>0, <1>a, <1>b, <1>c, <1>d DEF LockSlot, Shape, Goto, NotifyGoto, Locked, None, slotVars
<1>3. CASE Drive(t, s)
  BY <1>3, <1>0, <1>a, <1>b, <1>c, <1>d DEF Drive, Shape, Goto, NotifyGoto, Locked, None, slotVars
<1>4. CASE Reconnect(t, s)
  BY <1>4, <1>0, <1>a, <1>b, <1>c, <1>d DEF Reconnect, Shape, Goto, NotifyGoto, Locked, None, slotVars
<1>5. CASE Take(t, s)
  <2>. DEFINE n == Popped(t, s)
              f == SubSeq(queue[t], 1, n)
  <2>1. n > 0 => f # << >>
    <3>1. Len(f) = n
      BY PoppedLength
    <3>2. n > 0 => n # 0
      OBVIOUS
    <3>3. Len(<< >>) = 0
      OBVIOUS
    <3>. QED
      BY <3>1, <3>2, <3>3, Zenon
  <2>2. UNCHANGED <<flight, back, owner>>
    BY <1>5 DEF Take, slotVars, HangUp
  <2>3. /\ pc[th] = "take" /\ open[s] /\ owner[s] = t /\ why[th] = None
        /\ fresh[th] = << >>
    BY <1>5, <1>0 DEF Take, Shape, Locked
  <2>4. CASE flight[th] # << >> \/ n > 0
    <3>1. ~(flight[th] = << >> /\ n = 0)
      BY <2>4
    <3>2. /\ Goto(t, s, "send") /\ UNCHANGED <<open, why>>
          /\ fresh' = [fresh EXCEPT ![th] = f]
      BY <1>5, <3>1, Zenon DEF Take, slotVars
    <3>3. pc'[th] = "send" /\ fresh'[th] = f
      BY <1>0, <1>a, <3>2 DEF Goto
    <3>. QED
      BY <1>0, <1>c, <1>d, <2>1, <2>2, <2>3, <2>4, <3>2, <3>3 DEF Shape, Locked
  <2>5. CASE ~(flight[th] # << >> \/ n > 0)
    <3>1. /\ fresh'[th] = fresh[th]
          /\ \/ pc'[th] \in {"unlock", "wait"} /\ UNCHANGED <<open, why>>
             \/ pc'[th] = "fail" /\ why'[th] = "unaccounted"
      BY <1>5, <1>0, <1>a, <2>5 DEF Take, Goto, slotVars
    <3>. QED
      BY <1>0, <1>c, <1>d, <2>2, <2>3, <2>5, <3>1 DEF Shape, Locked, None
  <2>. QED
    BY <2>4, <2>5
<1>6. CASE Send(t, s)
  <2>. DEFINE c == Head(fresh[th])
  <2>1. Append(flight[th], c) # << >>
    <3>1. c \in Chunk
      BY <1>6, <1>b, SeqParts DEF Send
    <3>. QED
      BY <1>b, <3>1
  <2>2. UNCHANGED <<back, owner>>
    BY <1>6 DEF Send, HangUp
  <2>3. pc[th] = "send" /\ open[s] /\ owner[s] = t /\ why[th] = None /\ back[th] = 0
    BY <1>6, <1>0 DEF Send, Shape, Locked
  <2>4. \/ /\ pc'[th] = "giveback" /\ ~open'[s]
           /\ why'[th] = "overlap" /\ flight' = flight
        \/ /\ flight'[th] = Append(flight[th], c) /\ why' = why
           /\ (pc'[th] = "send" /\ open'[s]) \/ (pc'[th] = "giveback" /\ ~open'[s])
    BY <1>6, <1>0, <1>a, <2>3 DEF Send, Goto, HangUp
  <2>. QED
    BY <1>0, <1>c, <1>d, <2>1, <2>2, <2>3, <2>4 DEF Shape, Locked, None
<1>7. CASE AllSent(t, s)
  BY <1>7, <1>0, <1>a, <1>b, <1>c, <1>d DEF AllSent, Shape, Goto, NotifyGoto, Locked, None, slotVars
<1>8. CASE GiveBack(t, s)
  <2>1. pc[th] = "giveback" /\ ~open[s] /\ owner[s] = t /\ back[th] = 0
    BY <1>8, <1>0 DEF GiveBack, Shape, Locked
  <2>2. UNCHANGED <<owner, open, flight, back, why>>
    BY <1>8 DEF GiveBack, slotVars
  <2>3. fresh'[th] = << >> /\ pc'[th] = IF why[th] = None THEN "drain" ELSE "fail"
    BY <1>8, <1>0, <1>a DEF GiveBack, Goto, NotifyGoto
  <2>. QED
    BY <1>0, <1>c, <1>d, <2>1, <2>2, <2>3 DEF Shape, Locked, None
<1>9. CASE ReadData(t, s)
  <2>. DEFINE c == Head(flight[th])
  <2>1. c \in Chunk
    BY <1>9, <1>0, <1>b, SeqParts DEF ReadData, Shape
  <2>2. UNCHANGED <<owner, fresh>>
    BY <1>9 DEF ReadData, Mismatch, HangUp
  <2>3. /\ pc[th] = "read" /\ open[s] /\ owner[s] = t /\ why[th] = None
        /\ back[th] = 0 /\ fresh[th] = << >>
    BY <1>9, <1>0 DEF ReadData, Shape, Locked
  <2>4. \/ /\ pc'[th] = "fail" /\ why'[th] = "mismatch"
           /\ UNCHANGED <<flight, back>>
        \/ pc'[th] = "complete" /\ back'[th] = c /\ UNCHANGED <<open, why>>
        \/ pc'[th] = "take" /\ UNCHANGED <<open, why, flight, back>>
    BY <1>9, <1>0, <1>a DEF ReadData, Mismatch, Goto
  <2>. QED
    BY <1>0, <1>b, <1>c, <1>d, <2>1, <2>2, <2>3, <2>4 DEF Shape, Locked, None
<1>10. ASSUME NEW rt \in BOOLEAN, ReadError(t, s, rt) PROVE Shape(t, s)'
  <2>. DEFINE c == Head(flight[th])
  <2>1. c \in Chunk
    BY <1>10, <1>0, <1>b, SeqParts DEF ReadError, Shape
  <2>2. UNCHANGED <<owner, fresh>>
    BY <1>10 DEF ReadError, Mismatch, HangUp
  <2>3. /\ pc[th] = "read" /\ open[s] /\ owner[s] = t /\ why[th] = None
        /\ back[th] = 0 /\ fresh[th] = << >>
    BY <1>10, <1>0 DEF ReadError, Shape, Locked
  <2>4. \/ pc'[th] = "fail" /\ why'[th] = "mismatch" /\ UNCHANGED back
        \/ pc'[th] = "fail" /\ why'[th] = "refused" /\ UNCHANGED <<back, open>>
        \/ pc'[th] = "retry" /\ back'[th] = c /\ UNCHANGED <<open, why>>
    BY <1>10, <1>0, <1>a DEF ReadError, Mismatch, Goto
  <2>. QED
    BY <1>0, <1>b, <1>c, <1>d, <2>1, <2>2, <2>3, <2>4 DEF Shape, Locked, None
<1>11. CASE ReadBreaks(t, s)
  BY <1>11, <1>0, <1>a, <1>b, <1>c, <1>d DEF ReadBreaks, HangUp, Shape, Goto, NotifyGoto, Locked, None, slotVars
<1>12. CASE ReadConnError(t, s)
  BY <1>12, <1>0, <1>a, <1>b, <1>c, <1>d DEF ReadConnError, HangUp, Shape, Goto, NotifyGoto, Locked, None, slotVars
<1>13. CASE Complete(t, s)
  BY <1>13, <1>0, <1>a, <1>b, <1>c, <1>d DEF Complete, Shape, Goto, NotifyGoto, Locked, None, slotVars
<1>14. CASE Drain(t, s)
  <2>. DEFINE c == Last(flight[th])
  <2>1. c \in Chunk
    BY <1>14, <1>b, SeqParts DEF Drain
  <2>2. UNCHANGED <<owner, open, fresh, why>>
    BY <1>14 DEF Drain, slotVars
  <2>3. /\ pc[th] = "drain" /\ ~open[s] /\ owner[s] = t /\ fresh[th] = << >>
        /\ pc'[th] = "retry" /\ back'[th] = c
    BY <1>14, <1>0, <1>a DEF Drain, Shape, Locked, Goto
  <2>. QED
    BY <1>0, <1>b, <1>c, <1>d, <2>1, <2>2, <2>3 DEF Shape, Locked, None
<1>15. CASE Drained(t, s)
  BY <1>15, <1>0, <1>a, <1>b, <1>c, <1>d DEF Drained, Shape, Goto, NotifyGoto, Locked, None, slotVars
<1>16. CASE Retry(t, s)
  BY <1>16, <1>0, <1>a, <1>b, <1>c, <1>d DEF Retry, Shape, Goto, NotifyGoto, Locked, None, slotVars
<1>17. CASE Fail(t, s)
  <2>1. pc[th] = "fail" /\ owner[s] = t /\ fresh[th] = << >> /\ back[th] = 0
    BY <1>17, <1>0 DEF Fail, Shape, Locked
  <2>2. UNCHANGED <<owner, open, fresh, back>>
    BY <1>17 DEF Fail, slotVars
  <2>3. why'[th] = None /\ pc'[th] = IF open[s] THEN "take" ELSE "drive"
    BY <1>17, <1>0, <1>a DEF Fail, NotifyGoto
  <2>4. open[s] \/ flight'[th] = << >>
    BY <1>17, <1>0, <1>a DEF Fail
  <2>. QED
    BY <1>0, <1>c, <1>d, <2>1, <2>2, <2>3, <2>4 DEF Shape, Locked, None
<1>18. CASE UnlockSlot(t, s)
  BY <1>18, <1>0, <1>a, <1>b, <1>c, <1>d DEF UnlockSlot, Shape, Goto, NotifyGoto, Locked, None, slotVars
<1>19. CASE Leave(t, s)
  BY <1>19, <1>0, <1>a, <1>b, <1>c, <1>d DEF Leave, Shape, Goto, NotifyGoto, Locked, None, slotVars
<1>20. CASE SpuriousWake(t, s)
  BY <1>20, <1>0, <1>a, <1>b, <1>c, <1>d DEF SpuriousWake, Shape, Goto, NotifyGoto, Locked, None, slotVars
<1>. QED
  BY <1>1, <1>2, <1>3, <1>4, <1>5, <1>6, <1>7, <1>8, <1>9, <1>10, <1>11, <1>12, <1>13,
     <1>14, <1>15, <1>16, <1>17, <1>18, <1>19, <1>20 DEF ThreadStep, Read

---------------------------------------------------------------------------
(* Credit.                                                                 *)

LEMMA CreditStep ==
  ASSUME TypeOK, ThreadShape, InCredit, NEW t \in Transfers, NEW s \in Slots,
         ThreadStep(t, s) \/ SpuriousWake(t, s)
  PROVE  InCredit'
<1>. DEFINE th == <<t, s>>
<1>0. th \in Threads /\ Shape(t, s)
  BY DEF Threads, ThreadShape
<1>1. /\ fresh[th] \in Seq(Chunk) /\ flight[th] \in Seq(Chunk)
      /\ DOMAIN fresh = Threads /\ DOMAIN flight = Threads
  BY <1>0 DEF TypeOK, ThreadTypes
<1>2. Len(fresh[th]) \in Nat /\ Len(flight[th]) \in Nat /\ Credit \in Nat
  BY <1>1, SeqLengths, PoolAssumption
<1>3. Len(fresh[th]) + Len(flight[th]) <= Credit
  BY DEF InCredit
<1>4. /\ \A a, b, c \in Nat : a + b <= c => 0 + b <= c /\ a + 0 <= c
      /\ \A a, b, c \in Nat : b # 0 /\ a + b <= c => a + (b - 1) <= c /\ (b - 1) + a <= c
      /\ \A a, b, c \in Nat : a # 0 /\ a + b <= c => (a - 1) + (b + 1) <= c
      /\ \A a, b, c \in Nat : a # 0 /\ a + b <= c => (a - 1) + b <= c
  OBVIOUS
<1>5. Len(<< >>) = 0
  OBVIOUS
<1>6. Len(fresh'[th]) + Len(flight'[th]) <= Credit
  <2>1. CASE Take(t, s)
    <3>1. UNCHANGED flight
      BY <2>1 DEF Take
    <3>2. \/ fresh' = [fresh EXCEPT ![th] = SubSeq(queue[t], 1, Popped(t, s))]
          \/ UNCHANGED fresh
      BY <2>1, Zenon DEF Take
    <3>3. \/ fresh'[th] = SubSeq(queue[t], 1, Popped(t, s))
          \/ fresh'[th] = fresh[th]
      BY <1>0, <1>1, <3>2, Zenon
    <3>4. Len(SubSeq(queue[t], 1, Popped(t, s))) + Len(flight[th]) <= Credit
      BY PoppedLength, Zenon
    <3>. QED
      BY <1>3, <3>1, <3>3, <3>4, Zenon
  <2>2. CASE Send(t, s)
    <3>. DEFINE c == Head(fresh[th])
    <3>1. fresh[th] # << >> /\ c \in Chunk
      BY <2>2, <1>1, SeqParts DEF Send
    <3>2. /\ Len(fresh[th]) # 0
          /\ Len(Tail(fresh[th])) = Len(fresh[th]) - 1
          /\ Len(Append(flight[th], c)) = Len(flight[th]) + 1
      BY <1>1, <3>1, SeqLengths
    <3>3. /\ fresh'[th] = Tail(fresh[th])
          /\ flight'[th] = Append(flight[th], c) \/ flight'[th] = flight[th]
      BY <2>2, <1>0, <1>1, Zenon DEF Send
    <3>. QED
      BY <1>2, <1>3, <1>4, <3>2, <3>3, Zenon
  <2>3. CASE GiveBack(t, s)
    <3>1. fresh'[th] = << >> /\ flight'[th] = flight[th]
      BY <2>3, <1>0, <1>1 DEF GiveBack
    <3>. QED
      BY <1>2, <1>3, <1>4, <1>5, <3>1, Zenon
  <2>4. CASE Fail(t, s)
    <3>1. fresh' = fresh /\ (flight'[th] = << >> \/ flight' = flight)
      BY <2>4, <1>0, <1>1 DEF Fail
    <3>. QED
      BY <1>2, <1>3, <1>4, <1>5, <3>1, Zenon
  <2>5. CASE fresh' = fresh /\ (flight' = flight
                                \/ flight' = [flight EXCEPT ![th] = Tail(flight[th])]
                                \/ flight' = [flight EXCEPT ![th] = Front(flight[th])])
             /\ (flight' = flight \/ flight[th] # << >>)
    <3>1. \/ flight' = flight
          \/ /\ flight[th] # << >>
             /\ flight'[th] = Tail(flight[th]) \/ flight'[th] = Front(flight[th])
      BY <2>5, <1>0, <1>1, Zenon
    <3>2. flight[th] # << >> =>
            /\ Len(flight[th]) # 0
            /\ Len(Tail(flight[th])) = Len(flight[th]) - 1
            /\ Len(Front(flight[th])) = Len(flight[th]) - 1
      BY <1>1, SeqLengths
    <3>. QED
      BY <2>5, <1>2, <1>3, <1>4, <3>1, <3>2, Zenon
  <2>6. ReadData(t, s) \/ (\E rt \in BOOLEAN : ReadError(t, s, rt)) => flight[th] # << >>
    BY <1>0 DEF ReadData, ReadError, Shape
  <2>7. \/ Take(t, s) \/ Send(t, s) \/ GiveBack(t, s) \/ Fail(t, s)
        \/ fresh' = fresh /\ (flight' = flight
                                \/ flight' = [flight EXCEPT ![th] = Tail(flight[th])]
                                \/ flight' = [flight EXCEPT ![th] = Front(flight[th])])
             /\ (flight' = flight \/ flight[th] # << >>)
    BY <2>6 DEF ThreadStep, SpuriousWake, Read, Spawn, LockSlot, Drive, Reconnect,
           AllSent, ReadData, ReadError, Mismatch, ReadBreaks, ReadConnError,
           Complete, Drain, Drained, Retry, UnlockSlot, Leave, threadVars
  <2>. QED
    BY <2>1, <2>2, <2>3, <2>4, <2>5, <2>7
<1>7. ASSUME NEW u \in Transfers, NEW r \in Slots, <<u, r>> # <<t, s>>
      PROVE  Len(fresh'[<<u, r>>]) + Len(flight'[<<u, r>>]) <= Credit
  <2>1. fresh'[<<u, r>>] = fresh[<<u, r>>] /\ flight'[<<u, r>>] = flight[<<u, r>>]
    <3>1. Frame(t, s)
      BY FrameStep
    <3>. QED
      BY <1>7, <3>1 DEF Frame
  <2>. QED
    BY <2>1, Zenon DEF InCredit
<1>. QED
  BY <1>6, <1>7, Zenon DEF InCredit

---------------------------------------------------------------------------
(* The server and the holder of a connection agree.                        *)

\* Queues that agree still do after a fetch is added to both, and after the
\* oldest is taken off both; and they start with the same fetch.
LEMMA Agreement ==
  ASSUME NEW t \in Transfers, NEW a \in Seq(Transfers \X Chunk), NEW f \in Seq(Chunk),
         Agree(t, a, f)
  PROVE  /\ \A c \in Chunk : Agree(t, Append(a, <<t, c>>), Append(f, c))
         /\ f # << >> =>
              /\ a # << >> /\ Head(a) = <<t, Head(f)>>
              /\ Agree(t, Tail(a), Tail(f))
         /\ f = << >> => a = << >>
<1>1. ASSUME NEW c \in Chunk
      PROVE  Agree(t, Append(a, <<t, c>>), Append(f, c))
  BY DEF Agree
<1>2. ASSUME f # << >>
      PROVE  /\ a # << >> /\ Head(a) = <<t, Head(f)>>
             /\ Agree(t, Tail(a), Tail(f))
  BY <1>2 DEF Agree
<1>3. f = << >> => a = << >>
  BY DEF Agree
<1>. QED
  BY <1>1, <1>2, <1>3

LEMMA InStepInit == Init => InStep
BY PoolAssumption DEF Init, InStep, SlotInStep, Agree

\* A slot stays in step while a thread steps on another one.
LEMMA InStepOthers ==
  ASSUME TypeOK, InStep, NEW t \in Transfers, NEW s \in Slots, Frame(t, s),
         NEW r \in Slots, r # s
  PROVE  SlotInStep(r)'
<1>1. SlotInStep(r)
  BY DEF InStep
<1>2. owner'[r] = owner[r] /\ open'[r] = open[r] /\ asked'[r] = asked[r] /\ sent'[r] = sent[r]
  BY DEF Frame
<1>3. \A u \in Transfers : flight'[<<u, r>>] = flight[<<u, r>>]
                            /\ received'[<<u, r>>] = received[<<u, r>>]
  BY DEF Frame
<1>. QED
  BY <1>1, <1>2, <1>3 DEF SlotInStep

\* The slot a thread steps on stays in step.
LEMMA InStepSelf ==
  ASSUME TypeOK, ThreadShape, InStep, NEW t \in Transfers, NEW s \in Slots,
         ThreadStep(t, s) \/ SpuriousWake(t, s)
  PROVE  SlotInStep(s)'
<1>. DEFINE th == <<t, s>>
<1>0. SlotInStep(s) /\ Shape(t, s) /\ th \in Threads /\ Frame(t, s) /\ NoOne # t /\ 0 < Pieces
  BY FrameStep, PoolAssumption DEF InStep, ThreadShape, Threads
<1>a. /\ DOMAIN owner = Slots /\ DOMAIN open = Slots /\ DOMAIN asked = Slots
      /\ DOMAIN sent = Slots /\ DOMAIN flight = Threads /\ DOMAIN received = Threads
      /\ asked[s] \in Seq(Transfers \X Chunk) /\ flight[th] \in Seq(Chunk) /\ sent[s] \in Nat
      /\ fresh[th] \in Seq(Chunk)
  BY <1>0 DEF TypeOK, SlotTypes, ThreadTypes, ChunkTypes
<1>b. \A u \in Transfers : u # t =>
        flight'[<<u, s>>] = flight[<<u, s>>] /\ received'[<<u, s>>] = received[<<u, s>>]
  BY <1>0 DEF Frame
<1>c. owner[s] = t /\ open[s] =>
        /\ Agree(t, asked[s], flight[th])
        /\ sent[s] = IF asked[s] = << >> THEN 0 ELSE received[th]
  BY <1>0 DEF SlotInStep
<1>d. owner[s] = t /\ open[s] =>
        /\ \A c \in Chunk : Agree(t, Append(asked[s], <<t, c>>), Append(flight[th], c))
        /\ flight[th] # << >> =>
             /\ asked[s] # << >> /\ Head(asked[s]) = <<t, Head(flight[th])>>
             /\ Agree(t, Tail(asked[s]), Tail(flight[th]))
        /\ flight[th] = << >> => asked[s] = << >>
  BY <1>a, <1>c, Agreement
<1>e. Agree(t, << >>, << >>)
  BY DEF Agree
<1>1. CASE HangUp(s) /\ owner[s] = t
  <2>1. ~open'[s] /\ asked'[s] = << >> /\ sent'[s] = 0 /\ owner'[s] = t
    BY <1>1, <1>a DEF HangUp
  <2>. QED
    BY <2>1, <1>0 DEF SlotInStep
<1>2. CASE /\ UNCHANGED <<owner, open, asked, sent>>
           /\ (flight'[th] = flight[th] /\ received'[th] = received[th]) \/ ~open[s]
  BY <1>0, <1>2, <1>b DEF SlotInStep
<1>3. CASE LockSlot(t, s)
  <2>1. /\ owner[s] = NoOne /\ owner'[s] = t /\ UNCHANGED <<open, asked, sent, flight>>
        /\ flight[th] = << >>
    BY <1>0, <1>3, <1>a DEF LockSlot, Shape
  <2>2. asked[s] = << >> /\ sent[s] = 0
    BY <1>0, <2>1 DEF SlotInStep
  <2>. QED
    BY <2>1, <2>2, <1>0, <1>e DEF SlotInStep
<1>4. CASE Reconnect(t, s)
  <2>1. /\ owner[s] = t /\ ~open[s] /\ flight[th] = << >>
        /\ UNCHANGED <<owner, asked, sent, flight>>
    BY <1>0, <1>4 DEF Reconnect, Shape, Locked
  <2>2. asked[s] = << >> /\ sent[s] = 0
    BY <1>0, <2>1 DEF SlotInStep
  <2>. QED
    BY <2>1, <2>2, <1>0, <1>e DEF SlotInStep
<1>5. CASE UnlockSlot(t, s)
  <2>1. /\ owner[s] = t /\ owner'[s] = NoOne /\ flight[th] = << >>
        /\ UNCHANGED <<open, asked, sent, flight>>
    BY <1>0, <1>5, <1>a DEF UnlockSlot, Shape, Locked
  <2>2. asked[s] = << >> /\ sent[s] = 0
    <3>1. CASE ~open[s]
      BY <3>1, <1>0 DEF SlotInStep
    <3>2. CASE open[s]
      BY <3>2, <2>1, <1>c, <1>d
    <3>. QED
      BY <3>1, <3>2
  <2>3. \A u \in Transfers : NoOne # u
    BY PoolAssumption
  <2>. QED
    BY <2>1, <2>2, <2>3, <1>0 DEF SlotInStep
<1>6. CASE Send(t, s)
  <2>. DEFINE c == Head(fresh[th])
  <2>1. owner[s] = t /\ open[s] /\ owner' = owner /\ c \in Chunk
    BY <1>0, <1>6, <1>a, SeqParts DEF Send, HangUp, Shape, Locked
  <2>2. CASE HangUp(s)
    BY <2>1, <2>2, <1>1
  <2>3. CASE /\ asked' = [asked EXCEPT ![s] = Append(@, <<t, c>>)]
             /\ flight' = [flight EXCEPT ![th] = Append(@, c)]
             /\ received' = [received EXCEPT ![th] = IF flight[th] = << >> THEN 0 ELSE @]
             /\ UNCHANGED <<open, sent>>
    <3>1. /\ asked'[s] = Append(asked[s], <<t, c>>) /\ flight'[th] = Append(flight[th], c)
          /\ received'[th] = IF flight[th] = << >> THEN 0 ELSE received[th]
      BY <2>3, <1>0, <1>a
    <3>2. Agree(t, asked'[s], flight'[th])
      BY <3>1, <2>1, <1>d, Zenon
    <3>3. asked'[s] # << >>
      <4>1. \A x \in Transfers \X Chunk : Append(asked[s], x) # << >>
        BY <1>a
      <4>. QED
        BY <3>1, <4>1, <2>1
    <3>4. sent'[s] = received'[th]
      BY <3>1, <2>1, <2>3, <1>c, <1>d
    <3>. QED
      BY <2>1, <2>3, <3>2, <3>3, <3>4, <1>0 DEF SlotInStep
  <2>. QED
    BY <1>6, <2>2, <2>3, Zenon DEF Send
<1>7. CASE ReadData(t, s)
  <2>1. owner[s] = t /\ open[s] /\ flight[th] # << >>
    BY <1>0, <1>7 DEF ReadData, Shape, Locked
  <2>2. Head(asked[s]) = <<t, Head(flight[th])>> /\ asked[s] # << >>
    BY <2>1, <1>d
  <2>3. received[th] = sent[s] /\ sent[s] < Pieces /\ Pieces \in Nat
    BY <2>1, <2>2, <1>c, <1>0, PoolAssumption DEF SlotInStep
  <2>4. UNCHANGED <<owner, open>>
    BY <1>7, <2>2 DEF ReadData
  <2>5. CASE sent[s] + 1 = Pieces
    <3>1. received[th] + 1 >= Pieces
      BY <2>3, <2>5, <1>a
    <3>2. /\ asked'[s] = Tail(asked[s]) /\ sent'[s] = 0
          /\ flight'[th] = Tail(flight[th]) /\ received'[th] = 0
      BY <1>7, <2>2, <2>5, <3>1, <1>a, <1>0, Zenon DEF ReadData
    <3>3. Agree(t, asked'[s], flight'[th])
      BY <2>1, <3>2, <1>d, Zenon
    <3>. QED
      BY <2>1, <2>4, <3>2, <3>3, <1>0 DEF SlotInStep
  <2>6. CASE sent[s] + 1 # Pieces
    <3>1. ~(received[th] + 1 >= Pieces) /\ sent[s] + 1 < Pieces
      BY <2>3, <2>6, <1>a
    <3>2. /\ asked' = asked /\ sent'[s] = sent[s] + 1
          /\ flight' = flight /\ received'[th] = received[th] + 1
      BY <1>7, <2>2, <2>6, <3>1, <1>a, <1>0, Zenon DEF ReadData
    <3>. QED
      BY <2>1, <2>2, <2>3, <2>4, <3>1, <3>2, <1>0, <1>c DEF SlotInStep
  <2>. QED
    BY <2>5, <2>6
<1>8. ASSUME NEW rt \in BOOLEAN, ReadError(t, s, rt) PROVE SlotInStep(s)'
  <2>1. owner[s] = t /\ open[s] /\ flight[th] # << >>
    BY <1>0, <1>8 DEF ReadError, Shape, Locked
  <2>2. Head(asked[s]) = <<t, Head(flight[th])>> /\ asked[s] # << >>
    BY <2>1, <1>d
  <2>3. UNCHANGED <<owner, open>>
    BY <1>8, <2>2 DEF ReadError
  <2>4. /\ asked'[s] = Tail(asked[s]) /\ sent'[s] = 0
        /\ flight'[th] = Tail(flight[th]) /\ received'[th] = 0
    BY <1>8, <2>2, <1>a, <1>0, Zenon DEF ReadError
  <2>5. Agree(t, asked'[s], flight'[th])
    BY <2>1, <2>4, <1>d, Zenon
  <2>. QED
    BY <2>1, <2>3, <2>4, <2>5, <1>0 DEF SlotInStep
<1>9. CASE ReadBreaks(t, s) \/ ReadConnError(t, s)
  <2>1. HangUp(s) /\ owner[s] = t
    BY <1>0, <1>9 DEF ReadBreaks, ReadConnError, Shape, Locked
  <2>. QED
    BY <2>1, <1>1
<1>10. CASE Take(t, s)
  <2>1. owner[s] = t /\ UNCHANGED <<flight, received>>
    BY <1>0, <1>10 DEF Take, Shape, Locked, chunkVars
  <2>2. HangUp(s) \/ UNCHANGED <<owner, open, asked, sent>>
    BY <1>10, Zenon DEF Take, slotVars
  <2>. QED
    BY <2>1, <2>2, <1>1, <1>2
<1>11. CASE Drain(t, s) \/ Fail(t, s)
  <2>1. UNCHANGED <<owner, open, asked, sent, received>>
    BY <1>11 DEF Drain, Fail, slotVars
  <2>2. ~open[s] \/ flight' = flight
    BY <1>0, <1>11 DEF Drain, Fail, Shape
  <2>. QED
    BY <2>1, <2>2, <1>2
<1>12. CASE \/ Spawn(t, s) \/ Drive(t, s) \/ AllSent(t, s) \/ GiveBack(t, s)
            \/ Complete(t, s) \/ Drained(t, s) \/ Retry(t, s) \/ Leave(t, s)
            \/ SpuriousWake(t, s)
  <2>1. UNCHANGED <<owner, open, asked, sent, received, flight>>
    BY <1>12 DEF Spawn, Drive, AllSent, GiveBack, Complete, Drained, Retry, Leave,
                 SpuriousWake, slotVars, chunkVars
  <2>. QED
    BY <2>1, <1>2
<1>. QED
  BY <1>3, <1>4, <1>5, <1>6, <1>7, <1>8, <1>9, <1>10, <1>11, <1>12 DEF ThreadStep, Read

---------------------------------------------------------------------------
(* The invariant and what follows from it.                                 *)

LEMMA CreditInit == Init => InCredit
<1>. SUFFICES ASSUME Init, NEW t \in Transfers, NEW s \in Slots
              PROVE  Len(fresh[<<t, s>>]) + Len(flight[<<t, s>>]) <= Credit
  BY DEF InCredit
<1>1. fresh[<<t, s>>] = << >> /\ flight[<<t, s>>] = << >>
  BY DEF Init, Threads
<1>. QED
  BY <1>1, PoolAssumption

\* Calls and returns touch neither credit nor connections.
LEMMA CallsKeep ==
  ASSUME InCredit, InStep, NEW t \in Transfers, Fetch(t) \/ Return(t)
  PROVE  InCredit' /\ InStep'
<1>1. UNCHANGED <<fresh, flight, received, owner, open, asked, sent>>
  BY DEF Fetch, Return, threadVars, slotVars, chunkVars
<1>. QED
  BY <1>1 DEF InCredit, InStep, SlotInStep

\* One step of a thread keeps every slot in step.
LEMMA InStepStep ==
  ASSUME TypeOK, ThreadShape, InStep, NEW t \in Transfers, NEW s \in Slots,
         ThreadStep(t, s) \/ SpuriousWake(t, s)
  PROVE  InStep'
<1>1. Frame(t, s)
  BY FrameStep
<1>2. SlotInStep(s)'
  BY InStepSelf
<1>3. \A r \in Slots : r # s => SlotInStep(r)'
  BY <1>1, InStepOthers
<1>. QED
  BY <1>2, <1>3 DEF InStep

\* Every step of the pool keeps the invariant.
LEMMA InvStep == IInv /\ [Next]_vars => IInv'
<1>. SUFFICES ASSUME TypeOK, ThreadShape, InCredit, InStep, [Next]_vars
              PROVE  IInv'
  BY DEF IInv
<1>1. TypeOK'
  BY TypeStep
<1>2. CASE UNCHANGED vars
  <2>1. UNCHANGED <<outcome, pc, owner, fresh, flight, back, why, open, asked, sent, received>>
    BY <1>2 DEF vars, slotVars, threadVars, chunkVars
  <2>2. ThreadShape'
    <3>. SUFFICES ASSUME NEW t \in Transfers, NEW s \in Slots
                  PROVE  Shape(t, s)'
      BY DEF ThreadShape
    <3>1. Shape(t, s)
      BY DEF ThreadShape
    <3>. QED
      BY <2>1, <3>1, Zenon DEF Shape
  <2>3. InCredit' /\ InStep'
    BY <2>1 DEF InCredit, InStep, SlotInStep
  <2>. QED
    BY <1>1, <2>2, <2>3 DEF IInv
<1>3. ASSUME NEW t \in Transfers, Fetch(t) \/ Return(t)
      PROVE  IInv'
  BY <1>1, <1>3, ShapeCalls, CallsKeep DEF IInv
<1>4. ASSUME NEW t \in Transfers, NEW s \in Slots, ThreadStep(t, s) \/ SpuriousWake(t, s)
      PROVE  IInv'
  <2>1. ThreadShape'
    <3>1. Frame(t, s)
      BY <1>4, FrameStep
    <3>2. Shape(t, s)'
      BY <1>4, ShapeSelf
    <3>3. \A u \in Transfers : \A r \in Slots : <<u, r>> # <<t, s>> => Shape(u, r)'
      BY <3>1, ShapeOthers
    <3>. QED
      BY <3>2, <3>3 DEF ThreadShape
  <2>2. InCredit' /\ InStep'
    BY <1>4, CreditStep, InStepStep
  <2>. QED
    BY <1>1, <2>1, <2>2 DEF IInv
<1>. QED
  BY <1>2, <1>3, <1>4 DEF Next

LEMMA InvHolds == Spec => []IInv
<1>1. Init => IInv
  BY TypeInit, ShapeInit, CreditInit, InStepInit DEF IInv
<1>. QED
  BY <1>1, InvStep, PTL DEF Spec

\* Every variable of the pool keeps its type, for any number of calls, chunks
\* and slots: no step of drive, step or fetch queues, sends or records
\* anything but chunks of its own transfer and errors of ClientError.
THEOREM TypeCorrect == Spec => []TypeOK
<1>1. IInv => TypeOK
  BY DEF IInv
<1>. QED
  BY <1>1, InvHolds, PTL

\* Whatever breaks or fails, drive lets go of a slot only when its connection
\* owes no answer: the next transfer on the slot never reads the last one's.
THEOREM SlotsAreClean == Spec => []CleanSlot
<1>1. IInv => CleanSlot
  BY DEF IInv, InStep, SlotInStep, CleanSlot
<1>. QED
  BY <1>1, InvHolds, PTL

\* step never has more than FetchSpec.credit fetches outstanding on a
\* connection, whatever was given back, retried or rebuilt before.
THEOREM CreditIsKept == Spec => []WithinCredit
<1>1. IInv => WithinCredit
  <2>. SUFFICES ASSUME IInv, NEW s \in Slots
                PROVE  Len(asked[s]) <= Credit
    BY DEF WithinCredit
  <2>1. SlotInStep(s) /\ owner[s] \in Transfers \cup {NoOne}
    BY DEF IInv, InStep, TypeOK, SlotTypes
  <2>2. CASE owner[s] = NoOne \/ ~open[s]
    <3>1. asked[s] = << >>
      BY <2>1, <2>2 DEF SlotInStep
    <3>. QED
      BY <3>1, PoolAssumption
  <2>3. CASE owner[s] # NoOne /\ open[s]
    <3>. DEFINE th == <<owner[s], s>>
    <3>1. owner[s] \in Transfers /\ th \in Threads
      BY <2>1, <2>3 DEF Threads
    <3>2. Len(asked[s]) = Len(flight[th])
      BY <2>1, <2>3, <3>1 DEF SlotInStep, Agree
    <3>3. Len(fresh[th]) + Len(flight[th]) <= Credit
      BY <3>1 DEF IInv, InCredit
    <3>4. fresh[th] \in Seq(Chunk) /\ flight[th] \in Seq(Chunk)
      BY <3>1 DEF IInv, TypeOK, ThreadTypes
    <3>5. Len(fresh[th]) \in Nat /\ Len(flight[th]) \in Nat /\ Credit \in Nat
      BY <3>4, SeqLengths, PoolAssumption
    <3>6. \A a, b, c \in Nat : a + b <= c => b <= c
      OBVIOUS
    <3>. QED
      BY <3>2, <3>3, <3>5, <3>6, Zenon
  <2>. QED
    BY <2>2, <2>3
<1>. QED
  BY <1>1, InvHolds, PTL

HIDE DEF InOrder, PushFront, Charge, Spent, Abandon, Recorded

---------------------------------------------------------------------------
(* The chunks a thread moves.                                              *)

\* Another call's queue, counters and claims are not touched.
Apart(t) ==
  \A u \in Transfers : u # t =>
    /\ queue'[u] = queue[u] /\ remaining'[u] = remaining[u] /\ live'[u] = live[u]
    /\ error'[u] = error[u] /\ lastConnError'[u] = lastConnError[u]
    /\ claims'[u] = claims[u] /\ done'[u] = done[u]

LEMMA ApartStep ==
  ASSUME TypeOK, NEW t \in Transfers, NEW s \in Slots,
         ThreadStep(t, s) \/ SpuriousWake(t, s)
  PROVE  Apart(t)
<1>1. /\ (\E v : queue' = [queue EXCEPT ![t] = v]) \/ queue' = queue
      /\ (\E v : remaining' = [remaining EXCEPT ![t] = v]) \/ remaining' = remaining
  BY DEF ThreadStep, SpuriousWake, Read, Spawn, LockSlot, Drive, Reconnect, Take, Send,
         AllSent, GiveBack, ReadData, ReadError, Mismatch, ReadBreaks, ReadConnError,
         Complete, Drain, Drained, Retry, Fail, UnlockSlot, Leave, sharedVars, PushFront
<1>2. /\ (\E v : live' = [live EXCEPT ![t] = v]) \/ live' = live
      /\ (\E v : error' = [error EXCEPT ![t] = v]) \/ error' = error
      /\ (\E v : lastConnError' = [lastConnError EXCEPT ![t] = v])
         \/ lastConnError' = lastConnError
  BY DEF ThreadStep, SpuriousWake, Read, Spawn, LockSlot, Drive, Reconnect, Take, Send,
         AllSent, GiveBack, ReadData, ReadError, Mismatch, ReadBreaks, ReadConnError,
         Complete, Drain, Drained, Retry, Fail, UnlockSlot, Leave, sharedVars
<1>3. /\ (\E v : claims' = [claims EXCEPT ![t] = v]) \/ claims' = claims
      /\ (\E v : done' = [done EXCEPT ![t] = v]) \/ done' = done
  BY DEF ThreadStep, SpuriousWake, Read, Spawn, LockSlot, Drive, Reconnect, Take, Send,
         AllSent, GiveBack, ReadData, ReadError, Mismatch, ReadBreaks, ReadConnError,
         Complete, Drain, Drained, Retry, Fail, UnlockSlot, Leave, chunkVars, historyVars,
         Release, Abandon
<1>. QED
  BY <1>1, <1>2, <1>3 DEF Apart, TypeOK, SharedTypes, ChunkTypes, CallTypes

\* All that the call has in the hands of the thread, queued or complete.
Reach(t, s) == Holds(t, s) \cup Range(queue[t]) \cup done[t]

\* A thread moves chunks between its hands, the queue and what is complete,
\* gets hold of no other, and claims what it has in flight.
Moved(t, s) ==
  /\ Placed(t, s)'
  /\ IsInjective(queue'[t])
  /\ Range(queue'[t]) \cap done'[t] = {}
  /\ Reach(t, s)' \subseteq Reach(t, s)
  /\ claims'[t] = (claims[t] \ Range(flight[<<t, s>>])) \cup Range(flight'[<<t, s>>])

\* What the proofs about a thread's move start from.
LEMMA ThreadFacts ==
  ASSUME TypeOK, ThreadShape, Accounted, NEW t \in Transfers, NEW s \in Slots
  PROVE  /\ <<t, s>> \in Threads
         /\ Shape(t, s) /\ Placed(t, s) /\ OnePlace(t) /\ OwnChunks(t) /\ ClaimsExact(t)
         /\ Counted(t) /\ Blame(t) /\ Excused(t) /\ Called(t)
         /\ fresh[<<t, s>>] \in Seq(Chunk) /\ flight[<<t, s>>] \in Seq(Chunk)
         /\ queue[t] \in Seq(Chunk)
         /\ back[<<t, s>>] \in Chunk \cup {0} /\ 0 \notin Chunk
         /\ Range(flight[<<t, s>>]) \subseteq claims[t]
<1>1. <<t, s>> \in Threads
  BY DEF Threads
<1>2. /\ Shape(t, s) /\ OnePlace(t) /\ OwnChunks(t) /\ ClaimsExact(t)
      /\ Counted(t) /\ Blame(t) /\ Excused(t) /\ Called(t)
  BY DEF ThreadShape, Accounted
<1>3. Placed(t, s)
  BY <1>2 DEF OnePlace
<1>4. Range(flight[<<t, s>>]) \subseteq claims[t]
  BY <1>2 DEF ClaimsExact
<1>5. 0 \notin Chunk
  BY ChunkFacts
<1>. QED
  BY <1>1, <1>2, <1>3, <1>4, <1>5 DEF TypeOK, ThreadTypes, SharedTypes

\* Nothing moves.
LEMMA StayMoved ==
  ASSUME TypeOK, ThreadShape, Accounted, NEW t \in Transfers, NEW s \in Slots,
         fresh'[<<t, s>>] = fresh[<<t, s>>], flight'[<<t, s>>] = flight[<<t, s>>],
         back'[<<t, s>>] = back[<<t, s>>], queue'[t] = queue[t], done'[t] = done[t],
         claims'[t] = claims[t]
  PROVE  Moved(t, s) /\ Reach(t, s)' = Reach(t, s)
<1>1. Placed(t, s) /\ OnePlace(t) /\ Range(flight[<<t, s>>]) \subseteq claims[t]
  BY ThreadFacts
<1>2. Holds(t, s)' = Holds(t, s)
  BY DEF Holds
<1>3. Placed(t, s)'
  BY <1>1, <1>2 DEF Placed
<1>. QED
  BY <1>1, <1>2, <1>3 DEF Moved, OnePlace, Reach

\* step takes chunks off the queue.
LEMMA TakeMoved ==
  ASSUME TypeOK, ThreadShape, InCredit, Accounted, NEW t \in Transfers, NEW s \in Slots,
         Take(t, s)
  PROVE  Moved(t, s) /\ Reach(t, s)' = Reach(t, s)
<1>. DEFINE th == <<t, s>>
            n == Popped(t, s)
            a == SubSeq(queue[t], 1, n)
            b == SubSeq(queue[t], n + 1, Len(queue[t]))
<1>1. /\ th \in Threads /\ Shape(t, s) /\ Placed(t, s) /\ OnePlace(t)
      /\ queue[t] \in Seq(Chunk) /\ Range(flight[th]) \subseteq claims[t]
  BY ThreadFacts
<1>2. UNCHANGED <<flight, back, claims, done>>
  BY DEF Take, chunkVars, historyVars
<1>3. CASE UNCHANGED <<fresh, queue>>
  BY <1>2, <1>3, StayMoved
<1>4. CASE fresh' = [fresh EXCEPT ![th] = a] /\ queue' = [queue EXCEPT ![t] = b]
  <2>1. fresh'[th] = a /\ queue'[t] = b
    BY <1>1, <1>4 DEF TypeOK, ThreadTypes, SharedTypes
  <2>2. fresh[th] = << >>
    BY <1>1 DEF Take, Shape
  <2>3. n \in 0 .. Len(queue[t])
    BY PoppedLength
  <2>4. /\ Range(queue[t]) = Range(a) \cup Range(b)
        /\ IsInjective(a) /\ IsInjective(b) /\ Range(a) \cap Range(b) = {}
    BY <1>1, <2>3, SplitRange DEF OnePlace
  <2>5. Range(fresh[th]) = {}
    BY <2>2, ShortSeqs
  <2>. HIDE DEF a, b, n
  <2>6. back[th] = 0
    BY <1>1 DEF Take, Shape
  <2>7. 0 \notin Range(a)
    <3>1. Range(a) \subseteq Chunk
      BY <1>1, <2>4, RangeFacts
    <3>. QED
      BY <3>1, ChunkFacts
  <2>8. Placed(t, s)'
    BY <1>1, <1>2, <2>1, <2>4, <2>5, <2>6, <2>7 DEF Placed, Holds, OnePlace
  <2>9. Reach(t, s)' = Reach(t, s)
    BY <1>2, <2>1, <2>4, <2>5 DEF Reach, Holds
  <2>. QED
    BY <1>1, <1>2, <2>1, <2>4, <2>8, <2>9 DEF Moved, OnePlace
<1>. QED
  BY <1>3, <1>4 DEF Take

\* A chunk about to be asked for has no claim on its range.
LEMMA Unclaimed ==
  ASSUME TypeOK, ThreadShape, Accounted, NEW t \in Transfers, NEW s \in Slots,
         fresh[<<t, s>>] # << >>
  PROVE  Head(fresh[<<t, s>>]) \notin claims[t]
<1>. DEFINE c == Head(fresh[<<t, s>>])
<1>1. /\ Placed(t, s) /\ OnePlace(t) /\ ClaimsExact(t)
      /\ fresh[<<t, s>>] \in Seq(Chunk)
  BY ThreadFacts
<1>2. c \in Range(fresh[<<t, s>>])
  BY <1>1, HeadTailRange
<1>. HIDE DEF c
<1>3. c \in Holds(t, s) /\ c \notin Range(flight[<<t, s>>])
  BY <1>1, <1>2 DEF Placed, Holds
<1>4. \A r \in Slots : c \notin Range(flight[<<t, r>>])
  <2>. SUFFICES ASSUME NEW r \in Slots, r # s
                PROVE  c \notin Range(flight[<<t, r>>])
    BY <1>3
  <2>1. c \notin Holds(t, r)
    BY <1>1, <1>3 DEF OnePlace
  <2>. QED
    BY <2>1 DEF Holds
<1>. QED
  BY <1>1, <1>4 DEF ClaimsExact, c

\* The server answers the fetch the thread expects an answer to.
LEMMA Expected ==
  ASSUME TypeOK, ThreadShape, InStep, NEW t \in Transfers, NEW s \in Slots,
         pc[<<t, s>>] = "read", asked[s] # << >>
  PROVE  Head(asked[s]) = <<t, Head(flight[<<t, s>>])>>
<1>1. <<t, s>> \in Threads /\ Shape(t, s) /\ SlotInStep(s)
  BY DEF ThreadShape, InStep, Threads
<1>2. owner[s] = t /\ open[s]
  BY <1>1 DEF Shape, Locked
<1>3. Agree(t, asked[s], flight[<<t, s>>])
  BY <1>1, <1>2 DEF SlotInStep
<1>4. flight[<<t, s>>] \in Seq(Chunk) /\ asked[s] \in Seq(Transfers \X Chunk)
  BY <1>1 DEF TypeOK, ThreadTypes, SlotTypes
<1>5. 1 \in 1 .. Len(asked[s]) /\ Head(asked[s]) = asked[s][1]
  BY <1>4
<1>6. Head(flight[<<t, s>>]) = flight[<<t, s>>][1]
  BY <1>4
<1>. QED
  BY <1>3, <1>5, <1>6 DEF Agree

\* step puts a chunk in flight.
LEMMA SendMoved ==
  ASSUME TypeOK, ThreadShape, Accounted, NEW t \in Transfers, NEW s \in Slots,
         Send(t, s)
  PROVE  /\ Moved(t, s) /\ Reach(t, s)' = Reach(t, s)
         /\ why' = why
<1>. DEFINE th == <<t, s>>
            f == fresh[th]
            g == flight[th]
            c == Head(f)
<1>1. /\ th \in Threads /\ Shape(t, s) /\ Placed(t, s) /\ OnePlace(t)
      /\ f \in Seq(Chunk) /\ g \in Seq(Chunk) /\ Range(g) \subseteq claims[t]
  BY ThreadFacts
<1>2. f # << >> /\ c \notin claims[t]
  BY Unclaimed DEF Send
<1>3. /\ fresh' = [fresh EXCEPT ![th] = Tail(f)]
      /\ claims' = [claims EXCEPT ![t] = @ \cup {c}]
      /\ flight' = [flight EXCEPT ![th] = Append(g, c)]
      /\ UNCHANGED <<back, queue, done, why>>
  BY <1>2 DEF Send, sharedVars
<1>4. /\ fresh'[th] = Tail(f) /\ flight'[th] = Append(g, c)
      /\ claims'[t] = claims[t] \cup {c}
  BY <1>1, <1>3 DEF TypeOK, ThreadTypes, ChunkTypes
<1>5. /\ c \in Range(f) /\ Range(f) = {c} \cup Range(Tail(f))
      /\ IsInjective(Tail(f)) /\ c \notin Range(Tail(f))
  BY <1>1, <1>2, HeadTailRange DEF Placed
<1>6. c \in Chunk /\ c \notin Range(g)
  <2>1. Range(f) \subseteq Chunk
    BY <1>1, RangeFacts
  <2>. QED
    BY <1>1, <1>5, <2>1 DEF Placed
<1>7. Range(Append(g, c)) = Range(g) \cup {c} /\ IsInjective(Append(g, c))
  BY <1>1, <1>6, AppendRange DEF Placed
<1>. HIDE DEF c
<1>8. back[th] = 0 /\ 0 \notin Range(f) \cup Range(g)
  <2>1. Range(f) \subseteq Chunk /\ Range(g) \subseteq Chunk
    BY <1>1, RangeFacts
  <2>. QED
    BY <1>1, <2>1, ChunkFacts DEF Send, Shape
<1>9. Placed(t, s)'
  <2>1. /\ Range(f) \cap Range(g) = {}
        /\ (Range(f) \cup Range(g)) \cap (Range(queue[t]) \cup done[t]) = {}
    BY <1>1 DEF Placed, Holds
  <2>2. Range(Tail(f)) \cap Range(Append(g, c)) = {}
    BY <1>5, <1>7, <2>1
  <2>3. 0 \notin Range(Tail(f)) \cup Range(Append(g, c))
    BY <1>5, <1>7, <1>8
  <2>4. (Range(Tail(f)) \cup Range(Append(g, c))) \cap (Range(queue[t]) \cup done[t]) = {}
    BY <1>5, <1>7, <2>1
  <2>. QED
    BY <1>3, <1>4, <1>5, <1>7, <1>8, <2>2, <2>3, <2>4 DEF Placed, Holds
<1>10. Reach(t, s)' = Reach(t, s)
  BY <1>3, <1>4, <1>5, <1>7 DEF Reach, Holds
<1>11. claims'[t] = (claims[t] \ Range(g)) \cup Range(flight'[th])
  BY <1>1, <1>4, <1>7
<1>. QED
  BY <1>1, <1>3, <1>9, <1>10, <1>11 DEF Moved, OnePlace

\* give_back puts what was not asked for in front of the queue.
LEMMA GiveBackMoved ==
  ASSUME TypeOK, ThreadShape, Accounted, NEW t \in Transfers, NEW s \in Slots,
         GiveBack(t, s)
  PROVE  Moved(t, s) /\ Reach(t, s)' = Reach(t, s)
<1>. DEFINE th == <<t, s>>
            f == fresh[th]
            q == queue[t]
<1>1. /\ th \in Threads /\ Shape(t, s) /\ Placed(t, s) /\ OnePlace(t)
      /\ f \in Seq(Chunk) /\ q \in Seq(Chunk) /\ Range(flight[th]) \subseteq claims[t]
  BY ThreadFacts
<1>2. /\ fresh' = [fresh EXCEPT ![th] = << >>]
      /\ queue' = [queue EXCEPT ![t] = f \o q]
      /\ UNCHANGED <<flight, back, claims, done>>
  BY DEF GiveBack, PushFront, chunkVars, historyVars
<1>3. fresh'[th] = << >> /\ queue'[t] = f \o q
  BY <1>1, <1>2 DEF TypeOK, ThreadTypes, SharedTypes
<1>4. Range(fresh'[th]) = {} /\ IsInjective(fresh'[th])
  BY <1>3, ShortSeqs
<1>5. IsInjective(f) /\ IsInjective(q) /\ Range(f) \cap Range(q) = {}
  BY <1>1 DEF Placed, OnePlace, Holds
<1>. HIDE DEF f, q
<1>6. Range(queue'[t]) = Range(f) \cup Range(q) /\ IsInjective(queue'[t])
  <2>0. f \in Seq(Chunk) /\ q \in Seq(Chunk)
    BY <1>1
  <2>1. Range(f \o q) = Range(f) \cup Range(q) /\ IsInjective(f \o q)
    BY <1>5, <2>0, ConcatRange
  <2>. QED
    BY <1>3, <2>1
<1>7. Placed(t, s)'
  BY <1>1, <1>2, <1>4, <1>6 DEF Placed, Holds, f, q
<1>8. Reach(t, s)' = Reach(t, s)
  BY <1>2, <1>4, <1>6 DEF Reach, Holds, f, q
<1>9. Range(queue'[t]) \cap done'[t] = {}
  BY <1>1, <1>2, <1>6 DEF Placed, OnePlace, Holds, f, q
<1>. QED
  BY <1>1, <1>2, <1>6, <1>7, <1>8, <1>9 DEF Moved

\* A chunk taken out of flight is released; it is in the thread's hands, or
\* given up.
LEMMA OutOfFlight ==
  ASSUME TypeOK, ThreadShape, Accounted, NEW t \in Transfers, NEW s \in Slots,
         NEW c, NEW rest,
         Range(flight[<<t, s>>]) = {c} \cup Range(rest), IsInjective(rest), c \notin Range(rest),
         fresh' = fresh, queue' = queue, done' = done,
         flight' = [flight EXCEPT ![<<t, s>>] = rest],
         claims' = [claims EXCEPT ![t] = @ \ {c}],
         back[<<t, s>>] = 0,
         back' = [back EXCEPT ![<<t, s>>] = c] \/ back' = back
  PROVE  /\ Moved(t, s)
         /\ back'[<<t, s>>] = c => Reach(t, s)' = Reach(t, s)
         /\ c \in Holds(t, s)
         /\ back' = back => c \notin Reach(t, s)'
<1>. DEFINE th == <<t, s>>
            f == fresh[th]
            g == flight[th]
<1>1. /\ th \in Threads /\ Placed(t, s) /\ OnePlace(t) /\ ClaimsExact(t)
      /\ f \in Seq(Chunk) /\ g \in Seq(Chunk) /\ Range(g) \subseteq claims[t]
  BY ThreadFacts
<1>2. flight'[th] = rest /\ claims'[t] = claims[t] \ {c}
  BY <1>1 DEF TypeOK, ThreadTypes, ChunkTypes
<1>3. (back' = back /\ back'[th] = 0) \/ back'[th] = c
  BY <1>1 DEF TypeOK, ThreadTypes
<1>4. Range(f) \subseteq Chunk /\ Range(g) \subseteq Chunk /\ 0 \notin Chunk
  BY <1>1, RangeFacts, ChunkFacts
<1>5. c # 0 /\ c \notin Range(f) /\ c \notin Range(queue[t]) \cup done[t]
  BY <1>1, <1>4 DEF Placed, Holds
<1>6. Placed(t, s)'
  <2>1. /\ Range(f) \cap Range(g) = {}
        /\ (Range(f) \cup Range(g)) \cap (Range(queue[t]) \cup done[t]) = {}
        /\ IsInjective(f)
    BY <1>1 DEF Placed, Holds
  <2>2. back'[th] \notin Range(f) \cup Range(rest)
    BY <1>3, <1>4, <1>5
  <2>3. Holds(t, s)' \subseteq Range(f) \cup Range(g)
    BY <1>2, <1>3 DEF Holds
  <2>. QED
    BY <1>2, <2>1, <2>2, <2>3 DEF Placed
<1>7. back'[th] = c => Reach(t, s)' = Reach(t, s)
  BY <1>2, <1>5 DEF Reach, Holds
<1>8. Reach(t, s)' \subseteq Reach(t, s)
  BY <1>2, <1>3 DEF Reach, Holds
<1>9. claims'[t] = (claims[t] \ Range(g)) \cup Range(rest)
  BY <1>1, <1>2
<1>10. back' = back => c \notin Reach(t, s)'
  BY <1>1, <1>2, <1>5 DEF Reach, Holds
<1>11. c \in Holds(t, s)
  BY DEF Holds
<1>. QED
  BY <1>1, <1>2, <1>6, <1>7, <1>8, <1>9, <1>10, <1>11 DEF Moved, OnePlace

\* A data frame is read.
LEMMA ReadDataMoved ==
  ASSUME TypeOK, ThreadShape, InStep, Accounted, NEW t \in Transfers, NEW s \in Slots,
         ReadData(t, s)
  PROVE  /\ Moved(t, s) /\ Reach(t, s)' = Reach(t, s)
         /\ why' = why
<1>. DEFINE th == <<t, s>>
            g == flight[th]
            c == Head(g)
<1>1. /\ th \in Threads /\ Shape(t, s) /\ Placed(t, s) /\ g \in Seq(Chunk)
      /\ back[th] \in Chunk \cup {0}
  BY ThreadFacts
<1>2. Head(asked[s]) = <<t, c>>
  BY Expected DEF ReadData
<1>3. g # << >> /\ back[th] = 0
  BY <1>1 DEF ReadData, Shape
<1>4. /\ Range(g) = {c} \cup Range(Tail(g)) /\ IsInjective(Tail(g)) /\ c \notin Range(Tail(g))
  BY <1>1, <1>3, HeadTailRange DEF Placed
<1>5. /\ UNCHANGED <<fresh, queue, done, why>>
      /\ \/ UNCHANGED <<flight, back, claims>>
         \/ /\ flight' = [flight EXCEPT ![th] = Tail(g)]
            /\ back' = [back EXCEPT ![th] = c]
            /\ claims' = [claims EXCEPT ![t] = @ \ {c}]
  BY <1>2 DEF ReadData, Release, sharedVars, historyVars
<1>6. CASE UNCHANGED <<flight, back, claims>>
  BY <1>5, <1>6, StayMoved
<1>7. CASE /\ flight' = [flight EXCEPT ![th] = Tail(g)]
           /\ back' = [back EXCEPT ![th] = c]
           /\ claims' = [claims EXCEPT ![t] = @ \ {c}]
  <2>1. back'[th] = c
    BY <1>1, <1>7 DEF TypeOK, ThreadTypes
  <2>. HIDE DEF c, g
  <2>. QED
    BY <1>3, <1>4, <1>5, <1>7, <2>1, OutOfFlight DEF g
<1>. QED
  BY <1>5, <1>6, <1>7

\* An ERROR frame is read.
LEMMA ReadErrorMoved ==
  ASSUME TypeOK, ThreadShape, InStep, Accounted, NEW t \in Transfers, NEW s \in Slots,
         NEW retryable \in BOOLEAN, ReadError(t, s, retryable)
  PROVE  /\ Moved(t, s)
         /\ \/ Reach(t, s)' = Reach(t, s) /\ why' = why
            \/ /\ \E c \in Holds(t, s) : c \notin Reach(t, s)'
               /\ why'[<<t, s>>] = "refused" /\ pc'[<<t, s>>] = "fail"
<1>. DEFINE th == <<t, s>>
            g == flight[th]
            c == Head(g)
<1>1. /\ th \in Threads /\ Shape(t, s) /\ Placed(t, s) /\ g \in Seq(Chunk)
      /\ back[th] \in Chunk \cup {0}
  BY ThreadFacts
<1>2. Head(asked[s]) = <<t, c>>
  BY Expected DEF ReadError
<1>3. g # << >> /\ back[th] = 0
  BY <1>1 DEF ReadError, Shape
<1>4. /\ Range(g) = {c} \cup Range(Tail(g)) /\ IsInjective(Tail(g)) /\ c \notin Range(Tail(g))
  BY <1>1, <1>3, HeadTailRange DEF Placed
<1>5. /\ UNCHANGED <<fresh, queue, done>>
      /\ flight' = [flight EXCEPT ![th] = Tail(g)]
      /\ claims' = [claims EXCEPT ![t] = @ \ {c}]
      /\ \/ back' = [back EXCEPT ![th] = c] /\ why' = why
         \/ /\ back' = back
            /\ why' = [why EXCEPT ![th] = "refused"]
            /\ pc' = [pc EXCEPT ![th] = "fail"]
  BY <1>2 DEF ReadError, Release, sharedVars, Goto
<1>6. \/ back'[th] = c /\ why' = why
      \/ back' = back /\ why'[th] = "refused" /\ pc'[th] = "fail"
  BY <1>1, <1>5 DEF TypeOK, ThreadTypes
<1>. HIDE DEF c, g
<1>7. /\ Moved(t, s)
      /\ back'[th] = c => Reach(t, s)' = Reach(t, s)
      /\ c \in Holds(t, s)
      /\ back' = back => c \notin Reach(t, s)'
  BY <1>3, <1>4, <1>5, OutOfFlight DEF g
<1>. QED
  BY <1>6, <1>7

\* drive takes a chunk back from a broken connection.
LEMMA DrainMoved ==
  ASSUME TypeOK, ThreadShape, Accounted, NEW t \in Transfers, NEW s \in Slots,
         Drain(t, s)
  PROVE  Moved(t, s) /\ Reach(t, s)' = Reach(t, s)
<1>. DEFINE th == <<t, s>>
            g == flight[th]
            c == Last(g)
<1>1. /\ th \in Threads /\ Shape(t, s) /\ Placed(t, s) /\ g \in Seq(Chunk)
      /\ back[th] \in Chunk \cup {0}
  BY ThreadFacts
<1>2. g # << >> /\ back[th] = 0
  BY <1>1 DEF Drain, Shape
<1>3. /\ Range(g) = {c} \cup Range(Front(g)) /\ IsInjective(Front(g)) /\ c \notin Range(Front(g))
  BY <1>1, <1>2, FrontLastRange DEF Placed
<1>4. /\ UNCHANGED <<fresh, queue, done>>
      /\ flight' = [flight EXCEPT ![th] = Front(g)]
      /\ back' = [back EXCEPT ![th] = c]
      /\ claims' = [claims EXCEPT ![t] = @ \ {c}]
  BY DEF Drain, Release, sharedVars, historyVars
<1>5. back'[th] = c
  BY <1>1, <1>4 DEF TypeOK, ThreadTypes
<1>. HIDE DEF c, g
<1>. QED
  BY <1>2, <1>3, <1>4, <1>5, OutOfFlight DEF g

\* complete counts the chunk in the thread's hands.
LEMMA CompleteMoved ==
  ASSUME TypeOK, ThreadShape, Accounted, NEW t \in Transfers, NEW s \in Slots,
         Complete(t, s)
  PROVE  /\ Moved(t, s) /\ Reach(t, s)' = Reach(t, s)
         /\ back[<<t, s>>] \in Chunks(t) \ done[t]
         /\ done'[t] = done[t] \cup {back[<<t, s>>]}
         /\ remaining'[t] = remaining[t] - 1
<1>. DEFINE th == <<t, s>>
            c == back[th]
<1>1. /\ th \in Threads /\ Shape(t, s) /\ Placed(t, s) /\ OnePlace(t) /\ OwnChunks(t)
      /\ fresh[th] \in Seq(Chunk) /\ flight[th] \in Seq(Chunk)
      /\ Range(flight[th]) \subseteq claims[t]
  BY ThreadFacts
<1>2. c # 0 /\ c \in Holds(t, s)
  BY <1>1 DEF Complete, Shape, Holds
<1>3. c \in Chunks(t) \ done[t] /\ c \notin Range(queue[t])
  BY <1>1, <1>2 DEF Placed, OwnChunks
<1>4. /\ UNCHANGED <<fresh, flight, queue, claims>>
      /\ back' = [back EXCEPT ![th] = 0]
      /\ done' = [done EXCEPT ![t] = @ \cup {c}]
      /\ remaining' = [remaining EXCEPT ![t] = @ - 1]
  BY DEF Complete, chunkVars
<1>5. back'[th] = 0 /\ done'[t] = done[t] \cup {c} /\ remaining'[t] = remaining[t] - 1
  BY <1>1, <1>4 DEF TypeOK, ThreadTypes, CallTypes, SharedTypes
<1>6. 0 \notin Range(fresh[th]) \cup Range(flight[th])
  <2>1. Range(fresh[th]) \subseteq Chunk /\ Range(flight[th]) \subseteq Chunk
    BY <1>1, RangeFacts
  <2>. QED
    BY <2>1, ChunkFacts
<1>7. Placed(t, s)'
  BY ZenonT(60), <1>1, <1>2, <1>4, <1>5, <1>6 DEF Placed, Holds
<1>8. Reach(t, s)' = Reach(t, s)
  BY <1>2, <1>4, <1>5 DEF Reach, Holds
<1>9. Range(queue'[t]) \cap done'[t] = {}
  BY <1>1, <1>3, <1>4, <1>5 DEF OnePlace
<1>. QED
  BY <1>1, <1>3, <1>4, <1>5, <1>7, <1>8, <1>9 DEF Moved, OnePlace

\* retry queues the chunk again, or gives it up.
LEMMA RetryMoved ==
  ASSUME TypeOK, ThreadShape, Accounted, NEW t \in Transfers, NEW s \in Slots,
         Retry(t, s)
  PROVE  /\ Moved(t, s)
         /\ \/ Reach(t, s)' = Reach(t, s) /\ why' = why
            \/ /\ \E c \in Holds(t, s) : c \notin Reach(t, s)'
               /\ why'[<<t, s>>] \in {"refused", "io"}
               /\ pc'[<<t, s>>] \in {"fail", "drain"}
               /\ queue' = queue
<1>. DEFINE th == <<t, s>>
            c == back[th]
            q == queue[t]
<1>1. /\ th \in Threads /\ Shape(t, s) /\ Placed(t, s) /\ OnePlace(t) /\ OwnChunks(t)
      /\ fresh[th] \in Seq(Chunk) /\ flight[th] \in Seq(Chunk) /\ q \in Seq(Chunk)
      /\ Range(flight[th]) \subseteq claims[t]
      /\ c \in Chunk \cup {0}
  BY ThreadFacts
<1>2. c # 0 /\ c \in Chunk /\ c \in Holds(t, s)
  BY <1>1 DEF Retry, Shape, Holds
<1>3. c \notin done[t] /\ c \notin Range(q) /\ c \notin Range(fresh[th]) \cup Range(flight[th])
  BY <1>1, <1>2 DEF Placed
<1>4. UNCHANGED <<fresh, flight, done, claims>> /\ back' = [back EXCEPT ![th] = 0]
  BY DEF Retry, chunkVars, historyVars
<1>5. back'[th] = 0
  BY <1>1, <1>4 DEF TypeOK, ThreadTypes
<1>6. 0 \notin Range(fresh[th]) \cup Range(flight[th])
  <2>1. Range(fresh[th]) \subseteq Chunk /\ Range(flight[th]) \subseteq Chunk
    BY <1>1, RangeFacts
  <2>. QED
    BY <2>1, ChunkFacts
<1>7. CASE queue' = [queue EXCEPT ![t] = <<c>> \o @] /\ why' = why
  <2>1. queue'[t] = <<c>> \o q
    BY <1>7 DEF TypeOK, SharedTypes
  <2>2. <<c>> \in Seq(Chunk) /\ Range(<<c>>) = {c} /\ IsInjective(<<c>>)
    BY <1>2, ShortSeqs
  <2>3. IsInjective(q) /\ Range(<<c>>) \cap Range(q) = {}
    BY <1>1, <1>3, <2>2 DEF OnePlace
  <2>4. Range(<<c>> \o q) = {c} \cup Range(q) /\ IsInjective(<<c>> \o q)
    <3>. DEFINE p == <<c>>
    <3>1. p \in Seq(Chunk) /\ q \in Seq(Chunk) /\ Range(p) = {c} /\ IsInjective(p)
          /\ IsInjective(q) /\ Range(p) \cap Range(q) = {}
      BY <1>1, <2>2, <2>3
    <3>. HIDE DEF p, q
    <3>2. Range(p \o q) = Range(p) \cup Range(q) /\ IsInjective(p \o q)
      BY <3>1, ConcatRange
    <3>. QED
      BY <3>1, <3>2 DEF p, q
  <2>5. Range(queue'[t]) = {c} \cup Range(q) /\ IsInjective(queue'[t])
    BY <2>1, <2>4
  <2>6. Placed(t, s)'
    <3>1. Holds(t, s)' = Range(fresh[th]) \cup Range(flight[th])
      BY <1>4, <1>5 DEF Holds
    <3>2. /\ IsInjective(fresh[th]) /\ IsInjective(flight[th])
          /\ Range(fresh[th]) \cap Range(flight[th]) = {}
          /\ (Range(fresh[th]) \cup Range(flight[th])) \cap (Range(q) \cup done[t]) = {}
      BY <1>1 DEF Placed, Holds
    <3>3. Holds(t, s)' \cap (Range(queue'[t]) \cup done'[t]) = {}
      BY <1>3, <1>4, <2>5, <3>1, <3>2
    <3>. QED
      BY <1>4, <1>5, <1>6, <3>2, <3>3 DEF Placed
  <2>7. Reach(t, s)' = Reach(t, s)
    BY <1>2, <1>4, <1>5, <2>5 DEF Reach, Holds
  <2>8. Range(queue'[t]) \cap done'[t] = {}
    BY <1>1, <1>3, <1>4, <2>5 DEF OnePlace
  <2>. QED
    BY <1>1, <1>4, <1>7, <2>5, <2>6, <2>7, <2>8 DEF Moved
<1>8. CASE /\ queue' = queue
           /\ \E w \in {"refused", "io"} : why' = [why EXCEPT ![th] = w]
           /\ \E l \in {"fail", "drain"} : pc' = [pc EXCEPT ![th] = l]
  <2>1. why'[th] \in {"refused", "io"} /\ pc'[th] \in {"fail", "drain"}
    BY <1>1, <1>8 DEF TypeOK, ThreadTypes
  <2>2. Placed(t, s)'
    BY <1>1, <1>4, <1>5, <1>6, <1>8 DEF Placed, Holds
  <2>3. Reach(t, s)' \subseteq Reach(t, s) /\ c \notin Reach(t, s)'
    BY <1>2, <1>3, <1>4, <1>5, <1>8 DEF Reach, Holds
  <2>. QED
    BY <1>1, <1>2, <1>4, <1>8, <2>1, <2>2, <2>3 DEF Moved, OnePlace
<1>. QED
  BY <1>7, <1>8 DEF Retry, PushFront, Goto

\* fail gives up what is in flight on a connection that is gone.
LEMMA FailMoved ==
  ASSUME TypeOK, ThreadShape, Accounted, NEW t \in Transfers, NEW s \in Slots,
         Fail(t, s)
  PROVE  /\ Moved(t, s)
         /\ \/ Reach(t, s)' = Reach(t, s)
            \/ \E c \in Holds(t, s) : c \notin Reach(t, s)'
         /\ ~open[s] /\ flight[<<t, s>>] # << >> => \E c \in Holds(t, s) : c \notin Reach(t, s)'
<1>. DEFINE th == <<t, s>>
            g == flight[th]
<1>1. /\ th \in Threads /\ Shape(t, s) /\ Placed(t, s) /\ OnePlace(t) /\ OwnChunks(t)
      /\ fresh[th] \in Seq(Chunk) /\ g \in Seq(Chunk)
      /\ Range(g) \subseteq claims[t]
  BY ThreadFacts
<1>2. UNCHANGED <<fresh, back, queue, done>>
  BY DEF Fail, historyVars
<1>3. CASE open[s]
  <2>1. UNCHANGED <<flight, claims>>
    BY <1>3 DEF Fail, Abandon
  <2>. QED
    BY <1>2, <1>3, <2>1, StayMoved
<1>4. CASE ~open[s] /\ g = << >>
  <2>1. Range(g) = {}
    BY <1>4, ShortSeqs
  <2>2. flight'[th] = << >> /\ claims'[t] = claims[t] \ Range(g)
    BY <1>1, <1>4 DEF Fail, Abandon, TypeOK, ThreadTypes, ChunkTypes
  <2>3. claims'[t] = claims[t]
    BY <2>1, <2>2
  <2>. QED
    BY <1>2, <1>4, <2>2, <2>3, StayMoved
<1>5. CASE ~open[s] /\ g # << >>
  <2>1. flight'[th] = << >> /\ claims'[t] = claims[t] \ Range(g)
    BY <1>1, <1>5 DEF Fail, Abandon, TypeOK, ThreadTypes, ChunkTypes
  <2>2. Range(flight'[th]) = {} /\ IsInjective(flight'[th])
    BY <2>1, ShortSeqs
  <2>3. Placed(t, s)'
    BY <1>1, <1>2, <2>2 DEF Placed, Holds
  <2>4. Reach(t, s)' \subseteq Reach(t, s)
    BY <1>2, <2>2 DEF Reach, Holds
  <2>5. Head(g) \in Range(g)
    BY <1>1, <1>5, HeadTailRange
  <2>6. Head(g) \in Holds(t, s) /\ Head(g) \notin Reach(t, s)'
    <3>1. back[th] = 0
      BY <1>1 DEF Fail, Shape
    <3>2. Head(g) \notin Range(fresh[th]) /\ Head(g) \notin Range(queue[t]) \cup done[t]
      BY <1>1, <2>5 DEF Placed, Holds
    <3>. QED
      BY <1>2, <2>2, <2>5, <3>1, <3>2 DEF Reach, Holds
  <2>7. claims'[t] = (claims[t] \ Range(g)) \cup Range(flight'[th])
    BY <2>1, <2>2
  <2>. QED
    BY <1>1, <1>2, <2>3, <2>4, <2>6, <2>7 DEF Moved, OnePlace
<1>. QED
  BY <1>3, <1>4, <1>5

\* The thread gives a chunk up, and has, or reports, an error for it.
GivesUp(t, s) ==
  /\ \E c \in Holds(t, s) : c \notin Reach(t, s)'
  /\ \/ why'[<<t, s>>] \in {"refused", "io"} /\ pc'[<<t, s>>] \in {"fail", "drain"}
     \/ Fail(t, s)

\* Every step of a thread moves chunks as it should.
LEMMA MoveStep ==
  ASSUME TypeOK, ThreadShape, InCredit, InStep, Accounted, NEW t \in Transfers,
         NEW s \in Slots, ThreadStep(t, s) \/ SpuriousWake(t, s)
  PROVE  Moved(t, s) /\ (Reach(t, s)' = Reach(t, s) \/ GivesUp(t, s))
<1>1. CASE Take(t, s)
  BY <1>1, TakeMoved
<1>2. CASE Send(t, s)
  BY <1>2, SendMoved
<1>3. CASE GiveBack(t, s)
  BY <1>3, GiveBackMoved
<1>4. CASE ReadData(t, s)
  BY <1>4, ReadDataMoved
<1>5. CASE \E retryable \in BOOLEAN : ReadError(t, s, retryable)
  BY <1>5, ReadErrorMoved DEF GivesUp
<1>6. CASE Complete(t, s)
  BY <1>6, CompleteMoved
<1>7. CASE Drain(t, s)
  BY <1>7, DrainMoved
<1>8. CASE Retry(t, s)
  BY <1>8, RetryMoved DEF GivesUp
<1>9. CASE Fail(t, s)
  BY <1>9, FailMoved DEF GivesUp
<1>10. CASE \/ Spawn(t, s) \/ LockSlot(t, s) \/ Drive(t, s) \/ Reconnect(t, s)
            \/ AllSent(t, s) \/ ReadBreaks(t, s) \/ ReadConnError(t, s) \/ Drained(t, s)
            \/ UnlockSlot(t, s) \/ Leave(t, s) \/ SpuriousWake(t, s)
  <2>1. UNCHANGED <<fresh, flight, back, queue, done, claims>>
    BY <1>10 DEF Spawn, LockSlot, Drive, Reconnect, AllSent, ReadBreaks, ReadConnError,
                 Drained, UnlockSlot, Leave, SpuriousWake, sharedVars, chunkVars, historyVars
  <2>. QED
    BY <2>1, StayMoved
<1>. QED
  BY <1>1, <1>2, <1>3, <1>4, <1>5, <1>6, <1>7, <1>8, <1>9, <1>10 DEF ThreadStep, Read

\* What other threads of the call hold, and what belongs to other calls.
LEMMA OthersHold ==
  ASSUME NEW t \in Transfers, NEW s \in Slots, Frame(t, s),
         NEW u \in Transfers, NEW r \in Slots, <<u, r>> # <<t, s>>
  PROVE  Holds(u, r)' = Holds(u, r)
BY DEF Frame, Holds

\* No step of a thread puts a chunk of any call in two places.
LEMMA PlacesKept ==
  ASSUME TypeOK, ThreadShape, Accounted, NEW t \in Transfers, NEW s \in Slots,
         Frame(t, s), Apart(t), Moved(t, s), NEW u \in Transfers
  PROVE  OnePlace(u)' /\ OwnChunks(u)'
<1>1. OnePlace(u) /\ OwnChunks(u) /\ OnePlace(t) /\ Placed(t, s)
  BY DEF Accounted, OnePlace
<1>2. \A v \in Transfers : \A r \in Slots : <<v, r>> # <<t, s>> =>
        /\ Holds(v, r)' = Holds(v, r)
        /\ fresh'[<<v, r>>] = fresh[<<v, r>>] /\ flight'[<<v, r>>] = flight[<<v, r>>]
        /\ back'[<<v, r>>] = back[<<v, r>>]
  <2>1. \A v \in Transfers : \A r \in Slots : <<v, r>> # <<t, s>> => Holds(v, r)' = Holds(v, r)
    BY OthersHold
  <2>. QED
    BY <2>1 DEF Frame
<1>3. CASE u # t
  <2>1. queue'[u] = queue[u] /\ done'[u] = done[u]
    BY <1>3 DEF Apart
  <2>2. \A r \in Slots :
          /\ Holds(u, r)' = Holds(u, r)
          /\ fresh'[<<u, r>>] = fresh[<<u, r>>] /\ flight'[<<u, r>>] = flight[<<u, r>>]
          /\ back'[<<u, r>>] = back[<<u, r>>]
    BY <1>2, <1>3
  <2>3. \A r \in Slots : Placed(u, r)'
    BY <1>1, <2>1, <2>2 DEF Placed, OnePlace
  <2>. QED
    BY <1>1, <2>1, <2>2, <2>3 DEF OnePlace, OwnChunks
<1>4. CASE u = t
  <2>1. \A r \in Slots : r # s => Holds(t, r) \cap Reach(t, s) = {}
    <3>. SUFFICES ASSUME NEW r \in Slots, r # s
                  PROVE  Holds(t, r) \cap Reach(t, s) = {}
      OBVIOUS
    <3>1. Placed(t, r) /\ Holds(t, r) \cap Holds(t, s) = {}
      BY <1>1 DEF OnePlace
    <3>. QED
      BY <3>1 DEF Reach, Placed
  <2>2. \A r \in Slots : r # s =>
          /\ Holds(t, r)' = Holds(t, r)
          /\ fresh'[<<t, r>>] = fresh[<<t, r>>] /\ flight'[<<t, r>>] = flight[<<t, r>>]
          /\ back'[<<t, r>>] = back[<<t, r>>]
    BY <1>2
  <2>3. \A r \in Slots : r # s => Holds(t, r)' \cap Reach(t, s)' = {}
    BY <2>1, <2>2 DEF Moved
  <2>4. \A r \in Slots : Placed(t, r)'
    <3>. SUFFICES ASSUME NEW r \in Slots, r # s
                  PROVE  Placed(t, r)'
      BY DEF Moved
    <3>1. Placed(t, r)
      BY <1>1 DEF OnePlace
    <3>2. Holds(t, r)' \cap (Range(queue'[t]) \cup done'[t]) = {}
      BY <2>3 DEF Reach
    <3>. QED
      BY <2>2, <3>1, <3>2 DEF Placed
  <2>5. \A p, r \in Slots : p # r => Holds(t, p)' \cap Holds(t, r)' = {}
    <3>. SUFFICES ASSUME NEW p \in Slots, NEW r \in Slots, p # r
                  PROVE  Holds(t, p)' \cap Holds(t, r)' = {}
      OBVIOUS
    <3>1. Holds(t, s)' \subseteq Reach(t, s)'
      BY DEF Reach
    <3>2. CASE p = s \/ r = s
      BY <2>3, <3>1, <3>2
    <3>3. CASE p # s /\ r # s
      BY <1>1, <2>2, <3>3 DEF OnePlace
    <3>. QED
      BY <3>2, <3>3
  <2>6. OnePlace(t)'
    BY <2>4, <2>5 DEF OnePlace, Moved
  <2>7. Reach(t, s) \subseteq Chunks(t)
    BY <1>1, <1>4 DEF OwnChunks, Reach
  <2>8. OwnChunks(t)'
    <3>1. Reach(t, s)' \subseteq Chunks(t)
      BY <2>7 DEF Moved
    <3>2. Holds(t, s)' \cup Range(queue'[t]) \cup done'[t] \subseteq Chunks(t)
      BY <3>1 DEF Reach
    <3>3. \A r \in Slots : r # s => Holds(t, r)' \subseteq Chunks(t)
      BY <1>1, <1>4, <2>2 DEF OwnChunks
    <3>. QED
      BY <3>2, <3>3 DEF OwnChunks, Chunks
  <2>. QED
    BY <1>4, <2>6, <2>8
<1>. QED
  BY <1>3, <1>4

\* What is claimed is what is in flight.
LEMMA ClaimsKept ==
  ASSUME TypeOK, ThreadShape, Accounted, NEW t \in Transfers, NEW s \in Slots,
         Frame(t, s), Apart(t), Moved(t, s), NEW u \in Transfers
  PROVE  ClaimsExact(u)'
<1>1. ClaimsExact(u) /\ OnePlace(u)
  BY DEF Accounted
<1>2. \A r \in Slots : <<u, r>> # <<t, s>> => flight'[<<u, r>>] = flight[<<u, r>>]
  BY DEF Frame
<1>3. CASE u # t
  <2>1. claims'[u] = claims[u] /\ \A r \in Slots : flight'[<<u, r>>] = flight[<<u, r>>]
    BY <1>2, <1>3 DEF Apart
  <2>. QED
    BY <1>1, <2>1 DEF ClaimsExact
<1>4. CASE u = t
  <2>1. \A r \in Slots : r # s =>
          Range(flight[<<t, r>>]) \cap Range(flight[<<t, s>>]) = {}
    BY <1>1, <1>4 DEF OnePlace, Holds
  <2>2. \A r \in Slots : r # s => flight'[<<t, r>>] = flight[<<t, r>>]
    BY <1>2, <1>4
  <2>3. claims'[t] = (claims[t] \ Range(flight[<<t, s>>])) \cup Range(flight'[<<t, s>>])
    BY DEF Moved
  <2>4. \A c : c \in claims[t] <=> \E r \in Slots : c \in Range(flight[<<t, r>>])
    BY <1>1, <1>4 DEF ClaimsExact
  <2>5. \A c : c \in claims'[t] <=> \E r \in Slots : c \in Range(flight'[<<t, r>>])
    BY <2>1, <2>2, <2>3, <2>4
  <2>. QED
    BY <1>4, <2>5 DEF ClaimsExact
<1>. QED
  BY <1>3, <1>4

\* What is dropped stays dropped, and a thread drops only what it held.
LEMMA DroppedStep ==
  ASSUME TypeOK, ThreadShape, Accounted, NEW t \in Transfers, NEW s \in Slots,
         Frame(t, s), Apart(t), Moved(t, s)
  PROVE  /\ \A u \in Transfers : u # t => Dropped(u)' = Dropped(u)
         /\ Dropped(t) \subseteq Dropped(t)'
         /\ Reach(t, s)' = Reach(t, s) => Dropped(t)' = Dropped(t)
         /\ (\E c \in Holds(t, s) : c \notin Reach(t, s)') => Dropped(t)' # {}
<1>1. ASSUME NEW u \in Transfers, u # t
      PROVE  Dropped(u)' = Dropped(u)
  <2>1. \A r \in Slots : Holds(u, r)' = Holds(u, r)
    BY <1>1, OthersHold
  <2>. QED
    BY <1>1, <2>1 DEF Dropped, Apart, Chunks
<1>2. \A r \in Slots : r # s => Holds(t, r)' = Holds(t, r)
  BY OthersHold
<1>3. \A c : c \in Dropped(t) <=> /\ c \in Chunks(t) /\ c \notin Reach(t, s)
                                  /\ \A r \in Slots : r # s => c \notin Holds(t, r)
  BY DEF Dropped, Reach
<1>4. \A c : c \in Dropped(t)' <=> /\ c \in Chunks(t) /\ c \notin Reach(t, s)'
                                   /\ \A r \in Slots : r # s => c \notin Holds(t, r)
  BY <1>2 DEF Dropped, Reach, Chunks
<1>5. Reach(t, s)' \subseteq Reach(t, s)
  BY DEF Moved
<1>6. ASSUME NEW c \in Holds(t, s), c \notin Reach(t, s)'
      PROVE  c \in Dropped(t)'
  <2>1. c \in Chunks(t) /\ \A r \in Slots : r # s => c \notin Holds(t, r)
    BY DEF Accounted, OwnChunks, OnePlace
  <2>. QED
    BY <1>4, <1>6, <2>1
<1>. QED
  BY <1>1, <1>3, <1>4, <1>5, <1>6

---------------------------------------------------------------------------
(* Counting.                                                               *)

\* A thread that steps is one of a call under way, and goes when it leaves.
LEMMA AroundStep ==
  ASSUME TypeOK, ThreadShape, NEW t \in Transfers, NEW s \in Slots,
         ThreadStep(t, s) \/ SpuriousWake(t, s)
  PROVE  /\ outcome[t] = "running"
         /\ pc[<<t, s>>] \notin {"uncalled", "gone"}
         /\ \/ Leave(t, s) /\ pc'[<<t, s>>] = "gone" /\ live'[t] = live[t] - 1
            \/ live' = live /\ pc'[<<t, s>>] \notin {"uncalled", "gone"}
<1>0. <<t, s>> \in Threads /\ Shape(t, s)
  BY DEF ThreadShape, Threads
<1>1. pc[<<t, s>>] \notin {"uncalled", "gone"}
  BY DEF ThreadStep, SpuriousWake, Read, Spawn, LockSlot, Drive, Reconnect, Take, Send,
         AllSent, GiveBack, ReadData, ReadError, ReadBreaks, ReadConnError,
         Complete, Drain, Drained, Retry, Fail, UnlockSlot, Leave
<1>2. outcome[t] = "running"
  BY <1>0, <1>1 DEF Shape
<1>3. CASE Leave(t, s)
  BY <1>0, <1>1, <1>2, <1>3 DEF Leave, NotifyGoto, TypeOK, SharedTypes
<1>4. CASE ~Leave(t, s)
  <2>1. live' = live
    BY <1>4 DEF ThreadStep, SpuriousWake, Read, Spawn, LockSlot, Drive, Reconnect, Take, Send,
         AllSent, GiveBack, ReadData, ReadError, ReadBreaks, ReadConnError,
         Complete, Drain, Drained, Retry, Fail, UnlockSlot, sharedVars
  <2>2. \/ \E l \in Labels \ {"uncalled", "gone"} : Goto(t, s, l) \/ NotifyGoto(t, s, l)
        \/ pc' = pc
    BY <1>4 DEF ThreadStep, SpuriousWake, Read, Spawn, LockSlot, Drive, Reconnect, Take, Send,
         AllSent, GiveBack, ReadData, ReadError, Mismatch, ReadBreaks, ReadConnError,
         Complete, Drain, Drained, Retry, Fail, UnlockSlot, Labels
  <2>3. pc'[<<t, s>>] \notin {"uncalled", "gone"}
    BY <1>0, <1>1, <2>2 DEF Goto, NotifyGoto, TypeOK, ThreadTypes
  <2>. QED
    BY <1>1, <1>2, <2>1, <2>3
<1>. QED
  BY <1>3, <1>4

\* Sets that are counted are finite.
LEMMA FiniteFacts ==
  ASSUME NEW t \in Transfers
  PROVE  /\ IsFiniteSet(Chunks(t)) /\ IsFiniteSet(Chunks(t) \ done[t])
         /\ IsFiniteSet(Around(t))
         /\ Cardinality(Chunks(t) \ done[t]) \in Nat /\ Cardinality(Around(t)) \in Nat
<1>1. NumChunks[t] \in Nat /\ NumSlots \in Nat
  BY PoolAssumption
<1>2. IsFiniteSet(Chunks(t)) /\ IsFiniteSet(Slots)
  BY <1>1, FS_Interval DEF Chunks, Slots
<1>3. IsFiniteSet(Chunks(t) \ done[t])
  BY <1>2, FS_Subset
<1>4. IsFiniteSet(Around(t))
  <2>1. Around(t) \in SUBSET Slots
    BY DEF Around
  <2>. QED
    BY <1>2, <2>1, FS_Subset
<1>. QED
  BY <1>2, <1>3, <1>4, FS_CardinalityType

\* Only complete counts.
LEMMA OnlyComplete ==
  ASSUME TypeOK, NEW t \in Transfers, NEW s \in Slots,
         ThreadStep(t, s) \/ SpuriousWake(t, s), ~Complete(t, s)
  PROVE  remaining' = remaining /\ done' = done
BY DEF ThreadStep, SpuriousWake, Read, Spawn, LockSlot, Drive, Reconnect, Take, Send,
       AllSent, GiveBack, ReadData, ReadError, ReadBreaks, ReadConnError,
       Drain, Drained, Retry, Fail, UnlockSlot, Leave, sharedVars, historyVars

\* The counters keep counting.
LEMMA CountedStep ==
  ASSUME TypeOK, ThreadShape, Accounted, NEW t \in Transfers, NEW s \in Slots,
         ThreadStep(t, s) \/ SpuriousWake(t, s), Frame(t, s), Apart(t), NEW u \in Transfers
  PROVE  Counted(u)'
<1>1. Counted(u) /\ outcome[t] = "running" /\ outcome' = outcome
  BY AroundStep DEF Accounted, Frame
<1>2. CASE u # t
  <2>1. Around(u)' = Around(u)
    BY <1>2 DEF Around, Frame
  <2>2. /\ live'[u] = live[u] /\ queue'[u] = queue[u] /\ done'[u] = done[u]
        /\ error'[u] = error[u] /\ remaining'[u] = remaining[u]
    BY <1>2 DEF Apart
  <2>. QED
    BY <1>1, <2>1, <2>2 DEF Counted, Chunks
<1>3. CASE u = t
  <2>1. live'[t] = Cardinality(Around(t)')
    <3>1. \A r \in Slots : r # s => (r \in Around(t)' <=> r \in Around(t))
      BY DEF Around, Frame
    <3>2. s \in Around(t)
      BY AroundStep DEF Around
    <3>3. CASE Leave(t, s) /\ pc'[<<t, s>>] = "gone" /\ live'[t] = live[t] - 1
      <4>1. Around(t)' = Around(t) \ {s}
        <5>1. s \notin Around(t)'
          BY <3>3 DEF Around
        <5>2. Around(t)' \subseteq Slots /\ Around(t) \subseteq Slots
          BY DEF Around
        <5>. QED
          BY <3>1, <5>1, <5>2
      <4>2. Cardinality(Around(t) \ {s}) = Cardinality(Around(t)) - 1
        BY <3>2, FiniteFacts, FS_RemoveElement
      <4>. QED
        BY <1>1, <1>3, <3>3, <4>1, <4>2 DEF Counted
    <3>4. CASE live' = live /\ pc'[<<t, s>>] \notin {"uncalled", "gone"}
      <4>1. Around(t)' = Around(t)
        <5>1. s \in Around(t)'
          BY <3>4 DEF Around
        <5>2. Around(t)' \subseteq Slots /\ Around(t) \subseteq Slots
          BY DEF Around
        <5>. QED
          BY <3>1, <3>2, <5>1, <5>2
      <4>. QED
        BY <1>1, <1>3, <3>4, <4>1 DEF Counted
    <3>. QED
      BY <3>3, <3>4, AroundStep
  <2>2. remaining'[t] = Cardinality(Chunks(t) \ done'[t])
    <3>1. remaining[t] = Cardinality(Chunks(t) \ done[t])
      BY <1>1, <1>3 DEF Counted
    <3>2. CASE Complete(t, s)
      <4>1. /\ back[<<t, s>>] \in Chunks(t) \ done[t]
            /\ done'[t] = done[t] \cup {back[<<t, s>>]}
            /\ remaining'[t] = remaining[t] - 1
        BY <3>2, CompleteMoved
      <4>2. Chunks(t) \ done'[t] = (Chunks(t) \ done[t]) \ {back[<<t, s>>]}
        BY <4>1
      <4>3. Cardinality((Chunks(t) \ done[t]) \ {back[<<t, s>>]})
              = Cardinality(Chunks(t) \ done[t]) - 1
        BY <4>1, FiniteFacts, FS_RemoveElement
      <4>. QED
        BY <3>1, <4>1, <4>2, <4>3
    <3>3. CASE ~Complete(t, s)
      BY <3>1, <3>3, OnlyComplete
    <3>. QED
      BY <3>2, <3>3
  <2>. QED
    BY <1>1, <1>3, <2>1, <2>2 DEF Counted, Chunks
<1>. QED
  BY <1>2, <1>3

---------------------------------------------------------------------------
(* Who is to blame for a chunk that is given up.                           *)

\* A call with a chunk missing and no error has it in the hands of a thread
\* that is still around, or is being failed by one.
LEMMA SomebodyElse ==
  ASSUME TypeOK, ThreadShape, Accounted, NEW t \in Transfers, NEW s \in Slots,
         outcome[t] = "running", queue[t] = << >>, error[t] = None, remaining[t] # 0,
         Holds(t, s) = {}, pc[<<t, s>>] \notin {"fail", "drain", "retry", "giveback"}
  PROVE  \E r \in Slots : r # s /\ pc[<<t, r>>] \notin {"uncalled", "wait", "gone"}
<1>1. Counted(t) /\ Blame(t) /\ OwnChunks(t)
  BY DEF Accounted
<1>2. CASE Failing(t)
  BY <1>2 DEF Failing
<1>3. CASE ~Failing(t)
  <2>1. Dropped(t) = {}
    BY <1>1, <1>3 DEF Blame
  <2>2. Chunks(t) \ done[t] # {}
    BY <1>1, FS_EmptySet DEF Counted
  <2>3. PICK c \in Chunks(t) : c \notin done[t]
    BY <2>2
  <2>4. Range(queue[t]) = {}
    BY ShortSeqs
  <2>5. PICK r \in Slots : c \in Holds(t, r)
    BY <2>1, <2>3, <2>4 DEF Dropped
  <2>6. r # s
    BY <2>5
  <2>7. fresh[<<t, r>>] # << >> \/ flight[<<t, r>>] # << >> \/ back[<<t, r>>] # 0
    BY <2>5, ShortSeqs DEF Holds
  <2>8. Shape(t, r)
    BY DEF ThreadShape
  <2>9. pc[<<t, r>>] \notin {"uncalled", "wait", "gone"}
    BY <2>7, <2>8 DEF Shape
  <2>. QED
    BY <2>6, <2>9
<1>. QED
  BY <1>2, <1>3

\* A thread that finds nothing to do finds an empty queue.
LEMMA NothingLeft ==
  ASSUME TypeOK, ThreadShape, Accounted, NEW t \in Transfers, NEW s \in Slots,
         pc[<<t, s>>] = "take", flight[<<t, s>>] = << >>, Popped(t, s) = 0, error[t] = None
  PROVE  queue[t] = << >> /\ Holds(t, s) = {}
<1>1. queue[t] \in Seq(Chunk) /\ Len(queue[t]) \in Nat /\ Shape(t, s)
  BY DEF TypeOK, SharedTypes, ThreadShape
<1>2. Len(queue[t]) = 0
  BY <1>1, PoolAssumption DEF Popped
<1>3. fresh[<<t, s>>] = << >> /\ back[<<t, s>>] = 0
  BY <1>1 DEF Shape
<1>. QED
  BY <1>1, <1>2, <1>3, ShortSeqs DEF Holds

\* The last thread of a call finds nothing unaccounted for.
LEMMA NoneUnaccounted ==
  ASSUME TypeOK, ThreadShape, Accounted, NEW t \in Transfers, NEW s \in Slots,
         pc[<<t, s>>] = "take", flight[<<t, s>>] = << >>, Popped(t, s) = 0,
         error[t] = None, remaining[t] # 0
  PROVE  live[t] # 1
<1>1. Shape(t, s) /\ Counted(t)
  BY DEF ThreadShape, Accounted
<1>2. outcome[t] = "running" /\ queue[t] = << >> /\ Holds(t, s) = {}
  BY <1>1, NothingLeft DEF Shape
<1>3. PICK r \in Slots : r # s /\ pc[<<t, r>>] \notin {"uncalled", "wait", "gone"}
  BY <1>2, SomebodyElse
<1>4. s \in Around(t) /\ r \in Around(t)
  BY <1>3 DEF Around
<1>5. Cardinality(Around(t)) # 1
  <2>. SUFFICES ASSUME Cardinality(Around(t)) = 1
                PROVE  FALSE
    OBVIOUS
  <2>1. IsFiniteSet(Around(t))
    BY FiniteFacts
  <2>2. \E x : Around(t) = {x}
    BY <2>1, FS_Singleton
  <2>. QED
    BY <1>3, <1>4, <2>2
<1>. QED
  BY <1>1, <1>5 DEF Counted

\* The first error of a call is kept.
LEMMA ErrorStep ==
  ASSUME TypeOK, ThreadShape, NEW t \in Transfers, NEW s \in Slots,
         ThreadStep(t, s) \/ SpuriousWake(t, s)
  PROVE  /\ error' = error \/ Fail(t, s)
         /\ Fail(t, s) => /\ pc[<<t, s>>] = "fail" /\ why[<<t, s>>] # None
                          /\ error'[t] = IF error[t] = None THEN why[<<t, s>>] ELSE error[t]
                          /\ why'[<<t, s>>] = None
<1>1. error' = error \/ Fail(t, s)
  BY DEF ThreadStep, SpuriousWake, Read, Spawn, LockSlot, Drive, Reconnect, Take, Send,
         AllSent, GiveBack, ReadData, ReadError, ReadBreaks, ReadConnError, Complete,
         Drain, Drained, Retry, UnlockSlot, Leave, sharedVars
<1>2. <<t, s>> \in Threads /\ Shape(t, s)
  BY DEF Threads, ThreadShape
<1>3. ASSUME Fail(t, s)
      PROVE  /\ pc[<<t, s>>] = "fail" /\ why[<<t, s>>] # None
             /\ error'[t] = IF error[t] = None THEN why[<<t, s>>] ELSE error[t]
             /\ why'[<<t, s>>] = None
  BY <1>2, <1>3 DEF Fail, Shape, TypeOK, SharedTypes, ThreadTypes
<1>. QED
  BY <1>1, <1>3

\* The error a thread has after its step.
LEMMA WhyStep ==
  ASSUME TypeOK, ThreadShape, InStep, Accounted, NEW t \in Transfers, NEW s \in Slots,
         ThreadStep(t, s) \/ SpuriousWake(t, s)
  PROVE  \/ why'[<<t, s>>] = None
         \/ why'[<<t, s>>] = "reconnect" /\ pc'[<<t, s>>] \in {"unlock", "leave"}
         \/ /\ why'[<<t, s>>] \in {"io", "refused"}
            /\ \E c \in Holds(t, s) : c \notin Reach(t, s)'
         \/ /\ why'[<<t, s>>] = "conn" /\ pc'[<<t, s>>] = "fail"
            /\ ~open'[s] /\ flight'[<<t, s>>] # << >>
         \/ /\ why'[<<t, s>>] = why[<<t, s>>] /\ why[<<t, s>>] \in {"io", "conn", "refused"}
            /\ pc[<<t, s>>] # "fail"
<1>. DEFINE th == <<t, s>>
<1>1. th \in Threads /\ Shape(t, s) /\ Blame(t)
  BY DEF Threads, ThreadShape, Accounted
<1>2. CASE Spawn(t, s) \/ Reconnect(t, s)
  <2>1. why[th] = None
    BY <1>1, <1>2 DEF Spawn, Reconnect, Shape
  <2>. QED
    BY <1>1, <1>2, <2>1 DEF Spawn, Reconnect, Goto, TypeOK, ThreadTypes
<1>3. CASE Take(t, s)
  <2>1. why' = why
    BY <1>3, NoneUnaccounted DEF Take
  <2>2. why[th] = None
    BY <1>1, <1>3 DEF Take, Shape
  <2>. QED
    BY <2>1, <2>2
<1>4. CASE Send(t, s) \/ ReadData(t, s)
  <2>1. why' = why
    BY <1>4, SendMoved, ReadDataMoved
  <2>2. why[th] = None
    BY <1>1, <1>4 DEF Send, ReadData, Shape
  <2>. QED
    BY <2>1, <2>2
<1>5. CASE \E retryable \in BOOLEAN : ReadError(t, s, retryable)
  <2>1. why[th] = None
    BY <1>1, <1>5 DEF ReadError, Shape
  <2>. QED
    BY <1>5, <2>1, ReadErrorMoved
<1>6. CASE ReadConnError(t, s)
  <2>1. flight[th] # << >>
    BY <1>1, <1>6 DEF ReadConnError, Shape
  <2>. QED
    BY <1>1, <1>6, <2>1 DEF ReadConnError, HangUp, Goto, TypeOK, ThreadTypes, SlotTypes
<1>7. CASE Retry(t, s)
  <2>1. why[th] # "reconnect" /\ pc[th] # "fail"
    BY <1>1, <1>7 DEF Retry, Blame
  <2>2. why[th] \in {None, "io", "conn", "refused"}
    BY <1>1, <2>1 DEF Blame
  <2>. QED
    BY <1>7, <2>1, <2>2, RetryMoved
<1>8. CASE Fail(t, s) \/ Leave(t, s)
  BY <1>1, <1>8 DEF Fail, Leave, TypeOK, ThreadTypes
<1>9. CASE UnlockSlot(t, s)
  <2>1. why' = why /\ pc'[th] = "leave" /\ why[th] \in {None, "reconnect"}
    BY <1>1, <1>9 DEF UnlockSlot, Goto, TypeOK, ThreadTypes, Shape
  <2>. QED
    BY <2>1
<1>10. CASE \/ LockSlot(t, s) \/ Drive(t, s) \/ AllSent(t, s) \/ GiveBack(t, s)
            \/ ReadBreaks(t, s) \/ Complete(t, s) \/ Drain(t, s) \/ Drained(t, s)
            \/ SpuriousWake(t, s)
  <2>1. why' = why
    BY <1>10 DEF LockSlot, Drive, AllSent, GiveBack, ReadBreaks, Complete, Drain, Drained,
                 SpuriousWake
  <2>2. pc[th] \notin {"fail", "unlock", "leave"}
    BY <1>10 DEF LockSlot, Drive, AllSent, GiveBack, ReadBreaks, Complete, Drain, Drained,
                 SpuriousWake
  <2>3. why[th] \in {None, "io", "conn", "refused"}
    BY <1>1, <2>2 DEF Blame
  <2>. QED
    BY <2>1, <2>2, <2>3
<1>. QED
  BY <1>2, <1>3, <1>4, <1>5, <1>6, <1>7, <1>8, <1>9, <1>10 DEF ThreadStep, Read

\* A thread that is failing the call goes on to report it.
LEMMA FailingStep ==
  ASSUME TypeOK, ThreadShape, InStep, Accounted, NEW t \in Transfers, NEW s \in Slots,
         ThreadStep(t, s) \/ SpuriousWake(t, s), Frame(t, s), Failing(t)
  PROVE  Failing(t)' \/ Fail(t, s)
<1>. DEFINE ways == {"fail", "drain", "retry", "giveback"}
<1>1. PICK r \in Slots : why[<<t, r>>] # None /\ pc[<<t, r>>] \in ways
  BY DEF Failing
<1>2. CASE r # s
  <2>1. why'[<<t, r>>] = why[<<t, r>>] /\ pc'[<<t, r>>] = pc[<<t, r>>]
    BY <1>1, <1>2 DEF Frame
  <2>. QED
    BY <1>1, <2>1 DEF Failing
<1>3. CASE r = s /\ ~Fail(t, s)
  <2>1. <<t, s>> \in Threads /\ Shape(t, s)
    BY DEF Threads, ThreadShape
  <2>2. GiveBack(t, s) \/ Drain(t, s) \/ Drained(t, s) \/ Retry(t, s)
    BY <1>1, <1>3 DEF ThreadStep, SpuriousWake, Read, Spawn, LockSlot, Drive, Reconnect, Take,
           Send, AllSent, ReadData, ReadError, ReadBreaks, ReadConnError, Complete,
           UnlockSlot, Leave
  <2>3. CASE Retry(t, s)
    <3>1. ~open[s]
      BY <1>1, <1>3, <2>1, <2>3 DEF Retry, Shape
    <3>2. pc'[<<t, s>>] = "drain"
      BY <2>1, <2>3, <3>1 DEF Retry, Goto, NotifyGoto, TypeOK, ThreadTypes
    <3>3. why' = why \/ why' = [why EXCEPT ![<<t, s>>] = "io"]
      BY <2>3, <3>1 DEF Retry
    <3>4. why'[<<t, s>>] # None
      BY <1>1, <1>3, <2>1, <3>3 DEF TypeOK, ThreadTypes, None
    <3>. QED
      BY <3>2, <3>4 DEF Failing
  <2>4. CASE GiveBack(t, s) \/ Drain(t, s) \/ Drained(t, s)
    <3>1. why' = why /\ pc'[<<t, s>>] \in ways
      BY <1>1, <1>3, <2>1, <2>4
      DEF GiveBack, Drain, Drained, Goto, NotifyGoto, TypeOK, ThreadTypes
    <3>. QED
      BY <1>1, <1>3, <3>1 DEF Failing
  <2>. QED
    BY <2>2, <2>3, <2>4
<1>. QED
  BY <1>2, <1>3

\* Every chunk that is given up is given up for an error.
LEMMA BlameStep ==
  ASSUME TypeOK, ThreadShape, InCredit, InStep, Accounted, NEW t \in Transfers,
         NEW s \in Slots, ThreadStep(t, s) \/ SpuriousWake(t, s), Frame(t, s), Apart(t),
         NEW u \in Transfers
  PROVE  Blame(u)'
<1>1. Blame(u) /\ Moved(t, s) /\ outcome' = outcome
  BY MoveStep DEF Accounted, Frame
<1>2. CASE u # t
  <2>1. Dropped(u)' = Dropped(u) /\ error'[u] = error[u]
    BY <1>1, <1>2, DroppedStep DEF Apart
  <2>2. \A r \in Slots :
          /\ why'[<<u, r>>] = why[<<u, r>>] /\ pc'[<<u, r>>] = pc[<<u, r>>]
          /\ flight'[<<u, r>>] = flight[<<u, r>>]
    BY <1>2 DEF Frame
  <2>3. Failing(u)' <=> Failing(u)
    BY <2>2 DEF Failing
  <2>4. \A r \in Slots : pc[<<u, r>>] = "fail" => open'[r] = open[r]
    <3>. SUFFICES ASSUME NEW r \in Slots, pc[<<u, r>>] = "fail"
                  PROVE  open'[r] = open[r]
      OBVIOUS
    <3>1. CASE r # s
      BY <3>1 DEF Frame
    <3>2. CASE r = s
      <4>1. owner[s] = u
        BY <3>2 DEF ThreadShape, Shape, Locked
      <4>2. pc[<<t, s>>] \notin Locked
        BY <1>2, <4>1 DEF ThreadShape, Shape
      <4>. QED
        BY <3>2, <4>2 DEF Frame
    <3>. QED
      BY <3>1, <3>2
  <2>. QED
    BY <1>1, <2>1, <2>2, <2>3, <2>4 DEF Blame
<1>3. CASE u = t
  <2>0. /\ Dropped(t) \subseteq Dropped(t)'
        /\ Reach(t, s)' = Reach(t, s) => Dropped(t)' = Dropped(t)
        /\ (\E c \in Holds(t, s) : c \notin Reach(t, s)') => Dropped(t)' # {}
    BY <1>1, DroppedStep
  <2>1. ASSUME outcome[t] # "uncalled", error'[t] = None, ~Failing(t)'
        PROVE  Dropped(t)' = {}
    <3>1. ~Fail(t, s) /\ error[t] = None
      BY <2>1, ErrorStep
    <3>2. ~Failing(t)
      BY <2>1, <3>1, FailingStep
    <3>3. Dropped(t) = {}
      BY <1>1, <1>3, <2>1, <3>1, <3>2 DEF Blame
    <3>4. ~GivesUp(t, s)
      <4>1. ~(why'[<<t, s>>] \in {"refused", "io"} /\ pc'[<<t, s>>] \in {"fail", "drain"})
        BY <2>1 DEF Failing, None
      <4>. QED
        BY <3>1, <4>1 DEF GivesUp
    <3>. QED
      BY <2>0, <3>3, <3>4, MoveStep
  <2>2. ASSUME error'[t] # None
        PROVE  error'[t] \in {"io", "conn", "refused"} /\ Dropped(t)' # {}
    <3>1. CASE error[t] # None
      <4>1. error'[t] = error[t]
        BY <3>1, ErrorStep
      <4>. QED
        BY <1>1, <1>3, <2>0, <3>1, <4>1 DEF Blame
    <3>2. CASE error[t] = None
      <4>1. Fail(t, s) /\ pc[<<t, s>>] = "fail" /\ why[<<t, s>>] # None
            /\ error'[t] = why[<<t, s>>]
        BY <2>2, <3>2, ErrorStep
      <4>2. why[<<t, s>>] \in {"io", "conn", "refused"}
        BY <1>1, <1>3, <4>1 DEF Blame
      <4>3. \/ Dropped(t) # {}
            \/ ~open[s] /\ flight[<<t, s>>] # << >>
        BY <1>1, <1>3, <4>2 DEF Blame
      <4>. QED
        BY <2>0, <4>1, <4>2, <4>3, FailMoved
    <3>. QED
      BY <3>1, <3>2
  <2>3. ASSUME NEW r \in Slots
        PROVE  /\ why'[<<t, r>>] = "reconnect" => pc'[<<t, r>>] \in {"unlock", "leave"}
               /\ why'[<<t, r>>] \in {None, "reconnect", "io", "conn", "refused"}
               /\ why'[<<t, r>>] \in {"io", "conn", "refused"} =>
                    \/ Dropped(t)' # {}
                    \/ pc'[<<t, r>>] = "fail" /\ ~open'[r] /\ flight'[<<t, r>>] # << >>
    <3>1. CASE r # s
      <4>1. /\ why'[<<t, r>>] = why[<<t, r>>] /\ flight'[<<t, r>>] = flight[<<t, r>>]
            /\ pc[<<t, r>>] # "wait" => pc'[<<t, r>>] = pc[<<t, r>>]
            /\ open'[r] = open[r]
        BY <3>1 DEF Frame
      <4>. QED
        BY <1>1, <1>3, <2>0, <4>1 DEF Blame
    <3>2. CASE r = s
      <4>1. why[<<t, s>>] \in {"io", "conn", "refused"} /\ pc[<<t, s>>] # "fail" =>
              Dropped(t)' # {}
        BY <1>1, <1>3, <2>0 DEF Blame
      <4>. QED
        BY <2>0, <3>2, <4>1, WhyStep DEF None
    <3>. QED
      BY <3>1, <3>2
  <2>. QED
    BY <1>1, <1>3, <2>1, <2>2, <2>3 DEF Blame
<1>. QED
  BY <1>2, <1>3

---------------------------------------------------------------------------
(* Waiting and leaving.                                                    *)

\* A step that gives a waiting thread something to do wakes it.
LEMMA QuietStep ==
  ASSUME TypeOK, ThreadShape, InCredit, Accounted, NEW t \in Transfers, NEW s \in Slots,
         ThreadStep(t, s) \/ SpuriousWake(t, s)
  PROVE  \/ \A r \in Slots : r # s => pc'[<<t, r>>] # "wait"
         \/ /\ queue[t] = << >> => queue'[t] = << >>
            /\ error'[t] = error[t]
            /\ remaining[t] # 0 => remaining'[t] # 0
<1>. DEFINE Woken == \A r \in Slots : r # s => pc'[<<t, r>>] # "wait"
<1>0. \A l \in Labels : NotifyGoto(t, s, l) => Woken
  BY DEF NotifyGoto, Threads
<1>1. CASE Fail(t, s)
  BY <1>0, <1>1 DEF Fail, Labels
<1>2. CASE Complete(t, s)
  <2>1. CASE remaining[t] = 1
    BY <1>0, <1>2, <2>1 DEF Complete, Labels
  <2>2. CASE remaining[t] # 1
    BY <1>2, <2>2 DEF Complete, TypeOK, SharedTypes
  <2>. QED
    BY <2>1, <2>2
<1>3. CASE Retry(t, s)
  <2>1. remaining' = remaining /\ error' = error
    BY <1>3 DEF Retry
  <2>. QED
    BY <1>0, <1>3, <2>1 DEF Retry, Labels
<1>4. CASE GiveBack(t, s)
  <2>1. remaining' = remaining /\ error' = error
    BY <1>4 DEF GiveBack
  <2>2. CASE fresh[<<t, s>>] # << >>
    BY <1>0, <1>4, <2>2 DEF GiveBack, Labels
  <2>3. CASE fresh[<<t, s>>] = << >>
    <3>1. queue'[t] = << >> \o queue[t] /\ queue[t] \in Seq(Chunk)
      BY <1>4, <2>3 DEF GiveBack, PushFront, TypeOK, SharedTypes
    <3>. QED
      BY <2>1, <3>1
  <2>. QED
    BY <2>2, <2>3
<1>5. CASE Take(t, s)
  <2>1. remaining' = remaining /\ error' = error
    BY <1>5 DEF Take
  <2>2. ASSUME queue[t] = << >>
        PROVE  queue'[t] = << >>
    <3>1. queue' = queue \/ queue'[t] = SubSeq(queue[t], Popped(t, s) + 1, Len(queue[t]))
      BY <1>5 DEF Take, TypeOK, SharedTypes
    <3>2. Popped(t, s) \in 0 .. 0
      BY <2>2, PoppedLength
    <3>3. SubSeq(<< >>, 1, 0) = << >>
      OBVIOUS
    <3>4. Popped(t, s) + 1 = 1 /\ Len(<< >>) = 0
      BY <3>2
    <3>. QED
      BY <2>2, <3>1, <3>3, <3>4
  <2>. QED
    BY <2>1, <2>2
<1>6. CASE ~(Fail(t, s) \/ Complete(t, s) \/ Retry(t, s) \/ GiveBack(t, s) \/ Take(t, s))
  <2>1. UNCHANGED <<queue, error, remaining>>
    BY <1>6 DEF ThreadStep, SpuriousWake, Read, Spawn, LockSlot, Drive, Reconnect, Send,
           AllSent, ReadData, ReadError, ReadBreaks, ReadConnError, Drain, Drained,
           UnlockSlot, Leave, sharedVars
  <2>. QED
    BY <2>1
<1>. QED
  BY <1>1, <1>2, <1>3, <1>4, <1>5, <1>6

\* What decides a call stays: its error, its last chunk, a lost connection.
LEMMA DecidedStep ==
  ASSUME TypeOK, ThreadShape, Accounted, NEW t \in Transfers, NEW s \in Slots,
         ThreadStep(t, s) \/ SpuriousWake(t, s)
  PROVE  /\ error[t] # None => error'[t] # None
         /\ remaining[t] = 0 => remaining'[t] = 0
         /\ lastConnError[t] => lastConnError'[t]
<1>1. error[t] # None => error'[t] # None
  BY ErrorStep
<1>2. ASSUME remaining[t] = 0
      PROVE  remaining'[t] = 0
  <2>1. CASE Complete(t, s)
    <3>1. back[<<t, s>>] \in Chunks(t) \ done[t]
      BY <2>1, CompleteMoved
    <3>2. outcome[t] = "running" /\ Counted(t)
      BY AroundStep DEF Accounted
    <3>3. Cardinality(Chunks(t) \ done[t]) = 0
      BY <1>2, <3>2 DEF Counted
    <3>4. Chunks(t) \ done[t] = {}
      BY <3>3, FiniteFacts, FS_EmptySet
    <3>. QED
      BY <3>1, <3>4
  <2>2. CASE ~Complete(t, s)
    BY <1>2, <2>2, OnlyComplete
  <2>. QED
    BY <2>1, <2>2
<1>3. ASSUME lastConnError[t]
      PROVE  lastConnError'[t]
  <2>1. CASE Leave(t, s)
    BY <1>3, <2>1 DEF Leave, Recorded, TypeOK, SharedTypes
  <2>2. CASE ~Leave(t, s)
    <3>1. lastConnError' = lastConnError
      BY <2>2 DEF ThreadStep, SpuriousWake, Read, Spawn, LockSlot, Drive, Reconnect, Take,
           Send, AllSent, GiveBack, ReadData, ReadError, ReadBreaks, ReadConnError,
           Complete, Drain, Drained, Retry, Fail, UnlockSlot, sharedVars
    <3>. QED
      BY <1>3, <3>1
  <2>. QED
    BY <2>1, <2>2
<1>. QED
  BY <1>1, <1>2, <1>3

\* How a thread comes to wait, and how it comes to leave.
LEMMA RestStep ==
  ASSUME TypeOK, ThreadShape, Accounted, NEW t \in Transfers, NEW s \in Slots,
         ThreadStep(t, s) \/ SpuriousWake(t, s)
  PROVE  /\ pc'[<<t, s>>] = "wait" =>
              /\ queue' = queue /\ error' = error /\ remaining' = remaining
              /\ queue[t] = << >> /\ error[t] = None /\ remaining[t] # 0
         /\ pc'[<<t, s>>] \in {"unlock", "leave"} /\ why'[<<t, s>>] = None =>
              error[t] # None \/ remaining[t] = 0
         /\ pc'[<<t, s>>] = "gone" =>
              /\ Leave(t, s) /\ pc[<<t, s>>] = "leave"
              /\ lastConnError'[t] = IF why[<<t, s>>] # None THEN TRUE ELSE lastConnError[t]
<1>. DEFINE th == <<t, s>>
<1>0. /\ th \in Threads /\ Shape(t, s) /\ Excused(t)
      /\ pc \in [Threads -> Labels] /\ why \in [Threads -> Reasons]
      /\ lastConnError \in [Transfers -> BOOLEAN]
  BY DEF Threads, ThreadShape, Accounted, TypeOK, ThreadTypes, SharedTypes
<1>a. \A l \in Labels : Goto(t, s, l) \/ NotifyGoto(t, s, l) => pc'[th] = l
  BY <1>0 DEF Goto, NotifyGoto
<1>1. CASE Take(t, s)
  <2>1. pc[th] = "take" /\ error' = error /\ remaining' = remaining
    BY <1>1 DEF Take
  <2>2. \/ pc'[th] = "send"
        \/ pc'[th] = "unlock" /\ (error[t] # None \/ remaining[t] = 0)
        \/ pc'[th] = "fail"
        \/ /\ pc'[th] = "wait" /\ flight[th] = << >> /\ Popped(t, s) = 0
           /\ error[t] = None /\ remaining[t] # 0 /\ queue' = queue
    BY <1>1, <1>a DEF Take, Labels
  <2>3. pc'[th] = "wait" => queue[t] = << >>
    BY <2>1, <2>2, NothingLeft
  <2>. QED
    BY <2>1, <2>2, <2>3
<1>2. CASE Spawn(t, s) \/ Reconnect(t, s)
  <2>1. \/ pc'[th] \in {"lock", "take"}
        \/ pc'[th] \in {"unlock", "leave"} /\ why' = [why EXCEPT ![th] = "reconnect"]
    BY <1>2, <1>a DEF Spawn, Reconnect, Labels
  <2>2. pc'[th] \in {"lock", "take"} \/ (pc'[th] \in {"unlock", "leave"} /\ why'[th] = "reconnect")
    BY <1>0, <2>1
  <2>. QED
    BY <2>2 DEF None
<1>3. CASE Drive(t, s)
  <2>1. pc'[th] \in {"take", "reconnect"} \/ (pc'[th] = "unlock" /\ error[t] # None)
    BY <1>3, <1>a DEF Drive, Labels
  <2>. QED
    BY <2>1
<1>4. CASE UnlockSlot(t, s)
  <2>1. pc'[th] = "leave" /\ pc[th] = "unlock" /\ why' = why
    BY <1>4, <1>a DEF UnlockSlot, Labels
  <2>. QED
    BY <1>0, <2>1 DEF Excused
<1>5. CASE Leave(t, s)
  <2>1. pc'[th] = "gone" /\ pc[th] = "leave"
    BY <1>5, <1>a DEF Leave, Labels
  <2>2. lastConnError'[t] = Recorded(t, s)
    BY <1>0, <1>5 DEF Leave
  <2>. QED
    BY <1>5, <2>1, <2>2 DEF Recorded
<1>6. CASE ~(Take(t, s) \/ Spawn(t, s) \/ Reconnect(t, s) \/ Drive(t, s) \/ UnlockSlot(t, s)
             \/ Leave(t, s))
  <2>1. CASE LockSlot(t, s) \/ SpuriousWake(t, s) \/ AllSent(t, s) \/ Drain(t, s) \/ Drained(t, s)
    <3>1. pc'[th] \in {"drive", "take", "read", "retry", "fail"}
      BY <2>1, <1>a DEF LockSlot, SpuriousWake, AllSent, Drain, Drained, Labels
    <3>. QED
      BY <3>1
  <2>2. CASE Complete(t, s) \/ Retry(t, s) \/ Fail(t, s) \/ GiveBack(t, s)
    <3>1. pc'[th] \in {"drive", "take", "drain", "fail"}
      BY <2>2, <1>a DEF Complete, Retry, Fail, GiveBack, Labels
    <3>. QED
      BY <3>1
  <2>3. CASE Send(t, s)
    <3>1. pc'[th] \in {"send", "giveback"}
      BY <2>3, <1>a DEF Send, Labels
    <3>. QED
      BY <3>1
  <2>4. CASE Read(t, s)
    <3>1. pc'[th] \in {"read", "take", "fail", "drain", "retry", "complete"}
      BY <2>4, <1>a DEF Read, ReadData, ReadError, ReadBreaks, ReadConnError, Mismatch, Labels
    <3>. QED
      BY <3>1
  <2>. QED
    BY <1>6, <2>1, <2>2, <2>3, <2>4 DEF ThreadStep
<1>. QED
  BY <1>1, <1>2, <1>3, <1>4, <1>5, <1>6

\* A thread still waits only for others, and has left only for a reason.
LEMMA ExcusedStep ==
  ASSUME TypeOK, ThreadShape, InCredit, InStep, Accounted, NEW t \in Transfers,
         NEW s \in Slots, ThreadStep(t, s) \/ SpuriousWake(t, s), Frame(t, s), Apart(t),
         NEW u \in Transfers
  PROVE  Excused(u)'
<1>1. Excused(u) /\ outcome' = outcome
  BY DEF Accounted, Frame
<1>2. CASE u # t
  <2>1. /\ queue'[u] = queue[u] /\ error'[u] = error[u] /\ remaining'[u] = remaining[u]
        /\ lastConnError'[u] = lastConnError[u]
    BY <1>2 DEF Apart
  <2>2. \A r \in Slots : pc'[<<u, r>>] = pc[<<u, r>>] /\ why'[<<u, r>>] = why[<<u, r>>]
    BY <1>2 DEF Frame
  <2>. QED
    BY <1>1, <2>1, <2>2 DEF Excused, Used
<1>3. CASE u = t
  <2>. DEFINE Decided == error[t] # None \/ remaining[t] = 0
  <2>1. /\ Decided => Decided'
        /\ lastConnError[t] => lastConnError'[t]
    BY DecidedStep
  <2>2. ASSUME NEW r \in Slots, r # s
        PROVE  /\ pc'[<<t, r>>] = "wait" =>
                    queue'[t] = << >> /\ error'[t] = None /\ remaining'[t] # 0
               /\ pc'[<<t, r>>] \in {"unlock", "leave"} /\ why'[<<t, r>>] = None => Decided'
               /\ outcome'[t] = "running" /\ pc'[<<t, r>>] = "gone" /\ r \in Used(t) =>
                    Decided' \/ lastConnError'[t]
    <3>1. /\ why'[<<t, r>>] = why[<<t, r>>]
          /\ \/ pc'[<<t, r>>] = pc[<<t, r>>]
             \/ pc[<<t, r>>] = "wait" /\ pc'[<<t, r>>] = "take"
      BY <2>2 DEF Frame
    <3>2. ASSUME pc'[<<t, r>>] = "wait"
          PROVE  queue'[t] = << >> /\ error'[t] = None /\ remaining'[t] # 0
      <4>1. queue[t] = << >> /\ error[t] = None /\ remaining[t] # 0
        BY <1>1, <1>3, <3>1, <3>2 DEF Excused
      <4>. QED
        BY <2>2, <3>2, <4>1, QuietStep
    <3>3. pc[<<t, r>>] \in {"unlock", "leave"} /\ why[<<t, r>>] = None => Decided
      BY <1>1, <1>3 DEF Excused
    <3>4. outcome[t] = "running" /\ pc[<<t, r>>] = "gone" /\ r \in Used(t) =>
            Decided \/ lastConnError[t]
      BY <1>1, <1>3 DEF Excused
    <3>. HIDE DEF Decided
    <3>. QED
      BY <1>1, <2>1, <3>1, <3>2, <3>3, <3>4
  <2>3. /\ pc'[<<t, s>>] = "wait" =>
             queue'[t] = << >> /\ error'[t] = None /\ remaining'[t] # 0
        /\ pc'[<<t, s>>] \in {"unlock", "leave"} /\ why'[<<t, s>>] = None => Decided'
        /\ outcome'[t] = "running" /\ pc'[<<t, s>>] = "gone" /\ s \in Used(t) =>
             Decided' \/ lastConnError'[t]
    <3>1. pc'[<<t, s>>] = "gone" => Decided' \/ lastConnError'[t]
      <4>. SUFFICES ASSUME pc'[<<t, s>>] = "gone"
                    PROVE  Decided' \/ lastConnError'[t]
        OBVIOUS
      <4>1. /\ pc[<<t, s>>] = "leave"
            /\ lastConnError'[t] = IF why[<<t, s>>] # None THEN TRUE ELSE lastConnError[t]
        BY RestStep
      <4>2. why[<<t, s>>] = None => Decided
        BY <1>1, <1>3, <4>1 DEF Excused
      <4>. HIDE DEF Decided
      <4>. QED
        BY <2>1, <4>1, <4>2
    <3>2. pc'[<<t, s>>] \in {"unlock", "leave"} /\ why'[<<t, s>>] = None => Decided
      BY RestStep
    <3>3. pc'[<<t, s>>] = "wait" =>
            queue'[t] = << >> /\ error'[t] = None /\ remaining'[t] # 0
      BY RestStep
    <3>. HIDE DEF Decided
    <3>. QED
      BY <2>1, <3>1, <3>2, <3>3
  <2>. QED
    BY <1>3, <2>2, <2>3 DEF Excused, Used
<1>. QED
  BY <1>2, <1>3

---------------------------------------------------------------------------
(* Calls and returns.                                                      *)

\* The queue a call starts with holds each of its chunks once.
LEMMA FirstChunks ==
  ASSUME NEW t \in Transfers
  PROVE  Range(InOrder(t)) = Chunks(t) /\ IsInjective(InOrder(t))
BY DEF InOrder, Range, IsInjective

\* No thread of a call that has not been made holds anything.
LEMMA NothingHeld ==
  ASSUME TypeOK, ThreadShape, NEW t \in Transfers, outcome[t] # "running", NEW s \in Slots
  PROVE  /\ fresh[<<t, s>>] = << >> /\ flight[<<t, s>>] = << >> /\ back[<<t, s>>] = 0
         /\ why[<<t, s>>] = None /\ Holds(t, s) = {}
<1>1. Shape(t, s)
  BY DEF ThreadShape
<1>2. /\ fresh[<<t, s>>] = << >> /\ flight[<<t, s>>] = << >> /\ back[<<t, s>>] = 0
      /\ why[<<t, s>>] = None
  BY <1>1 DEF Shape
<1>. QED
  BY <1>2, ShortSeqs DEF Holds

\* A call that is made starts with every chunk queued.
LEMMA FetchStep ==
  ASSUME TypeOK, ThreadShape, Accounted, NEW t \in Transfers, Fetch(t)
  PROVE  /\ OnePlace(t)' /\ OwnChunks(t)' /\ ClaimsExact(t)' /\ Counted(t)'
         /\ Blame(t)' /\ Excused(t)' /\ Called(t)'
<1>1. /\ OnePlace(t) /\ OwnChunks(t) /\ ClaimsExact(t) /\ Counted(t) /\ Blame(t)
      /\ Excused(t) /\ Called(t)
  BY DEF Accounted
<1>2. /\ outcome[t] = "uncalled" /\ NumChunks[t] \in Nat /\ NumSlots \in Nat \ {0}
      /\ queue[t] = << >> /\ done[t] = {} /\ error[t] = None
  BY <1>1, PoolAssumption DEF Fetch, Counted
<1>3. \A s \in Slots : /\ fresh[<<t, s>>] = << >> /\ flight[<<t, s>>] = << >>
                       /\ back[<<t, s>>] = 0 /\ why[<<t, s>>] = None /\ Holds(t, s) = {}
                       /\ pc[<<t, s>>] = "uncalled"
  BY <1>2, NothingHeld DEF ThreadShape, Shape
<1>4. UNCHANGED <<fresh, flight, back, why, claims, done, error, lastConnError>>
  BY DEF Fetch, threadVars, sharedVars, chunkVars, historyVars
<1>5. \A s \in Slots : Holds(t, s)' = {}
  BY <1>3, <1>4 DEF Holds
<1>6. ClaimsExact(t)'
  BY <1>1, <1>4 DEF ClaimsExact
<1>7. CASE Used(t) = {}
  <2>1. NumChunks[t] = 0 /\ Chunks(t) = {}
    <3>1. 1 \in Slots
      BY <1>2 DEF Slots
    <3>2. ~(1 <= NumChunks[t])
      BY <1>7, <3>1 DEF Used
    <3>. QED
      BY <1>2, <3>2 DEF Chunks
  <2>2. /\ UNCHANGED <<pc, queue, remaining, live>>
        /\ outcome'[t] = "ok"
    BY <1>7 DEF Fetch, threadVars, sharedVars, TypeOK, CallTypes
  <2>3. Chunks(t) \ done'[t] = {} /\ Cardinality(Chunks(t) \ done'[t]) = 0
    BY <2>1, FS_EmptySet
  <2>4. OnePlace(t)' /\ OwnChunks(t)'
    <3>1. \A s \in Slots : Placed(t, s)'
      BY <1>2, <1>3, <1>4, <1>5, ShortSeqs DEF Placed
    <3>. QED
      BY <1>2, <1>4, <1>5, <2>2, <3>1, ShortSeqs DEF OnePlace, OwnChunks
  <2>5. Counted(t)'
    <3>1. Around(t)' = Around(t)
      BY <2>2 DEF Around
    <3>2. remaining[t] = 0 /\ live[t] = Cardinality(Around(t))
      BY <1>1, <1>2 DEF Counted
    <3>. QED
      BY <2>2, <2>3, <3>1, <3>2 DEF Counted, Chunks
  <2>6. Blame(t)'
    <3>1. Dropped(t)' = {}
      BY <2>1 DEF Dropped, Chunks
    <3>. QED
      BY <1>2, <1>3, <1>4, <3>1 DEF Blame, None
  <2>7. Excused(t)' /\ Called(t)'
    BY <1>3, <2>2 DEF Excused, Called
  <2>. QED
    BY <1>6, <2>4, <2>5, <2>6, <2>7
<1>8. CASE Used(t) # {}
  <2>1. NumChunks[t] > 0
    BY <1>2, <1>8 DEF Used, Slots
  <2>2. /\ outcome'[t] = "running" /\ queue'[t] = InOrder(t) /\ remaining'[t] = NumChunks[t]
        /\ live'[t] = Cardinality(Used(t))
    BY <1>8 DEF Fetch, TypeOK, CallTypes, SharedTypes
  <2>3. \A s \in Slots : pc'[<<t, s>>] = IF s \in Used(t) THEN "spawn" ELSE "gone"
    BY <1>8 DEF Fetch, Threads
  <2>4. Range(queue'[t]) = Chunks(t) /\ IsInjective(queue'[t])
    BY <2>2, FirstChunks
  <2>5. OnePlace(t)' /\ OwnChunks(t)'
    <3>1. \A s \in Slots : Placed(t, s)'
      BY <1>3, <1>4, <1>5, ShortSeqs DEF Placed
    <3>. QED
      BY <1>2, <1>4, <1>5, <2>4, <3>1 DEF OnePlace, OwnChunks, Chunks
  <2>6. Counted(t)'
    <3>1. Around(t)' = Used(t)
      BY <2>3 DEF Around, Used
    <3>2. Chunks(t) \ done'[t] = 1 .. NumChunks[t]
      BY <1>2, <1>4 DEF Chunks
    <3>3. Cardinality(1 .. NumChunks[t]) = NumChunks[t]
      BY SMTT(30), <1>2, FS_Interval
    <3>. QED
      BY <2>2, <3>1, <3>2, <3>3 DEF Counted, Chunks
  <2>7. Blame(t)'
    <3>1. Dropped(t)' = {}
      BY <2>4 DEF Dropped, Chunks
    <3>. QED
      BY <1>2, <1>3, <1>4, <3>1 DEF Blame, None
  <2>8. Excused(t)' /\ Called(t)'
    BY <2>1, <2>2, <2>3 DEF Excused, Called, Used
  <2>. QED
    BY <1>6, <2>5, <2>6, <2>7, <2>8
<1>. QED
  BY <1>7, <1>8

\* A call of another thread of the program touches nothing of this one.
LEMMA OtherCalls ==
  ASSUME TypeOK, Accounted, NEW t \in Transfers, Fetch(t) \/ Return(t),
         NEW u \in Transfers, u # t
  PROVE  /\ OnePlace(u)' /\ OwnChunks(u)' /\ ClaimsExact(u)' /\ Counted(u)'
         /\ Blame(u)' /\ Excused(u)' /\ Called(u)'
<1>1. /\ OnePlace(u) /\ OwnChunks(u) /\ ClaimsExact(u) /\ Counted(u) /\ Blame(u)
      /\ Excused(u) /\ Called(u)
  BY DEF Accounted
<1>2. UNCHANGED <<fresh, flight, back, why, claims, done, error, lastConnError, open>>
  BY DEF Fetch, Return, threadVars, sharedVars, chunkVars, historyVars, slotVars
<1>3. /\ queue'[u] = queue[u] /\ remaining'[u] = remaining[u] /\ live'[u] = live[u]
      /\ outcome'[u] = outcome[u]
  BY DEF Fetch, Return, threadVars, sharedVars, TypeOK, SharedTypes, CallTypes
<1>4. \A s \in Slots : pc'[<<u, s>>] = pc[<<u, s>>]
  BY DEF Fetch, Return, threadVars, Threads
<1>5. \A s \in Slots : Holds(u, s)' = Holds(u, s) /\ (Placed(u, s)' <=> Placed(u, s))
  BY <1>2, <1>3 DEF Holds, Placed
<1>6. OnePlace(u)' /\ OwnChunks(u)' /\ ClaimsExact(u)'
  BY <1>1, <1>2, <1>3, <1>5 DEF OnePlace, OwnChunks, ClaimsExact, Chunks
<1>7. Around(u)' = Around(u) /\ Dropped(u)' = Dropped(u) /\ (Failing(u)' <=> Failing(u))
  BY <1>2, <1>3, <1>4, <1>5 DEF Around, Dropped, Failing, Chunks
<1>8. Counted(u)' /\ Called(u)'
  BY <1>1, <1>2, <1>3, <1>7 DEF Counted, Called, Chunks
<1>9. Blame(u)'
  BY <1>1, <1>2, <1>3, <1>4, <1>7 DEF Blame
<1>10. Excused(u)'
  BY <1>1, <1>2, <1>3, <1>4 DEF Excused, Used
<1>. QED
  BY <1>6, <1>8, <1>9, <1>10

\* A call that returns has a reason for what it returns.
LEMMA ReturnStep ==
  ASSUME TypeOK, ThreadShape, Accounted, NEW t \in Transfers, Return(t)
  PROVE  /\ OnePlace(t)' /\ OwnChunks(t)' /\ ClaimsExact(t)' /\ Counted(t)'
         /\ Blame(t)' /\ Excused(t)' /\ Called(t)'
         /\ error[t] # None \/ remaining[t] = 0 \/ lastConnError[t]
<1>1. /\ OnePlace(t) /\ OwnChunks(t) /\ ClaimsExact(t) /\ Counted(t) /\ Blame(t)
      /\ Excused(t) /\ Called(t)
  BY DEF Accounted
<1>2. /\ UNCHANGED <<fresh, flight, back, why, claims, done, error, lastConnError, open>>
      /\ UNCHANGED <<pc, queue, remaining, live>>
      /\ outcome[t] = "running" /\ \A s \in Slots : pc[<<t, s>>] = "gone"
  BY DEF Return, threadVars, sharedVars, chunkVars, historyVars, slotVars
<1>3. error[t] # None \/ remaining[t] = 0 \/ lastConnError[t]
  <2>1. 1 \in Slots /\ 1 \in Used(t)
    BY <1>1, <1>2, PoolAssumption DEF Slots, Used, Called
  <2>. QED
    BY <1>1, <1>2, <2>1 DEF Excused
<1>4. outcome'[t] \in {"ok", "reconnect", "io", "conn", "refused"}
  <2>1. outcome'[t] = IF error[t] # None THEN error[t] ELSE IF remaining[t] = 0 THEN "ok"
                      ELSE IF lastConnError[t] THEN "reconnect" ELSE "lost"
    BY DEF Return, TypeOK, CallTypes
  <2>2. error[t] # None => error[t] \in {"io", "conn", "refused"}
    BY <1>1 DEF Blame
  <2>. QED
    BY <1>3, <2>1, <2>2
<1>5. OnePlace(t)' /\ OwnChunks(t)' /\ ClaimsExact(t)'
  <2>1. \A s \in Slots : Holds(t, s)' = Holds(t, s) /\ (Placed(t, s)' <=> Placed(t, s))
    BY <1>2 DEF Holds, Placed
  <2>. QED
    BY <1>1, <1>2, <2>1 DEF OnePlace, OwnChunks, ClaimsExact, Chunks
<1>6. Around(t)' = Around(t) /\ Dropped(t)' = Dropped(t) /\ (Failing(t)' <=> Failing(t))
  BY <1>2 DEF Around, Dropped, Failing, Chunks, Holds
<1>7. Counted(t)' /\ Called(t)'
  BY <1>1, <1>2, <1>4, <1>6 DEF Counted, Called, Chunks
<1>8. Blame(t)'
  BY <1>1, <1>2, <1>4, <1>6 DEF Blame
<1>9. Excused(t)'
  BY <1>1, <1>2, <1>4 DEF Excused
<1>. QED
  BY <1>3, <1>5, <1>7, <1>8, <1>9

---------------------------------------------------------------------------
(* The invariant.                                                          *)

LEMMA AccountedInit == Init => Accounted
<1>. SUFFICES ASSUME Init, NEW t \in Transfers
              PROVE  /\ OnePlace(t) /\ OwnChunks(t) /\ ClaimsExact(t) /\ Counted(t)
                     /\ Blame(t) /\ Excused(t) /\ Called(t)
  BY DEF Accounted
<1>1. \A s \in Slots :
        /\ pc[<<t, s>>] = "uncalled" /\ fresh[<<t, s>>] = << >> /\ flight[<<t, s>>] = << >>
        /\ back[<<t, s>>] = 0 /\ why[<<t, s>>] = None
  BY DEF Init, Threads
<1>2. /\ queue[t] = << >> /\ remaining[t] = 0 /\ live[t] = 0 /\ error[t] = None
      /\ claims[t] = {} /\ done[t] = {} /\ outcome[t] = "uncalled"
  BY DEF Init
<1>3. \A s \in Slots : Holds(t, s) = {}
  BY <1>1, ShortSeqs DEF Holds
<1>4. \A s \in Slots : Placed(t, s)
  BY <1>1, <1>2, <1>3, ShortSeqs DEF Placed
<1>5. OnePlace(t) /\ OwnChunks(t)
  BY <1>2, <1>3, <1>4, ShortSeqs DEF OnePlace, OwnChunks
<1>6. ClaimsExact(t)
  <2>1. \A s \in Slots : Range(flight[<<t, s>>]) = {}
    BY <1>1, ShortSeqs
  <2>. QED
    BY <1>2, <2>1 DEF ClaimsExact
<1>7. Counted(t)
  <2>1. Around(t) = {}
    BY <1>1 DEF Around
  <2>. QED
    BY <1>2, <2>1, FS_EmptySet DEF Counted
<1>8. Blame(t) /\ Excused(t) /\ Called(t)
  BY <1>1, <1>2 DEF Blame, Excused, Called, None
<1>. QED
  BY <1>5, <1>6, <1>7, <1>8

\* Every step of the pool keeps the accounts.
LEMMA AccountedStep == IInv /\ Accounted /\ [Next]_vars => Accounted'
<1>. SUFFICES ASSUME TypeOK, ThreadShape, InCredit, InStep, Accounted, [Next]_vars
              PROVE  Accounted'
  BY DEF IInv
<1>1. CASE UNCHANGED vars
  <2>1. /\ UNCHANGED <<pc, fresh, flight, back, why, open, queue, remaining, live, error>>
        /\ UNCHANGED <<lastConnError, claims, outcome, done>>
    BY <1>1 DEF vars, slotVars, threadVars, sharedVars, chunkVars, historyVars
  <2>. SUFFICES ASSUME NEW t \in Transfers
                PROVE  /\ OnePlace(t)' /\ OwnChunks(t)' /\ ClaimsExact(t)' /\ Counted(t)'
                       /\ Blame(t)' /\ Excused(t)' /\ Called(t)'
    BY DEF Accounted
  <2>2. /\ OnePlace(t) /\ OwnChunks(t) /\ ClaimsExact(t) /\ Counted(t) /\ Blame(t)
        /\ Excused(t) /\ Called(t)
    BY DEF Accounted
  <2>3. /\ \A s \in Slots : Holds(t, s)' = Holds(t, s) /\ (Placed(t, s)' <=> Placed(t, s))
        /\ Around(t)' = Around(t) /\ Dropped(t)' = Dropped(t) /\ (Failing(t)' <=> Failing(t))
    BY <2>1 DEF Holds, Placed, Around, Dropped, Failing, Chunks
  <2>4. OnePlace(t)' /\ OwnChunks(t)' /\ ClaimsExact(t)' /\ Counted(t)'
    BY <2>1, <2>2, <2>3 DEF OnePlace, OwnChunks, ClaimsExact, Counted, Chunks
  <2>5. Blame(t)' /\ Excused(t)' /\ Called(t)'
    BY <2>1, <2>2, <2>3 DEF Blame, Excused, Called, Used
  <2>. QED
    BY <2>4, <2>5
<1>2. CASE \E t \in Transfers : Fetch(t) \/ Return(t)
  <2>1. PICK t \in Transfers : Fetch(t) \/ Return(t)
    BY <1>2
  <2>2. /\ OnePlace(t)' /\ OwnChunks(t)' /\ ClaimsExact(t)' /\ Counted(t)'
        /\ Blame(t)' /\ Excused(t)' /\ Called(t)'
    BY <2>1, FetchStep, ReturnStep
  <2>3. \A u \in Transfers : u # t =>
          /\ OnePlace(u)' /\ OwnChunks(u)' /\ ClaimsExact(u)' /\ Counted(u)'
          /\ Blame(u)' /\ Excused(u)' /\ Called(u)'
    BY <2>1, OtherCalls
  <2>. QED
    BY <2>2, <2>3 DEF Accounted
<1>3. CASE \E t \in Transfers : \E s \in Slots : ThreadStep(t, s) \/ SpuriousWake(t, s)
  <2>1. PICK t \in Transfers, s \in Slots : ThreadStep(t, s) \/ SpuriousWake(t, s)
    BY <1>3
  <2>2. Frame(t, s) /\ Apart(t) /\ Moved(t, s)
    BY <2>1, FrameStep, ApartStep, MoveStep
  <2>. SUFFICES ASSUME NEW u \in Transfers
                PROVE  /\ OnePlace(u)' /\ OwnChunks(u)' /\ ClaimsExact(u)' /\ Counted(u)'
                       /\ Blame(u)' /\ Excused(u)' /\ Called(u)'
    BY DEF Accounted
  <2>3. OnePlace(u)' /\ OwnChunks(u)'
    BY <2>2, PlacesKept
  <2>4. ClaimsExact(u)'
    BY <2>2, ClaimsKept
  <2>5. Counted(u)'
    BY <2>1, <2>2, CountedStep
  <2>6. Blame(u)'
    BY <2>1, <2>2, BlameStep
  <2>7. Excused(u)'
    BY <2>1, <2>2, ExcusedStep
  <2>8. Called(u)'
    BY <2>2 DEF Accounted, Called, Frame
  <2>. QED
    BY <2>3, <2>4, <2>5, <2>6, <2>7, <2>8
<1>. QED
  BY <1>1, <1>2, <1>3 DEF Next

LEMMA AccountedHolds == Spec => [](IInv /\ Accounted)
<1>1. Init => IInv
  BY TypeInit, ShapeInit, CreditInit, InStepInit DEF IInv
<1>. QED
  BY <1>1, AccountedInit, AccountedStep, InvStep, PTL DEF Spec

---------------------------------------------------------------------------
(* The theorems.                                                           *)

\* Every chunk of a call is queued, with one thread, or complete, and in one
\* of these only; remaining counts those that are not complete; and a chunk is
\* missing only from a call that step, drive or retry has failed or is failing.
THEOREM ChunksAccountedFor == Spec => []ChunkAccounting
<1>1. IInv /\ Accounted => ChunkAccounting
  <2>. SUFFICES ASSUME Accounted, NEW t \in Transfers, outcome[t] = "running"
                PROVE  /\ OnePlace(t)
                       /\ remaining[t] = Cardinality(Chunks(t) \ done[t])
                       /\ error[t] = None /\ ~Failing(t) => Dropped(t) = {}
    BY DEF ChunkAccounting
  <2>1. OnePlace(t) /\ Counted(t) /\ Blame(t)
    BY DEF Accounted
  <2>. QED
    BY <2>1 DEF Counted, Blame
<1>. QED
  BY <1>1, AccountedHolds, PTL

\* The checks of the client's own bookkeeping never fire: ScatterBuffer::claim
\* never finds a range claimed twice, step never reads a frame for another
\* fetch, and the last thread never finds chunks unaccounted for.
THEOREM NoChecksFire == Spec => []NoInternalError
<1>1. IInv /\ Accounted => NoInternalError
  <2>. SUFFICES ASSUME Accounted, NEW t \in Transfers
                PROVE  error[t] \notin Internal
    BY DEF NoInternalError
  <2>1. error[t] # None => error[t] \in {"io", "conn", "refused"}
    BY DEF Accounted, Blame
  <2>. QED
    BY <2>1 DEF Internal, None
<1>. QED
  BY <1>1, AccountedHolds, PTL

\* A thread that waits on the condition variable of State has no chunk to
\* take and no error to see, and another thread of the call is still at work.
THEOREM NoWakeUpIsLost == Spec => []WaitsForSomething
<1>1. IInv /\ Accounted => WaitsForSomething
  <2>. SUFFICES ASSUME TypeOK, ThreadShape, Accounted, NEW t \in Transfers, NEW s \in Slots,
                       pc[<<t, s>>] = "wait"
                PROVE  /\ queue[t] = << >> /\ error[t] = None /\ remaining[t] > 0
                       /\ \E r \in Slots \ {s} : pc[<<t, r>>] \notin {"wait", "gone"}
    BY DEF WaitsForSomething, IInv
  <2>1. Shape(t, s) /\ Excused(t) /\ Counted(t)
    BY DEF ThreadShape, Accounted
  <2>2. queue[t] = << >> /\ error[t] = None /\ remaining[t] # 0
    BY <2>1 DEF Excused
  <2>3. outcome[t] = "running"
    BY <2>1 DEF Shape
  <2>4. remaining[t] \in Nat
    BY <2>1, <2>3, FiniteFacts DEF Counted
  <2>5. Holds(t, s) = {}
    <3>1. fresh[<<t, s>>] = << >> /\ flight[<<t, s>>] = << >> /\ back[<<t, s>>] = 0
      BY <2>1 DEF Shape
    <3>. QED
      BY <3>1, ShortSeqs DEF Holds
  <2>6. \E r \in Slots : r # s /\ pc[<<t, r>>] \notin {"uncalled", "wait", "gone"}
    BY <2>2, <2>3, <2>5, SomebodyElse
  <2>7. remaining[t] > 0
    BY <2>2, <2>4
  <2>. QED
    BY <2>2, <2>6, <2>7
<1>. QED
  BY <1>1, AccountedHolds, PTL

\* fetch never falls back to "every data connection was lost": a call that
\* runs out of threads with chunks left has the error of one that could not
\* rebuild its connection.
THEOREM FailuresAreExplained == Spec => []FailureHasAReason
<1>1. IInv /\ Accounted => FailureHasAReason
  BY DEF Accounted, Called, FailureHasAReason
<1>. QED
  BY <1>1, AccountedHolds, PTL

---------------------------------------------------------------------------
(* The pool implements Delivery.                                           *)

\* What a call of the pool amounts to in Delivery.
ResultOf(o) == IF o \in {"uncalled", "running", "ok"} THEN o ELSE "failed"

\* A call that returns succeeds exactly when it has delivered everything.
LEMMA ReturnsTruth ==
  ASSUME TypeOK, ThreadShape, Accounted, NEW t \in Transfers, Return(t)
  PROVE  /\ outcome[t] = "running"
         /\ outcome'[t] \notin {"uncalled", "running"}
         /\ outcome'[t] = "ok" <=> done[t] = Chunks(t)
<1>1. Blame(t) /\ Counted(t) /\ OwnChunks(t) /\ outcome[t] = "running"
  BY DEF Accounted, Return
<1>2. outcome'[t] = IF error[t] # None THEN error[t] ELSE IF remaining[t] = 0 THEN "ok"
                    ELSE IF lastConnError[t] THEN "reconnect" ELSE "lost"
  BY DEF Return, TypeOK, CallTypes
<1>3. error[t] # None => error[t] \in {"io", "conn", "refused"} /\ done[t] # Chunks(t)
  BY <1>1 DEF Blame, Dropped
<1>4. remaining[t] = 0 <=> done[t] = Chunks(t)
  <2>1. remaining[t] = Cardinality(Chunks(t) \ done[t]) /\ done[t] \subseteq Chunks(t)
    BY <1>1 DEF Counted, OwnChunks
  <2>2. Cardinality(Chunks(t) \ done[t]) = 0 <=> Chunks(t) \ done[t] = {}
    BY FiniteFacts, FS_EmptySet
  <2>. QED
    BY <2>1, <2>2
<1>. QED
  BY <1>1, <1>2, <1>3, <1>4

\* Every step of the pool is a step of Delivery, or none.
LEMMA PromiseStep ==
  IInv /\ Accounted /\ [Next]_vars => [Promise!Next]_(Promise!vars)
<1>. SUFFICES ASSUME TypeOK, ThreadShape, InCredit, InStep, Accounted, [Next]_vars
              PROVE  [Promise!Next]_(Promise!vars)
  BY DEF IInv
<1>. DEFINE result == [t \in Transfers |-> ResultOf(outcome[t])]
<1>a. /\ outcome \in [Transfers -> {"uncalled", "running", "ok", "lost"} \cup Errors]
      /\ done \in [Transfers -> SUBSET Chunk]
  BY DEF TypeOK, CallTypes
<1>1. CASE UNCHANGED vars
  BY <1>1 DEF vars, historyVars, Promise!vars
<1>2. ASSUME NEW t \in Transfers, Fetch(t)
      PROVE  Promise!Call(t)
  <2>1. Used(t) = {} <=> Chunks(t) = {}
    BY PoolAssumption DEF Used, Chunks, Slots
  <2>2. /\ outcome[t] = "uncalled" /\ done' = done
        /\ outcome' = [outcome EXCEPT ![t] = IF Chunks(t) = {} THEN "ok" ELSE "running"]
    BY <1>2, <2>1 DEF Fetch, historyVars
  <2>3. result[t] = "uncalled"
    BY <2>2 DEF ResultOf
  <2>4. result' = [result EXCEPT ![t] = IF Chunks(t) = {} THEN "ok" ELSE "running"]
    BY <1>a, <2>2 DEF ResultOf
  <2>. QED
    BY <2>2, <2>3, <2>4 DEF Promise!Call, Promise!Chunks, Chunks, ResultOf
<1>3. ASSUME NEW t \in Transfers, Return(t)
      PROVE  Promise!Return(t)
  <2>1. /\ outcome[t] = "running" /\ outcome'[t] \notin {"uncalled", "running"}
        /\ outcome'[t] = "ok" <=> done[t] = Chunks(t)
    BY <1>3, ReturnsTruth
  <2>2. done' = done /\ \E v : outcome' = [outcome EXCEPT ![t] = v]
    BY <1>3 DEF Return, historyVars
  <2>3. result[t] = "running"
    BY <2>1 DEF ResultOf
  <2>4. result' = [result EXCEPT ![t] = IF done[t] = Chunks(t) THEN "ok" ELSE "failed"]
    BY <1>a, <2>1, <2>2 DEF ResultOf
  <2>. QED
    BY <2>2, <2>3, <2>4 DEF Promise!Return, Promise!Chunks, Chunks, ResultOf
<1>4. ASSUME NEW t \in Transfers, NEW s \in Slots, ThreadStep(t, s) \/ SpuriousWake(t, s)
      PROVE  Promise!Deliver(t) \/ UNCHANGED Promise!vars
  <2>1. outcome' = outcome /\ outcome[t] = "running"
    BY <1>4, FrameStep, AroundStep DEF Frame
  <2>2. CASE ~Complete(t, s)
    <3>1. done' = done
      BY <1>4, <2>2, OnlyComplete
    <3>. QED
      BY <2>1, <3>1 DEF Promise!vars
  <2>3. CASE Complete(t, s)
    <3>1. /\ back[<<t, s>>] \in Chunks(t) \ done[t]
          /\ done' = [done EXCEPT ![t] = @ \cup {back[<<t, s>>]}]
      BY <2>3, CompleteMoved DEF Complete
    <3>2. result[t] = "running" /\ result' = result
      BY <2>1 DEF ResultOf
    <3>. QED
      BY <3>1, <3>2 DEF Promise!Deliver, Promise!Chunks, Chunks, ResultOf
  <2>. QED
    BY <2>2, <2>3
<1>. QED
  BY <1>1, <1>2, <1>3, <1>4 DEF Next, Promise!Next

\* DataPool::fetch delivers no chunk twice, succeeds only with all of a call's
\* chunks delivered and fails only with one missing, whatever its threads and
\* connections go through.  (That it returns is left to the model checker.)
THEOREM PoolDelivers == Spec => Promise!Safety
<1>1. Init => Promise!Init
  BY DEF Init, Promise!Init
<1>. QED
  BY <1>1, AccountedHolds, PromiseStep, PTL DEF Spec, Promise!Safety

---------------------------------------------------------------------------
(* What becomes of the faults a call meets.                                *)

\* The number of chunk c's next charge in call t.
NextCharge(t, c) == <<c, attempts[<<t, c>>] + 1>>

\* Call t charges chunk c with one attempt.
Charging(t, c) ==
  attempts' = [attempts EXCEPT ![<<t, c>>] = @ + 1]

\* A charge is a chunk with one of its attempts.
LEMMA ChargesAre ==
  ASSUME NEW C, NEW f, NEW x
  PROVE  x \in UNION {{d} \X (1 .. f[d]) : d \in C} <=> \E d \in C : \E i \in 1 .. f[d] : x = <<d, i>>
<1>1. x \in UNION {{d} \X (1 .. f[d]) : d \in C} <=> \E d \in C : x \in {d} \X (1 .. f[d])
  BY Zenon
<1>2. \A d, S : x \in {d} \X S <=> \E i \in S : x = <<d, i>>
  OBVIOUS
<1>. QED
  BY <1>1, <1>2, Zenon

IsCharge(t, x) == \E d \in Chunks(t) : \E i \in 1 .. attempts[<<t, d>>] : x = <<d, i>>

\* A charge is one more charge, of the call that makes it.
LEMMA ChargeAdds ==
  ASSUME TypeOK, NEW t \in Transfers, NEW c \in Chunks(t), Charging(t, c)
  PROVE  /\ Charges(t)' = Charges(t) \cup {NextCharge(t, c)}
         /\ NextCharge(t, c) \notin Charges(t)
         /\ \A u \in Transfers : u # t => Charges(u)' = Charges(u)
<1>1. /\ attempts \in [Transfers \X Chunk -> Nat] /\ c \in Chunk
      /\ \A u \in Transfers : Chunks(u) \subseteq Chunk
  BY ChunkFacts DEF TypeOK, ChunkTypes
<1>2. \A u \in Transfers : \A d \in Chunks(u) :
        attempts'[<<u, d>>] = IF <<u, d>> = <<t, c>> THEN attempts[<<u, d>>] + 1 ELSE attempts[<<u, d>>]
  BY <1>1 DEF Charging
<1>3. \A u \in Transfers : \A d \in Chunks(u) : attempts[<<u, d>>] \in Nat
  BY <1>1
<1>4. \A u \in Transfers : \A x : x \in Charges(u) <=> IsCharge(u, x)
  <2>. TAKE u \in Transfers
  <2>. DEFINE f == [d \in Chunks(u) |-> attempts[<<u, d>>]]
  <2>1. Charges(u) = UNION {{d} \X (1 .. f[d]) : d \in Chunks(u)}
    BY DEF Charges
  <2>2. \A d \in Chunks(u) : f[d] = attempts[<<u, d>>]
    OBVIOUS
  <2>. HIDE DEF f
  <2>3. \A x : x \in Charges(u) <=> \E d \in Chunks(u) : \E i \in 1 .. f[d] : x = <<d, i>>
    BY <2>1, ChargesAre
  <2>. QED
    BY <2>2, <2>3 DEF IsCharge, Chunks
<1>5. \A u \in Transfers : \A x : x \in Charges(u)' <=> IsCharge(u, x)'
  <2>. TAKE u \in Transfers
  <2>. DEFINE f == [d \in Chunks(u) |-> attempts'[<<u, d>>]]
  <2>1. Charges(u)' = UNION {{d} \X (1 .. f[d]) : d \in Chunks(u)}
    BY DEF Charges, Chunks
  <2>2. \A d \in Chunks(u) : f[d] = attempts'[<<u, d>>]
    OBVIOUS
  <2>. HIDE DEF f
  <2>3. \A x : x \in Charges(u)' <=> \E d \in Chunks(u) : \E i \in 1 .. f[d] : x = <<d, i>>
    BY <2>1, ChargesAre
  <2>. QED
    BY <2>2, <2>3 DEF IsCharge, Chunks
<1>6. NextCharge(t, c) \notin Charges(t)
  <2>. SUFFICES ASSUME NextCharge(t, c) \in Charges(t)
                PROVE  FALSE
    OBVIOUS
  <2>1. PICK d \in Chunks(t) : \E i \in 1 .. attempts[<<t, d>>] : NextCharge(t, c) = <<d, i>>
    <3>1. IsCharge(t, NextCharge(t, c))
      BY <1>4
    <3>. QED
      BY <3>1 DEF IsCharge
  <2>2. PICK i \in 1 .. attempts[<<t, d>>] : NextCharge(t, c) = <<d, i>>
    BY <2>1
  <2>3. d = c /\ i = attempts[<<t, c>>] + 1
    BY <2>2 DEF NextCharge
  <2>. QED
    BY <1>3, <2>2, <2>3
<1>7. ASSUME NEW u \in Transfers, u # t
      PROVE  Charges(u)' = Charges(u)
  <2>1. \A d \in Chunks(u) : attempts'[<<u, d>>] = attempts[<<u, d>>]
    BY <1>2, <1>7
  <2>2. \A x : IsCharge(u, x)' <=> IsCharge(u, x)
    BY <2>1 DEF IsCharge, Chunks
  <2>3. \A x : x \in Charges(u)' <=> x \in Charges(u)
    BY <1>4, <1>5, <2>2
  <2>. QED
    BY <2>3
<1>8. Charges(t)' = Charges(t) \cup {NextCharge(t, c)}
  <2>1. \A d \in Chunks(t) : d # c => attempts'[<<t, d>>] = attempts[<<t, d>>]
    BY <1>2
  <2>2. attempts'[<<t, c>>] = attempts[<<t, c>>] + 1 /\ attempts[<<t, c>>] \in Nat
    BY <1>2, <1>3
  <2>3. \A n \in Nat : \A i : i \in 1 .. n + 1 <=> i \in 1 .. n \/ i = n + 1
    OBVIOUS
  <2>4. \A i : i \in 1 .. attempts'[<<t, c>>] <=>
               i \in 1 .. attempts[<<t, c>>] \/ i = attempts[<<t, c>>] + 1
    BY <2>2, <2>3
  <2>5. \A x : x \in Charges(t)' <=> x \in Charges(t) \/ x = NextCharge(t, c)
    <3>1. ASSUME NEW x, x \in Charges(t)'
          PROVE  x \in Charges(t) \/ x = NextCharge(t, c)
      <4>0. PICK d \in Chunks(t) : \E i \in 1 .. attempts'[<<t, d>>] : x = <<d, i>>
        <5>1. IsCharge(t, x)'
          BY <1>5, <3>1
        <5>. QED
          BY <5>1 DEF IsCharge, Chunks
      <4>1. PICK i \in 1 .. attempts'[<<t, d>>] : x = <<d, i>>
        BY <4>0
      <4>. QED
        <5>1. i \in 1 .. attempts[<<t, d>>] \/ (d = c /\ i = attempts[<<t, c>>] + 1)
          BY <2>1, <2>4, <4>1
        <5>2. IsCharge(t, x) \/ x = NextCharge(t, c)
          BY <4>1, <5>1 DEF IsCharge, NextCharge
        <5>. QED
          BY <1>4, <5>2
    <3>2. ASSUME NEW x, x \in Charges(t)
          PROVE  x \in Charges(t)'
      <4>0. PICK d \in Chunks(t) : \E i \in 1 .. attempts[<<t, d>>] : x = <<d, i>>
        <5>1. IsCharge(t, x)
          BY <1>4, <3>2
        <5>. QED
          BY <5>1 DEF IsCharge
      <4>1. PICK i \in 1 .. attempts[<<t, d>>] : x = <<d, i>>
        BY <4>0
      <4>2. i \in 1 .. attempts'[<<t, d>>]
        BY <2>1, <2>4, <4>1
      <4>. QED
        <5>1. IsCharge(t, x)'
          BY <4>1, <4>2 DEF IsCharge, Chunks
        <5>. QED
          BY <1>5, <5>1
    <3>3. ASSUME NEW x, x = NextCharge(t, c)
          PROVE  x \in Charges(t)'
      <4>1. attempts[<<t, c>>] + 1 \in 1 .. attempts'[<<t, c>>]
        BY <2>4
      <4>2. IsCharge(t, x)'
        BY <3>3, <4>1 DEF IsCharge, NextCharge, Chunks
      <4>. QED
        BY <1>5, <4>2
    <3>. QED
      BY <3>1, <3>2, <3>3
  <2>. QED
    BY <2>5
<1>. QED
  BY <1>6, <1>7, <1>8

\* Slots are finite, and so are the threads with a charge to make.
LEMMA PendingFinite ==
  ASSUME NEW t \in Transfers
  PROVE  IsFiniteSet(Pending(t)) /\ Cardinality(Pending(t)) \in Nat
<1>1. IsFiniteSet(Slots)
  BY PoolAssumption, FS_Interval DEF Slots
<1>2. Pending(t) \in SUBSET Slots
  BY DEF Pending
<1>3. IsFiniteSet(Pending(t))
  BY <1>1, <1>2, FS_Subset
<1>. QED
  BY <1>3, FS_CardinalityType

\* A thread's step changes no other's pending charge.
LEMMA PendingOthers ==
  ASSUME TypeOK, ThreadShape, NEW t \in Transfers, NEW s \in Slots, Frame(t, s),
         NEW u \in Transfers, NEW r \in Slots, <<u, r>> # <<t, s>>
  PROVE  r \in Pending(u)' <=> r \in Pending(u)
<1>. DEFINE ways == {"giveback", "drain", "retry"}
<1>1. /\ flight'[<<u, r>>] = flight[<<u, r>>]
      /\ pc'[<<u, r>>] \in ways <=> pc[<<u, r>>] \in ways
  BY DEF Frame
<1>2. pc[<<u, r>>] \in ways => open'[r] = open[r]
  <2>1. CASE r # s
    BY <2>1 DEF Frame
  <2>2. CASE r = s /\ pc[<<u, r>>] \in ways
    <3>1. Shape(u, s) /\ Shape(t, s) /\ u # t
      BY <2>2 DEF ThreadShape
    <3>2. owner[s] = u
      BY <2>2, <3>1 DEF Shape, Locked
    <3>3. pc[<<t, s>>] \notin Locked
      BY <3>1, <3>2 DEF Shape
    <3>. QED
      BY <2>2, <3>3 DEF Frame
  <2>. QED
    BY <2>1, <2>2
<1>. QED
  BY <1>1, <1>2 DEF Pending

\* What a step of a thread has to do with faults and charges: nothing, a new
\* break, the charge of an earlier one, or a refusal that is charged at once.
LEMMA FaultStep ==
  ASSUME TypeOK, ThreadShape, InStep, Accounted, NEW t \in Transfers, NEW s \in Slots,
         ThreadStep(t, s) \/ SpuriousWake(t, s)
  PROVE  \/ UNCHANGED <<attempts, faults>> /\ (s \in Pending(t)' => s \in Pending(t))
         \/ attempts' = attempts /\ faults' = [faults EXCEPT ![t] = @ + 1]
         \/ /\ \E c \in Chunks(t) : Charging(t, c)
            /\ faults' = faults /\ s \in Pending(t) /\ s \notin Pending(t)'
         \/ /\ \E c \in Chunks(t) : Charging(t, c)
            /\ faults' = [faults EXCEPT ![t] = @ + 1] /\ s \notin Pending(t)'
<1>. DEFINE th == <<t, s>>
            ways == {"giveback", "drain", "retry"}
<1>0. /\ th \in Threads /\ Shape(t, s) /\ OwnChunks(t) /\ flight[th] \in Seq(Chunk)
      /\ pc \in [Threads -> Labels] /\ open \in [Slots -> BOOLEAN]
      /\ flight \in [Threads -> Seq(Chunk)]
  BY ThreadFacts DEF TypeOK, ThreadTypes, SlotTypes
<1>a. \A l \in Labels : Goto(t, s, l) \/ NotifyGoto(t, s, l) => pc'[th] = l
  BY <1>0 DEF Goto, NotifyGoto
<1>b. /\ s \in Pending(t) <=> pc[th] \in ways /\ ~open[s] /\ flight[th] # << >>
      /\ s \in Pending(t)' <=> pc'[th] \in ways /\ ~open'[s] /\ flight'[th] # << >>
  BY DEF Pending
<1>1. CASE Send(t, s)
  <2>1. /\ attempts' = attempts
        /\ \/ pc' = pc /\ faults' = faults
           \/ faults' = [faults EXCEPT ![t] = @ + 1]
    <3>1. Head(fresh[th]) \notin claims[t]
      BY <1>1, Unclaimed DEF Send
    <3>. QED
      BY <1>1, <3>1 DEF Send
  <2>2. pc[th] = "send"
    BY <1>1 DEF Send
  <2>. QED
    BY <1>b, <2>1, <2>2
<1>2. CASE ReadBreaks(t, s)
  BY <1>2 DEF ReadBreaks, chunkVars
<1>3. CASE \E retryable \in BOOLEAN : ReadError(t, s, retryable)
  <2>1. Head(asked[s]) = <<t, Head(flight[th])>>
    BY <1>3, Expected DEF ReadError
  <2>2. flight[th] # << >> /\ open[s] /\ open' = open
    BY <1>0, <1>3, <2>1 DEF Shape, ReadError
  <2>3. Head(flight[th]) \in Chunks(t)
    <3>1. Head(flight[th]) \in Range(flight[th])
      BY <1>0, <2>2, HeadTailRange
    <3>. QED
      BY <1>0, <3>1 DEF OwnChunks, Holds
  <2>4. \/ UNCHANGED <<attempts, faults>>
        \/ Charging(t, Head(flight[th])) /\ faults' = [faults EXCEPT ![t] = @ + 1]
    BY <1>3, <2>1 DEF ReadError, Charging
  <2>. QED
    BY <1>b, <2>2, <2>3, <2>4
<1>4. CASE Drain(t, s)
  <2>. DEFINE c == Last(flight[th])
  <2>1. /\ flight[th] # << >> /\ pc[th] = "drain" /\ ~open[s] /\ open' = open /\ faults' = faults
        /\ attempts' = [attempts EXCEPT ![<<t, c>>] = @ + Charge(t, s)]
        /\ flight' = [flight EXCEPT ![th] = Front(@)]
    BY <1>0, <1>4 DEF Drain, Shape, slotVars, historyVars
  <2>2. c \in Chunks(t)
    <3>1. c \in Range(flight[th])
      BY <1>0, <2>1, FrontLastRange
    <3>. QED
      BY <1>0, <3>1 DEF OwnChunks, Holds
  <2>3. s \in Pending(t)
    BY <1>b, <2>1
  <2>4. CASE Len(flight[th]) = 1
    <3>1. Charging(t, c)
      BY <2>1, <2>4 DEF Charge, Charging
    <3>2. flight'[th] = << >>
      <4>1. Len(Front(flight[th])) = 0 /\ Front(flight[th]) \in Seq(Chunk)
        <5>. HIDE DEF c
        <5>. QED
          BY <1>0, <2>1, <2>4, SeqLengths, SeqParts
      <4>2. Front(flight[th]) = << >>
        BY <4>1
      <4>. QED
        BY <1>0, <2>1, <4>2
    <3>. HIDE DEF c
    <3>. QED
      BY <1>b, <2>1, <2>2, <2>3, <3>1, <3>2
  <2>5. CASE Len(flight[th]) # 1
    <3>1. attempts' = attempts
      <4>. DEFINE x == <<t, c>>
      <4>1. attempts \in [Transfers \X Chunk -> Nat] /\ x \in Transfers \X Chunk
        BY <2>2, ChunkFacts DEF TypeOK, ChunkTypes
      <4>2. attempts' = [attempts EXCEPT ![x] = @ + 0]
        BY <2>1, <2>5 DEF Charge
      <4>. HIDE DEF x
      <4>. QED
        BY <4>1, <4>2
    <3>. QED
      BY <2>1, <2>3, <3>1
  <2>. QED
    BY <2>4, <2>5
<1>5. CASE GiveBack(t, s) \/ Retry(t, s)
  <2>1. UNCHANGED <<attempts, faults, flight, open>> /\ pc[th] \in ways
    BY <1>5 DEF GiveBack, Retry, chunkVars, historyVars, slotVars
  <2>. QED
    BY <1>b, <2>1
<1>6. CASE ~(Send(t, s) \/ ReadBreaks(t, s) \/ (\E retryable \in BOOLEAN : ReadError(t, s, retryable))
             \/ Drain(t, s) \/ GiveBack(t, s) \/ Retry(t, s))
  <2>1. UNCHANGED <<attempts, faults>>
    BY <1>6 DEF ThreadStep, SpuriousWake, Read, Spawn, LockSlot, Drive, Reconnect, Take,
           AllSent, ReadData, ReadConnError, Complete, Drained, Fail,
           UnlockSlot, Leave, chunkVars, historyVars
  <2>2. pc'[th] \notin ways
    <3>1. CASE Read(t, s)
      <4>1. ReadData(t, s) \/ ReadConnError(t, s)
        BY <1>6, <3>1 DEF Read
      <4>. QED
        BY <1>a, <4>1 DEF ReadData, ReadConnError, Mismatch, Labels
    <3>2. CASE Spawn(t, s) \/ LockSlot(t, s) \/ Drive(t, s) \/ Reconnect(t, s) \/ AllSent(t, s)
               \/ SpuriousWake(t, s) \/ Drained(t, s)
      BY <1>a, <3>2 DEF Spawn, LockSlot, Drive, Reconnect, AllSent, SpuriousWake, Drained, Labels
    <3>3. CASE Take(t, s) \/ Complete(t, s) \/ Fail(t, s) \/ UnlockSlot(t, s) \/ Leave(t, s)
      BY <1>a, <3>3 DEF Take, Complete, Fail, UnlockSlot, Leave, Labels
    <3>. QED
      BY <1>6, <3>1, <3>2, <3>3 DEF ThreadStep
  <2>. QED
    BY <1>b, <2>1, <2>2
<1>. QED
  BY <1>1, <1>2, <1>3, <1>4, <1>5, <1>6

\* Every step of a thread keeps the faults ahead of the charges.
LEMMA ChargedStep ==
  ASSUME TypeOK, ThreadShape, InStep, Accounted, Charged, NEW t \in Transfers,
         NEW s \in Slots, ThreadStep(t, s) \/ SpuriousWake(t, s), NEW u \in Transfers
  PROVE  /\ IsFiniteSet(Charges(u)')
         /\ Cardinality(Charges(u)') + Cardinality(Pending(u)') <= faults'[u]
<1>1. Frame(t, s)
  BY FrameStep
<1>2. \A v \in Transfers : \A r \in Slots : <<v, r>> # <<t, s>> =>
        (r \in Pending(v)' <=> r \in Pending(v))
  BY <1>1, PendingOthers
<1>3. \A v \in Transfers : Pending(v) \subseteq Slots /\ Pending(v)' \subseteq Slots
  BY DEF Pending
<1>4. /\ IsFiniteSet(Charges(u)) /\ Cardinality(Charges(u)) \in Nat
      /\ Cardinality(Charges(u)) + Cardinality(Pending(u)) <= faults[u]
  BY FS_CardinalityType DEF Charged
<1>5. /\ IsFiniteSet(Pending(u)) /\ Cardinality(Pending(u)) \in Nat
      /\ faults \in [Transfers -> Nat]
  BY PendingFinite DEF TypeOK, CallTypes
<1>6. attempts' = attempts => Charges(u)' = Charges(u)
  BY DEF Charges, Chunks
<1>7. CASE u # t
  <2>1. Pending(u)' = Pending(u)
    BY <1>2, <1>3, <1>7
  <2>2. Charges(u)' = Charges(u)
    BY <1>6, <1>7, FaultStep, ChargeAdds
  <2>3. faults'[u] = faults[u]
    BY <1>5, <1>7, FaultStep
  <2>. QED
    BY <1>4, <2>1, <2>2, <2>3
<1>8. CASE u = t
  <2>. DEFINE P == Pending(t)
              Q == Pending(t)'
              C == Charges(t)
              D == Charges(t)'
  <2>1. \A r \in Slots : r # s => (r \in Q <=> r \in P)
    BY <1>2
  <2>2. Q = P \/ Q = P \cup {s} \/ Q = P \ {s}
    BY <1>3, <2>1
  <2>3. /\ s \notin P => Cardinality(P \cup {s}) = Cardinality(P) + 1
        /\ s \in P => Cardinality(P \ {s}) = Cardinality(P) - 1
    BY <1>5, <1>8, FS_AddElement, FS_RemoveElement
  <2>4. ASSUME NEW c \in Chunks(t), Charging(t, c)
        PROVE  IsFiniteSet(D) /\ Cardinality(D) = Cardinality(C) + 1
    <3>1. D = C \cup {NextCharge(t, c)} /\ NextCharge(t, c) \notin C
      BY <2>4, ChargeAdds
    <3>. QED
      BY <1>4, <1>8, <3>1, FS_AddElement
  <2>5. /\ C \in {Charges(u)} /\ P \in {Pending(u)}
        /\ attempts' = attempts => D = C
    BY <1>6, <1>8
  <2>6. /\ s \notin P => P \ {s} = P
        /\ s \in P => P \cup {s} = P
    OBVIOUS
  <2>7. /\ s \in Q /\ s \notin P => Q = P \cup {s}
        /\ s \in P /\ s \notin Q => Q = P \ {s}
        /\ (s \in P <=> s \in Q) => Q = P
    BY <2>2, <2>6
  <2>8. faults[t] \in Nat /\ faults'[t] \in {faults[t], faults[t] + 1}
    BY <1>5, FaultStep
  <2>. DEFINE p == Cardinality(P)
              k == Cardinality(C)
  <2>9. k \in Nat /\ p \in Nat /\ k + p <= faults[t] /\ IsFiniteSet(C)
    BY <1>4, <1>5, <1>8
  <2>10. /\ s \in Q /\ s \notin P => Cardinality(Q) = p + 1
         /\ s \in P /\ s \notin Q => Cardinality(Q) = p - 1
         /\ (s \in P <=> s \in Q) => Cardinality(Q) = p
    BY <2>3, <2>7
  <2>. HIDE DEF P, Q, C, D, p, k
  <2>11. CASE UNCHANGED <<attempts, faults>> /\ (s \in Q => s \in P)
    <3>1. Cardinality(Q) = p \/ Cardinality(Q) = p - 1
      BY <2>10, <2>11
    <3>2. D = C /\ faults'[t] = faults[t]
      BY <2>5, <2>11
    <3>3. k + Cardinality(Q) <= faults[t]
      BY <2>8, <2>9, <3>1
    <3>. QED
      BY <1>8, <2>9, <3>2, <3>3 DEF k, D, Q
  <2>12. CASE attempts' = attempts /\ faults' = [faults EXCEPT ![t] = @ + 1]
    <3>1. Cardinality(Q) \in {p - 1, p, p + 1}
      BY <2>10
    <3>2. D = C /\ faults'[t] = faults[t] + 1
      BY <1>5, <2>5, <2>12
    <3>3. k + Cardinality(Q) <= faults[t] + 1
      BY <2>8, <2>9, <3>1
    <3>. QED
      BY <1>8, <2>9, <3>2, <3>3 DEF k, D, Q
  <2>13. CASE \E c \in Chunks(t) : Charging(t, c)
    <3>1. IsFiniteSet(D) /\ Cardinality(D) = k + 1
      BY <2>4, <2>13 DEF k
    <3>2. CASE faults' = faults /\ s \in P /\ s \notin Q
      <4>1. Cardinality(Q) = p - 1 /\ faults'[t] = faults[t]
        BY <2>10, <3>2
      <4>2. k + 1 + (p - 1) <= faults[t]
        BY <2>8, <2>9
      <4>. QED
        BY <1>8, <3>1, <4>1, <4>2 DEF D, Q
    <3>3. CASE faults' = [faults EXCEPT ![t] = @ + 1] /\ s \notin Q
      <4>1. Cardinality(Q) \in {p - 1, p} /\ faults'[t] = faults[t] + 1
        BY <1>5, <2>10, <3>3
      <4>2. k + 1 + Cardinality(Q) <= faults[t] + 1
        BY <2>8, <2>9, <4>1
      <4>. QED
        BY <1>8, <3>1, <4>1, <4>2 DEF D, Q
    <3>4. \/ UNCHANGED <<attempts, faults>> /\ (s \in Q => s \in P)
          \/ attempts' = attempts /\ faults' = [faults EXCEPT ![t] = @ + 1]
          \/ faults' = faults /\ s \in P /\ s \notin Q
          \/ faults' = [faults EXCEPT ![t] = @ + 1] /\ s \notin Q
      BY FaultStep DEF P, Q
    <3>. QED
      BY <2>11, <2>12, <3>2, <3>3, <3>4
  <2>. QED
    BY <2>11, <2>12, <2>13, FaultStep DEF P, Q
<1>. QED
  BY <1>7, <1>8

\* Calls and returns neither meet a fault nor charge one.
LEMMA ChargedCalls ==
  ASSUME TypeOK, ThreadShape, Charged, NEW t \in Transfers, Fetch(t) \/ Return(t)
  PROVE  Charged'
<1>1. UNCHANGED <<attempts, faults, flight, open>>
  BY DEF Fetch, Return, threadVars, slotVars, chunkVars, historyVars
<1>2. \A u \in Transfers : Charges(u)' = Charges(u)
  BY <1>1 DEF Charges, Chunks
<1>3. ASSUME NEW u \in Transfers
      PROVE  Pending(u)' = Pending(u)
  <2>1. ASSUME NEW s \in Slots
        PROVE  s \in Pending(u)' <=> s \in Pending(u)
    <3>1. CASE pc'[<<u, s>>] = pc[<<u, s>>]
      BY <1>1, <3>1 DEF Pending
    <3>2. CASE pc'[<<u, s>>] # pc[<<u, s>>]
      <4>1. u = t /\ outcome[t] = "uncalled" /\ pc'[<<u, s>>] \in {"spawn", "gone"}
        BY <3>2 DEF Fetch, Return, threadVars, Threads
      <4>2. pc[<<u, s>>] = "uncalled"
        BY <4>1 DEF ThreadShape, Shape
      <4>. QED
        BY <4>1, <4>2 DEF Pending
    <3>. QED
      BY <3>1, <3>2
  <2>2. Pending(u) \subseteq Slots /\ Pending(u)' \subseteq Slots
    BY DEF Pending
  <2>. QED
    BY <2>1, <2>2
<1>. QED
  BY <1>1, <1>2, <1>3 DEF Charged

LEMMA ChargedInit == Init => Charged
<1>. SUFFICES ASSUME Init, NEW t \in Transfers
              PROVE  /\ IsFiniteSet(Charges(t))
                     /\ Cardinality(Charges(t)) + Cardinality(Pending(t)) <= faults[t]
  BY DEF Charged
<1>1. faults[t] = 0 /\ \A s \in Slots : pc[<<t, s>>] = "uncalled"
  BY DEF Init, Threads
<1>2. \A c \in Chunks(t) : attempts[<<t, c>>] = 0
  BY ChunkFacts DEF Init
<1>3. \A c \in Chunks(t) : {c} \X (1 .. attempts[<<t, c>>]) = {}
  BY <1>2
<1>4. Charges(t) = {}
  BY <1>3 DEF Charges
<1>5. Pending(t) = {}
  BY <1>1 DEF Pending
<1>. QED
  BY <1>1, <1>4, <1>5, FS_EmptySet

\* Every step of the pool keeps the faults ahead of the charges.
LEMMA ChargedNext == IInv /\ Accounted /\ Charged /\ [Next]_vars => Charged'
<1>. SUFFICES ASSUME TypeOK, ThreadShape, InCredit, InStep, Accounted, Charged, [Next]_vars
              PROVE  Charged'
  BY DEF IInv
<1>1. CASE UNCHANGED vars
  <2>1. UNCHANGED <<attempts, faults, flight, open, pc>>
    BY <1>1 DEF vars, slotVars, threadVars, chunkVars, historyVars
  <2>2. \A t \in Transfers : Charges(t)' = Charges(t) /\ Pending(t)' = Pending(t)
    BY <2>1 DEF Charges, Pending, Chunks
  <2>. QED
    BY <2>1, <2>2 DEF Charged
<1>2. CASE \E t \in Transfers : Fetch(t) \/ Return(t)
  BY <1>2, ChargedCalls
<1>3. CASE \E t \in Transfers : \E s \in Slots : ThreadStep(t, s) \/ SpuriousWake(t, s)
  BY <1>3, ChargedStep DEF Charged
<1>. QED
  BY <1>1, <1>2, <1>3 DEF Next

\* A break is charged to the oldest chunk in flight and a refusal to its own:
\* together the chunks of a call are charged with no more attempts than the
\* faults its threads have met, whatever the credit and the number of slots.
THEOREM FaultsPayForCharges == Spec => []OneChargePerFault
<1>1. IInv /\ Accounted /\ Charged => OneChargePerFault
  <2>. SUFFICES ASSUME TypeOK, Charged, NEW t \in Transfers
                PROVE  Cardinality(Charges(t)) <= faults[t]
    BY DEF OneChargePerFault, IInv
  <2>1. /\ Cardinality(Charges(t)) + Cardinality(Pending(t)) <= faults[t]
        /\ Cardinality(Charges(t)) \in Nat /\ Cardinality(Pending(t)) \in Nat
        /\ faults[t] \in Nat
    BY PendingFinite, FS_CardinalityType DEF Charged, TypeOK, CallTypes
  <2>. QED
    BY <2>1
<1>2. Init => IInv
  BY TypeInit, ShapeInit, CreditInit, InStepInit DEF IInv
<1>. QED
  BY <1>1, <1>2, AccountedInit, ChargedInit, InvStep, AccountedStep, ChargedNext, PTL DEF Spec
=============================================================================
