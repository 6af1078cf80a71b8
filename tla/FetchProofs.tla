----------------------------- MODULE FetchProofs ------------------------------
(***************************************************************************)
(* Proofs about the bytes of a transfer, for any number of connections,    *)
(* any plan, any sizes of chunks, pieces and buffers, and any number of    *)
(* faults.                                                                 *)
(***************************************************************************)
EXTENDS Fetches, SeqFacts, FiniteSetTheorems

---------------------------------------------------------------------------
(* How a plan is cut into chunks.                                          *)

LEMMA Multiples ==
  ASSUME NEW i \in Nat, NEW j \in Nat, NEW d \in Nat \ {0}
  PROVE  /\ i * d \in Nat
         /\ i < j => i * d + d <= j * d
         /\ i * d < j * d => i < j
OBVIOUS

\* No chunk is empty, no two begin at the same place, and they cover the plan.
LEMMA CutFacts ==
  ASSUME NEW total \in Nat, NEW size \in Nat \ {0}
  PROVE  LET q == ChunksOf(total, size)
         IN  /\ q \in Seq(ChunkType)
             /\ \A i, j \in DOMAIN q : q[i].offset = q[j].offset => i = j
             /\ \A p \in 0 .. total - 1 : \E i \in DOMAIN q : p \in q[i].offset .. EndOf(q[i]) - 1
             /\ \A i \in DOMAIN q : EndOf(q[i]) <= total
<1>. DEFINE n == CeilDiv(total, size)
            q == ChunksOf(total, size)
            Len2(i) == IF size <= total - (i - 1) * size THEN size ELSE total - (i - 1) * size
<1>1. n \in Nat /\ n * size <= total + size - 1 /\ total + size - 1 < n * size + size
  <2>1. total + size - 1 \in Nat
    OBVIOUS
  <2>. QED
    BY <2>1, Division DEF CeilDiv
<1>2. \A i \in 1 .. n : i - 1 \in Nat /\ (i - 1) * size \in Nat /\ (i - 1) * size < total
  <2>. TAKE i \in 1 .. n
  <2>1. i - 1 \in Nat /\ i - 1 < n
    BY <1>1
  <2>. HIDE DEF n
  <2>2. (i - 1) * size \in Nat /\ (i - 1) * size + size <= n * size
    BY <1>1, <2>1, Multiples
  <2>. QED
    BY <1>1, <2>1, <2>2
<1>. HIDE DEF n
<1>3. /\ DOMAIN q = 1 .. n
      /\ \A i \in 1 .. n : q[i] = [offset |-> (i - 1) * size, len |-> Len2(i), attempts |-> 0]
  <2>1. q = [i \in 1 .. n |-> [offset |-> (i - 1) * size, len |-> Min({size, total - (i - 1) * size}), attempts |-> 0]]
    BY DEF ChunksOf, n
  <2>2. \A i \in 1 .. n : Min({size, total - (i - 1) * size}) = Len2(i)
    <3>. TAKE i \in 1 .. n
    <3>1. total - (i - 1) * size \in Int /\ size \in Int
      BY <1>2
    <3>. QED
      BY <3>1, MinOfTwo
  <2>. HIDE DEF q, Len2
  <2>. QED
    BY <2>1, <2>2
<1>4. \A i \in 1 .. n : Len2(i) \in Nat \ {0} /\ (i - 1) * size + Len2(i) <= total
  BY <1>2
<1>. HIDE DEF Len2
<1>5. \A i \in 1 .. n : q[i] \in ChunkType /\ q[i].offset = (i - 1) * size /\ q[i].len = Len2(i)
  BY <1>2, <1>3, <1>4 DEF ChunkType
<1>. HIDE DEF q
<1>6. q \in Seq(ChunkType)
  <2>1. q = [i \in 1 .. n |-> q[i]]
    BY <1>3 DEF q, ChunksOf, n
  <2>2. q \in [1 .. n -> ChunkType]
    BY <1>3, <1>5, <2>1
  <2>. QED
    BY <1>1, <2>2
<1>7. ASSUME NEW i \in 1 .. n, NEW j \in 1 .. n, q[i].offset = q[j].offset
      PROVE  i = j
  <2>1. (i - 1) * size = (j - 1) * size /\ i - 1 \in Nat /\ j - 1 \in Nat
    BY <1>2, <1>5, <1>7
  <2>2. (i - 1) * size \in Nat /\ (j - 1) * size \in Nat
    BY <1>2
  <2>3. ~(i - 1 < j - 1) /\ ~(j - 1 < i - 1)
    BY <2>1, <2>2, Multiples
  <2>. QED
    BY <1>1, <2>1, <2>3
<1>8. ASSUME NEW p \in 0 .. total - 1
      PROVE  \E i \in 1 .. n : p \in q[i].offset .. EndOf(q[i]) - 1
  <2>. DEFINE k == p \div size
  <2>1. p \in Nat /\ p < total
    OBVIOUS
  <2>2. k \in Nat /\ k * size <= p /\ p < k * size + size
    BY <2>1, Division
  <2>. HIDE DEF k
  <2>3. k < n
    <3>1. k * size < n * size
      <4>1. n * size \in Nat /\ k * size \in Nat
        BY <1>1, <2>2, Multiples
      <4>. QED
        BY <1>1, <2>1, <2>2, <4>1
    <3>. QED
      BY <1>1, <2>2, <3>1, Multiples
  <2>4. k + 1 \in 1 .. n /\ (k + 1) - 1 = k
    BY <1>1, <2>2, <2>3
  <2>5. q[k + 1].offset = k * size /\ q[k + 1].len = Len2(k + 1)
    BY <1>5, <2>4
  <2>6. Len2(k + 1) = IF size <= total - k * size THEN size ELSE total - k * size
    BY <2>4 DEF Len2
  <2>7. k * size \in Nat
    BY <2>2, Multiples
  <2>8. p \in q[k + 1].offset .. EndOf(q[k + 1]) - 1
    BY <2>1, <2>2, <2>5, <2>6, <2>7 DEF EndOf
  <2>. QED
    BY <2>4, <2>8
<1>9. \A i \in 1 .. n : EndOf(q[i]) <= total
  BY <1>4, <1>5 DEF EndOf
<1>. QED
  BY <1>3, <1>6, <1>7, <1>8, <1>9 DEF q

\* The size of chunks is never zero.
LEMMA SizePositive ==
  ASSUME NEW s, ValidSettings(s), NEW total \in Nat,
         s.chunk \in Nat, s.default \in Nat, s.limit \in Nat
  PROVE  ChunkBytesFor(s, total) \in Nat \ {0}
<1>. DEFINE ceiling == Max({s.limit, 1})
            card == Cardinality(Conns)
            streams == Max({card, 1})
<1>1. ceiling \in Nat \ {0}
  BY MaxOfTwo
<1>2. card \in Nat
  BY FetchAssumption, FS_CardinalityType
<1>3. streams \in Nat \ {0}
  <2>. HIDE DEF card
  <2>. QED
    BY <1>2, MaxOfTwo
<1>. HIDE DEF ceiling, card, streams
<1>4. ASSUME NEW n \in Nat
      PROVE  Clamp(n, 1, ceiling) \in Nat \ {0}
  <2>. DEFINE low == Min({n, ceiling})
  <2>1. low \in Nat
    BY <1>1, MinOfTwo
  <2>. HIDE DEF low
  <2>2. Max({1, low}) \in Nat \ {0}
    BY <2>1, MaxOfTwo
  <2>. QED
    BY <2>2 DEF Clamp, low
<1>5. ASSUME NEW size \in Nat \ {0}
      PROVE  SplitForStreams(size, total, streams) \in Nat \ {0}
  <2>. DEFINE share == CeilDiv(total, streams)
              most == Max({share, MIN_CHUNK_BYTES})
  <2>1. share \in Nat
    <3>1. total + streams - 1 \in Nat
      BY <1>3
    <3>. QED
      BY <1>3, <3>1, Division DEF CeilDiv
  <2>. HIDE DEF share
  <2>2. most \in Nat \ {0}
    <3>1. MIN_CHUNK_BYTES \in Nat \ {0}
      BY FetchAssumption
    <3>. QED
      BY <2>1, <3>1, MaxOfTwo
  <2>. HIDE DEF most
  <2>3. Min({most, size}) \in Nat \ {0}
    BY <2>2, MinOfTwo
  <2>. QED
    BY <2>3 DEF SplitForStreams, most, share
<1>. QED
  BY <1>4, <1>5 DEF ChunkBytesFor, ceiling, card, streams

---------------------------------------------------------------------------
(* What is given, and stays.                                               *)

InFlight == [chunk : ChunkType, received : Nat]
Request == [type : {"fetch"}, offset : Nat, len : Nat \ {0}]
Serving == [offset : Nat, len : Nat \ {0}, fetch : Nat]

LEMMA GivenFacts ==
  ASSUME \E one \in Cases : Chosen(one)
  PROVE  /\ layout.total \in Nat /\ layout.itemsize \in Nat \ {0} /\ layout.shape \in Seq(Nat)
         /\ settings.buffer \in Nat \ {0} /\ ChunkBytesFor(settings, layout.total) \in Nat \ {0}
         /\ Chunks \in Seq(ChunkType)
         /\ \A i, j \in DOMAIN Chunks : Chunks[i].offset = Chunks[j].offset => i = j
         /\ \A p \in 0 .. layout.total - 1 :
              \E i \in DOMAIN Chunks : p \in Chunks[i].offset .. EndOf(Chunks[i]) - 1
         /\ \A i \in DOMAIN Chunks : EndOf(Chunks[i]) <= layout.total
<1>1. PICK one \in Cases : Chosen(one)
  OBVIOUS
<1>2. ValidSettings(settings) /\ settings = one.settings /\ layout = LayoutFor(one.plan, one.builds)
  BY <1>1 DEF Chosen
<1>3. \A field \in {"chunk", "default", "limit", "buffer", "inline"} : settings[field] \in Nat
  BY <1>2, FetchAssumption
<1>4. settings.chunk \in Nat /\ settings.default \in Nat /\ settings.limit \in Nat /\ settings.buffer \in Nat
  BY <1>3
<1>5. layout.total \in Nat /\ layout.itemsize \in Nat \ {0} /\ layout.shape \in Seq(Nat)
  BY <1>2, FetchAssumption
<1>6. settings.buffer # 0
  BY <1>2 DEF ValidSettings
<1>7. ChunkBytesFor(settings, layout.total) \in Nat \ {0}
  BY <1>2, <1>4, <1>5, SizePositive
<1>. DEFINE size == ChunkBytesFor(settings, layout.total)
            q == ChunksOf(layout.total, size)
<1>. HIDE DEF size
<1>8. /\ q \in Seq(ChunkType)
      /\ \A i, j \in DOMAIN q : q[i].offset = q[j].offset => i = j
      /\ \A p \in 0 .. layout.total - 1 : \E i \in DOMAIN q : p \in q[i].offset .. EndOf(q[i]) - 1
      /\ \A i \in DOMAIN q : EndOf(q[i]) <= layout.total
  BY <1>5, <1>7, CutFacts DEF size
<1>9. Chunks = q
  BY DEF Chunks, size
<1>. HIDE DEF q
<1>. QED
  BY <1>4, <1>5, <1>6, <1>7, <1>8, <1>9

LEMMA GivenStays ==
  ASSUME Next
  PROVE  UNCHANGED given
<1>1. PICK c \in Conns :
        \/ Ask(c) \/ ReceiveData(c) \/ ReceiveError(c) \/ ReadsClosed(c) \/ Cut(c)
        \/ Accept(c) \/ SendPiece(c) \/ ReadFails(c)
  BY DEF Next
<1>2. CASE Ask(c)
  BY <1>2 DEF Ask
<1>3. CASE ReceiveData(c)
  BY <1>3 DEF ReceiveData
<1>4. CASE ReceiveError(c)
  BY <1>4 DEF ReceiveError
<1>5. CASE ReadsClosed(c)
  BY <1>5 DEF ReadsClosed, Breaks
<1>6. CASE Cut(c)
  BY <1>6 DEF Cut, Breaks
<1>7. CASE Accept(c)
  BY <1>7 DEF Accept
<1>8. CASE SendPiece(c)
  BY <1>8 DEF SendPiece
<1>9. CASE ReadFails(c)
  BY <1>9 DEF ReadFails
<1>. QED
  BY <1>1, <1>2, <1>3, <1>4, <1>5, <1>6, <1>7, <1>8, <1>9

---------------------------------------------------------------------------
(* The pieces that a fetch is answered in.                                 *)

\* A piece is never empty, and never longer than what is left of the fetch.
LEMMA PieceFacts ==
  ASSUME \E one \in Cases : Chosen(one), NEW offset \in Nat, NEW len \in Nat \ {0}
  PROVE  RowAligned(offset, Min({len, settings.buffer})) \in 1 .. len
<1>. DEFINE piece == Min({len, settings.buffer})
            row == LastOf(layout.shape) * layout.itemsize
            item == layout.itemsize
<1>1. layout.itemsize \in Nat \ {0} /\ layout.shape \in Seq(Nat) /\ settings.buffer \in Nat \ {0}
  BY GivenFacts
<1>2. piece \in Nat \ {0} /\ piece <= len
  BY <1>1, MinOfTwo
<1>. HIDE DEF piece
<1>3. piece - (piece % item) \in 0 .. piece
  BY <1>1, <1>2
<1>4. ASSUME layout.shape # << >>, row > 0, (offset + piece) % row < piece
      PROVE  piece - ((offset + piece) % row) \in 0 .. piece
  <2>1. row \in Nat
    <3>1. LastOf(layout.shape) \in Nat
      BY <1>1, <1>4 DEF LastOf
    <3>. HIDE DEF LastOf
    <3>. QED
      BY <1>1, <3>1
  <2>2. offset + piece \in Nat
    BY <1>2
  <2>. HIDE DEF row
  <2>3. (offset + piece) % row \in Nat
    BY <1>4, <2>1, <2>2
  <2>. QED
    BY <1>2, <1>4, <2>3
<1>5. RowAligned(offset, piece) \in 1 .. piece
  <2>. DEFINE over == (offset + piece) % row
              aligned == IF layout.shape # << >> /\ row > 0 /\ over < piece THEN piece - over
                         ELSE piece - (piece % item)
  <2>1. aligned \in 0 .. piece
    <3>. HIDE DEF row
    <3>. QED
      BY <1>3, <1>4
  <2>2. RowAligned(offset, piece) = IF Eps(layout.quality) = << >> \/ aligned = 0 THEN piece ELSE aligned
    BY DEF RowAligned
  <2>. HIDE DEF aligned
  <2>. QED
    BY <1>2, <2>1, <2>2
<1>. QED
  BY <1>2, <1>5 DEF piece

---------------------------------------------------------------------------
(* Types.                                                                  *)

LEMMA OwnSeq ==
  ASSUME NEW S, NEW q \in Seq(S)
  PROVE  q \in Seq(Range(q))
<1>1. Len(q) \in Nat /\ DOMAIN q = 1 .. Len(q) /\ q = [i \in 1 .. Len(q) |-> q[i]]
  OBVIOUS
<1>2. \A i \in 1 .. Len(q) : q[i] \in Range(q)
  BY <1>1 DEF Range
<1>3. q \in [1 .. Len(q) -> Range(q)]
  BY <1>1, <1>2
<1>. QED
  BY <1>1, <1>3

LEMMA OwnSeqs ==
  /\ << >> \in Seq(Range(<< >>))
  /\ \A q : q \in Seq(Range(q)) =>
       /\ \A x : Append(q, x) \in Seq(Range(Append(q, x)))
       /\ q # << >> => Tail(q) \in Seq(Range(Tail(q)))
<1>1. << >> \in Seq(Range(<< >>))
  OBVIOUS
<1>2. ASSUME NEW q, q \in Seq(Range(q)), NEW x
      PROVE  Append(q, x) \in Seq(Range(Append(q, x)))
  <2>. DEFINE S == Range(q) \cup {x}
  <2>1. Range(q) \subseteq S /\ x \in S
    OBVIOUS
  <2>2. q \in Seq(S)
    <3>1. q \in [1 .. Len(q) -> Range(q)] /\ Len(q) \in Nat
      BY <1>2
    <3>2. q \in [1 .. Len(q) -> S]
      BY <2>1, <3>1
    <3>. QED
      BY <3>1, <3>2
  <2>. HIDE DEF S
  <2>3. Append(q, x) \in Seq(S)
    BY <2>1, <2>2
  <2>. QED
    BY <2>3, OwnSeq
<1>3. ASSUME NEW q, q \in Seq(Range(q)), q # << >>
      PROVE  Tail(q) \in Seq(Range(Tail(q)))
  <2>. DEFINE S == Range(q)
  <2>1. q \in Seq(S)
    BY <1>3
  <2>. HIDE DEF S
  <2>2. Tail(q) \in Seq(S)
    BY <1>3, <2>1
  <2>. QED
    BY <2>2, OwnSeq
<1>. QED
  BY <1>1, <1>2, <1>3

\* What the type of a state says of a connection, in one place.
LEMMA TypeFacts ==
  ASSUME Types, NEW c \in Conns
  PROVE  /\ todo \in Seq(ChunkType)
         /\ flight \in [Conns -> Seq(InFlight)] /\ flight[c] \in Seq(InFlight)
         /\ fetches \in [Conns -> Seq(Request)] /\ fetches[c] \in Seq(Request)
         /\ serving \in [Conns -> Seq(Serving)] /\ serving[c] \in Seq(Serving) /\ Len(serving[c]) <= 1
         /\ DOMAIN frames = Conns /\ frames[c] \in Seq(Range(frames[c]))
         /\ DOMAIN dst = 0 .. layout.total - 1 /\ layout.total \in Nat
<1>1. layout.total \in Nat
  BY GivenFacts DEF Types
<1>. QED
  BY <1>1 DEF Types, InFlight, Request, Serving

\* The state stays typed when the parts that change do.
LEMMA TypesFrom ==
  ASSUME Types, UNCHANGED given,
         todo' \in Seq(ChunkType),
         flight' \in [Conns -> Seq(InFlight)],
         fetches' \in [Conns -> Seq(Request)],
         serving' \in [Conns -> Seq(Serving)], \A c \in Conns : Len(serving'[c]) <= 1,
         DOMAIN frames' = Conns, \A c \in Conns : frames'[c] \in Seq(Range(frames'[c])),
         DOMAIN dst' = DOMAIN dst
  PROVE  Types'
<1>1. layout' = layout /\ builds' = builds /\ settings' = settings
  BY DEF given
<1>2. (\E one \in Cases : Chosen(one))'
  BY <1>1 DEF Types, Chosen
<1>. QED
  BY <1>1, <1>2 DEF Types, InFlight, Request, Serving

\* Everything of a connection is gone.
LEMMA HangsTypes ==
  ASSUME Types, NEW c \in Conns, Hangs(c)
  PROVE  /\ fetches' \in [Conns -> Seq(Request)]
         /\ serving' \in [Conns -> Seq(Serving)] /\ \A d \in Conns : Len(serving'[d]) <= 1
         /\ DOMAIN frames' = Conns /\ \A d \in Conns : frames'[d] \in Seq(Range(frames'[d]))
         /\ fetches'[c] = << >> /\ serving'[c] = << >> /\ frames'[c] = << >>
         /\ \A d \in Conns \ {c} : /\ fetches'[d] = fetches[d]
                                   /\ serving'[d] = serving[d]
                                   /\ frames'[d] = frames[d]
<1>1. /\ fetches \in [Conns -> Seq(Request)] /\ serving \in [Conns -> Seq(Serving)]
      /\ \A d \in Conns : Len(serving[d]) <= 1
      /\ DOMAIN frames = Conns /\ \A d \in Conns : frames[d] \in Seq(Range(frames[d]))
  BY TypeFacts
<1>2. << >> \in Seq(Request) /\ << >> \in Seq(Serving) /\ Len(<< >>) = 0
  OBVIOUS
<1>3. /\ fetches' = [fetches EXCEPT ![c] = << >>]
      /\ serving' = [serving EXCEPT ![c] = << >>]
      /\ frames' = [frames EXCEPT ![c] = << >>]
  BY DEF Hangs
<1>4. fetches' \in [Conns -> Seq(Request)]
  BY <1>1, <1>2, <1>3
<1>5. serving' \in [Conns -> Seq(Serving)]
  BY <1>1, <1>2, <1>3
<1>6. /\ fetches'[c] = << >> /\ \A d \in Conns \ {c} : fetches'[d] = fetches[d]
      /\ serving'[c] = << >> /\ \A d \in Conns \ {c} : serving'[d] = serving[d]
  BY <1>1, <1>3
<1>7. DOMAIN frames' = Conns /\ frames'[c] = << >> /\ \A d \in Conns \ {c} : frames'[d] = frames[d]
  BY <1>1, <1>3
<1>8. \A d \in Conns : frames'[d] \in Seq(Range(frames'[d]))
  BY <1>1, <1>7, OwnSeqs
<1>9. \A d \in Conns : Len(serving'[d]) <= 1
  BY <1>1, <1>2, <1>6
<1>. QED
  BY <1>4, <1>5, <1>6, <1>7, <1>8, <1>9

---------------------------------------------------------------------------
(* What steps do.  A client's step asks for a chunk, goes on with one, is  *)
(* done with one, or loses all that a connection has in flight.            *)

Ranges(q) == {RangeOf(q[i]) : i \in DOMAIN q}
FlightRanges(c) == {RangeOf(flight[c][i].chunk) : i \in DOMAIN flight[c]}

\* Ask, with the claim granted.
Asks(c) ==
  /\ todo # << >> /\ HasCredit(c)
  /\ ~\E r \in claimed : Overlaps(r, Head(todo))
  /\ todo' = Tail(todo)
  /\ claimed' = claimed \cup {RangeOf(Head(todo))}
  /\ flight' = [flight EXCEPT ![c] = Append(@, [chunk |-> Head(todo), received |-> 0])]
  /\ fetches' = [fetches EXCEPT ![c] = Append(@, FetchFrame(Head(todo)))]
  /\ UNCHANGED <<given, dst, finished, failure, frames, serving>>

\* ReceiveData and ReceiveError, of a frame that makes sense.
Lands(c) ==
  LET f == Head(frames[c])
  IN  dst' = [p \in DOMAIN dst |->
                IF p \in f.offset .. f.offset + f.len - 1 THEN f.at + (p - f.offset) ELSE dst[p]]

GoesOn(c) ==
  /\ flight[c] # << >> /\ frames[c] # << >> /\ Head(frames[c]).type = "data"
  /\ ~CompletesFetch(Head(flight[c]), Head(frames[c]))
  /\ flight' = [flight EXCEPT ![c][1].received = @ + Head(frames[c]).len]
  /\ frames' = [frames EXCEPT ![c] = Tail(@)]
  /\ Lands(c)
  /\ UNCHANGED <<given, todo, claimed, finished, failure, fetches, serving>>

IsDone(c) ==
  /\ flight[c] # << >> /\ frames[c] # << >>
  /\ flight' = [flight EXCEPT ![c] = Tail(@)]
  /\ claimed' = claimed \ {RangeOf(Head(flight[c]).chunk)}
  /\ frames' = [frames EXCEPT ![c] = Tail(@)]
  /\ UNCHANGED <<given, fetches, serving>>

Completes(c) ==
  /\ IsDone(c)
  /\ Head(frames[c]).type = "data"
  /\ CompletesFetch(Head(flight[c]), Head(frames[c]))
  /\ Lands(c)
  /\ finished' = finished \cup {Head(flight[c]).chunk.offset}
  /\ UNCHANGED <<todo, failure>>

\* An error: the chunk goes back, or the transfer has failed.
Returns(c) ==
  /\ IsDone(c)
  /\ Head(frames[c]).type = "error"
  /\ \/ \E chunk \in ChunkType : /\ RangeOf(chunk) = RangeOf(Head(flight[c]).chunk)
                                 /\ todo' = <<chunk>> \o todo
                                 /\ UNCHANGED failure
     \/ failure' = (IF failure = "none" THEN Head(frames[c]).class ELSE failure) /\ UNCHANGED todo
  /\ UNCHANGED <<dst, finished>>

\* GivesUp and Breaks: unless the transfer has failed, all goes back.
Loses(c) ==
  /\ flight' = [flight EXCEPT ![c] = << >>]
  /\ claimed' = claimed \ FlightRanges(c)
  /\ Hangs(c)
  /\ todo' \in Seq(ChunkType) /\ Ranges(todo') \subseteq Ranges(todo) \cup FlightRanges(c)
  /\ failure' = "none" => /\ failure = "none"
                          /\ Ranges(todo) \cup FlightRanges(c) \subseteq Ranges(todo')
  /\ UNCHANGED <<given, dst, finished>>

LEMMA TailFacts ==
  ASSUME NEW S, NEW q \in Seq(S), q # << >>
  PROVE  /\ Tail(q) \in Seq(S) /\ Head(q) = q[1] /\ Head(q) \in S
         /\ Len(q) \in Nat \ {0} /\ Len(Tail(q)) = Len(q) - 1
         /\ DOMAIN q = 1 .. Len(q) /\ DOMAIN Tail(q) = 1 .. Len(q) - 1
         /\ \A i \in 1 .. Len(q) - 1 : Tail(q)[i] = q[i + 1] /\ i + 1 \in 1 .. Len(q)
OBVIOUS

LEMMA AppendFacts ==
  ASSUME NEW S, NEW q \in Seq(S), NEW x \in S
  PROVE  /\ Append(q, x) \in Seq(S)
         /\ Len(q) \in Nat /\ Len(Append(q, x)) = Len(q) + 1
         /\ DOMAIN q = 1 .. Len(q) /\ DOMAIN Append(q, x) = 1 .. Len(q) + 1
         /\ \A i \in 1 .. Len(q) : Append(q, x)[i] = q[i] /\ i \in 1 .. Len(q) + 1
         /\ Append(q, x)[Len(q) + 1] = x
OBVIOUS

\* What a protocol error loses; the head of the queue may be gone already.
LEMMA GivesUpLoses ==
  ASSUME Types, NEW c \in Conns, GivesUp(c), UNCHANGED <<given, dst, finished>>,
         todo' = todo \/ (todo # << >> /\ todo' = Tail(todo))
  PROVE  Loses(c)
<1>1. todo \in Seq(ChunkType)
  BY TypeFacts
<1>2. todo' \in Seq(ChunkType) /\ Ranges(todo') \subseteq Ranges(todo)
  <2>1. CASE todo' = todo
    BY <1>1, <2>1
  <2>2. CASE todo # << >> /\ todo' = Tail(todo)
    <3>1. /\ todo' \in Seq(ChunkType) /\ DOMAIN todo' = 1 .. Len(todo) - 1 /\ DOMAIN todo = 1 .. Len(todo)
          /\ \A i \in 1 .. Len(todo) - 1 : todo'[i] = todo[i + 1] /\ i + 1 \in 1 .. Len(todo)
      BY <1>1, <2>2, TailFacts
    <3>. QED
      BY <3>1 DEF Ranges
  <2>. QED
    BY <2>1, <2>2
<1>3. failure' # "none"
  BY DEF GivesUp
<1>. QED
  BY <1>2, <1>3 DEF GivesUp, Loses, FlightRanges

\* What was in flight goes before the queue, in its order, the first perhaps without.
GoesBack(c) ==
  \E rest \in Seq(ChunkType) : \E shift \in {0, 1} :
    /\ todo' = rest \o todo
    /\ \A i \in 1 .. Len(rest) : i + shift \in 1 .. Len(flight[c]) /\ RangeOf(rest[i]) = RangeOf(flight[c][i + shift].chunk)

LEMMA BreaksLoses ==
  ASSUME Types, NEW c \in Conns, Breaks(c)
  PROVE  Loses(c) /\ GoesBack(c)
<1>. DEFINE all == [i \in DOMAIN flight[c] |->
                      [flight[c][i].chunk EXCEPT !.attempts = IF i = 1 THEN @ + 1 ELSE @]]
            spent == all # << >> /\ all[1].attempts > MaxRetries
            rest == IF spent THEN Tail(all) ELSE all
<1>1. /\ todo' = rest \o todo
      /\ claimed' = claimed \ {RangeOf(all[i]) : i \in DOMAIN all}
      /\ failure' = IF failure = "none" /\ spent THEN "connection" ELSE failure
      /\ flight' = [flight EXCEPT ![c] = << >>]
      /\ Hangs(c)
      /\ UNCHANGED <<given, dst, finished>>
  BY DEF Breaks
<1>2. todo \in Seq(ChunkType) /\ flight[c] \in Seq(InFlight)
  BY TypeFacts
<1>3. Len(flight[c]) \in Nat /\ DOMAIN flight[c] = 1 .. Len(flight[c])
      /\ \A i \in 1 .. Len(flight[c]) : flight[c][i] \in InFlight
  BY <1>2
<1>4. \A i \in 1 .. Len(flight[c]) : flight[c][i].chunk \in ChunkType
  BY <1>3 DEF InFlight
<1>5. \A i \in 1 .. Len(flight[c]) : all[i] \in ChunkType /\ RangeOf(all[i]) = RangeOf(flight[c][i].chunk)
  <2>1. \A k \in ChunkType : \A n \in Nat :
          [k EXCEPT !.attempts = n] \in ChunkType /\ RangeOf([k EXCEPT !.attempts = n]) = RangeOf(k)
    BY DEF ChunkType, RangeOf
  <2>. TAKE i \in 1 .. Len(flight[c])
  <2>. DEFINE k == flight[c][i].chunk
              n == IF i = 1 THEN k.attempts + 1 ELSE k.attempts
  <2>2. k \in ChunkType /\ n \in Nat
    BY <1>4 DEF ChunkType
  <2>3. all[i] = [k EXCEPT !.attempts = n]
    BY <1>3
  <2>. HIDE DEF k, n, all
  <2>4. all[i] \in ChunkType /\ RangeOf(all[i]) = RangeOf(k)
    BY <2>1, <2>2, <2>3
  <2>. QED
    BY <2>4 DEF k
<1>6. DOMAIN all = 1 .. Len(flight[c])
  BY <1>3
<1>7. all \in Seq(ChunkType) /\ Ranges(all) = FlightRanges(c)
  <2>1. all = [i \in 1 .. Len(flight[c]) |-> all[i]]
    BY <1>6
  <2>. HIDE DEF all
  <2>2. all \in [1 .. Len(flight[c]) -> ChunkType]
    BY <1>5, <2>1
  <2>. QED
    BY <1>3, <1>5, <1>6, <2>2 DEF Ranges, FlightRanges
<1>. HIDE DEF all
<1>8. rest \in Seq(ChunkType) /\ Ranges(rest) \subseteq Ranges(all) /\ (~spent => rest = all)
  <2>1. CASE spent
    <3>1. /\ rest \in Seq(ChunkType) /\ DOMAIN rest = 1 .. Len(all) - 1 /\ DOMAIN all = 1 .. Len(all)
          /\ \A i \in 1 .. Len(all) - 1 : rest[i] = all[i + 1] /\ i + 1 \in 1 .. Len(all)
      BY <1>7, <2>1, TailFacts
    <3>2. Ranges(rest) \subseteq Ranges(all)
      BY <3>1 DEF Ranges
    <3>. QED
      BY <2>1, <3>1, <3>2
  <2>2. CASE ~spent
    BY <1>7, <2>2
  <2>. QED
    BY <2>1, <2>2
<1>0. \E shift \in {0, 1} : \A i \in 1 .. Len(rest) :
        i + shift \in 1 .. Len(flight[c]) /\ RangeOf(rest[i]) = RangeOf(flight[c][i + shift].chunk)
  <2>1. CASE spent
    <3>1. /\ Len(rest) = Len(all) - 1 /\ Len(all) = Len(flight[c])
          /\ \A i \in 1 .. Len(all) - 1 : rest[i] = all[i + 1]
      BY <1>3, <1>6, <1>7, <2>1, TailFacts
    <3>2. \A i \in 1 .. Len(rest) : i + 1 \in 1 .. Len(flight[c]) /\ i \in 1 .. Len(all) - 1
      BY <1>3, <3>1
    <3>. HIDE DEF rest, spent
    <3>3. \A i \in 1 .. Len(rest) : RangeOf(rest[i]) = RangeOf(flight[c][i + 1].chunk)
      BY <1>5, <3>1, <3>2
    <3>. QED
      BY <3>2, <3>3
  <2>2. CASE ~spent
    <3>1. rest = all /\ Len(all) = Len(flight[c])
      BY <1>3, <1>6, <1>7, <2>2
    <3>2. \A i \in 1 .. Len(rest) : i + 0 = i /\ i \in 1 .. Len(flight[c])
      BY <1>3, <3>1
    <3>. HIDE DEF rest, spent
    <3>. QED
      BY <1>5, <3>1, <3>2
  <2>. QED
    BY <2>1, <2>2
<1>. HIDE DEF rest, spent
<1>9. todo' \in Seq(ChunkType) /\ Ranges(todo') = Ranges(rest) \cup Ranges(todo)
  <2>. DEFINE both == rest \o todo
  <2>1. /\ both \in Seq(ChunkType) /\ Len(both) = Len(rest) + Len(todo)
        /\ Len(rest) \in Nat /\ Len(todo) \in Nat
        /\ DOMAIN both = 1 .. Len(both) /\ DOMAIN rest = 1 .. Len(rest) /\ DOMAIN todo = 1 .. Len(todo)
        /\ \A i \in 1 .. Len(rest) : both[i] = rest[i]
        /\ \A i \in 1 .. Len(todo) : both[Len(rest) + i] = todo[i]
    BY <1>2, <1>8
  <2>. HIDE DEF both
  <2>2. \A i \in 1 .. Len(both) : i \in 1 .. Len(rest) \/ \E j \in 1 .. Len(todo) : i = Len(rest) + j
    <3>. TAKE i \in 1 .. Len(both)
    <3>1. i \in 1 .. Len(rest) \/ (i - Len(rest) \in 1 .. Len(todo) /\ i = Len(rest) + (i - Len(rest)))
      BY <2>1
    <3>. QED
      BY <3>1
  <2>3. \A i \in 1 .. Len(rest) : i \in 1 .. Len(both)
    BY <2>1
  <2>4. \A i \in 1 .. Len(todo) : Len(rest) + i \in 1 .. Len(both)
    BY <2>1
  <2>5. Ranges(both) \subseteq Ranges(rest) \cup Ranges(todo)
    <3>. SUFFICES ASSUME NEW i \in 1 .. Len(both)
                  PROVE  RangeOf(both[i]) \in Ranges(rest) \cup Ranges(todo)
      BY <2>1 DEF Ranges
    <3>1. CASE i \in 1 .. Len(rest)
      BY <2>1, <3>1 DEF Ranges
    <3>2. ASSUME NEW j \in 1 .. Len(todo), i = Len(rest) + j
          PROVE  RangeOf(both[i]) \in Ranges(todo)
      BY <2>1, <3>2 DEF Ranges
    <3>. QED
      BY <2>2, <3>1, <3>2
  <2>6. Ranges(rest) \subseteq Ranges(both)
    BY <2>1, <2>3 DEF Ranges
  <2>7. Ranges(todo) \subseteq Ranges(both)
    BY <2>1, <2>4 DEF Ranges
  <2>8. todo' = both
    BY <1>1 DEF both
  <2>. QED
    BY <2>1, <2>5, <2>6, <2>7, <2>8
<1>10. failure' = "none" => failure = "none" /\ ~spent
  BY <1>1
<1>11. claimed' = claimed \ FlightRanges(c)
  BY <1>1, <1>7 DEF Ranges
<1>12. GoesBack(c)
  BY <1>0, <1>1, <1>8 DEF GoesBack
<1>. QED
  BY <1>1, <1>7, <1>8, <1>9, <1>10, <1>11, <1>12 DEF Loses

\* A frame that makes sense goes on with a fetch or completes it.
LEMMA DataTaken ==
  ASSUME NEW c \in Conns, ReceiveData(c), FrameIsSane(Head(frames[c]), Head(flight[c]).chunk)
  PROVE  GoesOn(c) \/ Completes(c)
<1>. DEFINE f == Head(frames[c])
            asked == Head(flight[c])
<1>1. /\ flight[c] # << >> /\ frames[c] # << >> /\ f.type = "data"
      /\ UNCHANGED <<given, todo, faults>>
  BY DEF ReceiveData, Reads
<1>2. /\ Lands(c)
      /\ IF CompletesFetch(asked, f)
         THEN /\ flight' = [flight EXCEPT ![c] = Tail(@)]
              /\ claimed' = claimed \ {RangeOf(asked.chunk)}
              /\ finished' = finished \cup {asked.chunk.offset}
         ELSE /\ flight' = [flight EXCEPT ![c][1].received = @ + f.len]
              /\ UNCHANGED <<claimed, finished>>
      /\ frames' = [frames EXCEPT ![c] = Tail(@)]
      /\ UNCHANGED <<failure, fetches, serving>>
  BY DEF ReceiveData, Lands
<1>3. CASE CompletesFetch(asked, f)
  BY <1>1, <1>2, <1>3 DEF Completes, IsDone
<1>4. CASE ~CompletesFetch(asked, f)
  BY <1>1, <1>2, <1>4 DEF GoesOn
<1>. QED
  BY <1>3, <1>4

\* An error about the oldest fetch gives it back or ends the transfer.
LEMMA ErrorTaken ==
  ASSUME Types, NEW c \in Conns, ReceiveError(c), Head(frames[c]).offset = Head(flight[c]).chunk.offset
  PROVE  Returns(c) /\ failure' \in {failure, Head(frames[c]).class}
<1>. DEFINE f == Head(frames[c])
            chunk == [Head(flight[c]).chunk EXCEPT !.attempts = @ + 1]
<1>1. flight[c] # << >> /\ frames[c] # << >> /\ f.type = "error" /\ UNCHANGED <<given, dst, finished, faults>>
  BY DEF ReceiveError, Reads
<1>2. chunk \in ChunkType /\ RangeOf(chunk) = RangeOf(Head(flight[c]).chunk) /\ chunk.offset = f.offset
  <2>1. flight[c] \in Seq(InFlight)
    BY TypeFacts
  <2>2. Head(flight[c]) \in InFlight
    BY <1>1, <2>1
  <2>3. Head(flight[c]).chunk \in ChunkType
    BY <2>2 DEF InFlight
  <2>. QED
    BY <2>3 DEF ChunkType, RangeOf
<1>3. /\ flight' = [flight EXCEPT ![c] = Tail(@)]
      /\ claimed' = claimed \ {RangeOf(chunk)}
      /\ IF f.class = "transient" /\ chunk.attempts <= MaxRetries
         THEN todo' = <<chunk>> \o todo /\ UNCHANGED failure
         ELSE failure' = (IF failure = "none" THEN f.class ELSE failure) /\ UNCHANGED todo
      /\ frames' = [frames EXCEPT ![c] = Tail(@)]
      /\ UNCHANGED <<fetches, serving>>
  BY <1>2 DEF ReceiveError
<1>. HIDE DEF chunk
<1>4. IsDone(c)
  BY <1>1, <1>2, <1>3 DEF IsDone
<1>5. CASE f.class = "transient" /\ chunk.attempts <= MaxRetries
  BY <1>1, <1>2, <1>3, <1>4, <1>5 DEF Returns
<1>6. CASE ~(f.class = "transient" /\ chunk.attempts <= MaxRetries)
  BY <1>1, <1>2, <1>3, <1>4, <1>6 DEF Returns
<1>. QED
  BY <1>5, <1>6

\* A claim that is granted, and one that is refused.
LEMMA AskTaken ==
  ASSUME NEW c \in Conns, Ask(c)
  PROVE  LET chunk == Head(todo)
         IN  /\ todo # << >> /\ todo' = Tail(todo)
             /\ IF chunk.offset + chunk.len > layout.total \/ \E r \in claimed : Overlaps(r, chunk)
                THEN GivesUp(c) /\ UNCHANGED <<given, dst, finished>>
                ELSE Asks(c)
<1>. DEFINE chunk == Head(todo)
            refused == chunk.offset + chunk.len > layout.total \/ \E r \in claimed : Overlaps(r, chunk)
<1>1. /\ MayAsk(c) /\ todo' = Tail(todo)
      /\ IF refused
         THEN GivesUp(c)
         ELSE /\ claimed' = claimed \cup {RangeOf(chunk)}
              /\ flight' = [flight EXCEPT ![c] = Append(@, [chunk |-> chunk, received |-> 0])]
              /\ fetches' = [fetches EXCEPT ![c] = Append(@, FetchFrame(chunk))]
              /\ UNCHANGED <<failure, frames, serving>>
      /\ UNCHANGED <<given, dst, finished, faults>>
  BY DEF Ask
<1>2. todo # << >> /\ HasCredit(c)
  BY <1>1 DEF MayAsk
<1>3. ASSUME ~refused
      PROVE  Asks(c)
  <2>1. ~\E r \in claimed : Overlaps(r, chunk)
    BY <1>3
  <2>. HIDE DEF refused
  <2>. QED
    BY <1>1, <1>2, <1>3, <2>1 DEF Asks
<1>. HIDE DEF refused
<1>4. todo # << >> /\ todo' = Tail(todo) /\ IF refused THEN GivesUp(c) /\ UNCHANGED <<given, dst, finished>> ELSE Asks(c)
  BY <1>1, <1>2, <1>3
<1>. QED
  BY <1>4 DEF refused

\* Every step of a client is one of these.
LEMMA ClientMoves ==
  ASSUME Types, NEW c \in Conns,
         Ask(c) \/ ReceiveData(c) \/ ReceiveError(c) \/ ReadsClosed(c) \/ Cut(c)
  PROVE  Asks(c) \/ GoesOn(c) \/ Completes(c) \/ Returns(c) \/ Loses(c)
<1>1. CASE Ask(c)
  <2>1. \/ Asks(c)
        \/ todo # << >> /\ todo' = Tail(todo) /\ GivesUp(c) /\ UNCHANGED <<given, dst, finished>>
    BY <1>1, AskTaken
  <2>. QED
    BY <2>1, GivesUpLoses
<1>2. CASE ReceiveData(c)
  <2>1. CASE ~FrameIsSane(Head(frames[c]), Head(flight[c]).chunk)
    <3>1. GivesUp(c) /\ UNCHANGED <<given, todo, dst, finished>>
      BY <1>2, <2>1 DEF ReceiveData
    <3>. QED
      BY <3>1, GivesUpLoses
  <2>. QED
    BY <1>2, <2>1, DataTaken
<1>3. CASE ReceiveError(c)
  <2>1. CASE Head(frames[c]).offset # Head(flight[c]).chunk.offset
    <3>1. flight[c] \in Seq(InFlight) /\ flight[c] # << >>
      BY <1>3, TypeFacts DEF ReceiveError, Reads
    <3>2. Head(flight[c]) \in InFlight
      BY <3>1
    <3>3. Head(flight[c]).chunk \in ChunkType
      BY <3>2 DEF InFlight
    <3>4. [Head(flight[c]).chunk EXCEPT !.attempts = @ + 1].offset = Head(flight[c]).chunk.offset
      BY <3>3 DEF ChunkType
    <3>5. GivesUp(c) /\ UNCHANGED <<given, todo, dst, finished>>
      BY <1>3, <2>1, <3>4 DEF ReceiveError
    <3>. QED
      BY <3>5, GivesUpLoses
  <2>. QED
    BY <1>3, <2>1, ErrorTaken
<1>4. CASE ReadsClosed(c)
  BY <1>4, BreaksLoses DEF ReadsClosed
<1>5. CASE Cut(c)
  BY <1>5, BreaksLoses DEF Cut
<1>. QED
  BY <1>1, <1>2, <1>3, <1>4, <1>5

LEMMA MovesTyped ==
  ASSUME Types, NEW c \in Conns,
         Asks(c) \/ GoesOn(c) \/ Completes(c) \/ Returns(c) \/ Loses(c),
         GoesOn(c) => Head(frames[c]).len \in Nat
  PROVE  Types'
<1>1. /\ todo \in Seq(ChunkType)
      /\ flight \in [Conns -> Seq(InFlight)] /\ flight[c] \in Seq(InFlight)
      /\ fetches \in [Conns -> Seq(Request)] /\ fetches[c] \in Seq(Request)
      /\ serving \in [Conns -> Seq(Serving)] /\ \A d \in Conns : Len(serving[d]) <= 1
      /\ DOMAIN frames = Conns /\ \A d \in Conns : frames[d] \in Seq(Range(frames[d]))
  BY TypeFacts
<1>2. ASSUME frames' = [frames EXCEPT ![c] = Tail(@)], frames[c] # << >>
      PROVE  DOMAIN frames' = Conns /\ \A d \in Conns : frames'[d] \in Seq(Range(frames'[d]))
  <2>1. DOMAIN frames' = Conns /\ frames'[c] = Tail(frames[c]) /\ \A d \in Conns \ {c} : frames'[d] = frames[d]
    BY <1>1, <1>2
  <2>2. frames'[c] \in Seq(Range(frames'[c]))
    BY <1>1, <1>2, <2>1, OwnSeqs
  <2>. QED
    BY <1>1, <2>1, <2>2
<1>3. CASE Asks(c)
  <2>1. todo # << >> /\ todo' = Tail(todo)
    BY <1>3 DEF Asks
  <2>2. todo' \in Seq(ChunkType) /\ Head(todo) \in ChunkType
    BY <1>1, <2>1
  <2>3. [chunk |-> Head(todo), received |-> 0] \in InFlight
    BY <2>2 DEF InFlight
  <2>4. FetchFrame(Head(todo)) \in Request
    BY <2>2 DEF FetchFrame, Request, ChunkType
  <2>5. Append(flight[c], [chunk |-> Head(todo), received |-> 0]) \in Seq(InFlight)
    BY <1>1, <2>3
  <2>6. Append(fetches[c], FetchFrame(Head(todo))) \in Seq(Request)
    BY <1>1, <2>4
  <2>7. flight' \in [Conns -> Seq(InFlight)]
    BY <1>1, <1>3, <2>5 DEF Asks
  <2>8. fetches' \in [Conns -> Seq(Request)]
    BY <1>1, <1>3, <2>6 DEF Asks
  <2>9. UNCHANGED given /\ serving' = serving /\ frames' = frames /\ dst' = dst
    BY <1>3 DEF Asks
  <2>. QED
    BY <1>1, <2>2, <2>7, <2>8, <2>9, TypesFrom
<1>4. CASE GoesOn(c)
  <2>1. /\ UNCHANGED given /\ todo' = todo /\ fetches' = fetches /\ serving' = serving
        /\ flight[c] # << >>
        /\ flight' = [flight EXCEPT ![c][1].received = @ + Head(frames[c]).len]
        /\ Head(frames[c]).len \in Nat
    BY <1>4 DEF GoesOn
  <2>2. flight[c][1] \in InFlight /\ 1 \in DOMAIN flight[c]
    BY <1>1, <2>1
  <2>. DEFINE more == [flight[c][1] EXCEPT !.received = @ + Head(frames[c]).len]
  <2>3. more \in InFlight
    BY <2>1, <2>2 DEF InFlight
  <2>4. [flight[c] EXCEPT ![1] = more] \in Seq(InFlight)
    <3>. HIDE DEF more
    <3>. QED
      BY <1>1, <2>2, <2>3
  <2>5. flight' = [flight EXCEPT ![c] = [flight[c] EXCEPT ![1] = more]]
    BY <1>1, <2>1
  <2>6. flight' \in [Conns -> Seq(InFlight)]
    <3>. HIDE DEF more
    <3>. QED
      BY <1>1, <2>4, <2>5
  <2>7. DOMAIN frames' = Conns /\ \A d \in Conns : frames'[d] \in Seq(Range(frames'[d]))
    BY <1>2, <1>4 DEF GoesOn
  <2>8. DOMAIN dst' = DOMAIN dst
    BY <1>4 DEF GoesOn, Lands
  <2>. QED
    BY <1>1, <2>1, <2>6, <2>7, <2>8, TypesFrom
<1>5. ASSUME IsDone(c), todo' \in Seq(ChunkType), DOMAIN dst' = DOMAIN dst
      PROVE  Types'
  <2>1. Tail(flight[c]) \in Seq(InFlight)
    BY <1>1, <1>5 DEF IsDone
  <2>2. flight' \in [Conns -> Seq(InFlight)]
    BY <1>1, <1>5, <2>1 DEF IsDone
  <2>3. DOMAIN frames' = Conns /\ \A d \in Conns : frames'[d] \in Seq(Range(frames'[d]))
    BY <1>2, <1>5 DEF IsDone
  <2>4. UNCHANGED given /\ fetches' = fetches /\ serving' = serving
    BY <1>5 DEF IsDone
  <2>. QED
    BY <1>1, <1>5, <2>2, <2>3, <2>4, TypesFrom
<1>6. CASE Completes(c)
  <2>1. IsDone(c) /\ todo' = todo /\ DOMAIN dst' = DOMAIN dst
    BY <1>6 DEF Completes, Lands
  <2>. QED
    BY <1>1, <1>5, <2>1
<1>7. CASE Returns(c)
  <2>1. IsDone(c) /\ dst' = dst
    BY <1>7 DEF Returns
  <2>2. todo' \in Seq(ChunkType)
    <3>1. ASSUME NEW chunk \in ChunkType, todo' = <<chunk>> \o todo
          PROVE  todo' \in Seq(ChunkType)
      BY <1>1, <3>1
    <3>. QED
      BY <1>1, <1>7, <3>1 DEF Returns
  <2>. QED
    BY <1>5, <2>1, <2>2
<1>8. CASE Loses(c)
  <2>1. /\ Hangs(c) /\ todo' \in Seq(ChunkType) /\ UNCHANGED given /\ dst' = dst
        /\ flight' = [flight EXCEPT ![c] = << >>]
    BY <1>8 DEF Loses
  <2>2. << >> \in Seq(InFlight)
    OBVIOUS
  <2>3. flight' \in [Conns -> Seq(InFlight)]
    BY <1>1, <2>1, <2>2
  <2>4. /\ fetches' \in [Conns -> Seq(Request)]
        /\ serving' \in [Conns -> Seq(Serving)] /\ \A d \in Conns : Len(serving'[d]) <= 1
        /\ DOMAIN frames' = Conns /\ \A d \in Conns : frames'[d] \in Seq(Range(frames'[d]))
    BY <2>1, HangsTypes
  <2>. QED
    BY <2>1, <2>3, <2>4, TypesFrom
<1>. QED
  BY <1>3, <1>4, <1>6, <1>7, <1>8

---------------------------------------------------------------------------
(* Claims.                                                                 *)

\* What each kind of step does to what is in flight.
LEMMA AsksFlight ==
  ASSUME Types, NEW c \in Conns, Asks(c)
  PROVE  LET m == Len(flight[c])
         IN  /\ \A d \in Conns \ {c} : flight'[d] = flight[d]
             /\ m \in Nat /\ DOMAIN flight[c] = 1 .. m
             /\ Len(flight'[c]) = m + 1 /\ DOMAIN flight'[c] = 1 .. m + 1
             /\ \A i \in 1 .. m : flight'[c][i] = flight[c][i]
             /\ flight'[c][m + 1] = [chunk |-> Head(todo), received |-> 0]
             /\ Head(todo) \in ChunkType /\ todo \in Seq(ChunkType) /\ todo # << >>
<1>1. todo \in Seq(ChunkType) /\ flight \in [Conns -> Seq(InFlight)] /\ flight[c] \in Seq(InFlight)
  BY TypeFacts
<1>2. todo # << >> /\ flight' = [flight EXCEPT ![c] = Append(@, [chunk |-> Head(todo), received |-> 0])]
  BY DEF Asks
<1>3. Head(todo) \in ChunkType
  BY <1>1, <1>2
<1>. DEFINE x == [chunk |-> Head(todo), received |-> 0]
<1>4. x \in InFlight
  BY <1>3 DEF InFlight
<1>5. flight'[c] = Append(flight[c], x) /\ \A d \in Conns \ {c} : flight'[d] = flight[d]
  BY <1>1, <1>2
<1>. HIDE DEF x
<1>6. /\ Len(flight[c]) \in Nat /\ Len(flight'[c]) = Len(flight[c]) + 1
      /\ DOMAIN flight[c] = 1 .. Len(flight[c]) /\ DOMAIN flight'[c] = 1 .. Len(flight[c]) + 1
      /\ \A i \in 1 .. Len(flight[c]) : flight'[c][i] = flight[c][i]
      /\ flight'[c][Len(flight[c]) + 1] = x
  BY <1>1, <1>4, <1>5, AppendFacts
<1>. QED
  BY <1>1, <1>2, <1>3, <1>5, <1>6 DEF x

LEMMA GoesOnFlight ==
  ASSUME Types, NEW c \in Conns, GoesOn(c)
  PROVE  LET m == Len(flight[c])
         IN  /\ \A d \in Conns \ {c} : flight'[d] = flight[d]
             /\ m \in Nat \ {0} /\ DOMAIN flight[c] = 1 .. m
             /\ Len(flight'[c]) = m /\ DOMAIN flight'[c] = 1 .. m
             /\ \A i \in 2 .. m : flight'[c][i] = flight[c][i]
             /\ \A i \in 1 .. m : flight'[c][i].chunk = flight[c][i].chunk
             /\ flight'[c][1].received = flight[c][1].received + Head(frames[c]).len
<1>1. flight \in [Conns -> Seq(InFlight)] /\ flight[c] \in Seq(InFlight)
  BY TypeFacts
<1>2. flight[c] # << >> /\ flight' = [flight EXCEPT ![c][1].received = @ + Head(frames[c]).len]
  BY DEF GoesOn
<1>3. Len(flight[c]) \in Nat \ {0} /\ DOMAIN flight[c] = 1 .. Len(flight[c]) /\ flight[c][1] \in InFlight
  BY <1>1, <1>2
<1>. DEFINE more == [flight[c][1] EXCEPT !.received = @ + Head(frames[c]).len]
            new == [flight[c] EXCEPT ![1] = more]
<1>4. flight'[c] = new /\ \A d \in Conns \ {c} : flight'[d] = flight[d]
  BY <1>1, <1>2
<1>5. more.chunk = flight[c][1].chunk /\ more.received = flight[c][1].received + Head(frames[c]).len
  BY <1>3 DEF InFlight
<1>. HIDE DEF more
<1>6. DOMAIN new = 1 .. Len(flight[c]) /\ new[1] = more /\ \A i \in 2 .. Len(flight[c]) : new[i] = flight[c][i]
  BY <1>3
<1>7. Len(new) = Len(flight[c])
  BY <1>3, <1>6
<1>. HIDE DEF new
<1>8. \A i \in 1 .. Len(flight[c]) : new[i].chunk = flight[c][i].chunk
  <2>. TAKE i \in 1 .. Len(flight[c])
  <2>1. i = 1 \/ i \in 2 .. Len(flight[c])
    BY <1>3
  <2>. QED
    BY <1>5, <1>6, <2>1
<1>. QED
  BY <1>3, <1>4, <1>5, <1>6, <1>7, <1>8

LEMMA DoneFlight ==
  ASSUME Types, NEW c \in Conns, IsDone(c)
  PROVE  LET m == Len(flight[c])
         IN  /\ \A d \in Conns \ {c} : flight'[d] = flight[d]
             /\ m \in Nat \ {0} /\ DOMAIN flight[c] = 1 .. m /\ Head(flight[c]) = flight[c][1]
             /\ Len(flight'[c]) = m - 1 /\ DOMAIN flight'[c] = 1 .. m - 1
             /\ \A i \in 1 .. m - 1 : flight'[c][i] = flight[c][i + 1] /\ i + 1 \in 1 .. m
<1>1. flight \in [Conns -> Seq(InFlight)] /\ flight[c] \in Seq(InFlight)
  BY TypeFacts
<1>2. flight[c] # << >> /\ flight' = [flight EXCEPT ![c] = Tail(@)]
  BY DEF IsDone
<1>3. flight'[c] = Tail(flight[c]) /\ \A d \in Conns \ {c} : flight'[d] = flight[d]
  BY <1>1, <1>2
<1>. QED
  BY <1>1, <1>2, <1>3, TailFacts

LEMMA LosesFlight ==
  ASSUME Types, NEW c \in Conns, Loses(c)
  PROVE  /\ \A d \in Conns \ {c} : flight'[d] = flight[d]
         /\ flight'[c] = << >> /\ Len(flight'[c]) = 0 /\ DOMAIN flight'[c] = {}
<1>1. flight \in [Conns -> Seq(InFlight)]
  BY TypeFacts
<1>2. flight' = [flight EXCEPT ![c] = << >>]
  BY DEF Loses
<1>. QED
  BY <1>1, <1>2

\* A chunk overlaps what has the same range: it is not empty.
LEMMA SameRange ==
  ASSUME NEW a \in ChunkType, NEW b, RangeOf(a) = RangeOf(b)
  PROVE  Overlaps(a, b)
<1>1. RangeOf(a).offset = a.offset /\ RangeOf(b).offset = b.offset /\ RangeOf(a).len = a.len /\ RangeOf(b).len = b.len
  BY DEF RangeOf
<1>2. a.offset = b.offset /\ a.len = b.len /\ a.offset \in Nat /\ a.len \in Nat \ {0}
  BY <1>1 DEF ChunkType
<1>. QED
  BY <1>2 DEF Overlaps

\* The first part of ClaimsMatch, range by range.
Claimed == \A x : x \in claimed <=> \E d \in Conns : \E i \in DOMAIN flight[d] : x = RangeOf(flight[d][i].chunk)

LEMMA ClaimsAre ==
  /\ ClaimsMatch => Claimed
  /\ Claimed /\ OnceInFlight /\ (\A d \in Conns : Len(flight[d]) <= Credit) => ClaimsMatch
<1>1. Claimed <=> claimed = UNION {{RangeOf(flight[c][i].chunk) : i \in DOMAIN flight[c]} : c \in Conns}
  <2>. DEFINE U == UNION {{RangeOf(flight[c][i].chunk) : i \in DOMAIN flight[c]} : c \in Conns}
  <2>1. \A x : x \in U <=> \E d \in Conns : \E i \in DOMAIN flight[d] : x = RangeOf(flight[d][i].chunk)
    OBVIOUS
  <2>. HIDE DEF U
  <2>2. Claimed <=> claimed = U
    BY <2>1 DEF Claimed
  <2>. QED
    BY <2>2 DEF U
<1>2. ASSUME Claimed, OnceInFlight
      PROVE  \A r, s \in claimed : r # s => ~Overlaps(r, s)
  <2>. SUFFICES ASSUME NEW r \in claimed, NEW s \in claimed, r # s
                PROVE  ~Overlaps(r, s)
    OBVIOUS
  <2>1. PICK c \in Conns : \E i \in DOMAIN flight[c] : r = RangeOf(flight[c][i].chunk)
    BY <1>2 DEF Claimed
  <2>2. PICK i \in DOMAIN flight[c] : r = RangeOf(flight[c][i].chunk)
    BY <2>1
  <2>3. PICK d \in Conns : \E j \in DOMAIN flight[d] : s = RangeOf(flight[d][j].chunk)
    BY <1>2 DEF Claimed
  <2>4. PICK j \in DOMAIN flight[d] : s = RangeOf(flight[d][j].chunk)
    BY <2>3
  <2>5. ~Overlaps(flight[c][i].chunk, flight[d][j].chunk)
    BY <1>2, <2>2, <2>4 DEF OnceInFlight
  <2>. QED
    BY <2>2, <2>4, <2>5 DEF Overlaps, RangeOf
<1>. QED
  BY <1>1, <1>2 DEF ClaimsMatch

LEMMA ClaimsAreNext ==
  (Claimed /\ OnceInFlight /\ (\A d \in Conns : Len(flight[d]) <= Credit) => ClaimsMatch)'
BY ClaimsAre, PTL

\* The type of what is in flight on any connection.
LEMMA FlightTyped ==
  ASSUME Types, NEW d \in Conns, NEW i \in DOMAIN flight[d]
  PROVE  /\ flight[d][i] \in InFlight /\ flight[d][i].chunk \in ChunkType /\ i \in Nat \ {0}
         /\ DOMAIN flight[d] = 1 .. Len(flight[d]) /\ Len(flight[d]) \in Nat
<1>1. flight[d] \in Seq(InFlight)
  BY TypeFacts
<1>2. flight[d][i] \in InFlight /\ i \in Nat \ {0}
      /\ DOMAIN flight[d] = 1 .. Len(flight[d]) /\ Len(flight[d]) \in Nat
  BY <1>1
<1>. QED
  BY <1>2 DEF InFlight

LEMMA AsksClaims ==
  ASSUME Types, OnceInFlight, ClaimsMatch, NEW c \in Conns, Asks(c)
  PROVE  OnceInFlight' /\ ClaimsMatch'
<1>. DEFINE m == Len(flight[c])
            chunk == Head(todo)
<1>1. /\ \A d \in Conns \ {c} : flight'[d] = flight[d]
      /\ m \in Nat /\ DOMAIN flight[c] = 1 .. m
      /\ Len(flight'[c]) = m + 1 /\ DOMAIN flight'[c] = 1 .. m + 1
      /\ \A i \in 1 .. m : flight'[c][i] = flight[c][i]
      /\ flight'[c][m + 1].chunk = chunk
  BY AsksFlight
<1>2. /\ HasCredit(c) /\ claimed' = claimed \cup {RangeOf(chunk)}
      /\ \A r \in claimed : ~Overlaps(r, chunk)
  BY DEF Asks
<1>3. Claimed /\ \A d \in Conns : Len(flight[d]) <= Credit
  BY ClaimsAre DEF ClaimsMatch
<1>. HIDE DEF chunk
<1>4. m + 1 \notin 1 .. m /\ \A i \in 1 .. m + 1 : i \in 1 .. m \/ i = m + 1
  BY <1>1
<1>5. \A d \in Conns : \A i \in DOMAIN flight'[d] :
        \/ i \in DOMAIN flight[d] /\ flight'[d][i].chunk = flight[d][i].chunk /\ <<d, i>> # <<c, m + 1>>
        \/ d = c /\ i = m + 1 /\ flight'[d][i].chunk = chunk
  <2>. TAKE d \in Conns
  <2>. TAKE i \in DOMAIN flight'[d]
  <2>1. CASE d # c
    BY <1>1, <2>1
  <2>2. CASE d = c /\ i \in 1 .. m
    <3>1. i # m + 1
      BY <1>4, <2>2
    <3>. QED
      BY <1>1, <2>2, <3>1
  <2>3. CASE d = c /\ i = m + 1
    BY <1>1, <2>3
  <2>. QED
    BY <1>1, <1>4, <2>1, <2>2, <2>3
<1>6. \A d \in Conns : \A i \in DOMAIN flight[d] : i \in DOMAIN flight'[d] /\ flight'[d][i].chunk = flight[d][i].chunk
  <2>. TAKE d \in Conns
  <2>1. CASE d # c
    BY <1>1, <2>1
  <2>2. CASE d = c
    <3>1. \A i \in 1 .. m : i \in 1 .. m + 1
      BY <1>1
    <3>. QED
      BY <1>1, <2>2, <3>1
  <2>. QED
    BY <2>1, <2>2
<1>7. m + 1 \in DOMAIN flight'[c]
  BY <1>1
<1>8. \A d \in Conns : \A i \in DOMAIN flight[d] : ~Overlaps(flight[d][i].chunk, chunk) /\ ~Overlaps(chunk, flight[d][i].chunk)
  <2>. TAKE d \in Conns
  <2>. TAKE i \in DOMAIN flight[d]
  <2>1. RangeOf(flight[d][i].chunk) \in claimed
    BY <1>3 DEF Claimed
  <2>2. ~Overlaps(RangeOf(flight[d][i].chunk), chunk)
    BY <1>2, <2>1
  <2>. QED
    BY <2>2 DEF Overlaps, RangeOf
<1>9. OnceInFlight'
  <2>. SUFFICES ASSUME NEW d \in Conns, NEW e \in Conns, NEW i \in DOMAIN flight'[d], NEW j \in DOMAIN flight'[e],
                       <<d, i>> # <<e, j>>
                PROVE  ~Overlaps(flight'[d][i].chunk, flight'[e][j].chunk)
    BY DEF OnceInFlight, Overlaps
  <2>. HIDE DEF m
  <2>1. CASE i \in DOMAIN flight[d] /\ flight'[d][i].chunk = flight[d][i].chunk
    <3>1. CASE j \in DOMAIN flight[e] /\ flight'[e][j].chunk = flight[e][j].chunk
      BY <2>1, <3>1 DEF OnceInFlight
    <3>2. CASE flight'[e][j].chunk = chunk
      BY <1>8, <2>1, <3>2
    <3>. QED
      BY <1>5, <3>1, <3>2
  <2>2. CASE d = c /\ i = m + 1 /\ flight'[d][i].chunk = chunk
    <3>1. j \in DOMAIN flight[e] /\ flight'[e][j].chunk = flight[e][j].chunk
      BY <1>5, <2>2
    <3>. QED
      BY <1>8, <2>2, <3>1
  <2>. QED
    BY <1>5, <2>1, <2>2
<1>10. Claimed'
  <2>. SUFFICES ASSUME NEW x
                PROVE  x \in claimed' <=> \E d \in Conns : \E i \in DOMAIN flight'[d] : x = RangeOf(flight'[d][i].chunk)
    BY DEF Claimed, RangeOf
  <2>. HIDE DEF m
  <2>1. ASSUME x \in claimed
        PROVE  \E d \in Conns : \E i \in DOMAIN flight'[d] : x = RangeOf(flight'[d][i].chunk)
    <3>1. PICK d \in Conns : \E i \in DOMAIN flight[d] : x = RangeOf(flight[d][i].chunk)
      BY <1>3, <2>1 DEF Claimed
    <3>. QED
      BY <1>6, <3>1
  <2>2. \E d \in Conns : \E i \in DOMAIN flight'[d] : RangeOf(chunk) = RangeOf(flight'[d][i].chunk)
    BY <1>1, <1>7
  <2>3. ASSUME NEW d \in Conns, NEW i \in DOMAIN flight'[d], x = RangeOf(flight'[d][i].chunk)
        PROVE  x \in claimed'
    BY <1>2, <1>3, <1>5, <2>3 DEF Claimed
  <2>. QED
    BY <1>2, <2>1, <2>2, <2>3
<1>11. \A d \in Conns : Len(flight'[d]) <= Credit
  <2>1. m < Credit /\ Credit \in Nat
    BY <1>2, FetchAssumption DEF HasCredit
  <2>. QED
    BY <1>1, <1>3, <2>1
<1>. QED
  BY <1>9, <1>10, <1>11, ClaimsAreNext

\* Some fetches are no longer in flight, and their ranges no longer claimed.
\* At[d][i] is where the fetch that is now at i was before.
Dropped(At, x) ==
  \E d \in Conns : \E k \in DOMAIN flight[d] :
    x = RangeOf(flight[d][k].chunk) /\ \A i \in DOMAIN flight'[d] : At[d][i] # k

LEMMA FewerClaims ==
  ASSUME Types, OnceInFlight, ClaimsMatch, NEW gone, NEW At,
         claimed' = claimed \ gone,
         \A d \in Conns : \A i \in DOMAIN flight'[d] :
           At[d][i] \in DOMAIN flight[d] /\ flight'[d][i].chunk = flight[d][At[d][i]].chunk,
         \A d \in Conns : \A i, j \in DOMAIN flight'[d] : At[d][i] = At[d][j] => i = j,
         \A x : x \in gone <=> Dropped(At, x),
         \A d \in Conns : Len(flight'[d]) <= Len(flight[d]),
         \A d \in Conns : Len(flight'[d]) \in Nat
  PROVE  OnceInFlight' /\ ClaimsMatch'
<1>1. Claimed /\ \A d \in Conns : Len(flight[d]) <= Credit
  BY ClaimsAre DEF ClaimsMatch
<1>5. \A x \in gone : \E e \in Conns : \E l \in DOMAIN flight[e] :
        x = RangeOf(flight[e][l].chunk) /\ \A j \in DOMAIN flight'[e] : At[e][j] # l
  <2>1. \A x \in gone : Dropped(At, x)
    OBVIOUS
  <2>. QED
    BY ONLY <2>1, Zenon DEF Dropped
<1>2. OnceInFlight'
  <2>. SUFFICES ASSUME NEW d \in Conns, NEW e \in Conns, NEW i \in DOMAIN flight'[d], NEW j \in DOMAIN flight'[e],
                       <<d, i>> # <<e, j>>
                PROVE  ~Overlaps(flight'[d][i].chunk, flight'[e][j].chunk)
    BY DEF OnceInFlight, Overlaps
  <2>1. <<d, At[d][i]>> # <<e, At[e][j]>>
    OBVIOUS
  <2>2. ~Overlaps(flight[d][At[d][i]].chunk, flight[e][At[e][j]].chunk)
    BY <2>1 DEF OnceInFlight
  <2>. QED
    BY <2>2
<1>3. Claimed'
  <2>. SUFFICES ASSUME NEW x
                PROVE  x \in claimed' <=> \E d \in Conns : \E i \in DOMAIN flight'[d] : x = RangeOf(flight'[d][i].chunk)
    BY DEF Claimed, RangeOf
  <2>1. ASSUME x \in claimed, x \notin gone
        PROVE  \E d \in Conns : \E i \in DOMAIN flight'[d] : x = RangeOf(flight'[d][i].chunk)
    <3>1. PICK d \in Conns : \E k \in DOMAIN flight[d] : x = RangeOf(flight[d][k].chunk)
      BY <1>1, <2>1 DEF Claimed
    <3>2. PICK k \in DOMAIN flight[d] : x = RangeOf(flight[d][k].chunk)
      BY <3>1
    <3>3. PICK i \in DOMAIN flight'[d] : At[d][i] = k
      BY <2>1, <3>2 DEF Dropped
    <3>. QED
      BY <3>2, <3>3
  <2>2. ASSUME NEW d \in Conns, NEW i \in DOMAIN flight'[d], x = RangeOf(flight'[d][i].chunk)
        PROVE  x \in claimed /\ x \notin gone
    <3>. DEFINE k == At[d][i]
    <3>1. k \in DOMAIN flight[d] /\ x = RangeOf(flight[d][k].chunk)
      BY <2>2
    <3>. HIDE DEF k
    <3>2. x \in claimed
      BY <1>1, <3>1 DEF Claimed
    <3>3. ASSUME NEW e \in Conns, NEW l \in DOMAIN flight[e], x = RangeOf(flight[e][l].chunk),
                 \A j \in DOMAIN flight'[e] : At[e][j] # l
          PROVE  FALSE
      <4>1. <<d, k>> # <<e, l>>
        BY <3>3 DEF k
      <4>2. ~Overlaps(flight[d][k].chunk, flight[e][l].chunk)
        BY <3>1, <4>1 DEF OnceInFlight
      <4>3. flight[d][k].chunk \in ChunkType
        BY <3>1, FlightTyped
      <4>4. RangeOf(flight[d][k].chunk) = RangeOf(flight[e][l].chunk)
        BY <3>1, <3>3
      <4>. QED
        BY <4>2, <4>3, <4>4, SameRange
    <3>4. ASSUME x \in gone
          PROVE  FALSE
      <4>1. PICK e \in Conns : \E l \in DOMAIN flight[e] :
              x = RangeOf(flight[e][l].chunk) /\ \A j \in DOMAIN flight'[e] : At[e][j] # l
        BY <1>5, <3>4
      <4>2. PICK l \in DOMAIN flight[e] :
              x = RangeOf(flight[e][l].chunk) /\ \A j \in DOMAIN flight'[e] : At[e][j] # l
        BY <4>1
      <4>. QED
        BY <3>3, <4>2
    <3>. QED
      BY <3>2, <3>4
  <2>. QED
    BY <2>1, <2>2
<1>4. \A d \in Conns : Len(flight'[d]) <= Credit
  <2>. TAKE d \in Conns
  <2>1. Len(flight[d]) <= Credit /\ Len(flight'[d]) <= Len(flight[d]) /\ Len(flight'[d]) \in Nat
    BY <1>1
  <2>2. Credit \in Nat
    BY FetchAssumption
  <2>3. Len(flight[d]) \in Nat
    <3>1. flight[d] \in Seq(InFlight)
      BY TypeFacts
    <3>. QED
      BY <3>1
  <2>. QED
    BY <2>1, <2>2, <2>3
<1>. QED
  BY <1>2, <1>3, <1>4, ClaimsAreNext

LEMMA GoesOnClaims ==
  ASSUME Types, OnceInFlight, ClaimsMatch, NEW c \in Conns, GoesOn(c)
  PROVE  OnceInFlight' /\ ClaimsMatch'
<1>. DEFINE At == [d \in Conns |-> [i \in Nat |-> i]]
<1>1. /\ \A d \in Conns \ {c} : flight'[d] = flight[d]
      /\ Len(flight'[c]) = Len(flight[c]) /\ DOMAIN flight'[c] = DOMAIN flight[c]
      /\ \A i \in DOMAIN flight[c] : flight'[c][i].chunk = flight[c][i].chunk
  BY GoesOnFlight
<1>2. claimed' = claimed \ {}
  BY DEF GoesOn
<1>3. \A d \in Conns : DOMAIN flight'[d] = DOMAIN flight[d] /\ Len(flight'[d]) = Len(flight[d])
                       /\ Len(flight[d]) \in Nat /\ DOMAIN flight[d] \subseteq Nat
  <2>. TAKE d \in Conns
  <2>1. DOMAIN flight'[d] = DOMAIN flight[d] /\ Len(flight'[d]) = Len(flight[d])
    BY <1>1
  <2>2. flight[d] \in Seq(InFlight)
    BY TypeFacts
  <2>3. Len(flight[d]) \in Nat /\ DOMAIN flight[d] \subseteq Nat
    BY <2>2
  <2>. QED
    BY <2>1, <2>3
<1>4. \A d \in Conns : \A i \in DOMAIN flight'[d] :
        At[d][i] = i /\ i \in DOMAIN flight[d] /\ flight'[d][i].chunk = flight[d][i].chunk
  BY <1>1, <1>3
<1>. HIDE DEF At
<1>5. \A d \in Conns : \A i \in DOMAIN flight'[d] :
        At[d][i] \in DOMAIN flight[d] /\ flight'[d][i].chunk = flight[d][At[d][i]].chunk
  BY <1>4
<1>6. \A d \in Conns : \A i, j \in DOMAIN flight'[d] : At[d][i] = At[d][j] => i = j
  BY <1>4
<1>7. \A x : x \in {} <=> Dropped(At, x)
  BY <1>3, <1>4 DEF Dropped
<1>8. \A d \in Conns : Len(flight'[d]) <= Len(flight[d])
  BY <1>3
<1>9. \A d \in Conns : Len(flight'[d]) \in Nat
  BY <1>3
<1>. QED
  BY <1>2, <1>5, <1>6, <1>7, <1>8, <1>9, FewerClaims

LEMMA DoneClaims ==
  ASSUME Types, OnceInFlight, ClaimsMatch, NEW c \in Conns, IsDone(c)
  PROVE  OnceInFlight' /\ ClaimsMatch'
<1>. DEFINE m == Len(flight[c])
            At == [d \in Conns |-> [i \in Nat |-> IF d = c THEN i + 1 ELSE i]]
            gone == {RangeOf(Head(flight[c]).chunk)}
<1>1. /\ \A d \in Conns \ {c} : flight'[d] = flight[d]
      /\ m \in Nat \ {0} /\ DOMAIN flight[c] = 1 .. m /\ Head(flight[c]) = flight[c][1]
      /\ Len(flight'[c]) = m - 1 /\ DOMAIN flight'[c] = 1 .. m - 1
      /\ \A i \in 1 .. m - 1 : flight'[c][i] = flight[c][i + 1] /\ i + 1 \in 1 .. m
  BY DoneFlight
<1>2. claimed' = claimed \ gone
  BY DEF IsDone
<1>3. \A d \in Conns \ {c} : DOMAIN flight'[d] = DOMAIN flight[d] /\ Len(flight'[d]) = Len(flight[d])
                             /\ Len(flight[d]) \in Nat /\ DOMAIN flight[d] \subseteq Nat
  <2>. TAKE d \in Conns \ {c}
  <2>1. flight'[d] = flight[d] /\ flight[d] \in Seq(InFlight)
    BY <1>1, TypeFacts
  <2>2. Len(flight[d]) \in Nat /\ DOMAIN flight[d] \subseteq Nat
    BY <2>1
  <2>. QED
    BY <2>1, <2>2
<1>4. \A d \in Conns \ {c} : \A i \in DOMAIN flight'[d] : At[d][i] = i
  BY <1>3
<1>5. \A i \in 1 .. m - 1 : At[c][i] = i + 1
  BY <1>1
<1>. HIDE DEF At, m
<1>6. \A d \in Conns : \A i \in DOMAIN flight'[d] :
        At[d][i] \in DOMAIN flight[d] /\ flight'[d][i].chunk = flight[d][At[d][i]].chunk
  <2>. TAKE d \in Conns
  <2>. TAKE i \in DOMAIN flight'[d]
  <2>1. CASE d = c
    BY <1>1, <1>5, <2>1
  <2>2. CASE d # c
    BY <1>1, <1>3, <1>4, <2>2
  <2>. QED
    BY <2>1, <2>2
<1>7. \A d \in Conns : \A i, j \in DOMAIN flight'[d] : At[d][i] = At[d][j] => i = j
  <2>. TAKE d \in Conns
  <2>1. CASE d = c
    <3>1. \A i, j \in 1 .. m - 1 : i + 1 = j + 1 => i = j
      BY <1>1
    <3>. QED
      BY <1>1, <1>5, <2>1, <3>1
  <2>2. CASE d # c
    BY <1>4, <2>2
  <2>. QED
    BY <2>1, <2>2
<1>8. \A i \in 1 .. m : i = 1 \/ (i - 1 \in 1 .. m - 1 /\ (i - 1) + 1 = i)
  BY <1>1
<1>9. \A i \in 1 .. m - 1 : i + 1 # 1
  BY <1>1
<1>10. ASSUME NEW x
       PROVE  x \in gone <=> Dropped(At, x)
  <2>1. 1 \in DOMAIN flight[c] /\ \A i \in DOMAIN flight'[c] : At[c][i] # 1
    BY <1>1, <1>5, <1>9
  <2>2. ASSUME NEW d \in Conns, NEW k \in DOMAIN flight[d], \A i \in DOMAIN flight'[d] : At[d][i] # k
        PROVE  d = c /\ k = 1
    <3>1. CASE d = c
      <4>1. k \in 1 .. m
        BY <1>1, <3>1
      <4>2. ASSUME k # 1
            PROVE  FALSE
        <5>1. k - 1 \in 1 .. m - 1 /\ (k - 1) + 1 = k
          BY <1>8, <4>1, <4>2
        <5>2. At[c][k - 1] = k
          BY <1>5, <5>1
        <5>3. k - 1 \in DOMAIN flight'[d]
          BY <1>1, <3>1, <5>1
        <5>. QED
          BY <2>2, <3>1, <5>2, <5>3
      <4>. QED
        BY <3>1, <4>2
    <3>2. CASE d # c
      BY <1>3, <1>4, <2>2, <3>2
    <3>. QED
      BY <3>1, <3>2
  <2>3. x \in gone <=> x = RangeOf(flight[c][1].chunk)
    BY <1>1
  <2>. HIDE DEF gone
  <2>. QED
    BY <2>1, <2>2, <2>3 DEF Dropped
<1>11. \A d \in Conns : Len(flight'[d]) <= Len(flight[d]) /\ Len(flight'[d]) \in Nat
  <2>. TAKE d \in Conns
  <2>1. CASE d = c
    BY <1>1, <2>1 DEF m
  <2>2. CASE d # c
    BY <1>3, <2>2
  <2>. QED
    BY <2>1, <2>2
<1>. HIDE DEF gone
<1>. QED
  BY <1>2, <1>6, <1>7, <1>10, <1>11, FewerClaims

LEMMA LosesClaims ==
  ASSUME Types, OnceInFlight, ClaimsMatch, NEW c \in Conns, Loses(c)
  PROVE  OnceInFlight' /\ ClaimsMatch'
<1>. DEFINE At == [d \in Conns |-> [i \in Nat |-> i]]
            gone == FlightRanges(c)
<1>1. /\ \A d \in Conns \ {c} : flight'[d] = flight[d]
      /\ Len(flight'[c]) = 0 /\ DOMAIN flight'[c] = {}
  BY LosesFlight
<1>2. claimed' = claimed \ gone
  BY DEF Loses
<1>3. \A d \in Conns : Len(flight[d]) \in Nat /\ DOMAIN flight[d] \subseteq Nat
  <2>. TAKE d \in Conns
  <2>1. flight[d] \in Seq(InFlight)
    BY TypeFacts
  <2>. QED
    BY <2>1
<1>4. \A d \in Conns \ {c} : DOMAIN flight'[d] = DOMAIN flight[d] /\ \A i \in DOMAIN flight'[d] : At[d][i] = i
  BY <1>1, <1>3
<1>. HIDE DEF At
<1>5. \A d \in Conns : \A i \in DOMAIN flight'[d] :
        At[d][i] \in DOMAIN flight[d] /\ flight'[d][i].chunk = flight[d][At[d][i]].chunk
  BY <1>1, <1>4
<1>6. \A d \in Conns : \A i, j \in DOMAIN flight'[d] : At[d][i] = At[d][j] => i = j
  BY <1>1, <1>4
<1>7. ASSUME NEW x
      PROVE  x \in gone <=> Dropped(At, x)
  <2>1. x \in gone <=> \E k \in DOMAIN flight[c] : x = RangeOf(flight[c][k].chunk)
    BY DEF FlightRanges
  <2>. HIDE DEF gone
  <2>2. \A k \in DOMAIN flight[c] : \A i \in DOMAIN flight'[c] : At[c][i] # k
    BY <1>1
  <2>3. \A d \in Conns : \A k \in DOMAIN flight[d] : (\A i \in DOMAIN flight'[d] : At[d][i] # k) => d = c
    BY <1>4
  <2>. QED
    BY <2>1, <2>2, <2>3 DEF Dropped
<1>8. \A d \in Conns : Len(flight'[d]) <= Len(flight[d]) /\ Len(flight'[d]) \in Nat
  <2>. TAKE d \in Conns
  <2>1. CASE d = c
    BY <1>1, <1>3, <2>1
  <2>2. CASE d # c
    BY <1>1, <1>3, <2>2
  <2>. QED
    BY <2>1, <2>2
<1>. HIDE DEF gone
<1>. QED
  BY <1>2, <1>5, <1>6, <1>7, <1>8, FewerClaims

---------------------------------------------------------------------------
(* The order of what is on its way, as one connection sees it.             *)

\* One fetch more.
LEMMA AskInOrder ==
  ASSUME NEW fl \in Seq(InFlight), NEW fr, Len(fr) \in Nat, NEW se, NEW fe \in Seq(Request), NEW chunk \in ChunkType,
         Pipelined(fl, fr, se, fe)
  PROVE  Pipelined(Append(fl, [chunk |-> chunk, received |-> 0]), fr, se, Append(fe, FetchFrame(chunk)))
<1>. DEFINE x == [chunk |-> chunk, received |-> 0]
            fl2 == Append(fl, x)
            fe2 == Append(fe, FetchFrame(chunk))
            m == Len(fl)
<1>1. x \in InFlight /\ FetchFrame(chunk) \in Request /\ x.chunk = chunk /\ x.received = 0
  BY DEF InFlight, FetchFrame, Request, ChunkType
<1>. HIDE DEF x
<1>2. /\ m \in Nat /\ Len(fl2) = m + 1
      /\ \A i \in 1 .. m : fl2[i] = fl[i]
      /\ fl2[m + 1] = x
  BY <1>1, AppendFacts
<1>3. /\ Len(fe) \in Nat /\ Len(fe2) = Len(fe) + 1
      /\ \A i \in 1 .. Len(fe) : fe2[i] = fe[i]
      /\ fe2[Len(fe) + 1] = FetchFrame(chunk)
  BY <1>1, AppendFacts
<1>. HIDE DEF fl2, fe2, m
<1>4. PICK n \in 0 .. Len(fr) : \E own \in [1 .. n + 1 -> 1 .. m + 1] : InOrder(fl, fr, se, fe, n, own)
  BY DEF Pipelined, m
<1>5. PICK own \in [1 .. n + 1 -> 1 .. m + 1] : InOrder(fl, fr, se, fe, n, own)
  BY <1>4
<1>6. /\ own[1] = 1
      /\ \A i, j \in 1 .. n + 1 : i <= j => own[i] <= own[j]
      /\ \A i \in 1 .. n : own[i] <= m /\ Answers(fl, fr, own, i)
      /\ IF n < Len(fr) THEN fr[n + 1].type = "closed"
         ELSE Behind(fl, se, fe, own[n + 1], Begins(fl, fr, own, n + 1))
  BY <1>5 DEF InOrder, m
<1>7. n \in Nat /\ n + 1 \in 1 .. n + 1 /\ \A i \in 1 .. n : i \in 1 .. n + 1
  OBVIOUS
<1>8. \A i \in 1 .. n : own[i] \in 1 .. m
  <2>. TAKE i \in 1 .. n
  <2>1. own[i] \in 1 .. m + 1 /\ own[i] <= m
    BY <1>6, <1>7
  <2>. QED
    BY <1>2, <2>1
<1>9. ASSUME NEW i \in 1 .. n + 1, own[i] \in 1 .. m
      PROVE  Begins(fl2, fr, own, i) = Begins(fl, fr, own, i)
  BY <1>2, <1>9 DEF Begins
<1>10. ASSUME NEW i \in 1 .. n
       PROVE  own[i] <= Len(fl2) /\ Answers(fl2, fr, own, i)
  <2>1. own[i] \in 1 .. m /\ fl2[own[i]] = fl[own[i]]
    BY <1>2, <1>8
  <2>2. Begins(fl2, fr, own, i) = Begins(fl, fr, own, i)
    BY <1>7, <1>9, <2>1
  <2>3. Answers(fl2, fr, own, i)
    BY <1>6, <2>1, <2>2 DEF Answers, GoesOnWith, Fails
  <2>. QED
    BY <1>2, <2>1, <2>3
<1>. DEFINE k == own[n + 1]
<1>11. k \in 1 .. m + 1
  BY <1>7
<1>12. ASSUME NEW first \in 1 .. m + 1, Follow(fl, fe, first)
       PROVE  Follow(fl2, fe2, first)
  <2>1. /\ Len(fe) = m + 1 - first
        /\ \A j \in 1 .. Len(fe) : fe[j] = FetchFrame(fl[first + j - 1].chunk)
    BY <1>12 DEF Follow, m
  <2>2. Len(fe2) = Len(fl2) + 1 - first
    BY <1>2, <1>3, <2>1
  <2>3. ASSUME NEW j \in 1 .. Len(fe2)
        PROVE  fe2[j] = FetchFrame(fl2[first + j - 1].chunk)
    <3>1. CASE j = Len(fe) + 1
      <4>1. first + j - 1 = m + 1
        <5>1. Len(fe) = m + 1 - first /\ j = Len(fe) + 1 /\ first \in 1 .. m + 1 /\ m \in Nat
          BY <1>2, <2>1, <3>1
        <5>. QED
          BY ONLY <5>1
      <4>. QED
        BY <1>1, <1>2, <1>3, <3>1, <4>1
    <3>2. CASE j # Len(fe) + 1
      <4>1. j \in 1 .. Len(fe) /\ first + j - 1 \in 1 .. m
        BY <1>2, <1>3, <2>1, <3>2
      <4>. QED
        BY <1>2, <1>3, <2>1, <4>1
    <3>. QED
      BY <3>1, <3>2
  <2>. QED
    BY <2>2, <2>3 DEF Follow
<1>13. ASSUME ~(n < Len(fr))
       PROVE  Behind(fl2, se, fe2, k, Begins(fl2, fr, own, n + 1))
  <2>1. Behind(fl, se, fe, k, Begins(fl, fr, own, n + 1))
    BY <1>6, <1>13
  <2>2. CASE k \in 1 .. m
    <3>1. fl2[k] = fl[k] /\ Begins(fl2, fr, own, n + 1) = Begins(fl, fr, own, n + 1)
      BY <1>2, <1>7, <1>9, <2>2
    <3>2. Follow(fl, fe, k) => Follow(fl2, fe2, k)
      BY <1>11, <1>12
    <3>3. k + 1 \in 1 .. m + 1
      BY <1>2, <2>2
    <3>4. Follow(fl, fe, k + 1) => Follow(fl2, fe2, k + 1)
      BY <1>12, <3>3
    <3>5. k <= Len(fl2) /\ k <= Len(fl)
      BY <1>2, <2>2 DEF m
    <3>. HIDE DEF k
    <3>. QED
      BY <2>1, <3>1, <3>2, <3>4, <3>5 DEF Behind
  <2>3. CASE k = m + 1
    <3>1. ~(k <= Len(fl))
      BY <1>2, <2>3 DEF m
    <3>2. se = << >> /\ Follow(fl, fe, k)
      BY <2>1, <3>1 DEF Behind
    <3>3. Follow(fl2, fe2, k)
      BY <1>11, <1>12, <3>2
    <3>4. Begins(fl2, fr, own, n + 1) = fl2[k].chunk.offset + fl2[k].received
      <4>1. ASSUME n + 1 > 1
            PROVE  own[n + 1] # own[(n + 1) - 1]
        <5>1. n \in 1 .. n /\ (n + 1) - 1 = n
          BY <4>1, <1>7
        <5>2. own[n] <= m /\ own[n] \in Nat
          BY <1>8, <5>1
        <5>. QED
          BY <1>2, <2>3, <5>1, <5>2
      <4>. QED
        BY <4>1 DEF Begins
    <3>5. Begins(fl2, fr, own, n + 1) = fl2[k].chunk.offset
      <4>1. fl2[k].received = 0 /\ fl2[k].chunk = chunk
        BY <1>1, <1>2, <2>3
      <4>2. chunk.offset \in Nat
        BY DEF ChunkType
      <4>. QED
        BY <3>4, <4>1, <4>2
    <3>. HIDE DEF k
    <3>. QED
      BY <3>2, <3>3, <3>5 DEF Behind
  <2>. QED
    BY <1>2, <1>11, <2>2, <2>3
<1>14. InOrder(fl2, fr, se, fe2, n, own)
  BY <1>6, <1>10, <1>13 DEF InOrder
<1>15. own \in [1 .. n + 1 -> 1 .. Len(fl2) + 1]
  BY <1>2, <1>7
<1>16. Pipelined(fl2, fr, se, fe2)
  BY <1>14, <1>15 DEF Pipelined
<1>. QED
  BY <1>16 DEF fl2, fe2, x

\* The head of the frames is taken, and with it (d = 1) or not (d = 0) the head
\* of what is in flight.
LEMMA NextInOrder ==
  ASSUME NEW fl, NEW fl2, NEW fr, NEW fr2, NEW se, NEW fe, NEW n \in 1 .. Len(fr), NEW d \in 0 .. 1,
         Len(fl) \in Nat \ {0}, Len(fr) \in Nat \ {0}, Len(fe) \in Nat,
         NEW own \in [1 .. n + 1 -> 1 .. Len(fl) + 1], InOrder(fl, fr, se, fe, n, own), own[2] = 1 + d,
         Len(fr2) = Len(fr) - 1, \A i \in 1 .. Len(fr) - 1 : fr2[i] = fr[i + 1],
         Len(fl2) = Len(fl) - d, \A i \in 1 .. Len(fl) - d : fl2[i].chunk = fl[i + d].chunk,
         \A i \in 1 .. Len(fl) - d : i + d # 1 => fl2[i].received = fl[i + d].received,
         d = 0 => fl2[1].chunk.offset + fl2[1].received = fr[1].offset + fr[1].len
  PROVE  Pipelined(fl2, fr2, se, fe)
<1>. DEFINE m == Len(fl)
            z == Len(fr)
            own2 == [i \in 1 .. n |-> own[i + 1] - d]
<1>0. m \in Nat \ {0} /\ z \in Nat \ {0} /\ n \in 1 .. z /\ d \in Nat /\ (d = 0 \/ d = 1)
  OBVIOUS
<1>1. own \in [1 .. n + 1 -> 1 .. m + 1]
  OBVIOUS
<1>2. /\ own[1] = 1
      /\ \A i, j \in 1 .. n + 1 : i <= j => own[i] <= own[j]
      /\ \A i \in 1 .. n : own[i] <= m /\ Answers(fl, fr, own, i)
      /\ IF n < z THEN fr[n + 1].type = "closed"
         ELSE Behind(fl, se, fe, own[n + 1], Begins(fl, fr, own, n + 1))
  BY DEF InOrder
<1>3. /\ Len(fr2) = z - 1 /\ \A i \in 1 .. z - 1 : fr2[i] = fr[i + 1]
      /\ Len(fl2) = m - d /\ \A i \in 1 .. m - d : fl2[i].chunk = fl[i + d].chunk
      /\ \A i \in 1 .. m - d : i + d # 1 => fl2[i].received = fl[i + d].received
  OBVIOUS
<1>. HIDE DEF m, z
<1>4. \A i \in 1 .. n : i + 1 \in 1 .. n + 1 /\ i \in 1 .. n + 1
  BY <1>0
<1>20. \A i \in 1 .. n + 1 : own[i] \in 1 .. m + 1 /\ own[i] \in Nat
  <2>. TAKE i \in 1 .. n + 1
  <2>1. own[i] \in 1 .. m + 1
    BY <1>1
  <2>. QED
    BY ONLY <1>0, <2>1
<1>5. \A i \in 1 .. n : own[i + 1] \in 1 + d .. m + 1
  <2>. TAKE i \in 1 .. n
  <2>1. own[i + 1] \in 1 .. m + 1 /\ own[2] <= own[i + 1]
    <3>1. 2 \in 1 .. n + 1 /\ 2 <= i + 1
      BY <1>0
    <3>. QED
      BY <1>2, <1>4, <1>20, <3>1
  <2>. QED
    BY <1>0, <2>1
<1>6. \A i \in 1 .. n : own2[i] = own[i + 1] - d /\ own2[i] \in 1 .. (m - d) + 1
  <2>. TAKE i \in 1 .. n
  <2>1. own2[i] = own[i + 1] - d
    OBVIOUS
  <2>2. own[i + 1] \in 1 + d .. m + 1
    BY <1>5
  <2>. QED
    BY ONLY SMTT(30), <1>0, <2>1, <2>2
<1>7. own2 \in [1 .. n -> 1 .. (m - d) + 1]
  BY <1>6
<1>. HIDE DEF own2
<1>8. ASSUME NEW i \in 1 .. n, own2[i] <= m - d
      PROVE  own2[i] + d = own[i + 1] /\ fl2[own2[i]].chunk = fl[own[i + 1]].chunk
  <2>1. own2[i] \in 1 .. m - d
    <3>1. own2[i] \in 1 .. (m - d) + 1 /\ own2[i] <= m - d
      BY <1>6, <1>8
    <3>. QED
      BY ONLY <1>0, <3>1
  <2>2. own2[i] + d = own[i + 1]
    <3>1. own2[i] = own[i + 1] - d /\ own[i + 1] \in 1 + d .. m + 1
      BY <1>5, <1>6
    <3>. QED
      BY ONLY <1>0, <3>1
  <2>. QED
    BY <1>3, <2>1, <2>2
<1>9. ASSUME NEW i \in 1 .. n, own2[i] <= m - d
      PROVE  Begins(fl2, fr2, own2, i) = Begins(fl, fr, own, i + 1)
  <2>1. own2[i] \in 1 .. m - d
    <3>1. own2[i] \in 1 .. (m - d) + 1 /\ own2[i] <= m - d
      BY <1>6, <1>9
    <3>. QED
      BY ONLY <1>0, <3>1
  <2>2. own2[i] + d = own[i + 1] /\ fl2[own2[i]].chunk = fl[own[i + 1]].chunk
    BY <1>8, <1>9
  <2>3. i + 1 > 1 /\ (i + 1) - 1 = i
    BY <1>0
  <2>4. ASSUME own[i + 1] # own[i]
        PROVE  fl2[own2[i]].received = fl[own[i + 1]].received
    <3>1. own[i] \in 1 .. m + 1 /\ own[i + 1] \in 1 .. m + 1 /\ own[i] <= own[i + 1]
      <4>1. i <= i + 1
        BY <1>0
      <4>. QED
        BY <1>2, <1>4, <1>20, <4>1
    <3>2. own[i + 1] # 1
      BY ONLY <1>0, <2>4, <3>1
    <3>. QED
      BY <1>3, <2>1, <2>2, <3>2
  <2>5. CASE i = 1
    <3>1. ~(i > 1)
      BY <2>5
    <3>2. Begins(fl2, fr2, own2, i) = fl2[own2[i]].chunk.offset + fl2[own2[i]].received
      BY <3>1 DEF Begins
    <3>3. own[i + 1] = 1 + d /\ own[i] = 1
      BY <1>2, <2>5
    <3>4. CASE d = 0
      <4>1. own[i + 1] = own[i] /\ own2[i] = 1
        <5>1. own2[i] = own[i + 1] - d
          BY <1>6
        <5>. QED
          BY ONLY <3>3, <3>4, <5>1
      <4>2. Begins(fl, fr, own, i + 1) = fr[i].offset + fr[i].len
        BY <2>3, <4>1 DEF Begins
      <4>. QED
        BY <2>5, <3>2, <3>4, <4>1, <4>2
    <3>5. CASE d = 1
      <4>1. own[i + 1] # own[i]
        BY <3>3, <3>5
      <4>2. Begins(fl, fr, own, i + 1) = fl[own[i + 1]].chunk.offset + fl[own[i + 1]].received
        BY <2>3, <4>1 DEF Begins
      <4>. QED
        BY <2>2, <2>4, <3>2, <4>1, <4>2
    <3>. QED
      BY <3>4, <3>5
  <2>6. CASE i # 1
    <3>1. i > 1 /\ i - 1 \in 1 .. n /\ (i - 1) + 1 = i /\ i - 1 \in 1 .. z - 1
      BY <1>0, <2>6
    <3>2. fr2[i - 1] = fr[i]
      BY <1>3, <3>1
    <3>3. own2[i] = own2[i - 1] <=> own[i + 1] = own[i]
      <4>1. own2[i] = own[i + 1] - d /\ own2[i - 1] = own[i] - d
        BY <1>6, <3>1
      <4>2. own[i + 1] \in Nat /\ own[i] \in Nat
        BY <1>4, <1>20
      <4>. QED
        BY ONLY SMTT(30), <1>0, <4>1, <4>2
    <3>4. CASE own[i + 1] = own[i]
      <4>1. Begins(fl2, fr2, own2, i) = fr2[i - 1].offset + fr2[i - 1].len
        BY <3>1, <3>3, <3>4 DEF Begins
      <4>2. Begins(fl, fr, own, i + 1) = fr[i].offset + fr[i].len
        BY <2>3, <3>4 DEF Begins
      <4>. QED
        BY <3>2, <4>1, <4>2
    <3>5. CASE own[i + 1] # own[i]
      <4>1. Begins(fl2, fr2, own2, i) = fl2[own2[i]].chunk.offset + fl2[own2[i]].received
        BY <3>3, <3>5 DEF Begins
      <4>2. Begins(fl, fr, own, i + 1) = fl[own[i + 1]].chunk.offset + fl[own[i + 1]].received
        BY <2>3, <3>5 DEF Begins
      <4>. QED
        BY <2>2, <2>4, <3>5, <4>1, <4>2
    <3>. QED
      BY <3>4, <3>5
  <2>. QED
    BY <2>5, <2>6
<1>10. ASSUME NEW i \in 1 .. n - 1
       PROVE  own2[i] <= m - d /\ Answers(fl2, fr2, own2, i)
  <2>1. i \in 1 .. n /\ i + 1 \in 1 .. n /\ i \in 1 .. z - 1
    BY <1>0
  <2>2. own[i + 1] <= m /\ Answers(fl, fr, own, i + 1)
    BY <1>2, <2>1
  <2>3. own2[i] <= m - d
    <3>1. own2[i] = own[i + 1] - d /\ own[i + 1] \in 1 + d .. m + 1
      BY <1>5, <1>6, <2>1
    <3>. QED
      BY ONLY <1>0, <2>2, <3>1
  <2>4. /\ fl2[own2[i]].chunk = fl[own[i + 1]].chunk
        /\ Begins(fl2, fr2, own2, i) = Begins(fl, fr, own, i + 1)
        /\ fr2[i] = fr[i + 1]
    BY <1>3, <1>8, <1>9, <2>1, <2>3
  <2>5. own2[i] = own[i + 1] - d /\ own2[i + 1] = own[(i + 1) + 1] - d /\ own[i + 1] \in Nat /\ own[(i + 1) + 1] \in Nat
    <3>1. i + 1 \in 1 .. n + 1 /\ (i + 1) + 1 \in 1 .. n + 1
      BY <1>4, <2>1
    <3>. QED
      BY <1>6, <1>20, <2>1, <3>1
  <2>6. /\ own2[i + 1] = own2[i] <=> own[(i + 1) + 1] = own[i + 1]
        /\ own2[i + 1] = own2[i] + 1 <=> own[(i + 1) + 1] = own[i + 1] + 1
    <3>1. \A a, b \in Nat : (a - d = b - d <=> a = b) /\ (a - d = (b - d) + 1 <=> a = b + 1)
      BY ONLY <1>0
    <3>. DEFINE a == own[i + 1]
                b == own[(i + 1) + 1]
                a2 == own2[i]
                b2 == own2[i + 1]
    <3>2. a \in Nat /\ b \in Nat /\ a2 = a - d /\ b2 = b - d
      BY <2>5
    <3>. HIDE DEF a, b, a2, b2
    <3>3. (b2 = a2 <=> b = a) /\ (b2 = a2 + 1 <=> b = a + 1)
      BY <3>1, <3>2
    <3>. QED
      BY <3>3 DEF a, b, a2, b2
  <2>7. Answers(fl2, fr2, own2, i)
    BY <2>2, <2>4, <2>6 DEF Answers, GoesOnWith, Fails
  <2>. QED
    BY <2>3, <2>7
<1>. DEFINE k == own[n + 1]
<1>11. n \in 1 .. n /\ k \in 1 + d .. m + 1 /\ own2[n] = k - d
  <2>1. n \in 1 .. n
    BY <1>0
  <2>. QED
    BY <1>5, <1>6, <2>1
<1>12. ASSUME NEW first \in 1 + d .. m + 1, Follow(fl, fe, first)
       PROVE  Follow(fl2, fe, first - d)
  <2>1. /\ Len(fe) = m + 1 - first
        /\ \A j \in 1 .. Len(fe) : fe[j] = FetchFrame(fl[first + j - 1].chunk)
    BY <1>12 DEF Follow, m
  <2>2. Len(fe) = Len(fl2) + 1 - (first - d)
    <3>1. Len(fe) = m + 1 - first /\ Len(fl2) = m - d /\ first \in 1 + d .. m + 1
      BY <1>3, <2>1
    <3>. QED
      BY ONLY <1>0, <3>1
  <2>3. ASSUME NEW j \in 1 .. Len(fe)
        PROVE  fe[j] = FetchFrame(fl2[(first - d) + j - 1].chunk)
    <3>1. (first - d) + j - 1 \in 1 .. m - d /\ ((first - d) + j - 1) + d = first + j - 1
      <4>1. Len(fe) = m + 1 - first /\ first \in 1 + d .. m + 1 /\ j \in 1 .. Len(fe)
        BY <2>1
      <4>. QED
        BY ONLY <1>0, <4>1
    <3>2. fl2[(first - d) + j - 1].chunk = fl[first + j - 1].chunk
      BY <1>3, <3>1
    <3>. QED
      BY <2>1, <3>2
  <2>. QED
    BY <2>2, <2>3 DEF Follow
<1>13. ASSUME n = z
       PROVE  Behind(fl2, se, fe, own2[n], Begins(fl2, fr2, own2, n))
  <2>1. Behind(fl, se, fe, k, Begins(fl, fr, own, n + 1))
    BY <1>0, <1>2, <1>13
  <2>. HIDE DEF k
  <2>2. k <= m <=> own2[n] <= m - d
    BY ONLY <1>0, <1>11
  <2>3. own2[n] <= m - d => /\ fl2[own2[n]].chunk = fl[k].chunk
                            /\ Begins(fl2, fr2, own2, n) = Begins(fl, fr, own, n + 1)
    BY <1>8, <1>9, <1>11 DEF k
  <2>4. Follow(fl, fe, k) => Follow(fl2, fe, own2[n])
    BY <1>11, <1>12
  <2>5. k <= m => (Follow(fl, fe, k + 1) => Follow(fl2, fe, own2[n] + 1))
    <3>. SUFFICES ASSUME k <= m, Follow(fl, fe, k + 1)
                  PROVE  Follow(fl2, fe, own2[n] + 1)
      OBVIOUS
    <3>1. k + 1 \in 1 + d .. m + 1 /\ (k + 1) - d = own2[n] + 1
      <4>1. k <= m
        OBVIOUS
      <4>. QED
        BY ONLY <1>0, <1>11, <4>1
    <3>2. Follow(fl2, fe, (k + 1) - d)
      BY <1>12, <3>1
    <3>. QED
      BY <3>1, <3>2
  <2>6. Len(fl) = m /\ Len(fl2) = m - d
    BY <1>3 DEF m
  <2>. QED
    BY <2>1, <2>2, <2>3, <2>4, <2>5, <2>6 DEF Behind
<1>14. InOrder(fl2, fr2, se, fe, n - 1, own2)
  <2>1. (n - 1) + 1 = n /\ Len(fl2) = m - d /\ Len(fr2) = z - 1
    BY <1>0, <1>3
  <2>2. own2[1] = 1
    <3>1. 1 \in 1 .. n /\ own[1 + 1] = 1 + d
      BY <1>0
    <3>2. own2[1] = own[1 + 1] - d
      BY <1>6, <3>1
    <3>. QED
      BY ONLY <1>0, <3>1, <3>2
  <2>3. \A i, j \in 1 .. n : i <= j => own2[i] <= own2[j]
    <3>. SUFFICES ASSUME NEW i \in 1 .. n, NEW j \in 1 .. n, i <= j
                  PROVE  own2[i] <= own2[j]
      OBVIOUS
    <3>1. i + 1 \in 1 .. n + 1 /\ j + 1 \in 1 .. n + 1 /\ i + 1 <= j + 1
      BY <1>0
    <3>2. own[i + 1] <= own[j + 1] /\ own[i + 1] \in Nat /\ own[j + 1] \in Nat
      BY <1>2, <1>20, <3>1
    <3>3. own2[i] = own[i + 1] - d /\ own2[j] = own[j + 1] - d
      BY <1>6
    <3>. QED
      BY ONLY SMTT(30), <1>0, <3>2, <3>3
  <2>4. IF n - 1 < z - 1 THEN fr2[n].type = "closed" ELSE Behind(fl2, se, fe, own2[n], Begins(fl2, fr2, own2, n))
    <3>1. CASE n = z
      BY <1>0, <1>13, <3>1
    <3>2. CASE n # z
      <4>1. n < z /\ n - 1 < z - 1 /\ n \in 1 .. z - 1
        BY <1>0, <3>2
      <4>. QED
        BY <1>2, <1>3, <4>1
    <3>. QED
      BY <3>1, <3>2
  <2>. QED
    BY <1>10, <2>1, <2>2, <2>3, <2>4 DEF InOrder
<1>15. n - 1 \in 0 .. Len(fr2) /\ own2 \in [1 .. (n - 1) + 1 -> 1 .. Len(fl2) + 1]
  <2>1. (n - 1) + 1 = n /\ n - 1 \in 0 .. Len(fr2)
    BY <1>0, <1>3
  <2>. QED
    BY <1>3, <1>7, <2>1
<1>. QED
  BY <1>14, <1>15 DEF Pipelined

\* Nothing is on its way.
LEMMA EmptyInOrder ==
  Pipelined(<< >>, << >>, << >>, << >>)
<1>. DEFINE own == [i \in 1 .. 0 + 1 |-> 1]
<1>1. own \in [1 .. 0 + 1 -> 1 .. Len(<< >>) + 1] /\ own[1] = 1 /\ own[0 + 1] = 1 /\ Len(<< >>) = 0
  OBVIOUS
<1>. HIDE DEF own
<1>2. Follow(<< >>, << >>, 1)
  BY DEF Follow
<1>3. \A at : Behind(<< >>, << >>, << >>, 1, at)
  BY <1>2 DEF Behind
<1>4. InOrder(<< >>, << >>, << >>, << >>, 0, own)
  BY <1>1, <1>3 DEF InOrder
<1>5. 0 \in 0 .. Len(<< >>) /\ own \in [1 .. 0 + 1 -> 1 .. Len(<< >>) + 1]
  BY <1>1
<1>. QED
  BY <1>4, <1>5, Zenon DEF Pipelined

\* Frame x goes on with fetch k at `at`, or ends it, and leaves the server with
\* se and fe.
Carries(fl, x, se, fe, k, at) ==
  LET next == fl[k + 1].chunk.offset + fl[k + 1].received
  IN  /\ k <= Len(fl)
      /\ \/ /\ x.type = "data" /\ x.len \in Nat \ {0}
            /\ x.offset = at /\ x.at = x.offset /\ x.offset + x.len <= EndOf(fl[k].chunk)
            /\ IF x.offset + x.len = EndOf(fl[k].chunk) THEN Behind(fl, se, fe, k + 1, next)
               ELSE Behind(fl, se, fe, k, x.offset + x.len)
         \/ /\ x.type = "error" /\ x.class # "none" /\ x.offset = fl[k].chunk.offset
            /\ Behind(fl, se, fe, k + 1, next)

\* One frame more on its way back.
LEMMA ReplyInOrder ==
  ASSUME NEW fl, NEW fr, NEW fr2, NEW se, NEW se2, NEW fe, NEW fe2, Pipelined(fl, fr, se, fe),
         Len(fl) \in Nat, Len(fr) \in Nat, Len(fr2) = Len(fr) + 1, \A i \in 1 .. Len(fr) : fr2[i] = fr[i],
         \/ fr2[Len(fr) + 1].type = "closed"
         \/ \A k \in 1 .. Len(fl) + 1 : \A at :
              Behind(fl, se, fe, k, at) => Carries(fl, fr2[Len(fr) + 1], se2, fe2, k, at)
  PROVE  Pipelined(fl, fr2, se2, fe2)
<1>. DEFINE m == Len(fl)
            z == Len(fr)
            x == fr2[z + 1]
<1>1. m \in Nat /\ z \in Nat /\ Len(fr2) = z + 1
  OBVIOUS
<1>2. \A i \in 1 .. z : fr2[i] = fr[i]
  OBVIOUS
<1>3. \/ x.type = "closed"
      \/ \A k \in 1 .. m + 1 : \A at : Behind(fl, se, fe, k, at) => Carries(fl, x, se2, fe2, k, at)
  OBVIOUS
<1>4. PICK n \in 0 .. z : \E own \in [1 .. n + 1 -> 1 .. m + 1] : InOrder(fl, fr, se, fe, n, own)
  BY DEF Pipelined
<1>5. PICK own \in [1 .. n + 1 -> 1 .. m + 1] : InOrder(fl, fr, se, fe, n, own)
  BY <1>4
<1>6. /\ own[1] = 1
      /\ \A i, j \in 1 .. n + 1 : i <= j => own[i] <= own[j]
      /\ \A i \in 1 .. n : own[i] <= m /\ Answers(fl, fr, own, i)
      /\ IF n < z THEN fr[n + 1].type = "closed"
         ELSE Behind(fl, se, fe, own[n + 1], Begins(fl, fr, own, n + 1))
  BY <1>5 DEF InOrder
<1>. HIDE DEF m, z, x
<1>7. n \in Nat /\ n \in 0 .. z + 1 /\ n + 1 \in 1 .. n + 1 /\ \A i \in 1 .. n : i \in 1 .. n + 1 /\ i \in 1 .. z /\ i + 1 \in 1 .. n + 1
  BY ONLY <1>1, n \in 0 .. z
\* What becomes of the frames before, whatever follows them.
<1>8. ASSUME NEW i \in 1 .. n + 1, NEW own2, own2[i] = own[i], i > 1 => own2[i - 1] = own[i - 1]
      PROVE  Begins(fl, fr2, own2, i) = Begins(fl, fr, own, i)
  <2>1. i > 1 => i - 1 \in 1 .. z
    BY ONLY <1>1, n \in 0 .. z, i \in 1 .. n + 1
  <2>2. i > 1 => fr2[i - 1] = fr[i - 1]
    BY <1>2, <2>1
  <2>. QED
    BY <1>8, <2>2 DEF Begins
<1>9. ASSUME NEW i \in 1 .. n, NEW own2, \A j \in 1 .. n + 1 : own2[j] = own[j]
      PROVE  own2[i] <= m /\ Answers(fl, fr2, own2, i)
  <2>1. i \in 1 .. n + 1 /\ i + 1 \in 1 .. n + 1 /\ i \in 1 .. z
    BY <1>7
  <2>2. own2[i] = own[i] /\ own2[i + 1] = own[i + 1] /\ fr2[i] = fr[i]
    BY <1>2, <1>9, <2>1
  <2>3. i > 1 => i - 1 \in 1 .. n + 1
    BY ONLY <1>7, i \in 1 .. n
  <2>4. Begins(fl, fr2, own2, i) = Begins(fl, fr, own, i)
    BY <1>8, <1>9, <2>1, <2>2, <2>3
  <2>5. Answers(fl, fr2, own2, i)
    BY <1>6, <2>2, <2>4 DEF Answers, GoesOnWith, Fails
  <2>. QED
    BY <1>6, <2>2, <2>5
<1>10. CASE n < z \/ x.type = "closed"
  <2>1. fr2[n + 1].type = "closed" /\ n < z + 1
    <3>1. CASE n < z
      <4>1. n + 1 \in 1 .. z /\ n < z + 1
        BY ONLY <1>1, <1>7, <3>1
      <4>. QED
        BY <1>2, <1>6, <3>1, <4>1
    <3>2. CASE ~(n < z)
      <4>1. n = z /\ n < z + 1
        BY ONLY <1>1, <3>2, n \in 0 .. z
      <4>. QED
        BY <1>10, <3>2, <4>1 DEF x
    <3>. QED
      BY <3>1, <3>2
  <2>2. \A i \in 1 .. n : own[i] <= m /\ Answers(fl, fr2, own, i)
    BY <1>9
  <2>3. InOrder(fl, fr2, se2, fe2, n, own)
    BY <1>1, <1>6, <2>1, <2>2 DEF InOrder, m
  <2>. QED
    BY <1>1, <1>7, <2>3 DEF Pipelined, m
<1>11. CASE ~(n < z) /\ x.type # "closed"
  <2>. DEFINE k == own[n + 1]
              at == Begins(fl, fr, own, n + 1)
              ends == ~(x.type = "data" /\ x.offset + x.len # EndOf(fl[k].chunk))
              next == IF ends THEN k + 1 ELSE k
              own2 == [i \in 1 .. (n + 1) + 1 |-> IF i = (n + 1) + 1 THEN next ELSE own[i]]
  <2>1. n = z
    BY ONLY <1>1, <1>11, n \in 0 .. z
  <2>2. k \in 1 .. m + 1 /\ Behind(fl, se, fe, k, at)
    BY <1>6, <1>7, <1>11
  <2>. HIDE DEF k, at
  <2>3. Carries(fl, x, se2, fe2, k, at)
    BY <1>3, <1>11, <2>2
  <2>4. k <= m
    BY <2>3 DEF Carries, m
  <2>5. k \in 1 .. m /\ next \in 1 .. m + 1 /\ (next = k \/ next = k + 1) /\ k <= next /\ k + 1 # k
    <3>. HIDE DEF ends
    <3>. QED
      BY ONLY <1>1, <2>2, <2>4
  <2>. HIDE DEF ends, next
  <2>6. \A j \in 1 .. n + 1 : own2[j] = own[j]
    <3>1. \A j \in 1 .. n + 1 : j \in 1 .. (n + 1) + 1 /\ j # (n + 1) + 1
      BY ONLY <1>7
    <3>. QED
      BY <3>1
  <2>7. own2[(n + 1) + 1] = next
    BY <1>7
  <2>8. own2 \in [1 .. (n + 1) + 1 -> 1 .. m + 1]
    <3>1. \A j \in 1 .. (n + 1) + 1 : j = (n + 1) + 1 \/ j \in 1 .. n + 1
      BY ONLY <1>7
    <3>2. \A j \in 1 .. n + 1 : own[j] \in 1 .. m + 1
      OBVIOUS
    <3>. QED
      BY <2>5, <3>1, <3>2
  <2>. HIDE DEF own2
  <2>9. own2[1] = 1
    <3>1. 1 \in 1 .. n + 1
      BY ONLY <1>7
    <3>. QED
      BY <1>6, <2>6, <3>1
  <2>10. \A i, j \in 1 .. (n + 1) + 1 : i <= j => own2[i] <= own2[j]
    <3>. SUFFICES ASSUME NEW i \in 1 .. (n + 1) + 1, NEW j \in 1 .. (n + 1) + 1, i <= j
                  PROVE  own2[i] <= own2[j]
      OBVIOUS
    <3>1. CASE j \in 1 .. n + 1
      <4>1. i \in 1 .. n + 1
        BY ONLY <1>7, <3>1, i \in 1 .. (n + 1) + 1, i <= j
      <4>. QED
        BY <1>6, <2>6, <3>1, <4>1
    <3>2. CASE j \notin 1 .. n + 1 /\ i \in 1 .. n + 1
      <4>1. j = (n + 1) + 1 /\ i <= n + 1
        BY ONLY <1>7, <3>2, j \in 1 .. (n + 1) + 1
      <4>2. own2[j] = next /\ own2[i] = own[i]
        BY <2>6, <2>7, <3>2, <4>1
      <4>3. own[i] <= k /\ own[i] \in 1 .. m + 1
        BY <1>6, <1>7, <3>2, <4>1 DEF k
      <4>. QED
        BY ONLY <1>1, <2>5, <4>2, <4>3
    <3>3. CASE j \notin 1 .. n + 1 /\ i \notin 1 .. n + 1
      <4>1. j = (n + 1) + 1 /\ i = (n + 1) + 1
        BY ONLY <1>7, <3>3, j \in 1 .. (n + 1) + 1, i \in 1 .. (n + 1) + 1
      <4>2. own2[j] = next /\ own2[i] = next
        BY <2>7, <4>1
      <4>. QED
        BY ONLY <1>1, <2>5, <4>2
    <3>. QED
      BY <3>1, <3>2, <3>3
  <2>11. own2[n + 1] = k
    BY <1>7, <2>6 DEF k
  <2>12. Begins(fl, fr2, own2, n + 1) = at
    <3>1. n + 1 > 1 => (n + 1) - 1 \in 1 .. n + 1
      BY ONLY <1>7
    <3>. QED
      BY <1>7, <1>8, <2>6, <3>1 DEF at
  <2>13. fr2[n + 1] = x
    BY <2>1 DEF x
  <2>14. Answers(fl, fr2, own2, n + 1)
    <3>1. CASE x.type = "data"
      <4>1. GoesOnWith(fl, fr2, own2, n + 1)
        BY <2>3, <2>7, <2>11, <2>12, <2>13, <3>1 DEF Carries, GoesOnWith, next, ends
      <4>. QED
        BY <4>1 DEF Answers
    <3>2. CASE x.type # "data"
      <4>1. Fails(fl, fr2, own2, n + 1)
        BY <2>3, <2>7, <2>11, <2>13, <3>2 DEF Carries, Fails, next, ends
      <4>. QED
        BY <4>1 DEF Answers
    <3>. QED
      BY <3>1, <3>2
  <2>15. Begins(fl, fr2, own2, (n + 1) + 1) = IF ends THEN fl[k + 1].chunk.offset + fl[k + 1].received ELSE x.offset + x.len
    <3>1. (n + 1) + 1 > 1 /\ ((n + 1) + 1) - 1 = n + 1
      BY ONLY <1>7
    <3>2. own2[(n + 1) + 1] = own2[n + 1] <=> ~ends
      BY <2>5, <2>7, <2>11 DEF next
    <3>. QED
      BY <2>7, <2>13, <3>1, <3>2 DEF Begins, next
  <2>16. Behind(fl, se2, fe2, own2[(n + 1) + 1], Begins(fl, fr2, own2, (n + 1) + 1))
    <3>1. CASE ends
      <4>1. Behind(fl, se2, fe2, k + 1, fl[k + 1].chunk.offset + fl[k + 1].received)
        BY <2>3, <3>1 DEF Carries, ends
      <4>. QED
        BY <2>7, <2>15, <3>1, <4>1 DEF next
    <3>2. CASE ~ends
      <4>1. Behind(fl, se2, fe2, k, x.offset + x.len)
        BY <2>3, <3>2 DEF Carries, ends
      <4>. QED
        BY <2>7, <2>15, <3>2, <4>1 DEF next
    <3>. QED
      BY <3>1, <3>2
  <2>17. \A i \in 1 .. n + 1 : own2[i] <= m /\ Answers(fl, fr2, own2, i)
    <3>. TAKE i \in 1 .. n + 1
    <3>1. i = n + 1 \/ i \in 1 .. n
      BY ONLY <1>7, i \in 1 .. n + 1
    <3>. QED
      BY <1>9, <2>4, <2>6, <2>11, <2>14, <3>1
  <2>18. ~(n + 1 < Len(fr2)) /\ n + 1 \in 0 .. Len(fr2)
    BY ONLY <1>1, <2>1
  <2>19. InOrder(fl, fr2, se2, fe2, n + 1, own2)
    BY <2>9, <2>10, <2>16, <2>17, <2>18 DEF InOrder, m
  <2>. QED
    BY <2>8, <2>18, <2>19 DEF Pipelined, m
<1>. QED
  BY <1>10, <1>11

LEMMA FollowNext ==
  ASSUME NEW fl, Len(fl) \in Nat, NEW fe \in Seq(Request), fe # << >>, NEW k \in Nat, Follow(fl, fe, k)
  PROVE  k <= Len(fl) /\ Head(fe) = FetchFrame(fl[k].chunk) /\ Follow(fl, Tail(fe), k + 1)
<1>. DEFINE m == Len(fl)
            r == Len(fe)
            ft == Tail(fe)
<1>1. /\ ft \in Seq(Request) /\ Head(fe) = fe[1]
      /\ r \in Nat \ {0} /\ Len(ft) = r - 1
      /\ \A i \in 1 .. r - 1 : ft[i] = fe[i + 1] /\ i + 1 \in 1 .. r
  BY TailFacts
<1>2. m \in Nat /\ r = m + 1 - k /\ \A j \in 1 .. r : fe[j] = FetchFrame(fl[k + j - 1].chunk)
  BY DEF Follow
<1>. HIDE DEF m, r, ft
<1>3. k <= m /\ 1 \in 1 .. r /\ k + 1 - 1 = k
  BY ONLY <1>1, <1>2, k \in Nat
<1>4. Head(fe) = FetchFrame(fl[k].chunk)
  BY <1>1, <1>2, <1>3
<1>5. r - 1 = m + 1 - (k + 1)
  BY ONLY <1>1, <1>2, k \in Nat
<1>6. ASSUME NEW j \in 1 .. r - 1
      PROVE  ft[j] = FetchFrame(fl[(k + 1) + j - 1].chunk)
  <2>1. (k + 1) + j - 1 = k + (j + 1) - 1
    BY ONLY <1>1, k \in Nat, j \in 1 .. r - 1
  <2>2. ft[j] = fe[j + 1] /\ j + 1 \in 1 .. r
    BY <1>1
  <2>. QED
    BY <1>2, <2>1, <2>2
<1>7. Follow(fl, ft, k + 1)
  BY <1>1, <1>5, <1>6 DEF Follow, m
<1>. QED
  BY <1>3, <1>4, <1>7 DEF m, ft

\* Only the oldest fetch has received anything.
Fresh(fl) == \A i \in DOMAIN fl : i > 1 => fl[i].received = 0

\* The server is through with fetch k.
LEMMA ThroughWith ==
  ASSUME NEW fl \in Seq(InFlight), Fresh(fl), NEW fe, NEW k \in 1 .. Len(fl), Follow(fl, fe, k + 1)
  PROVE  Behind(fl, << >>, fe, k + 1, fl[k + 1].chunk.offset + fl[k + 1].received)
<1>1. ASSUME k + 1 <= Len(fl)
      PROVE  fl[k + 1].chunk.offset + fl[k + 1].received = fl[k + 1].chunk.offset
  <2>1. k + 1 \in DOMAIN fl /\ k + 1 > 1
    BY <1>1
  <2>2. fl[k + 1].received = 0
    BY <2>1 DEF Fresh
  <2>3. fl[k + 1] \in InFlight
    BY <2>1
  <2>4. fl[k + 1].chunk.offset \in Nat
    BY <2>3 DEF InFlight, ChunkType
  <2>. QED
    BY <2>2, <2>4
<1>. QED
  BY <1>1 DEF Behind

\* Only the server's state changes.
LEMMA SameFrames ==
  ASSUME NEW fl, NEW fr, NEW se, NEW se2, NEW fe, NEW fe2, Len(fr) \in Nat, Len(fl) \in Nat,
         Pipelined(fl, fr, se, fe),
         \A k \in 1 .. Len(fl) + 1 : \A at : Behind(fl, se, fe, k, at) => Behind(fl, se2, fe2, k, at)
  PROVE  Pipelined(fl, fr, se2, fe2)
<1>1. PICK n \in 0 .. Len(fr) : \E own \in [1 .. n + 1 -> 1 .. Len(fl) + 1] : InOrder(fl, fr, se, fe, n, own)
  BY DEF Pipelined
<1>2. PICK own \in [1 .. n + 1 -> 1 .. Len(fl) + 1] : InOrder(fl, fr, se, fe, n, own)
  BY <1>1
<1>3. own[n + 1] \in 1 .. Len(fl) + 1
  <2>1. n + 1 \in 1 .. n + 1
    OBVIOUS
  <2>. QED
    BY <2>1
<1>4. InOrder(fl, fr, se2, fe2, n, own)
  BY <1>2, <1>3 DEF InOrder
<1>. QED
  BY <1>2, <1>4 DEF Pipelined

\* A fetch is taken up.
LEMMA TakeInOrder ==
  ASSUME NEW fl \in Seq(InFlight), NEW fr, Len(fr) \in Nat, NEW fe \in Seq(Request), fe # << >>,
         Pipelined(fl, fr, << >>, fe)
  PROVE  Pipelined(fl, fr, <<[offset |-> Head(fe).offset, len |-> Head(fe).len, fetch |-> Head(fe).offset]>>, Tail(fe))
<1>. DEFINE s == [offset |-> Head(fe).offset, len |-> Head(fe).len, fetch |-> Head(fe).offset]
<1>1. Len(fl) \in Nat
  OBVIOUS
<1>2. ASSUME NEW k \in 1 .. Len(fl) + 1, NEW at, Behind(fl, << >>, fe, k, at)
      PROVE  Behind(fl, <<s>>, Tail(fe), k, at)
  <2>1. (k <= Len(fl) => at = fl[k].chunk.offset) /\ Follow(fl, fe, k)
    BY <1>2 DEF Behind
  <2>2. k \in Nat
    BY <1>1
  <2>3. k <= Len(fl) /\ Head(fe) = FetchFrame(fl[k].chunk) /\ Follow(fl, Tail(fe), k + 1)
    BY <1>1, <2>1, <2>2, FollowNext
  <2>4. Head(fe).offset = fl[k].chunk.offset /\ Head(fe).len = fl[k].chunk.len
    BY <2>3 DEF FetchFrame
  <2>5. <<s>> # << >> /\ <<s>>[1] = s /\ s.offset = Head(fe).offset /\ s.len = Head(fe).len /\ s.fetch = Head(fe).offset
    OBVIOUS
  <2>. HIDE DEF s
  <2>. QED
    BY <2>1, <2>3, <2>4, <2>5 DEF Behind, EndOf
<1>. QED
  BY <1>1, <1>2, SameFrames

\* A fetch is refused.
LEMMA RefuseCarries ==
  ASSUME NEW fl \in Seq(InFlight), Fresh(fl), NEW fe \in Seq(Request), fe # << >>, NEW x,
         x.type = "error", x.class # "none", x.offset = Head(fe).offset,
         NEW k \in 1 .. Len(fl) + 1, NEW at, Behind(fl, << >>, fe, k, at)
  PROVE  Carries(fl, x, << >>, Tail(fe), k, at)
<1>1. Len(fl) \in Nat /\ k \in Nat
  OBVIOUS
<1>2. Follow(fl, fe, k)
  BY DEF Behind
<1>3. k <= Len(fl) /\ Head(fe) = FetchFrame(fl[k].chunk) /\ Follow(fl, Tail(fe), k + 1)
  BY <1>1, <1>2, FollowNext
<1>4. x.offset = fl[k].chunk.offset
  BY <1>3 DEF FetchFrame
<1>5. k \in 1 .. Len(fl)
  BY <1>1, <1>3
<1>6. Behind(fl, << >>, Tail(fe), k + 1, fl[k + 1].chunk.offset + fl[k + 1].received)
  BY <1>3, <1>5, ThroughWith
<1>. QED
  BY <1>3, <1>4, <1>6 DEF Carries

\* A read fails.
LEMMA FailCarries ==
  ASSUME NEW fl \in Seq(InFlight), Fresh(fl), NEW se, se # << >>, NEW fe, NEW x,
         x.type = "error", x.class # "none", x.offset = se[1].fetch,
         NEW k \in 1 .. Len(fl) + 1, NEW at, Behind(fl, se, fe, k, at)
  PROVE  Carries(fl, x, << >>, fe, k, at)
<1>1. k <= Len(fl) /\ se[1].fetch = fl[k].chunk.offset /\ Follow(fl, fe, k + 1)
  BY DEF Behind
<1>2. k \in 1 .. Len(fl)
  BY <1>1
<1>3. Behind(fl, << >>, fe, k + 1, fl[k + 1].chunk.offset + fl[k + 1].received)
  BY <1>1, <1>2, ThroughWith
<1>. QED
  BY <1>1, <1>3 DEF Carries

\* A piece is sent.
LEMMA SendCarries ==
  ASSUME NEW fl \in Seq(InFlight), Fresh(fl), NEW se \in Seq(Serving), se # << >>, NEW fe, NEW x, NEW piece \in 1 .. se[1].len,
         x.type = "data", x.len = piece, x.offset = se[1].offset, x.at = x.offset,
         NEW k \in 1 .. Len(fl) + 1, NEW at, Behind(fl, se, fe, k, at)
  PROVE  Carries(fl, x,
                 IF piece = se[1].len THEN << >> ELSE <<[se[1] EXCEPT !.offset = @ + piece, !.len = @ - piece]>>,
                 fe, k, at)
<1>. DEFINE s == [se[1] EXCEPT !.offset = @ + piece, !.len = @ - piece]
            l == se[1].len
            o == se[1].offset
            end == EndOf(fl[k].chunk)
<1>1. k <= Len(fl) /\ o = at /\ o + l = end /\ se[1].fetch = fl[k].chunk.offset /\ Follow(fl, fe, k + 1)
  BY DEF Behind
<1>2. k \in 1 .. Len(fl)
  BY <1>1
<1>3. se[1] \in Serving
  OBVIOUS
<1>4. o \in Nat /\ l \in Nat \ {0} /\ piece \in 1 .. l
  BY <1>3 DEF Serving
<1>5. s.offset = o + piece /\ s.len = l - piece /\ s.fetch = se[1].fetch /\ <<s>>[1] = s /\ <<s>> # << >>
  BY <1>3 DEF Serving
<1>. HIDE DEF s, l, o, end
<1>6. piece \in Nat \ {0} /\ o + piece <= end /\ (o + piece = end <=> piece = l) /\ (o + piece) + (l - piece) = end
  BY ONLY <1>1, <1>4
<1>7. CASE piece = l
  <2>1. Behind(fl, << >>, fe, k + 1, fl[k + 1].chunk.offset + fl[k + 1].received)
    BY <1>1, <1>2, ThroughWith
  <2>2. Carries(fl, x, << >>, fe, k, at)
    BY <1>1, <1>6, <1>7, <2>1 DEF Carries, o, end
  <2>. QED
    BY <1>7, <2>2 DEF l
<1>8. CASE piece # l
  <2>1. Behind(fl, <<s>>, fe, k, o + piece)
    BY <1>1, <1>5, <1>6 DEF Behind, end
  <2>2. Carries(fl, x, <<s>>, fe, k, at)
    BY <1>1, <1>6, <1>8, <2>1 DEF Carries, o, end
  <2>. QED
    BY <1>8, <2>2 DEF l, s
<1>. QED
  BY <1>7, <1>8

---------------------------------------------------------------------------
(* What the server's steps keep.                                           *)

\* The frame that a piece is sent in is about what was read.
LEMMA DataFrameFacts ==
  ASSUME NEW offset, NEW len, DataFrame(offset, len) # << >>
  PROVE  LET x == DataFrame(offset, len)[1]
         IN  x.type = "data" /\ x.offset = offset /\ x.len = len /\ x.at = offset
<1>. DEFINE spec == ForRange(layout.shape, layout.itemsize, offset, len)
            raw == RawFrame(offset, len)
            enc == EncodedFrame(layout.codec, spec[1], offset, len, len - 1)
<1>1. DataFrame(offset, len) = <<raw>> \/ DataFrame(offset, len) = <<enc>>
  <2>. HIDE DEF raw, enc, spec
  <2>1. DataFrame(offset, len) = IF layout.codec = "Raw" THEN <<raw>>
                                 ELSE IF spec = << >> THEN << >>
                                 ELSE IF Shrinks(offset, len) THEN <<enc>> ELSE <<raw>>
    BY DEF DataFrame, raw, enc, spec
  <2>. QED
    BY <2>1
<1>2. raw.type = "data" /\ raw.offset = offset /\ raw.len = len /\ raw.at = offset
  BY DEF RawFrame
<1>3. enc.type = "data" /\ enc.offset = offset /\ enc.len = len /\ enc.at = offset
  BY DEF EncodedFrame
<1>. HIDE DEF raw, enc
<1>4. <<raw>>[1] = raw /\ <<enc>>[1] = enc
  OBVIOUS
<1>. QED
  BY <1>1, <1>2, <1>3, <1>4

\* A step of the server on connection c, by what it leaves there.
LEMMA ServerStep ==
  ASSUME Types, NEW c \in Conns, UNCHANGED <<given, client>>,
         NEW fr, NEW se \in Seq(Serving), Len(se) <= 1, NEW fe \in Seq(Request), fr \in Seq(Range(fr)),
         DOMAIN frames' = Conns, frames'[c] = fr, \A d \in Conns \ {c} : frames'[d] = frames[d],
         serving' = [serving EXCEPT ![c] = se],
         fetches' = [fetches EXCEPT ![c] = fe],
         \A d \in Conns : Answered(d),
         Pipelined(flight[c], fr, se, fe)
  PROVE  Types' /\ \A d \in Conns : Answered(d)'
<1>1. /\ todo \in Seq(ChunkType) /\ flight \in [Conns -> Seq(InFlight)]
      /\ fetches \in [Conns -> Seq(Request)] /\ serving \in [Conns -> Seq(Serving)]
      /\ \A d \in Conns : Len(serving[d]) <= 1
      /\ DOMAIN frames = Conns /\ \A d \in Conns : frames[d] \in Seq(Range(frames[d]))
  BY TypeFacts
<1>2. frames'[c] = fr /\ serving'[c] = se /\ fetches'[c] = fe
  BY <1>1
<1>3. \A d \in Conns \ {c} : frames'[d] = frames[d] /\ serving'[d] = serving[d] /\ fetches'[d] = fetches[d]
  BY <1>1
<1>4. todo' = todo /\ flight' = flight /\ dst' = dst /\ UNCHANGED given
  BY DEF client
<1>5. Types'
  <2>1. serving' \in [Conns -> Seq(Serving)] /\ fetches' \in [Conns -> Seq(Request)] /\ DOMAIN frames' = Conns
    BY <1>1
  <2>2. \A d \in Conns : Len(serving'[d]) <= 1 /\ frames'[d] \in Seq(Range(frames'[d]))
    BY <1>1, <1>2, <1>3
  <2>. QED
    BY <1>1, <1>4, <2>1, <2>2, TypesFrom
<1>6. \A d \in Conns : Answered(d)'
  <2>. TAKE d \in Conns
  <2>1. CASE d = c
    BY <1>2, <1>4, <2>1 DEF Answered
  <2>2. CASE d # c
    BY <1>3, <1>4, <2>2 DEF Answered
  <2>. QED
    BY <2>1, <2>2
<1>. QED
  BY <1>5, <1>6

LEMMA ServerKeeps ==
  ASSUME Types, NEW c \in Conns, Fresh(flight[c]), \A d \in Conns : Answered(d),
         Accept(c) \/ SendPiece(c) \/ ReadFails(c)
  PROVE  Types' /\ (\A d \in Conns : Answered(d)') /\ UNCHANGED <<given, client>>
<1>. DEFINE fl == flight[c]
            fr == frames[c]
            se == serving[c]
            fe == fetches[c]
<1>1. /\ fl \in Seq(InFlight) /\ fe \in Seq(Request) /\ se \in Seq(Serving) /\ Len(se) <= 1
      /\ fr \in Seq(Range(fr)) /\ serving \in [Conns -> Seq(Serving)] /\ fetches \in [Conns -> Seq(Request)]
  BY TypeFacts
<1>2. Pipelined(fl, fr, se, fe) /\ Fresh(fl)
  BY DEF Answered
<1>3. UNCHANGED <<given, client>>
  BY DEF Accept, SendPiece, ReadFails
<1>4. Len(fl) \in Nat /\ Len(fr) \in Nat
  BY <1>1
<1>5. << >> \in Seq(Serving) /\ Len(<< >>) <= 1 /\ << >> \in Seq(Request)
  OBVIOUS
<1>6. \A x : /\ Append(fr, x) \in Seq(Range(Append(fr, x)))
             /\ Len(Append(fr, x)) = Len(fr) + 1
             /\ Append(fr, x)[Len(fr) + 1] = x
             /\ \A i \in 1 .. Len(fr) : Append(fr, x)[i] = fr[i]
  <2>. TAKE x
  <2>1. Append(fr, x) \in Seq(Range(Append(fr, x)))
    BY <1>1, OwnSeqs
  <2>. DEFINE S == Range(fr) \cup {x}
  <2>2. fr \in Seq(S) /\ x \in S
    <3>1. fr \in [1 .. Len(fr) -> Range(fr)]
      BY <1>1
    <3>2. fr \in [1 .. Len(fr) -> S]
      BY <3>1
    <3>. QED
      BY <1>4, <3>2
  <2>. HIDE DEF S, fr
  <2>3. /\ Len(Append(fr, x)) = Len(fr) + 1 /\ Append(fr, x)[Len(fr) + 1] = x
        /\ \A i \in 1 .. Len(fr) : Append(fr, x)[i] = fr[i]
    BY <2>2, AppendFacts
  <2>. QED
    BY <2>1, <2>3
<1>7. serving = [serving EXCEPT ![c] = se] /\ fetches = [fetches EXCEPT ![c] = fe]
  BY <1>1
\* What a reply is about, and that it leaves the rest in order.
<1>8. ASSUME NEW x, NEW se2 \in Seq(Serving), Len(se2) <= 1, NEW fe2 \in Seq(Request),
             frames' = [frames EXCEPT ![c] = Append(fr, x)],
             serving' = [serving EXCEPT ![c] = se2],
             fetches' = [fetches EXCEPT ![c] = fe2],
             \/ x.type = "closed"
             \/ \A k \in 1 .. Len(fl) + 1 : \A at : Behind(fl, se, fe, k, at) => Carries(fl, x, se2, fe2, k, at)
      PROVE  Types' /\ \A d \in Conns : Answered(d)'
  <2>1. Pipelined(fl, Append(fr, x), se2, fe2)
    <3>. DEFINE fr2 == Append(fr, x)
    <3>1. fr2[Len(fr) + 1] = x /\ Len(fr2) = Len(fr) + 1 /\ \A i \in 1 .. Len(fr) : fr2[i] = fr[i]
      BY <1>6
    <3>. HIDE DEF fr2, fl, fr, se, fe
    <3>2. Pipelined(fl, fr2, se2, fe2)
      BY <1>2, <1>4, <1>8, <3>1, ReplyInOrder
    <3>. QED
      BY <3>2 DEF fr2
  <2>2. Append(fr, x) \in Seq(Range(Append(fr, x)))
    BY <1>6
  <2>3. DOMAIN frames' = Conns /\ frames'[c] = Append(fr, x) /\ \A d \in Conns \ {c} : frames'[d] = frames[d]
    BY <1>8, TypeFacts
  <2>. QED
    BY <1>3, <1>8, <2>1, <2>2, <2>3, ServerStep
<1>9. CASE Accept(c)
  <2>. DEFINE f == Head(fe)
  <2>1. se = << >> /\ fe # << >> /\ fetches' = [fetches EXCEPT ![c] = Tail(fe)]
    BY <1>9 DEF Accept
  <2>2. Tail(fe) \in Seq(Request) /\ f \in Request
    BY <1>1, <2>1
  <2>3. \/ serving' = [serving EXCEPT ![c] = <<[offset |-> f.offset, len |-> f.len, fetch |-> f.offset]>>] /\ frames' = frames
        \/ frames' = [frames EXCEPT ![c] = Append(@, ErrorFrame("request", f.offset))] /\ serving' = serving
    BY <1>9 DEF Accept, Replies
  <2>4. CASE serving' = [serving EXCEPT ![c] = <<[offset |-> f.offset, len |-> f.len, fetch |-> f.offset]>>] /\ frames' = frames
    <3>. DEFINE s == [offset |-> f.offset, len |-> f.len, fetch |-> f.offset]
    <3>1. s \in Serving
      BY <2>2 DEF Request, Serving
    <3>2. Pipelined(fl, fr, <<s>>, Tail(fe))
      <4>. HIDE DEF fl, fr, fe, se
      <4>. QED
        BY <1>1, <1>2, <1>4, <2>1, TakeInOrder
    <3>3. /\ serving' = [serving EXCEPT ![c] = <<s>>]
          /\ DOMAIN frames' = Conns /\ frames'[c] = fr /\ \A d \in Conns \ {c} : frames'[d] = frames[d]
      BY <2>4, TypeFacts
    <3>. HIDE DEF s
    <3>4. <<s>> \in Seq(Serving) /\ Len(<<s>>) <= 1
      BY <3>1
    <3>5. Types' /\ \A d \in Conns : Answered(d)'
      BY <1>1, <1>3, <2>1, <2>2, <3>2, <3>3, <3>4, ServerStep
    <3>. QED
      BY <1>3, <3>5
  <2>5. CASE frames' = [frames EXCEPT ![c] = Append(@, ErrorFrame("request", f.offset))] /\ serving' = serving
    <3>. DEFINE x == ErrorFrame("request", f.offset)
    <3>1. x.type = "error" /\ x.class # "none" /\ x.offset = Head(fe).offset
      BY DEF ErrorFrame
    <3>2. frames' = [frames EXCEPT ![c] = Append(fr, x)] /\ serving' = [serving EXCEPT ![c] = << >>]
      BY <1>7, <2>1, <2>5
    <3>. HIDE DEF x
    <3>3. \A k \in 1 .. Len(fl) + 1 : \A at : Behind(fl, se, fe, k, at) => Carries(fl, x, << >>, Tail(fe), k, at)
      <4>. HIDE DEF fl, fr, fe, se
      <4>. QED
        BY <1>1, <1>2, <2>1, <3>1, RefuseCarries
    <3>4. Types' /\ \A d \in Conns : Answered(d)'
      BY <1>5, <1>8, <2>1, <2>2, <3>2, <3>3
    <3>. QED
      BY <1>3, <3>4
  <2>. QED
    BY <2>3, <2>4, <2>5
<1>10. CASE SendPiece(c)
  <2>. DEFINE f == se[1]
              piece == RowAligned(f.offset, Min({f.len, settings.buffer}))
              frame == DataFrame(f.offset, piece)
              rest == IF piece = f.len THEN << >> ELSE <<[f EXCEPT !.offset = @ + piece, !.len = @ - piece]>>
  <2>1. se # << >>
    BY <1>10 DEF SendPiece
  <2>2. f \in Serving
    BY <1>1, <2>1
  <2>3. f.offset \in Nat /\ f.len \in Nat \ {0}
    BY <2>2 DEF Serving
  <2>4. piece \in 1 .. f.len
    BY <2>3, PieceFacts DEF Types
  <2>5. \/ /\ frames' = [frames EXCEPT ![c] = Append(fr, [type |-> "closed"])]
           /\ serving' = [serving EXCEPT ![c] = << >>] /\ fetches' = [fetches EXCEPT ![c] = << >>]
        \/ /\ frame # << >> /\ frames' = [frames EXCEPT ![c] = Append(fr, frame[1])]
           /\ serving' = [serving EXCEPT ![c] = rest] /\ fetches' = fetches
    BY <1>10 DEF SendPiece, Replies
  <2>6. CASE /\ frames' = [frames EXCEPT ![c] = Append(fr, [type |-> "closed"])]
             /\ serving' = [serving EXCEPT ![c] = << >>] /\ fetches' = [fetches EXCEPT ![c] = << >>]
    <3>1. [type |-> "closed"].type = "closed"
      OBVIOUS
    <3>2. Types' /\ \A d \in Conns : Answered(d)'
      BY <1>5, <1>8, <2>6, <3>1
    <3>. QED
      BY <1>3, <3>2
  <2>7. CASE /\ frame # << >> /\ frames' = [frames EXCEPT ![c] = Append(fr, frame[1])]
             /\ serving' = [serving EXCEPT ![c] = rest] /\ fetches' = fetches
    <3>. HIDE DEF piece
    <3>. DEFINE x == frame[1]
    <3>1. x.type = "data" /\ x.offset = f.offset /\ x.len = piece /\ x.at = x.offset
      BY <2>7, DataFrameFacts
    <3>. HIDE DEF frame
    <3>2. rest \in Seq(Serving) /\ Len(rest) <= 1
      <4>1. CASE piece = f.len
        BY <1>5, <4>1
      <4>2. CASE piece # f.len
        <5>. DEFINE s == [f EXCEPT !.offset = @ + piece, !.len = @ - piece]
        <5>1. f.offset + piece \in Nat /\ f.len - piece \in Nat \ {0}
          BY <2>3, <2>4, <4>2
        <5>2. s \in Serving
          BY <2>2, <5>1 DEF Serving
        <5>3. rest = <<s>>
          BY <4>2
        <5>. HIDE DEF s, rest
        <5>. QED
          BY <5>2, <5>3
      <4>. QED
        BY <4>1, <4>2
    <3>3. \A k \in 1 .. Len(fl) + 1 : \A at : Behind(fl, se, fe, k, at) => Carries(fl, x, rest, fe, k, at)
      <4>. HIDE DEF fl, fr, fe, se, x
      <4>. QED
        BY <1>1, <1>2, <2>1, <2>4, <3>1, SendCarries
    <3>4. /\ frames' = [frames EXCEPT ![c] = Append(fr, x)]
          /\ serving' = [serving EXCEPT ![c] = rest] /\ fetches' = [fetches EXCEPT ![c] = fe]
      BY <1>7, <2>7
    <3>. HIDE DEF x, rest
    <3>5. Types' /\ \A d \in Conns : Answered(d)'
      BY <1>1, <1>8, <3>2, <3>3, <3>4
    <3>. QED
      BY <1>3, <3>5
  <2>. QED
    BY <2>5, <2>6, <2>7
<1>11. CASE ReadFails(c)
  <2>1. se # << >> /\ serving' = [serving EXCEPT ![c] = << >>] /\ fetches' = fetches
    BY <1>11 DEF ReadFails, Stops
  <2>2. PICK class \in {"transient", "storage"} :
          frames' = [frames EXCEPT ![c] = Append(@, ErrorFrame(class, se[1].fetch))]
    BY <1>11 DEF ReadFails, Replies
  <2>. DEFINE x == ErrorFrame(class, se[1].fetch)
  <2>3. x.type = "error" /\ x.class # "none" /\ x.offset = se[1].fetch
    BY DEF ErrorFrame
  <2>4. frames' = [frames EXCEPT ![c] = Append(fr, x)] /\ fetches' = [fetches EXCEPT ![c] = fe]
    BY <1>7, <2>1, <2>2
  <2>. HIDE DEF x
  <2>5. \A k \in 1 .. Len(fl) + 1 : \A at : Behind(fl, se, fe, k, at) => Carries(fl, x, << >>, fe, k, at)
    <3>. HIDE DEF fl, fr, fe, se
    <3>. QED
      BY <1>1, <1>2, <2>1, <2>3, FailCarries
  <2>6. Types' /\ \A d \in Conns : Answered(d)'
    BY <1>1, <1>5, <1>8, <2>1, <2>4, <2>5
  <2>. QED
    BY <1>3, <2>6
<1>. QED
  BY <1>9, <1>10, <1>11

---------------------------------------------------------------------------
(* What the client's steps keep.                                           *)

\* The frame that the client reads next answers the oldest fetch.
LEMMA HeadFrame ==
  ASSUME NEW fl, NEW fr, NEW se, NEW fe, Len(fl) \in Nat, Len(fr) \in Nat \ {0}, Pipelined(fl, fr, se, fe),
         fr[1].type # "closed"
  PROVE  /\ fr[1].type = "data" =>
              /\ fr[1].len \in Nat \ {0} /\ fr[1].at = fr[1].offset
              /\ fr[1].offset = fl[1].chunk.offset + fl[1].received
              /\ fr[1].offset + fr[1].len <= EndOf(fl[1].chunk)
         /\ fr[1].type # "data" => fr[1].class # "none" /\ fr[1].offset = fl[1].chunk.offset
         /\ \E n \in 1 .. Len(fr) : \E own \in [1 .. n + 1 -> 1 .. Len(fl) + 1] :
              /\ InOrder(fl, fr, se, fe, n, own)
              /\ own[2] = 1 + (IF fr[1].type = "data" /\ fr[1].offset + fr[1].len # EndOf(fl[1].chunk) THEN 0 ELSE 1)
<1>. DEFINE z == Len(fr)
            end == EndOf(fl[1].chunk)
            f == fr[1]
<1>1. PICK n \in 0 .. z : \E own \in [1 .. n + 1 -> 1 .. Len(fl) + 1] : InOrder(fl, fr, se, fe, n, own)
  BY DEF Pipelined
<1>2. PICK own \in [1 .. n + 1 -> 1 .. Len(fl) + 1] : InOrder(fl, fr, se, fe, n, own)
  BY <1>1
<1>3. z \in Nat \ {0} /\ f.type # "closed"
  OBVIOUS
<1>. HIDE DEF z, end, f
<1>4. n # 0
  <2>1. n < z => fr[n + 1].type = "closed"
    BY <1>2 DEF InOrder, z
  <2>2. ASSUME n = 0
        PROVE  n < z /\ n + 1 = 1
    BY ONLY <1>3, <2>2
  <2>. QED
    BY <1>3, <2>1, <2>2 DEF f
<1>5. n \in 1 .. z /\ 1 \in 1 .. n /\ ~(1 > 1) /\ 1 + 1 = 2
  BY ONLY <1>3, <1>4, n \in 0 .. z
<1>6. own[1] = 1 /\ Answers(fl, fr, own, 1)
  BY <1>2, <1>5 DEF InOrder
<1>7. Begins(fl, fr, own, 1) = fl[1].chunk.offset + fl[1].received
  BY <1>5, <1>6 DEF Begins
<1>8. \/ /\ f.type = "data" /\ f.len \in Nat \ {0}
         /\ f.offset = fl[1].chunk.offset + fl[1].received /\ f.at = f.offset
         /\ f.offset + f.len <= end
         /\ own[2] = IF f.offset + f.len = end THEN 2 ELSE 1
      \/ /\ f.type = "error" /\ f.class # "none" /\ f.offset = fl[1].chunk.offset
         /\ own[2] = 2
  BY <1>5, <1>6, <1>7 DEF Answers, GoesOnWith, Fails, f, end
<1>9. own[2] = 1 + (IF f.type = "data" /\ f.offset + f.len # end THEN 0 ELSE 1)
  BY <1>8
<1>10. \E k \in 1 .. z : \E o \in [1 .. k + 1 -> 1 .. Len(fl) + 1] :
         /\ InOrder(fl, fr, se, fe, k, o)
         /\ o[2] = 1 + (IF f.type = "data" /\ f.offset + f.len # end THEN 0 ELSE 1)
  BY <1>2, <1>5, <1>9
<1>11. /\ f.type = "data" =>
              /\ f.len \in Nat \ {0} /\ f.at = f.offset
              /\ f.offset = fl[1].chunk.offset + fl[1].received
              /\ f.offset + f.len <= end
       /\ f.type # "data" => f.class # "none" /\ f.offset = fl[1].chunk.offset
  BY <1>8
<1>. QED
  BY <1>10, <1>11 DEF z, f, end

\* The same of the state.
LEMMA ReadFrame ==
  ASSUME Types, NEW c \in Conns, Answered(c), flight[c] # << >>, frames[c] # << >>,
         Head(frames[c]).type = "data" \/ Head(frames[c]).type = "error"
  PROVE  LET f == Head(frames[c])
             asked == Head(flight[c])
             ends == CompletesFetch(asked, f)
         IN  /\ asked.chunk \in ChunkType /\ asked.received \in Nat
             /\ f.type = "data" =>
                  /\ f.len \in Nat \ {0} /\ f.at = f.offset
                  /\ f.offset = asked.chunk.offset + asked.received
                  /\ f.offset + f.len <= EndOf(asked.chunk)
                  /\ ends <=> f.offset + f.len = EndOf(asked.chunk)
             /\ f.type # "data" => f.class # "none" /\ f.offset = asked.chunk.offset
             /\ \E n \in 1 .. Len(frames[c]) : \E own \in [1 .. n + 1 -> 1 .. Len(flight[c]) + 1] :
                  /\ InOrder(flight[c], frames[c], serving[c], fetches[c], n, own)
                  /\ own[2] = 1 + (IF f.type = "data" /\ ~ends THEN 0 ELSE 1)
<1>. DEFINE fl == flight[c]
            fr == frames[c]
<1>1. fl \in Seq(InFlight) /\ fr \in Seq(Range(fr)) /\ fl # << >> /\ fr # << >>
  BY TypeFacts
<1>2. Len(fl) \in Nat /\ Len(fr) \in Nat \ {0} /\ Head(fl) = fl[1] /\ Head(fr) = fr[1] /\ fl[1] \in InFlight
  BY <1>1
<1>3. Pipelined(fl, fr, serving[c], fetches[c]) /\ fr[1].type # "closed"
  BY <1>2 DEF Answered
<1>4. fl[1].chunk \in ChunkType /\ fl[1].received \in Nat /\ fl[1].chunk.offset \in Nat /\ fl[1].chunk.len \in Nat
  BY <1>2 DEF InFlight, ChunkType
<1>. HIDE DEF fl, fr
<1>. DEFINE f == fr[1]
            asked == fl[1]
            end == EndOf(asked.chunk)
<1>5. /\ f.type = "data" =>
              /\ f.len \in Nat \ {0} /\ f.at = f.offset
              /\ f.offset = asked.chunk.offset + asked.received
              /\ f.offset + f.len <= end
      /\ f.type # "data" => f.class # "none" /\ f.offset = asked.chunk.offset
      /\ \E n \in 1 .. Len(fr) : \E own \in [1 .. n + 1 -> 1 .. Len(fl) + 1] :
           /\ InOrder(fl, fr, serving[c], fetches[c], n, own)
           /\ own[2] = 1 + (IF f.type = "data" /\ f.offset + f.len # end THEN 0 ELSE 1)
  BY <1>2, <1>3, HeadFrame
<1>. DEFINE ends == CompletesFetch(asked, f)
<1>6. f.type = "data" => (ends <=> f.offset + f.len = end)
  <2>. DEFINE l == f.len
              o == f.offset
              co == asked.chunk.offset
              cl == asked.chunk.len
              re == asked.received
  <2>. SUFFICES ASSUME f.type = "data"
                PROVE  re + l >= cl <=> o + l = co + cl
    BY DEF CompletesFetch, EndOf
  <2>1. l \in Nat /\ co \in Nat /\ cl \in Nat /\ re \in Nat /\ o = co + re /\ o + l <= co + cl
    BY <1>4, <1>5 DEF EndOf
  <2>. HIDE DEF l, o, co, cl, re
  <2>. QED
    BY <2>1
<1>7. \E n \in 1 .. Len(fr) : \E own \in [1 .. n + 1 -> 1 .. Len(fl) + 1] :
        /\ InOrder(fl, fr, serving[c], fetches[c], n, own)
        /\ own[2] = 1 + (IF f.type = "data" /\ ~ends THEN 0 ELSE 1)
  <2>1. (f.type = "data" /\ f.offset + f.len # end) <=> (f.type = "data" /\ ~ends)
    BY <1>6
  <2>. HIDE DEF f, asked, end, ends
  <2>. QED
    BY <1>5, <2>1
<1>. HIDE DEF ends
<1>8. Head(fl) = asked /\ Head(fr) = f
  BY <1>2
<1>9. ends <=> CompletesFetch(Head(fl), Head(fr))
  BY <1>8 DEF ends
<1>. QED
  BY <1>4, <1>5, <1>6, <1>7, <1>8, <1>9 DEF fl, fr

\* A step of the client on connection c, by what it leaves there.
LEMMA AnsweredFrom ==
  ASSUME Types, NEW c \in Conns, \A d \in Conns : Answered(d),
         \A d \in Conns \ {c} : flight'[d] = flight[d] /\ frames'[d] = frames[d]
                                /\ serving'[d] = serving[d] /\ fetches'[d] = fetches[d],
         Pipelined(flight'[c], frames'[c], serving'[c], fetches'[c])
  PROVE  \A d \in Conns : Answered(d)'
<1>. TAKE d \in Conns
<1>1. CASE d = c
  BY <1>1 DEF Answered
<1>2. CASE d # c
  BY <1>2 DEF Answered
<1>. QED
  BY <1>1, <1>2

LEMMA AsksAnswered ==
  ASSUME Types, NEW c \in Conns, \A d \in Conns : Answered(d), Asks(c)
  PROVE  \A d \in Conns : Answered(d)'
<1>1. /\ todo \in Seq(ChunkType) /\ flight \in [Conns -> Seq(InFlight)] /\ flight[c] \in Seq(InFlight)
      /\ fetches \in [Conns -> Seq(Request)] /\ fetches[c] \in Seq(Request) /\ frames[c] \in Seq(Range(frames[c]))
  BY TypeFacts
<1>2. /\ todo # << >> /\ frames' = frames /\ serving' = serving
      /\ flight' = [flight EXCEPT ![c] = Append(@, [chunk |-> Head(todo), received |-> 0])]
      /\ fetches' = [fetches EXCEPT ![c] = Append(@, FetchFrame(Head(todo)))]
  BY DEF Asks
<1>3. Head(todo) \in ChunkType /\ Len(frames[c]) \in Nat
  BY <1>1, <1>2
<1>4. /\ flight'[c] = Append(flight[c], [chunk |-> Head(todo), received |-> 0])
      /\ fetches'[c] = Append(fetches[c], FetchFrame(Head(todo)))
      /\ \A d \in Conns \ {c} : flight'[d] = flight[d] /\ fetches'[d] = fetches[d]
  BY <1>1, <1>2
<1>5. Pipelined(flight[c], frames[c], serving[c], fetches[c])
  BY DEF Answered
<1>6. Pipelined(flight'[c], frames[c], serving[c], fetches'[c])
  BY <1>1, <1>3, <1>4, <1>5, AskInOrder
<1>. QED
  BY <1>2, <1>4, <1>6, AnsweredFrom

LEMMA GoesOnAnswered ==
  ASSUME Types, NEW c \in Conns, \A d \in Conns : Answered(d), GoesOn(c)
  PROVE  \A d \in Conns : Answered(d)'
<1>. DEFINE fl == flight[c]
            fl2 == flight'[c]
            fr == frames[c]
            fr2 == frames'[c]
            se == serving[c]
            fe == fetches[c]
<1>1. /\ fl # << >> /\ fr # << >> /\ Head(fr).type = "data" /\ ~CompletesFetch(Head(fl), Head(fr))
      /\ frames' = [frames EXCEPT ![c] = Tail(@)] /\ serving' = serving /\ fetches' = fetches
  BY DEF GoesOn
<1>2. DOMAIN frames = Conns /\ fr \in Seq(Range(fr)) /\ fe \in Seq(Request)
  BY TypeFacts
<1>3. /\ \A d \in Conns \ {c} : flight'[d] = flight[d]
      /\ Len(fl) \in Nat \ {0} /\ Len(fl2) = Len(fl)
      /\ \A i \in 2 .. Len(fl) : fl2[i] = fl[i]
      /\ \A i \in 1 .. Len(fl) : fl2[i].chunk = fl[i].chunk
      /\ fl2[1].received = fl[1].received + Head(fr).len
  BY GoesOnFlight
<1>4. fr2 = Tail(fr) /\ \A d \in Conns \ {c} : frames'[d] = frames[d]
  BY <1>1, <1>2
<1>5. Len(fr) \in Nat \ {0} /\ Head(fr) = fr[1] /\ Len(fr2) = Len(fr) - 1 /\ \A i \in 1 .. Len(fr) - 1 : fr2[i] = fr[i + 1]
  BY <1>1, <1>2, <1>4, TailFacts
<1>6. Head(fl) = fl[1] /\ fl[1].chunk \in ChunkType /\ fl[1].received \in Nat /\ Head(fr).len \in Nat
      /\ Head(fr).offset = fl[1].chunk.offset + fl[1].received
  <2>1. fl \in Seq(InFlight)
    BY TypeFacts
  <2>2. Head(fl) = fl[1]
    BY <1>1, <2>1
  <2>. QED
    BY <1>1, <2>2, ReadFrame
<1>7. \E n \in 1 .. Len(fr) : \E own \in [1 .. n + 1 -> 1 .. Len(fl) + 1] :
        InOrder(fl, fr, se, fe, n, own) /\ own[2] = 1 + 0
  BY <1>1, ReadFrame
<1>8. Len(fe) \in Nat
  BY <1>2
<1>. HIDE DEF fl, fl2, fr, fr2, se, fe
<1>9. PICK n \in 1 .. Len(fr) : \E own \in [1 .. n + 1 -> 1 .. Len(fl) + 1] :
        InOrder(fl, fr, se, fe, n, own) /\ own[2] = 1 + 0
  BY <1>7
<1>10. PICK own \in [1 .. n + 1 -> 1 .. Len(fl) + 1] : InOrder(fl, fr, se, fe, n, own) /\ own[2] = 1 + 0
  BY <1>9
<1>11. /\ Len(fl2) = Len(fl) - 0 /\ 0 \in 0 .. 1
       /\ \A i \in 1 .. Len(fl) - 0 : fl2[i].chunk = fl[i + 0].chunk
  BY <1>3
<1>12. \A i \in 1 .. Len(fl) - 0 : i + 0 # 1 => fl2[i].received = fl[i + 0].received
  <2>. TAKE i \in 1 .. Len(fl) - 0
  <2>1. i + 0 = i /\ (i # 1 => i \in 2 .. Len(fl))
    BY <1>3
  <2>. QED
    BY <1>3, <2>1
<1>13. fl2[1].chunk.offset + fl2[1].received = fr[1].offset + fr[1].len
  <2>1. 1 \in 1 .. Len(fl)
    BY <1>3
  <2>2. fl2[1].chunk = fl[1].chunk /\ fl2[1].received = fl[1].received + fr[1].len /\ fr[1].offset = fl[1].chunk.offset + fl[1].received
    BY <1>3, <1>5, <1>6, <2>1
  <2>3. fl[1].chunk.offset \in Nat /\ fl[1].received \in Nat /\ fr[1].len \in Nat
    BY <1>5, <1>6 DEF ChunkType
  <2>. QED
    BY ONLY <2>2, <2>3
<1>14. Pipelined(fl2, fr2, se, fe)
  BY <1>3, <1>5, <1>8, <1>10, <1>11, <1>12, <1>13, NextInOrder
<1>. QED
  BY <1>1, <1>3, <1>4, <1>14, AnsweredFrom DEF fl2, fr2, se, fe

LEMMA DoneAnswered ==
  ASSUME Types, NEW c \in Conns, \A d \in Conns : Answered(d), Completes(c) \/ Returns(c)
  PROVE  \A d \in Conns : Answered(d)'
<1>. DEFINE fl == flight[c]
            fl2 == flight'[c]
            fr == frames[c]
            fr2 == frames'[c]
            se == serving[c]
            fe == fetches[c]
<1>0. IsDone(c)
  BY DEF Completes, Returns
<1>1. /\ fl # << >> /\ fr # << >>
      /\ frames' = [frames EXCEPT ![c] = Tail(@)] /\ serving' = serving /\ fetches' = fetches
  BY <1>0 DEF IsDone
<1>2. DOMAIN frames = Conns /\ fr \in Seq(Range(fr)) /\ fe \in Seq(Request)
  BY TypeFacts
<1>3. /\ \A d \in Conns \ {c} : flight'[d] = flight[d]
      /\ Len(fl) \in Nat \ {0} /\ Len(fl2) = Len(fl) - 1
      /\ \A i \in 1 .. Len(fl) - 1 : fl2[i] = fl[i + 1]
  BY <1>0, DoneFlight
<1>4. fr2 = Tail(fr) /\ \A d \in Conns \ {c} : frames'[d] = frames[d]
  BY <1>1, <1>2
<1>5. Len(fr) \in Nat \ {0} /\ Len(fr2) = Len(fr) - 1 /\ \A i \in 1 .. Len(fr) - 1 : fr2[i] = fr[i + 1]
  BY <1>1, <1>2, <1>4, TailFacts
<1>6. /\ Head(fr).type = "data" \/ Head(fr).type = "error"
      /\ Head(fr).type = "data" => CompletesFetch(Head(fl), Head(fr))
  BY DEF Completes, Returns
<1>7. \E n \in 1 .. Len(fr) : \E own \in [1 .. n + 1 -> 1 .. Len(fl) + 1] :
        InOrder(fl, fr, se, fe, n, own) /\ own[2] = 1 + 1
  BY <1>1, <1>6, ReadFrame
<1>8. Len(fe) \in Nat
  BY <1>2
<1>. HIDE DEF fl, fl2, fr, fr2, se, fe
<1>9. PICK n \in 1 .. Len(fr) : \E own \in [1 .. n + 1 -> 1 .. Len(fl) + 1] :
        InOrder(fl, fr, se, fe, n, own) /\ own[2] = 1 + 1
  BY <1>7
<1>10. PICK own \in [1 .. n + 1 -> 1 .. Len(fl) + 1] : InOrder(fl, fr, se, fe, n, own) /\ own[2] = 1 + 1
  BY <1>9
<1>11. /\ \A i \in 1 .. Len(fl) - 1 : fl2[i].chunk = fl[i + 1].chunk
       /\ \A i \in 1 .. Len(fl) - 1 : i + 1 # 1 => fl2[i].received = fl[i + 1].received
  BY <1>3
<1>13. 1 \in 0 .. 1 /\ 1 # 0
  OBVIOUS
<1>12. Pipelined(fl2, fr2, se, fe)
  BY <1>3, <1>5, <1>8, <1>10, <1>11, <1>13, NextInOrder
<1>. QED
  BY <1>1, <1>3, <1>4, <1>12, AnsweredFrom DEF fl2, fr2, se, fe

LEMMA LosesAnswered ==
  ASSUME Types, NEW c \in Conns, \A d \in Conns : Answered(d), Loses(c)
  PROVE  \A d \in Conns : Answered(d)'
<1>1. flight'[c] = << >> /\ \A d \in Conns \ {c} : flight'[d] = flight[d]
  BY LosesFlight
<1>2. Hangs(c)
  BY DEF Loses
<1>3. /\ fetches'[c] = << >> /\ serving'[c] = << >> /\ frames'[c] = << >>
      /\ \A d \in Conns \ {c} : fetches'[d] = fetches[d] /\ serving'[d] = serving[d] /\ frames'[d] = frames[d]
  BY <1>2, HangsTypes
<1>. QED
  BY <1>1, <1>3, EmptyInOrder, AnsweredFrom

---------------------------------------------------------------------------
(* What is in the buffer stays, and what is to be fetched is.              *)

\* Bytes that are in place stay so.
Kept == DOMAIN dst' = DOMAIN dst /\ \A p \in DOMAIN dst : dst[p] = p => dst'[p] = p

LEMMA FrameLands ==
  ASSUME Types, NEW c \in Conns, Lands(c),
         Head(frames[c]).offset \in Nat, Head(frames[c]).len \in Nat, Head(frames[c]).at = Head(frames[c]).offset
  PROVE  /\ Kept
         /\ \A p \in DOMAIN dst :
              p \in Head(frames[c]).offset .. Head(frames[c]).offset + Head(frames[c]).len - 1 => dst'[p] = p
<1>. DEFINE f == Head(frames[c])
            o == f.offset
            l == f.len
<1>1. o \in Nat /\ l \in Nat /\ f.at = o
  OBVIOUS
<1>2. dst' = [p \in DOMAIN dst |-> IF p \in o .. o + l - 1 THEN f.at + (p - o) ELSE dst[p]]
  BY DEF Lands
<1>. HIDE DEF f, o, l
<1>3. \A p \in DOMAIN dst : dst'[p] = IF p \in o .. o + l - 1 THEN f.at + (p - o) ELSE dst[p]
  BY <1>2
<1>4. \A p \in o .. o + l - 1 : f.at + (p - o) = p
  BY <1>1
<1>5. DOMAIN dst' = DOMAIN dst
  BY <1>2
<1>. QED
  BY <1>3, <1>4, <1>5 DEF Kept, o, l, f

\* What a connection has received stays received.
LEMMA ReceivedKept ==
  ASSUME Types, NEW d \in Conns, Received(d), Kept, flight'[d] = flight[d],
         \A i \in DOMAIN flight[d] : EndOf(flight[d][i].chunk) <= layout.total
  PROVE  Received(d)'
<1>. SUFFICES ASSUME NEW i \in DOMAIN flight[d]
              PROVE  /\ i > 1 => flight[d][i].received = 0
                     /\ flight[d][i].received <= flight[d][i].chunk.len
                     /\ \A p \in flight[d][i].chunk.offset .. flight[d][i].chunk.offset + flight[d][i].received - 1 : dst'[p] = p
  BY DEF Received
<1>. DEFINE o == flight[d][i].chunk.offset
            l == flight[d][i].chunk.len
            n == flight[d][i].received
<1>1. (i > 1 => n = 0) /\ n <= l /\ \A p \in o .. o + n - 1 : dst[p] = p
  BY DEF Received
<1>2. o \in Nat /\ l \in Nat /\ n \in Nat
  <2>1. flight[d] \in Seq(InFlight)
    BY TypeFacts
  <2>2. flight[d][i] \in InFlight
    BY <2>1
  <2>. QED
    BY <2>2 DEF InFlight, ChunkType
<1>3. o + l <= layout.total
  BY DEF EndOf
<1>4. DOMAIN dst = 0 .. layout.total - 1 /\ layout.total \in Nat
  BY TypeFacts
<1>. HIDE DEF o, l, n
<1>5. \A p \in o .. o + n - 1 : p \in DOMAIN dst
  BY <1>1, <1>2, <1>3, <1>4
<1>6. \A p \in o .. o + n - 1 : dst'[p] = p
  BY <1>1, <1>5 DEF Kept
<1>. QED
  BY <1>1, <1>6 DEF o, l, n

\* What is to be fetched, as ranges.
LEMMA ToFetchIs ==
  /\ \A r : ToFetch(r) <=> r \in Ranges(todo) \/ \E d \in Conns : r \in FlightRanges(d)
  /\ \A r : ToFetch(r)' <=> r \in Ranges(todo') \/ \E d \in Conns : \E i \in DOMAIN flight'[d] : r = RangeOf(flight'[d][i].chunk)
<1>1. \A r : ToFetch(r) <=> r \in Ranges(todo) \/ \E d \in Conns : r \in FlightRanges(d)
  BY DEF ToFetch, Ranges, FlightRanges
<1>2. \A r : ToFetch(r)' <=> r \in Ranges(todo') \/ \E d \in Conns : \E i \in DOMAIN flight'[d] : r = RangeOf(flight'[d][i].chunk)
  BY DEF ToFetch, Ranges, RangeOf
<1>. QED
  BY <1>1, <1>2

\* No range comes up that was not to be fetched; and none goes without having
\* been fetched, unless something fails.
Pursues ==
  /\ \A r : ToFetch(r)' => ToFetch(r)
  /\ failure' = "none" => /\ failure = "none"
                          /\ \A r : ToFetch(r) => ToFetch(r)' \/ r.offset \in finished'
  /\ finished \subseteq finished'

LEMMA AsksPursues ==
  ASSUME Types, NEW c \in Conns, Asks(c)
  PROVE  Pursues
<1>. DEFINE h == Head(todo)
            m == Len(flight[c])
<1>1. /\ \A d \in Conns \ {c} : flight'[d] = flight[d]
      /\ m \in Nat /\ DOMAIN flight[c] = 1 .. m
      /\ DOMAIN flight'[c] = 1 .. m + 1
      /\ \A i \in 1 .. m : flight'[c][i] = flight[c][i]
      /\ flight'[c][m + 1] = [chunk |-> h, received |-> 0]
      /\ todo \in Seq(ChunkType) /\ todo # << >>
  BY AsksFlight
<1>2. todo' = Tail(todo) /\ failure' = failure /\ finished' = finished
  BY DEF Asks
<1>3. /\ h = todo[1] /\ Len(todo) \in Nat \ {0} /\ DOMAIN todo = 1 .. Len(todo) /\ DOMAIN todo' = 1 .. Len(todo) - 1
      /\ \A i \in 1 .. Len(todo) - 1 : todo'[i] = todo[i + 1] /\ i + 1 \in 1 .. Len(todo)
  BY <1>1, <1>2, TailFacts
<1>. HIDE DEF h, m
<1>4. \A r : r \in Ranges(todo) <=> r = RangeOf(h) \/ r \in Ranges(todo')
  <2>1. \A i \in 1 .. Len(todo) : i = 1 \/ (i - 1 \in 1 .. Len(todo) - 1 /\ (i - 1) + 1 = i)
    BY <1>3
  <2>2. 1 \in 1 .. Len(todo)
    BY <1>3
  <2>3. ASSUME NEW i \in 1 .. Len(todo)
        PROVE  RangeOf(todo[i]) = RangeOf(h) \/ RangeOf(todo[i]) \in Ranges(todo')
    <3>1. CASE i = 1
      BY <1>3, <3>1
    <3>2. CASE i # 1
      <4>1. i - 1 \in DOMAIN todo' /\ todo'[i - 1] = todo[i]
        BY <1>3, <2>1, <3>2
      <4>. QED
        BY <4>1 DEF Ranges
    <3>. QED
      BY <3>1, <3>2
  <2>4. ASSUME NEW i \in 1 .. Len(todo) - 1
        PROVE  RangeOf(todo'[i]) \in Ranges(todo)
    BY <1>3 DEF Ranges
  <2>5. RangeOf(h) \in Ranges(todo)
    BY <1>3, <2>2 DEF Ranges
  <2>6. \A r \in Ranges(todo) : r = RangeOf(h) \/ r \in Ranges(todo')
    BY <1>3, <2>3 DEF Ranges
  <2>7. \A r \in Ranges(todo') : r \in Ranges(todo)
    BY <1>3, <2>4 DEF Ranges
  <2>. QED
    BY <2>5, <2>6, <2>7
<1>5. \A r : (\E i \in DOMAIN flight'[c] : r = RangeOf(flight'[c][i].chunk)) <=> r = RangeOf(h) \/ r \in FlightRanges(c)
  <2>1. \A i \in 1 .. m + 1 : i = m + 1 \/ i \in 1 .. m
    BY <1>1
  <2>2. m + 1 \in 1 .. m + 1 /\ \A i \in 1 .. m : i \in 1 .. m + 1
    BY <1>1
  <2>3. flight'[c][m + 1].chunk = h
    BY <1>1
  <2>. QED
    BY <1>1, <2>1, <2>2, <2>3 DEF FlightRanges
<1>6. \A d \in Conns \ {c} : \A r : (\E i \in DOMAIN flight'[d] : r = RangeOf(flight'[d][i].chunk)) <=> r \in FlightRanges(d)
  BY <1>1 DEF FlightRanges
<1>7. \A r : ToFetch(r)' <=> ToFetch(r)
  <2>. TAKE r
  <2>1. CASE r = RangeOf(h)
    BY <1>4, <1>5, <2>1, ToFetchIs
  <2>2. CASE r # RangeOf(h)
    BY <1>4, <1>5, <1>6, <2>2, ToFetchIs
  <2>. QED
    BY <2>1, <2>2
<1>. QED
  BY <1>2, <1>7 DEF Pursues

LEMMA GoesOnPursues ==
  ASSUME Types, NEW c \in Conns, GoesOn(c)
  PROVE  Pursues
<1>1. /\ \A d \in Conns \ {c} : flight'[d] = flight[d]
      /\ DOMAIN flight'[c] = DOMAIN flight[c]
      /\ \A i \in DOMAIN flight[c] : flight'[c][i].chunk = flight[c][i].chunk
  BY GoesOnFlight
<1>2. todo' = todo /\ failure' = failure /\ finished' = finished
  BY DEF GoesOn
<1>3. \A d \in Conns : \A r : (\E i \in DOMAIN flight'[d] : r = RangeOf(flight'[d][i].chunk)) <=> r \in FlightRanges(d)
  <2>. TAKE d \in Conns
  <2>1. CASE d = c
    BY <1>1, <2>1 DEF FlightRanges
  <2>2. CASE d # c
    BY <1>1, <2>2 DEF FlightRanges
  <2>. QED
    BY <2>1, <2>2
<1>4. \A r : ToFetch(r)' <=> ToFetch(r)
  BY <1>2, <1>3, ToFetchIs
<1>. QED
  BY <1>2, <1>4 DEF Pursues

LEMMA DonePursues ==
  ASSUME Types, NEW c \in Conns, \A d \in Conns : Answered(d), Completes(c) \/ Returns(c)
  PROVE  Pursues
<1>. DEFINE h == Head(flight[c]).chunk
            m == Len(flight[c])
<1>0. IsDone(c)
  BY DEF Completes, Returns
<1>1. /\ \A d \in Conns \ {c} : flight'[d] = flight[d]
      /\ m \in Nat \ {0} /\ DOMAIN flight[c] = 1 .. m /\ Head(flight[c]) = flight[c][1]
      /\ DOMAIN flight'[c] = 1 .. m - 1
      /\ \A i \in 1 .. m - 1 : flight'[c][i] = flight[c][i + 1] /\ i + 1 \in 1 .. m
  BY <1>0, DoneFlight
<1>2. h = flight[c][1].chunk
  BY <1>1
<1>3. todo \in Seq(ChunkType)
  BY TypeFacts
<1>. HIDE DEF h, m
<1>4. \A r : r \in FlightRanges(c) <=> r = RangeOf(h) \/ \E i \in DOMAIN flight'[c] : r = RangeOf(flight'[c][i].chunk)
  <2>1. \A i \in 1 .. m : i = 1 \/ (i - 1 \in 1 .. m - 1 /\ (i - 1) + 1 = i)
    BY <1>1
  <2>2. 1 \in 1 .. m
    BY <1>1
  <2>3. ASSUME NEW i \in 1 .. m
        PROVE  RangeOf(flight[c][i].chunk) = RangeOf(h) \/ \E j \in DOMAIN flight'[c] : RangeOf(flight[c][i].chunk) = RangeOf(flight'[c][j].chunk)
    <3>1. CASE i = 1
      BY <1>2, <3>1
    <3>2. CASE i # 1
      <4>1. i - 1 \in DOMAIN flight'[c] /\ flight'[c][i - 1] = flight[c][i]
        BY <1>1, <2>1, <3>2
      <4>. QED
        BY <4>1
    <3>. QED
      BY <3>1, <3>2
  <2>4. ASSUME NEW i \in 1 .. m - 1
        PROVE  RangeOf(flight'[c][i].chunk) \in FlightRanges(c)
    BY <1>1 DEF FlightRanges
  <2>5. RangeOf(h) \in FlightRanges(c)
    BY <1>1, <1>2, <2>2 DEF FlightRanges
  <2>6. \A r \in FlightRanges(c) : r = RangeOf(h) \/ \E j \in DOMAIN flight'[c] : r = RangeOf(flight'[c][j].chunk)
    BY <1>1, <2>3 DEF FlightRanges
  <2>. QED
    BY <1>1, <2>4, <2>5, <2>6
<1>5. \A d \in Conns \ {c} : \A r : (\E i \in DOMAIN flight'[d] : r = RangeOf(flight'[d][i].chunk)) <=> r \in FlightRanges(d)
  BY <1>1 DEF FlightRanges
<1>6. ASSUME NEW r, r \in Ranges(todo') => ToFetch(r), ToFetch(r)'
      PROVE  ToFetch(r)
  BY <1>4, <1>5, <1>6, ToFetchIs
<1>7. ASSUME NEW r, r # RangeOf(h), r \in Ranges(todo) => r \in Ranges(todo'), ToFetch(r)
      PROVE  ToFetch(r)'
  <2>1. CASE r \in Ranges(todo)
    BY <1>7, <2>1, ToFetchIs
  <2>2. CASE \E d \in Conns : r \in FlightRanges(d)
    <3>1. PICK d \in Conns : r \in FlightRanges(d)
      BY <2>2
    <3>2. \E i \in DOMAIN flight'[d] : r = RangeOf(flight'[d][i].chunk)
      BY <1>4, <1>5, <1>7, <3>1
    <3>. QED
      BY <3>2, ToFetchIs
  <2>. QED
    BY <1>7, <2>1, <2>2, ToFetchIs
<1>8. CASE Completes(c)
  <2>1. todo' = todo /\ failure' = failure /\ finished' = finished \cup {h.offset}
    BY <1>8 DEF Completes, h
  <2>2. RangeOf(h).offset \in finished'
    BY <2>1 DEF RangeOf
  <2>3. \A r : ToFetch(r)' => ToFetch(r)
    BY <1>6, <2>1, ToFetchIs
  <2>4. \A r : ToFetch(r) => ToFetch(r)' \/ r.offset \in finished'
    BY <1>7, <2>1, <2>2
  <2>. QED
    BY <2>1, <2>3, <2>4 DEF Pursues
<1>9. CASE Returns(c)
  <2>1. finished' = finished
    BY <1>9 DEF Returns
  <2>2. CASE failure' = (IF failure = "none" THEN Head(frames[c]).class ELSE failure) /\ todo' = todo
    <3>1. flight[c] # << >> /\ frames[c] # << >> /\ Head(frames[c]).type = "error"
      BY <1>9 DEF Returns, IsDone
    <3>2. Head(frames[c]).class # "none"
      BY <3>1, ReadFrame
    <3>3. failure' # "none"
      BY <2>2, <3>2
    <3>4. \A r : ToFetch(r)' => ToFetch(r)
      BY <1>6, <2>2, ToFetchIs
    <3>. QED
      BY <2>1, <3>3, <3>4 DEF Pursues
  <2>3. ASSUME NEW chunk \in ChunkType, RangeOf(chunk) = RangeOf(h), todo' = <<chunk>> \o todo, failure' = failure
        PROVE  Pursues
    <3>1. /\ Len(todo) \in Nat /\ DOMAIN todo = 1 .. Len(todo) /\ DOMAIN todo' = 1 .. Len(todo) + 1
          /\ todo'[1] = chunk /\ \A i \in 1 .. Len(todo) : todo'[i + 1] = todo[i] /\ i + 1 \in 1 .. Len(todo) + 1
      BY <1>3, <2>3
    <3>2. \A r : r \in Ranges(todo') <=> r = RangeOf(h) \/ r \in Ranges(todo)
      <4>1. \A i \in 1 .. Len(todo) + 1 : i = 1 \/ (i - 1 \in 1 .. Len(todo) /\ (i - 1) + 1 = i)
        BY <3>1
      <4>2. 1 \in 1 .. Len(todo) + 1
        BY <3>1
      <4>3. RangeOf(h) \in Ranges(todo')
        BY <2>3, <3>1, <4>2 DEF Ranges
      <4>4. ASSUME NEW i \in 1 .. Len(todo)
            PROVE  RangeOf(todo[i]) \in Ranges(todo')
        <5>1. i + 1 \in DOMAIN todo' /\ todo'[i + 1] = todo[i]
          BY <3>1
        <5>. QED
          BY <5>1 DEF Ranges
      <4>5. ASSUME NEW i \in 1 .. Len(todo) + 1
            PROVE  RangeOf(todo'[i]) = RangeOf(h) \/ RangeOf(todo'[i]) \in Ranges(todo)
        <5>1. CASE i = 1
          BY <2>3, <3>1, <5>1
        <5>2. CASE i # 1
          <6>1. i - 1 \in DOMAIN todo /\ todo'[i] = todo[i - 1]
            BY <3>1, <4>1, <5>2
          <6>. QED
            BY <6>1 DEF Ranges
        <5>. QED
          BY <5>1, <5>2
      <4>6. \A r \in Ranges(todo) : r \in Ranges(todo')
        BY <3>1, <4>4 DEF Ranges
      <4>7. \A r \in Ranges(todo') : r = RangeOf(h) \/ r \in Ranges(todo)
        BY <3>1, <4>5 DEF Ranges
      <4>. QED
        BY <4>3, <4>6, <4>7
    <3>3. ToFetch(RangeOf(h))
      <4>1. RangeOf(h) \in FlightRanges(c)
        BY <1>4
      <4>. QED
        BY <4>1, ToFetchIs
    <3>4. \A r : ToFetch(r)' => ToFetch(r)
      BY <1>6, <3>2, <3>3, ToFetchIs
    <3>5. \A r : ToFetch(r) => ToFetch(r)'
      <4>. SUFFICES ASSUME NEW r, ToFetch(r)
                    PROVE  ToFetch(r)'
        OBVIOUS
      <4>1. CASE r = RangeOf(h)
        BY <3>2, <4>1, ToFetchIs
      <4>2. CASE r # RangeOf(h)
        BY <1>7, <3>2, <4>2
      <4>. QED
        BY <4>1, <4>2
    <3>. QED
      BY <2>1, <2>3, <3>4, <3>5 DEF Pursues
  <2>. QED
    BY <1>9, <2>2, <2>3 DEF Returns, h
<1>. QED
  BY <1>8, <1>9

LEMMA LosesPursues ==
  ASSUME Types, NEW c \in Conns, Loses(c)
  PROVE  Pursues
<1>1. DOMAIN flight'[c] = {} /\ \A d \in Conns \ {c} : flight'[d] = flight[d]
  BY LosesFlight
<1>2. /\ finished' = finished
      /\ Ranges(todo') \subseteq Ranges(todo) \cup FlightRanges(c)
      /\ failure' = "none" => failure = "none" /\ Ranges(todo) \cup FlightRanges(c) \subseteq Ranges(todo')
  BY DEF Loses
<1>3. \A d \in Conns \ {c} : \A r : (\E i \in DOMAIN flight'[d] : r = RangeOf(flight'[d][i].chunk)) <=> r \in FlightRanges(d)
  BY <1>1 DEF FlightRanges
<1>4. ~\E i \in DOMAIN flight'[c] : TRUE
  BY <1>1
<1>5. \A r : ToFetch(r)' => ToFetch(r)
  <2>. SUFFICES ASSUME NEW r, ToFetch(r)'
                PROVE  ToFetch(r)
    OBVIOUS
  <2>1. CASE r \in Ranges(todo')
    BY <1>2, <2>1, ToFetchIs
  <2>2. CASE \E d \in Conns : \E i \in DOMAIN flight'[d] : r = RangeOf(flight'[d][i].chunk)
    <3>1. PICK d \in Conns : \E i \in DOMAIN flight'[d] : r = RangeOf(flight'[d][i].chunk)
      BY <2>2
    <3>2. r \in FlightRanges(d)
      BY <1>3, <1>4, <3>1
    <3>. QED
      BY <3>2, ToFetchIs
  <2>. QED
    BY <2>1, <2>2, ToFetchIs
<1>6. ASSUME failure' = "none", NEW r, ToFetch(r)
      PROVE  ToFetch(r)'
  <2>1. CASE r \in Ranges(todo)
    BY <1>2, <1>6, <2>1, ToFetchIs
  <2>2. CASE \E d \in Conns : r \in FlightRanges(d)
    <3>1. PICK d \in Conns : r \in FlightRanges(d)
      BY <2>2
    <3>2. CASE d = c
      BY <1>2, <1>6, <3>1, <3>2, ToFetchIs
    <3>3. CASE d # c
      BY <1>3, <3>1, <3>3, ToFetchIs
    <3>. QED
      BY <3>2, <3>3
  <2>. QED
    BY <1>6, <2>1, <2>2, ToFetchIs
<1>. QED
  BY <1>2, <1>5, <1>6 DEF Pursues

---------------------------------------------------------------------------
(* The buffer.                                                             *)

LEMMA NoPositions ==
  ASSUME NEW S, NEW q \in Seq(S)
  PROVE  q = << >> <=> DOMAIN q = {}
<1>1. Len(q) \in Nat /\ DOMAIN q = 1 .. Len(q) /\ (q = << >> <=> Len(q) = 0)
  OBVIOUS
<1>2. Len(q) # 0 => 1 \in DOMAIN q
  BY <1>1
<1>3. Len(q) = 0 => DOMAIN q = {}
  BY <1>1
<1>. QED
  BY <1>1, <1>2, <1>3

\* Idle and Covered in terms of what is to be fetched.
NothingToDo == \A r : ~ToFetch(r)
Pursued ==
  /\ \A r : ToFetch(r) => r \in Planned
  /\ Comes(layout, settings) => NothingToDo /\ \A p \in DOMAIN dst : dst[p] = p
  /\ ~Comes(layout, settings) /\ failure = "none" =>
       \A r \in Planned : r.offset \in finished \/ ToFetch(r)

LEMMA CoveredIs ==
  Types => (Idle <=> NothingToDo) /\ (Covered <=> Pursued)
<1>. SUFFICES ASSUME Types
              PROVE  (Idle <=> NothingToDo) /\ (Covered <=> Pursued)
  OBVIOUS
<1>1. todo \in Seq(ChunkType) /\ \A c \in Conns : flight[c] \in Seq(InFlight)
  BY DEF Types, InFlight
<1>2. todo = << >> <=> DOMAIN todo = {}
  BY <1>1, NoPositions
<1>3. ASSUME NEW c \in Conns
      PROVE  flight[c] = << >> <=> DOMAIN flight[c] = {}
  <2>. DEFINE q == flight[c]
  <2>1. q \in Seq(InFlight)
    BY <1>1
  <2>. HIDE DEF q
  <2>2. q = << >> <=> DOMAIN q = {}
    BY <2>1, NoPositions
  <2>. QED
    BY <2>2 DEF q
<1>4. Idle <=> DOMAIN todo = {} /\ \A c \in Conns : DOMAIN flight[c] = {}
  BY <1>2, <1>3 DEF Idle
<1>5. NothingToDo <=> DOMAIN todo = {} /\ \A c \in Conns : DOMAIN flight[c] = {}
  BY DEF ToFetch, NothingToDo
<1>6. (\A r : ToFetch(r) => r \in Planned)
      <=> /\ \A i \in DOMAIN todo : RangeOf(todo[i]) \in Planned
          /\ \A c \in Conns : \A i \in DOMAIN flight[c] : RangeOf(flight[c][i].chunk) \in Planned
  BY DEF ToFetch
<1>. QED
  BY <1>4, <1>5, <1>6 DEF Covered, Pursued

LEMMA CoveredIsNext ==
  Types' => (Idle' <=> NothingToDo') /\ (Covered' <=> Pursued')
BY CoveredIs, PTL

LEMMA CoveredKept ==
  ASSUME Types, Types', Covered, Pursues, Kept, UNCHANGED given
  PROVE  Covered'
<1>1. Planned' = Planned
  BY DEF Planned, Chunks, given, RangeOf
<1>2. layout' = layout /\ settings' = settings
  BY DEF given
<1>3. Pursued
  BY CoveredIs
<1>4. \A r : ToFetch(r)' => r \in Planned'
  BY <1>1, <1>3 DEF Pursues, Pursued
<1>5. Comes(layout, settings) => NothingToDo' /\ \A p \in DOMAIN dst' : dst'[p] = p
  BY <1>3 DEF Pursues, Pursued, NothingToDo, Kept
<1>6. ~Comes(layout, settings) /\ failure' = "none" => \A r \in Planned' : r.offset \in finished' \/ ToFetch(r)'
  BY <1>1, <1>3 DEF Pursues, Pursued
<1>7. Comes(layout, settings)' <=> Comes(layout, settings)
  BY <1>2 DEF Comes
<1>8. Pursued'
  BY <1>4, <1>5, <1>6, <1>7 DEF Pursued
<1>. QED
  BY <1>8, CoveredIsNext

\* The bytes of a chunk.
Span(a) == a.offset .. a.offset + a.len - 1

LEMMA SpanIs ==
  ASSUME NEW a \in ChunkType
  PROVE  a.offset .. EndOf(a) - 1 = Span(a)
<1>1. a.offset \in Nat /\ a.len \in Nat
  BY DEF ChunkType
<1>2. a.offset + a.len - 1 = (a.offset + a.len) - 1
  BY <1>1
<1>. QED
  BY <1>2 DEF Span, EndOf

\* The first part of LandsInPlace; the second follows from it.
Placed ==
  \A i \in DOMAIN Chunks :
    Chunks[i].offset \in finished => \A p \in Span(Chunks[i]) : dst[p] = p

LEMMA PlacedIs ==
  /\ LandsInPlace => Placed
  /\ Types /\ Covered /\ Placed => LandsInPlace
<1>2. ASSUME Types, Covered, Placed, Idle, failure = "none", NEW p \in DOMAIN dst
      PROVE  dst[p] = p
  <2>1. \A r : ~ToFetch(r)
    BY <1>2, CoveredIs DEF NothingToDo
  <2>2. CASE Comes(layout, settings)
    BY <1>2, <2>2 DEF Covered
  <2>3. CASE ~Comes(layout, settings)
    <3>1. \A r \in Planned : r.offset \in finished
      BY <1>2, <2>1, <2>3 DEF Covered
    <3>2. DOMAIN dst = 0 .. layout.total - 1
      BY <1>2 DEF Types
    <3>3. PICK i \in DOMAIN Chunks : p \in Span(Chunks[i])
      <4>1. \E i \in DOMAIN Chunks : p \in Chunks[i].offset .. EndOf(Chunks[i]) - 1
        BY <1>2, <3>2, GivenFacts DEF Types
      <4>2. \A i \in DOMAIN Chunks : Chunks[i] \in ChunkType
        <5>1. Chunks \in Seq(ChunkType)
          BY <1>2, GivenFacts DEF Types
        <5>. QED
          BY <5>1
      <4>. QED
        BY <4>1, <4>2, SpanIs
    <3>4. RangeOf(Chunks[i]) \in Planned
      BY DEF Planned
    <3>5. Chunks[i].offset \in finished
      BY <3>1, <3>4 DEF RangeOf
    <3>. QED
      BY <1>2, <3>3, <3>5 DEF Placed
  <2>. QED
    BY <2>2, <2>3
<1>. QED
  BY <1>2 DEF LandsInPlace, Placed, Span

LEMMA PlacedIsNext ==
  Types' /\ Covered' /\ Placed' => LandsInPlace'
BY PlacedIs, PTL

\* The bytes of a chunk are bytes of the buffer.
LEMMA ChunkInside ==
  ASSUME Types, NEW i \in DOMAIN Chunks
  PROVE  /\ Chunks[i] \in ChunkType
         /\ \A p \in Span(Chunks[i]) : p \in DOMAIN dst
<1>1. Chunks \in Seq(ChunkType) /\ EndOf(Chunks[i]) <= layout.total
  BY GivenFacts DEF Types
<1>2. Chunks[i] \in ChunkType
  BY <1>1
<1>3. DOMAIN dst = 0 .. layout.total - 1 /\ layout.total \in Nat
  BY GivenFacts DEF Types
<1>. DEFINE o == Chunks[i].offset
            l == Chunks[i].len
<1>4. o \in Nat /\ l \in Nat
  BY <1>2 DEF ChunkType
<1>5. o + l <= layout.total
  BY <1>1 DEF EndOf
<1>. HIDE DEF o, l
<1>6. \A p \in o .. o + l - 1 : p \in DOMAIN dst
  BY <1>3, <1>4, <1>5
<1>. QED
  BY <1>2, <1>6 DEF o, l, Span

LEMMA PlacedKept ==
  ASSUME Types, Placed, Kept, UNCHANGED given,
         \A i \in DOMAIN Chunks : Chunks[i].offset \in finished' \ finished =>
           \A p \in Span(Chunks[i]) : dst'[p] = p
  PROVE  Placed'
<1>1. Chunks' = Chunks
  BY DEF Chunks, given
<1>. SUFFICES ASSUME NEW i \in DOMAIN Chunks, Chunks[i].offset \in finished',
                     NEW p \in Span(Chunks[i])
              PROVE  dst'[p] = p
  BY <1>1 DEF Placed, Span
<1>2. CASE Chunks[i].offset \in finished
  <2>1. p \in DOMAIN dst
    BY ChunkInside
  <2>. QED
    BY <1>2, <2>1 DEF Placed, Kept
<1>3. CASE Chunks[i].offset \notin finished
  BY <1>3
<1>. QED
  BY <1>2, <1>3

\* What is in flight is planned, and so inside the buffer.
LEMMA FlightInside ==
  ASSUME Types, Covered, NEW d \in Conns, NEW i \in DOMAIN flight[d]
  PROVE  /\ \E j \in DOMAIN Chunks : RangeOf(flight[d][i].chunk) = RangeOf(Chunks[j])
         /\ EndOf(flight[d][i].chunk) <= layout.total
<1>1. RangeOf(flight[d][i].chunk) \in Planned
  BY DEF Covered
<1>2. PICK j \in DOMAIN Chunks : RangeOf(flight[d][i].chunk) = RangeOf(Chunks[j])
  BY <1>1 DEF Planned
<1>3. EndOf(Chunks[j]) <= layout.total
  BY GivenFacts DEF Types
<1>4. flight[d][i].chunk.offset = Chunks[j].offset /\ flight[d][i].chunk.len = Chunks[j].len
  <2>1. \A a : RangeOf(a).offset = a.offset /\ RangeOf(a).len = a.len
    BY DEF RangeOf
  <2>. QED
    BY <1>2, <2>1
<1>. QED
  BY <1>2, <1>3, <1>4 DEF EndOf

---------------------------------------------------------------------------
(* Every step keeps the invariant.                                         *)

\* What is in flight on connection c is in place as far as it was received,
\* as Received(c) says, entry by entry.
InPlace(a, buf) ==
  /\ a.received <= a.chunk.len
  /\ \A p \in a.chunk.offset .. a.chunk.offset + a.received - 1 : buf[p] = p

LEMMA ReceivedIs ==
  ASSUME NEW c \in Conns
  PROVE  /\ Received(c) <=> \A i \in DOMAIN flight[c] : (i > 1 => flight[c][i].received = 0) /\ InPlace(flight[c][i], dst)
         /\ Received(c)' <=> \A i \in DOMAIN flight'[c] : (i > 1 => flight'[c][i].received = 0) /\ InPlace(flight'[c][i], dst')
BY DEF Received, InPlace

LEMMA NothingYet ==
  ASSUME NEW a \in InFlight, a.received = 0, NEW buf
  PROVE  InPlace(a, buf)
<1>1. a.chunk.offset \in Nat /\ a.chunk.len \in Nat
  BY DEF InFlight, ChunkType
<1>. QED
  BY <1>1 DEF InPlace

LEMMA ReceivedFresh ==
  ASSUME NEW c \in Conns, Received(c)
  PROVE  Fresh(flight[c])
BY DEF Received, Fresh

\* The other connections.
LEMMA OthersReceived ==
  ASSUME Types, Covered, NEW c \in Conns, \A d \in Conns : Received(d), Kept,
         \A d \in Conns \ {c} : flight'[d] = flight[d], Received(c)'
  PROVE  \A d \in Conns : Received(d)'
<1>. TAKE d \in Conns
<1>1. CASE d # c
  <2>1. \A i \in DOMAIN flight[d] : EndOf(flight[d][i].chunk) <= layout.total
    BY FlightInside
  <2>. QED
    BY <1>1, <2>1, ReceivedKept
<1>. QED
  BY <1>1

LEMMA AsksReceived ==
  ASSUME Types, NEW c \in Conns, Received(c), Asks(c)
  PROVE  Received(c)'
<1>. DEFINE m == Len(flight[c])
            x == [chunk |-> Head(todo), received |-> 0]
<1>1. /\ m \in Nat /\ DOMAIN flight[c] = 1 .. m
      /\ DOMAIN flight'[c] = 1 .. m + 1
      /\ \A i \in 1 .. m : flight'[c][i] = flight[c][i]
      /\ flight'[c][m + 1] = x /\ Head(todo) \in ChunkType
  BY AsksFlight
<1>2. dst' = dst
  BY DEF Asks
<1>3. x \in InFlight /\ x.received = 0
  BY <1>1 DEF InFlight
<1>. HIDE DEF m, x
<1>4. InPlace(x, dst)
  BY <1>3, NothingYet
<1>5. \A i \in DOMAIN flight[c] : (i > 1 => flight[c][i].received = 0) /\ InPlace(flight[c][i], dst)
  BY ReceivedIs
<1>6. ASSUME NEW i \in DOMAIN flight'[c]
      PROVE  (i > 1 => flight'[c][i].received = 0) /\ InPlace(flight'[c][i], dst')
  <2>1. i = m + 1 \/ i \in 1 .. m
    BY <1>1
  <2>2. CASE i = m + 1
    BY <1>1, <1>2, <1>3, <1>4, <2>2
  <2>3. CASE i \in 1 .. m
    BY <1>1, <1>2, <1>5, <2>3
  <2>. QED
    BY <2>1, <2>2, <2>3
<1>. QED
  BY <1>6, ReceivedIs

LEMMA DoneReceived ==
  ASSUME Types, NEW c \in Conns, Received(c), IsDone(c)
  PROVE  Received(c)'
<1>. DEFINE m == Len(flight[c])
<1>1. /\ m \in Nat \ {0} /\ DOMAIN flight[c] = 1 .. m
      /\ DOMAIN flight'[c] = 1 .. m - 1
      /\ \A i \in 1 .. m - 1 : flight'[c][i] = flight[c][i + 1] /\ i + 1 \in 1 .. m
  BY DoneFlight
<1>2. \A i \in DOMAIN flight[c] : i > 1 => flight[c][i].received = 0
  BY ReceivedIs
<1>3. \A i \in DOMAIN flight[c] : flight[c][i] \in InFlight
  <2>1. flight[c] \in Seq(InFlight)
    BY TypeFacts
  <2>. QED
    BY <2>1
<1>. HIDE DEF m
<1>4. ASSUME NEW i \in DOMAIN flight'[c]
      PROVE  (i > 1 => flight'[c][i].received = 0) /\ InPlace(flight'[c][i], dst')
  <2>1. i + 1 > 1 /\ i + 1 \in DOMAIN flight[c] /\ flight'[c][i] = flight[c][i + 1]
    BY <1>1
  <2>2. flight'[c][i] \in InFlight /\ flight'[c][i].received = 0
    BY <1>2, <1>3, <2>1
  <2>. QED
    BY <2>2, NothingYet
<1>. QED
  BY <1>4, ReceivedIs

\* The bytes of a frame for the oldest fetch follow those already there.
LEMMA NextBytes ==
  ASSUME Types, Covered, NEW c \in Conns, Answered(c), Received(c), flight[c] # << >>, frames[c] # << >>,
         Head(frames[c]).type = "data", Lands(c)
  PROVE  LET a == Head(flight[c])
             f == Head(frames[c])
         IN  /\ a.received + f.len <= a.chunk.len
             /\ \A p \in a.chunk.offset .. a.chunk.offset + (a.received + f.len) - 1 : dst'[p] = p
             /\ Kept
<1>. DEFINE a == Head(flight[c])
            f == Head(frames[c])
            o == a.chunk.offset
            l == a.chunk.len
            n == a.received
            fo == f.offset
            fn == f.len
<1>1. /\ a.chunk \in ChunkType /\ n \in Nat /\ fn \in Nat /\ f.at = fo
      /\ fo = o + n /\ fo + fn <= o + l
  BY ReadFrame DEF EndOf
<1>2. o \in Nat /\ l \in Nat
  BY <1>1 DEF ChunkType
<1>3. fo \in Nat
  <2>. HIDE DEF o, n, fo
  <2>. QED
    BY <1>1, <1>2
<1>4. Kept /\ \A p \in DOMAIN dst : p \in fo .. fo + fn - 1 => dst'[p] = p
  BY <1>1, <1>3, FrameLands
<1>5. a = flight[c][1] /\ 1 \in DOMAIN flight[c]
  <2>1. flight[c] \in Seq(InFlight)
    BY TypeFacts
  <2>. QED
    BY <2>1
<1>6. InPlace(a, dst)
  BY <1>5, ReceivedIs
<1>7. \A p \in o .. o + n - 1 : dst[p] = p
  BY <1>6 DEF InPlace
<1>8. o + l <= layout.total
  BY <1>5, FlightInside DEF EndOf
<1>9. DOMAIN dst = 0 .. layout.total - 1 /\ layout.total \in Nat
  BY TypeFacts
<1>. HIDE DEF o, l, n, fo, fn
<1>10. n + fn <= l
  BY ONLY <1>1, <1>2
<1>11. ASSUME NEW p \in o .. o + (n + fn) - 1
       PROVE  dst'[p] = p
  <2>1. p \in DOMAIN dst
    BY <1>1, <1>2, <1>8, <1>9, <1>10
  <2>2. p \in o .. o + n - 1 \/ p \in fo .. fo + fn - 1
    BY <1>1, <1>2
  <2>. QED
    BY <1>4, <1>7, <2>1, <2>2 DEF Kept
<1>. QED
  BY <1>4, <1>10, <1>11 DEF o, l, n, fn

LEMMA GoesOnReceived ==
  ASSUME Types, Covered, NEW c \in Conns, Answered(c), Received(c), GoesOn(c)
  PROVE  Received(c)'
<1>. DEFINE m == Len(flight[c])
            a == flight'[c][1]
<1>1. /\ m \in Nat \ {0} /\ DOMAIN flight[c] = 1 .. m /\ DOMAIN flight'[c] = 1 .. m
      /\ \A i \in 2 .. m : flight'[c][i] = flight[c][i]
      /\ \A i \in 1 .. m : flight'[c][i].chunk = flight[c][i].chunk
      /\ a.received = flight[c][1].received + Head(frames[c]).len
  BY GoesOnFlight
<1>2. /\ flight[c] # << >> /\ frames[c] # << >> /\ Head(frames[c]).type = "data" /\ Lands(c)
  BY DEF GoesOn
<1>3. flight[c] \in Seq(InFlight)
  BY TypeFacts
<1>4. Head(flight[c]) = flight[c][1] /\ \A i \in 1 .. m : flight[c][i] \in InFlight
  BY <1>1, <1>2, <1>3
<1>5. 1 \in 1 .. m
  BY <1>1
<1>6. InPlace(a, dst')
  <2>1. a.chunk = Head(flight[c]).chunk /\ a.received = Head(flight[c]).received + Head(frames[c]).len
    BY <1>1, <1>4, <1>5
  <2>. QED
    BY <1>2, <2>1, NextBytes DEF InPlace
<1>7. \A i \in DOMAIN flight[c] : i > 1 => flight[c][i].received = 0
  BY ReceivedIs
<1>. HIDE DEF m
<1>8. ASSUME NEW i \in DOMAIN flight'[c]
      PROVE  (i > 1 => flight'[c][i].received = 0) /\ InPlace(flight'[c][i], dst')
  <2>1. CASE i = 1
    BY <1>6, <2>1
  <2>2. CASE i # 1
    <3>1. i > 1 /\ i \in 2 .. m /\ i \in 1 .. m
      BY <1>1, <2>2
    <3>2. flight'[c][i] \in InFlight /\ flight'[c][i].received = 0
      BY <1>1, <1>4, <1>7, <3>1
    <3>. QED
      BY <3>2, NothingYet
  <2>. QED
    BY <2>1, <2>2
<1>. QED
  BY <1>8, ReceivedIs

\* A chunk that becomes complete has all of its bytes.
LEMMA CompletesPlaces ==
  ASSUME Types, Covered, NEW c \in Conns, Answered(c), Received(c), Completes(c),
         NEW i \in DOMAIN Chunks, Chunks[i].offset \in finished' \ finished
  PROVE  \A p \in Span(Chunks[i]) : dst'[p] = p
<1>. DEFINE a == Head(flight[c])
            f == Head(frames[c])
<1>1. /\ flight[c] # << >> /\ frames[c] # << >> /\ f.type = "data" /\ Lands(c) /\ CompletesFetch(a, f)
      /\ finished' = finished \cup {a.chunk.offset}
  BY DEF Completes, IsDone
<1>2. Chunks[i].offset = a.chunk.offset
  BY <1>1
<1>3. a = flight[c][1] /\ 1 \in DOMAIN flight[c]
  <2>1. flight[c] \in Seq(InFlight)
    BY TypeFacts
  <2>. QED
    BY <1>1, <2>1
<1>4. PICK j \in DOMAIN Chunks : RangeOf(a.chunk) = RangeOf(Chunks[j])
  BY <1>3, FlightInside
<1>5. Chunks[j].offset = a.chunk.offset /\ Chunks[j].len = a.chunk.len
  <2>1. \A b : RangeOf(b).offset = b.offset /\ RangeOf(b).len = b.len
    BY DEF RangeOf
  <2>. QED
    BY <1>4, <2>1
<1>6. i = j
  BY <1>2, <1>5, GivenFacts DEF Types
<1>7. /\ a.received + f.len <= a.chunk.len
      /\ \A p \in a.chunk.offset .. a.chunk.offset + (a.received + f.len) - 1 : dst'[p] = p
  BY <1>1, NextBytes
<1>8. a.received + f.len = a.chunk.len
  <2>1. a.received \in Nat /\ f.len \in Nat /\ a.chunk \in ChunkType
    BY <1>1, ReadFrame
  <2>2. a.chunk.len \in Nat
    BY <2>1 DEF ChunkType
  <2>3. a.received + f.len >= a.chunk.len
    BY <1>1 DEF CompletesFetch
  <2>. QED
    BY <1>7, <2>1, <2>2, <2>3
<1>. QED
  BY <1>5, <1>6, <1>7, <1>8 DEF Span

\* What the kinds of steps show, taken together.
LEMMA StepFrom ==
  ASSUME IInv, NEW c \in Conns, UNCHANGED given, Types', OnceInFlight', ClaimsMatch',
         \A d \in Conns : Answered(d)',
         \A d \in Conns \ {c} : flight'[d] = flight[d], Received(c)',
         Kept, Pursues,
         \A i \in DOMAIN Chunks : Chunks[i].offset \in finished' \ finished => \A p \in Span(Chunks[i]) : dst'[p] = p
  PROVE  IInv'
<1>1. Types /\ Covered /\ \A d \in Conns : Received(d)
  BY DEF IInv
<1>2. \A d \in Conns : Received(d)'
  BY <1>1, OthersReceived
<1>3. Covered'
  BY <1>1, CoveredKept
<1>4. Placed
  BY PlacedIs DEF IInv
<1>5. Placed'
  BY <1>1, <1>4, PlacedKept
<1>6. LandsInPlace'
  BY <1>3, <1>5, PlacedIsNext
<1>. QED
  BY <1>2, <1>3, <1>6 DEF IInv

LEMMA ClientKeeps ==
  ASSUME IInv, NEW c \in Conns,
         Ask(c) \/ ReceiveData(c) \/ ReceiveError(c) \/ ReadsClosed(c) \/ Cut(c)
  PROVE  IInv'
<1>1. /\ Types /\ OnceInFlight /\ Covered /\ ClaimsMatch
      /\ \A d \in Conns : Answered(d) /\ Received(d)
  BY DEF IInv
<1>2. Asks(c) \/ GoesOn(c) \/ Completes(c) \/ Returns(c) \/ Loses(c)
  BY <1>1, ClientMoves
<1>3. GoesOn(c) => Head(frames[c]).len \in Nat
  <2>. SUFFICES ASSUME GoesOn(c)
                PROVE  Head(frames[c]).len \in Nat
    OBVIOUS
  <2>1. flight[c] # << >> /\ frames[c] # << >> /\ Head(frames[c]).type = "data"
    BY DEF GoesOn
  <2>. QED
    BY <1>1, <2>1, ReadFrame
<1>4. Types'
  BY <1>1, <1>2, <1>3, MovesTyped
<1>5. ASSUME dst' = dst
      PROVE  Kept
  BY <1>5 DEF Kept
<1>6. ASSUME finished' = finished
      PROVE  \A i \in DOMAIN Chunks : Chunks[i].offset \in finished' \ finished => \A p \in Span(Chunks[i]) : dst'[p] = p
  BY <1>6
<1>7. CASE Asks(c)
  <2>1. UNCHANGED given /\ dst' = dst /\ finished' = finished /\ \A d \in Conns \ {c} : flight'[d] = flight[d]
    BY <1>1, <1>7, AsksFlight DEF Asks
  <2>2. OnceInFlight' /\ ClaimsMatch'
    BY <1>1, <1>7, AsksClaims
  <2>3. \A d \in Conns : Answered(d)'
    BY <1>1, <1>7, AsksAnswered
  <2>4. Received(c)' /\ Pursues
    BY <1>1, <1>7, AsksReceived, AsksPursues
  <2>. QED
    BY <1>4, <1>5, <1>6, <2>1, <2>2, <2>3, <2>4, StepFrom
<1>8. CASE GoesOn(c)
  <2>1. UNCHANGED given /\ finished' = finished /\ \A d \in Conns \ {c} : flight'[d] = flight[d]
    BY <1>1, <1>8, GoesOnFlight DEF GoesOn
  <2>2. OnceInFlight' /\ ClaimsMatch'
    BY <1>1, <1>8, GoesOnClaims
  <2>3. \A d \in Conns : Answered(d)'
    BY <1>1, <1>8, GoesOnAnswered
  <2>4. Received(c)' /\ Pursues
    BY <1>1, <1>8, GoesOnReceived, GoesOnPursues
  <2>5. Kept
    BY <1>1, <1>8, NextBytes DEF GoesOn
  <2>. QED
    BY <1>4, <1>6, <2>1, <2>2, <2>3, <2>4, <2>5, StepFrom
<1>9. CASE Completes(c) \/ Returns(c)
  <2>0. IsDone(c)
    BY <1>9 DEF Completes, Returns
  <2>1. UNCHANGED given /\ \A d \in Conns \ {c} : flight'[d] = flight[d]
    BY <1>1, <2>0, DoneFlight DEF IsDone
  <2>2. OnceInFlight' /\ ClaimsMatch'
    BY <1>1, <2>0, DoneClaims
  <2>3. \A d \in Conns : Answered(d)'
    BY <1>1, <1>9, DoneAnswered
  <2>4. Received(c)' /\ Pursues
    BY <1>1, <1>9, <2>0, DoneReceived, DonePursues
  <2>5. Kept
    <3>1. CASE Completes(c)
      BY <1>1, <3>1, NextBytes DEF Completes, IsDone
    <3>2. CASE Returns(c)
      BY <1>5, <3>2 DEF Returns
    <3>. QED
      BY <1>9, <3>1, <3>2
  <2>6. \A i \in DOMAIN Chunks : Chunks[i].offset \in finished' \ finished => \A p \in Span(Chunks[i]) : dst'[p] = p
    <3>1. CASE Completes(c)
      BY <1>1, <3>1, CompletesPlaces
    <3>2. CASE Returns(c)
      BY <1>6, <3>2 DEF Returns
    <3>. QED
      BY <1>9, <3>1, <3>2
  <2>. QED
    BY <1>4, <2>1, <2>2, <2>3, <2>4, <2>5, <2>6, StepFrom
<1>10. CASE Loses(c)
  <2>1. UNCHANGED given /\ dst' = dst /\ finished' = finished
    BY <1>10 DEF Loses
  <2>2. DOMAIN flight'[c] = {} /\ \A d \in Conns \ {c} : flight'[d] = flight[d]
    BY <1>1, <1>10, LosesFlight
  <2>3. OnceInFlight' /\ ClaimsMatch'
    BY <1>1, <1>10, LosesClaims
  <2>4. \A d \in Conns : Answered(d)'
    BY <1>1, <1>10, LosesAnswered
  <2>5. Received(c)'
    BY <2>2, ReceivedIs
  <2>6. Pursues
    BY <1>1, <1>10, LosesPursues
  <2>. QED
    BY <1>4, <1>5, <1>6, <2>1, <2>2, <2>3, <2>4, <2>5, <2>6, StepFrom
<1>. QED
  BY <1>2, <1>7, <1>8, <1>9, <1>10

\* What does not depend on the server's state.
LEMMA ServerLeaves ==
  ASSUME IInv, UNCHANGED <<given, client>>
  PROVE  /\ OnceInFlight' /\ ClaimsMatch' /\ Covered' /\ LandsInPlace'
         /\ \A d \in Conns : Received(d)'
<1>1. /\ todo' = todo /\ flight' = flight /\ claimed' = claimed /\ dst' = dst /\ finished' = finished /\ failure' = failure
      /\ layout' = layout /\ settings' = settings
  BY DEF given, client
<1>2. Chunks' = Chunks /\ Planned' = Planned
  BY <1>1 DEF Chunks, Planned, RangeOf
<1>3. OnceInFlight'
  BY <1>1 DEF IInv, OnceInFlight, Overlaps
<1>4. ClaimsMatch'
  BY <1>1 DEF IInv, ClaimsMatch, Overlaps, RangeOf
<1>5. Covered'
  <2>1. (Idle' <=> Idle) /\ \A r : ToFetch(r)' <=> ToFetch(r)
    BY <1>1 DEF Idle, ToFetch, RangeOf
  <2>. QED
    BY <1>1, <1>2, <2>1 DEF IInv, Covered, RangeOf, Comes
<1>6. LandsInPlace'
  BY <1>1, <1>2 DEF IInv, LandsInPlace, Idle
<1>7. \A d \in Conns : Received(d)'
  BY <1>1 DEF IInv, Received
<1>. QED
  BY <1>3, <1>4, <1>5, <1>6, <1>7

LEMMA StepKeeps ==
  ASSUME IInv, [Next]_vars
  PROVE  IInv'
<1>1. CASE Next
  <2>1. PICK c \in Conns :
          \/ Ask(c) \/ ReceiveData(c) \/ ReceiveError(c) \/ ReadsClosed(c) \/ Cut(c)
          \/ Accept(c) \/ SendPiece(c) \/ ReadFails(c)
    BY <1>1 DEF Next
  <2>2. CASE Ask(c) \/ ReceiveData(c) \/ ReceiveError(c) \/ ReadsClosed(c) \/ Cut(c)
    BY <2>2, ClientKeeps
  <2>3. CASE Accept(c) \/ SendPiece(c) \/ ReadFails(c)
    <3>1. Types /\ Received(c) /\ \A d \in Conns : Answered(d)
      BY DEF IInv
    <3>2. Types' /\ (\A d \in Conns : Answered(d)') /\ UNCHANGED <<given, client>>
      BY <2>3, <3>1, ReceivedFresh, ServerKeeps
    <3>3. OnceInFlight' /\ ClaimsMatch' /\ Covered' /\ LandsInPlace' /\ \A d \in Conns : Received(d)'
      BY <3>2, ServerLeaves
    <3>. QED
      BY <3>2, <3>3 DEF IInv
  <2>. QED
    BY <2>1, <2>2, <2>3
<1>2. CASE UNCHANGED vars
  <2>1. UNCHANGED <<given, client>> /\ UNCHANGED server
    BY <1>2 DEF vars
  <2>2. OnceInFlight' /\ ClaimsMatch' /\ Covered' /\ LandsInPlace' /\ \A d \in Conns : Received(d)'
    BY <2>1, ServerLeaves
  <2>3. Types'
    BY <2>1 DEF IInv, Types, Chosen, given, client, server
  <2>4. \A d \in Conns : Answered(d)'
    BY <2>1 DEF IInv, Answered, client, server
  <2>. QED
    BY <2>2, <2>3, <2>4 DEF IInv
<1>. QED
  BY <1>1, <1>2

\* A transfer begins with all of its chunks to fetch, or with its data.
LEMMA InitHolds ==
  ASSUME Init
  PROVE  IInv
<1>. DEFINE plan == PlanReply(layout, settings)
<1>1. \E one \in Cases : Chosen(one)
  BY DEF Init
<1>2. layout.total \in Nat /\ Chunks \in Seq(ChunkType)
  BY <1>1, GivenFacts
<1>3. /\ todo = IF plan.remote THEN ChunksOf(plan.total_bytes, ChunkBytesFor(settings, plan.total_bytes)) ELSE << >>
      /\ dst = [p \in 0 .. plan.total_bytes - 1 |-> IF plan.remote THEN -1 ELSE plan.inline_data[p + 1]]
      /\ flight = [c \in Conns |-> << >>] /\ claimed = {} /\ finished = {}
      /\ fetches = [c \in Conns |-> << >>] /\ serving = [c \in Conns |-> << >>] /\ frames = [c \in Conns |-> << >>]
  BY DEF Init
<1>4. /\ plan.remote <=> ~Comes(layout, settings)
      /\ plan.total_bytes = layout.total
      /\ Comes(layout, settings) => plan.inline_data = [i \in 1 .. layout.total |-> i - 1]
  BY DEF PlanReply
<1>. HIDE DEF plan
<1>5. todo = IF Comes(layout, settings) THEN << >> ELSE Chunks
  BY <1>3, <1>4 DEF Chunks
<1>6. DOMAIN dst = 0 .. layout.total - 1
  BY <1>3, <1>4
<1>7. ASSUME Comes(layout, settings), NEW p \in DOMAIN dst
      PROVE  dst[p] = p
  <2>1. dst[p] = plan.inline_data[p + 1]
    BY <1>3, <1>4, <1>7
  <2>2. p + 1 \in 1 .. layout.total /\ (p + 1) - 1 = p
    BY <1>2, <1>6
  <2>. QED
    BY <1>4, <1>7, <2>1, <2>2
<1>8. \A c \in Conns : flight[c] = << >> /\ fetches[c] = << >> /\ serving[c] = << >> /\ frames[c] = << >>
  BY <1>3
<1>9. DOMAIN << >> = {} /\ Len(<< >>) = 0
  OBVIOUS
<1>10. Types
  <2>1. << >> \in Seq(InFlight) /\ << >> \in Seq(Request) /\ << >> \in Seq(Serving)
    OBVIOUS
  <2>2. flight \in [Conns -> Seq(InFlight)] /\ fetches \in [Conns -> Seq(Request)] /\ serving \in [Conns -> Seq(Serving)]
    BY <1>3, <2>1
  <2>3. todo \in Seq(ChunkType)
    BY <1>2, <1>5
  <2>4. DOMAIN frames = Conns /\ \A c \in Conns : frames[c] \in Seq(Range(frames[c]))
    BY <1>3, <1>8, OwnSeqs
  <2>5. \A c \in Conns : Len(serving[c]) <= 1
    BY <1>8, <1>9
  <2>. QED
    BY <1>1, <1>6, <2>2, <2>3, <2>4, <2>5 DEF Types, InFlight, Request, Serving
<1>11. \A c \in Conns : DOMAIN flight[c] = {}
  BY <1>8, <1>9
<1>12. OnceInFlight
  BY <1>11 DEF OnceInFlight
<1>13. ClaimsMatch
  <2>1. Claimed
    BY <1>3, <1>11 DEF Claimed
  <2>2. Credit \in Nat
    BY FetchAssumption
  <2>3. \A c \in Conns : Len(flight[c]) <= Credit
    BY <1>8, <1>9, <2>2
  <2>. QED
    BY <1>12, <2>1, <2>3, ClaimsAre
<1>14. ASSUME NEW c \in Conns
       PROVE  Answered(c) /\ Received(c)
  <2>1. Answered(c)
    BY <1>8, EmptyInOrder DEF Answered
  <2>2. Received(c)
    BY <1>11 DEF Received
  <2>. QED
    BY <2>1, <2>2
<1>15. Covered
  <2>1. \A r : ToFetch(r) <=> \E i \in DOMAIN todo : RangeOf(todo[i]) = r
    BY <1>11 DEF ToFetch
  <2>2. CASE Comes(layout, settings)
    <3>1. \A r : ~ToFetch(r)
      BY <1>5, <1>9, <2>1, <2>2
    <3>2. Pursued
      BY <1>7, <2>2, <3>1 DEF Pursued, NothingToDo
    <3>. QED
      BY <1>10, <3>2, CoveredIs
  <2>3. CASE ~Comes(layout, settings)
    <3>1. todo = Chunks
      BY <1>5, <2>3
    <3>2. \A r : ToFetch(r) <=> r \in Planned
      BY <2>1, <3>1 DEF Planned
    <3>3. Pursued
      BY <2>3, <3>2 DEF Pursued
    <3>. QED
      BY <1>10, <3>3, CoveredIs
  <2>. QED
    BY <2>2, <2>3
<1>16. LandsInPlace
  <2>1. Placed
    BY <1>3 DEF Placed
  <2>. QED
    BY <1>10, <1>15, <2>1, PlacedIs
<1>. QED
  BY <1>10, <1>12, <1>13, <1>14, <1>15, <1>16 DEF IInv

\* What is claimed of the caller's buffer is what is in flight, each range once,
\* within the credit of every connection (Transfer::step, ScatterBuffer::claim).
THEOREM ClaimsStayMatched ==
  Spec => []ClaimsMatch
<1>1. Init => IInv
  BY InitHolds
<1>2. IInv /\ [Next]_vars => IInv'
  BY StepKeeps
<1>3. IInv => ClaimsMatch
  BY DEF IInv
<1>. QED
  BY <1>1, <1>2, <1>3, PTL DEF Spec

\* Every byte of a chunk that counts as complete is in its place, and a transfer
\* that is over without a failure is complete, whatever broke off, was fetched
\* again or came in pieces (receive_data, Transfer::step, FetchReader::serve).
THEOREM BytesLandInPlace ==
  Spec => []LandsInPlace
<1>1. Init => IInv
  BY InitHolds
<1>2. IInv /\ [Next]_vars => IInv'
  BY StepKeeps
<1>3. IInv => LandsInPlace
  BY DEF IInv
<1>. QED
  BY <1>1, <1>2, <1>3, PTL DEF Spec

---------------------------------------------------------------------------
(* The rows of a plan.                                                     *)

RowBytes == LastOf(layout.shape) * layout.itemsize

\* The plan is as long as its shape says, and shorter than any number of bytes
\* that cannot be counted; where it has a byte no row is empty.
LEMMA LayoutFacts ==
  ASSUME \E one \in Cases : Chosen(one)
  PROVE  /\ layout.total = Product(layout.shape) * layout.itemsize /\ layout.total < Word
         /\ layout.total > 0 => PlaneOf(layout.shape) \in Nat \ {0} /\ \A a \in DOMAIN layout.shape : layout.shape[a] \in Nat \ {0}
         /\ layout.total > 0 /\ layout.shape # << >> =>
              LastOf(layout.shape) \in Nat \ {0} /\ RowBytes \in Nat \ {0} /\ IsMultiple(RowBytes, layout.itemsize)
<1>1. PICK one \in Cases : Chosen(one)
  OBVIOUS
<1>2. layout = LayoutFor(one.plan, one.builds)
  BY <1>1 DEF Chosen
<1>3. layout.total = Product(layout.shape) * layout.itemsize
  BY <1>2 DEF LayoutFor
<1>4. layout.total < Word
  BY <1>2, FetchAssumption
<1>5. layout.total \in Nat /\ layout.itemsize \in Nat \ {0} /\ layout.shape \in Seq(Nat)
  BY GivenFacts
<1>6. ASSUME layout.total > 0
      PROVE  \A a \in DOMAIN layout.shape : layout.shape[a] \in Nat \ {0}
  <2>. DEFINE q == layout.shape
  <2>1. q \in Seq(Nat) /\ DOMAIN q = 1 .. Len(q) /\ \A a \in DOMAIN q : q[a] \in Nat
    BY <1>5
  <2>. HIDE DEF q
  <2>2. Product(q) # 0
    <3>1. Product(q) = 0 => layout.total = 0
      BY <1>3, <1>5 DEF q
    <3>. QED
      BY <1>6, <3>1
  <2>3. \A a \in 1 .. Len(q) : q[a] # 0
    BY <2>1, <2>2, ProductFacts
  <2>. QED
    BY <2>1, <2>3 DEF q
<1>7. ASSUME layout.total > 0, layout.shape # << >>
      PROVE  LastOf(layout.shape) \in Nat \ {0} /\ RowBytes \in Nat \ {0} /\ IsMultiple(RowBytes, layout.itemsize)
  <2>. DEFINE last == LastOf(layout.shape)
              item == layout.itemsize
  <2>1. last \in Nat \ {0} /\ item \in Nat \ {0}
    <3>1. Len(layout.shape) \in DOMAIN layout.shape
      BY <1>5, <1>7
    <3>. QED
      BY <1>5, <1>6, <1>7, <3>1 DEF LastOf
  <2>. HIDE DEF last, item
  <2>2. last * item \in Nat \ {0} /\ IsMultiple(last * item, item)
    BY <2>1 DEF IsMultiple
  <2>. QED
    BY <2>1, <2>2 DEF RowBytes, last, item
<1>8. ASSUME layout.total > 0
      PROVE  PlaneOf(layout.shape) \in Nat \ {0}
  <2>1. Len(layout.shape) >= 2 => Len(layout.shape) - 1 \in DOMAIN layout.shape
    BY <1>5
  <2>. QED
    BY <1>6, <1>8, <2>1 DEF PlaneOf
<1>. QED
  BY <1>3, <1>4, <1>6, <1>7, <1>8

\* Where rows fit the buffer, the piece that does not end the fetch ends a row.
LEMMA RowStep ==
  ASSUME \E one \in Cases : Chosen(one), NEW offset \in Nat, NEW len \in Nat \ {0}, layout.total > 0,
         Eps(layout.quality) # << >>, layout.shape # << >>, RowBytes <= settings.buffer,
         IsMultiple(offset, layout.itemsize), IsMultiple(len, layout.itemsize)
  PROVE  LET piece == RowAligned(offset, Min({len, settings.buffer}))
         IN  \/ piece = len
             \/ /\ piece \in 1 .. len
                /\ IsMultiple(offset + piece, RowBytes)
                /\ IsMultiple(offset + piece, layout.itemsize) /\ IsMultiple(len - piece, layout.itemsize)
<1>. DEFINE p == Min({len, settings.buffer})
            row == RowBytes
            item == layout.itemsize
            over == (offset + p) % row
            aligned == IF layout.shape # << >> /\ row > 0 /\ over < p THEN p - over ELSE p - (p % item)
            piece == RowAligned(offset, p)
<1>1. layout.itemsize \in Nat \ {0} /\ settings.buffer \in Nat \ {0}
  BY GivenFacts
<1>2. row \in Nat \ {0} /\ IsMultiple(row, item) /\ row <= settings.buffer
  BY LayoutFacts
<1>3. p \in Nat \ {0} /\ p <= len /\ (p = len \/ p = settings.buffer)
  BY <1>1, MinOfTwo
<1>4. piece = IF aligned = 0 THEN p ELSE aligned
  BY DEF RowAligned, RowBytes
<1>5. piece \in 1 .. len
  BY PieceFacts
<1>. HIDE DEF p, row, item, piece
<1>6. over \in 0 .. row - 1 /\ IsMultiple(offset + p - over, row)
  <2>1. offset + p \in Int /\ row \in Nat \ {0}
    BY <1>2, <1>3
  <2>. DEFINE n == offset + p
  <2>2. n \in Int
    BY <2>1
  <2>. HIDE DEF n
  <2>3. n % row \in 0 .. row - 1 /\ IsMultiple(n - (n % row), row)
    BY <2>1, <2>2, RoundDown
  <2>. QED
    BY <1>2, <1>3, <2>3 DEF n, over
<1>. HIDE DEF over
<1>7. CASE over < p
  <2>1. piece = p - over /\ offset + piece = offset + p - over
    BY <1>2, <1>3, <1>4, <1>6, <1>7
  <2>2. IsMultiple(offset + piece, row)
    BY <1>6, <2>1
  <2>3. IsMultiple(offset + piece, item)
    <3>1. PICK k \in Int : offset + piece = k * row
      BY <2>2 DEF IsMultiple
    <3>2. IsMultiple(k * row, item)
      BY <1>1, <1>2, MultiplesAdd DEF item
    <3>. QED
      BY <3>1, <3>2
  <2>4. IsMultiple(len - piece, item)
    <3>0. item \in Int /\ offset \in Int /\ len \in Int /\ IsMultiple(offset, item) /\ IsMultiple(len, item)
      BY <1>1 DEF item
    <3>1. IsMultiple(offset + len, item) /\ offset + len \in Int /\ offset + piece \in Int /\ item \in Int
      BY <1>5, <3>0, MultiplesAdd
    <3>2. IsMultiple((offset + len) - (offset + piece), item)
      BY <2>3, <3>1, MultiplesAdd
    <3>3. (offset + len) - (offset + piece) = len - piece
      BY <1>5
    <3>. QED
      BY <3>2, <3>3
  <2>. QED
    BY <1>5, <2>2, <2>3, <2>4 DEF piece, p, row, item
<1>8. CASE ~(over < p)
  <2>1. p = len /\ aligned = p - (p % item)
    BY <1>2, <1>3, <1>6, <1>8
  <2>2. p % item = 0
    BY <1>1, <1>3, <2>1, MultipleIs DEF item
  <2>3. piece = len
    BY <1>3, <1>4, <2>1, <2>2
  <2>. QED
    BY <2>3 DEF piece, p
<1>. QED
  BY <1>7, <1>8

---------------------------------------------------------------------------
(* What each side sends is what the other takes.                           *)

\* What both sides may rely on about the server.
Reliable ==
  /\ Requested
  /\ \A c \in Conns : serving[c] # << >> => InStep(serving[c][1])
  /\ \A c \in Conns : \A i \in DOMAIN frames[c] : Made(frames[c][i])

LEMMA FetchIsChunk ==
  ASSUME NEW f, RangeOf(f) \in Planned
  PROVE  \E i \in DOMAIN Chunks : Chunks[i].offset = f.offset /\ Chunks[i].len = f.len
<1>1. PICK i \in DOMAIN Chunks : RangeOf(f) = RangeOf(Chunks[i])
  BY DEF Planned
<1>2. f.offset = Chunks[i].offset /\ f.len = Chunks[i].len
  BY <1>1 DEF RangeOf
<1>. QED
  BY <1>2

LEMMA ReliableFrom ==
  ASSUME Types, Reliable, NEW c \in Conns, UNCHANGED given,
         \A d \in Conns \ {c} : frames'[d] = frames[d] /\ serving'[d] = serving[d] /\ fetches'[d] = fetches[d],
         \A i \in DOMAIN fetches'[c] : RangeOf(fetches'[c][i]) \in Planned,
         serving'[c] # << >> => InStep(serving'[c][1]),
         \A i \in DOMAIN frames'[c] : Made(frames'[c][i])
  PROVE  Reliable'
<1>1. layout' = layout /\ settings' = settings /\ Chunks' = Chunks /\ Planned' = Planned
  BY DEF given, Chunks, Planned, RangeOf
<1>2. ASSUME NEW d \in Conns
      PROVE  /\ \A i \in DOMAIN fetches'[d] : RangeOf(fetches'[d][i]) \in Planned
             /\ serving'[d] # << >> => InStep(serving'[d][1])
             /\ \A i \in DOMAIN frames'[d] : Made(frames'[d][i])
  <2>1. CASE d = c
    BY <2>1
  <2>2. CASE d # c
    BY <2>2 DEF Reliable, Requested
  <2>. QED
    BY <2>1, <2>2
<1>3. Requested'
  BY <1>1, <1>2 DEF Requested, RangeOf
<1>4. (\A d \in Conns : serving[d] # << >> => InStep(serving[d][1]))'
  BY <1>1, <1>2 DEF InStep, WholeElements
<1>5. (\A d \in Conns : \A i \in DOMAIN frames[d] : Made(frames[d][i]))'
  <2>. SUFFICES ASSUME NEW d \in Conns, NEW i \in DOMAIN frames'[d]
                PROVE  Made(frames[d][i])'
    OBVIOUS
  <2>1. Made(frames'[d][i])
    BY <1>2
  <2>2. Shrinks(frames[d][i].at, frames[d][i].len)' <=> Shrinks(frames'[d][i].at, frames'[d][i].len)
    BY <1>1 DEF Shrinks
  <2>3. DataFrame(frames[d][i].at, frames[d][i].len)' = DataFrame(frames'[d][i].at, frames'[d][i].len)
    BY <1>1, <2>2 DEF DataFrame, RawFrame, EncodedFrame
  <2>. QED
    BY <1>1, <2>1, <2>3 DEF Made
<1>. QED
  BY <1>3, <1>4, <1>5 DEF Reliable

\* A sequence of what is made, with one more.
LEMMA AppendMade ==
  ASSUME NEW q, q \in Seq(Range(q)), \A i \in DOMAIN q : Made(q[i]), NEW x, Made(x)
  PROVE  \A i \in DOMAIN Append(q, x) : Made(Append(q, x)[i])
<1>. DEFINE S == Range(q) \cup {x}
<1>1. q \in Seq(S) /\ x \in S
  <2>1. q \in [1 .. Len(q) -> Range(q)] /\ Len(q) \in Nat
    OBVIOUS
  <2>2. q \in [1 .. Len(q) -> S]
    BY <2>1
  <2>. QED
    BY <2>1, <2>2
<1>. HIDE DEF S
<1>2. /\ Len(q) \in Nat /\ DOMAIN q = 1 .. Len(q) /\ DOMAIN Append(q, x) = 1 .. Len(q) + 1
      /\ \A i \in 1 .. Len(q) : Append(q, x)[i] = q[i]
      /\ Append(q, x)[Len(q) + 1] = x
  BY <1>1, AppendFacts
<1>. TAKE i \in DOMAIN Append(q, x)
<1>3. i \in 1 .. Len(q) \/ i = Len(q) + 1
  BY <1>2
<1>. QED
  BY <1>2, <1>3

\* A frame that the server makes of a part of the plan.
LEMMA FrameMade ==
  ASSUME NEW offset \in Nat, NEW len \in Nat \ {0}, offset + len <= layout.total, DataFrame(offset, len) # << >>
  PROVE  Made(DataFrame(offset, len)[1])
<1>. DEFINE frame == DataFrame(offset, len)
            x == frame[1]
<1>1. x.type = "data" /\ x.at = offset /\ x.len = len
  BY DataFrameFacts
<1>2. frame = <<x>>
  <2>. DEFINE spec == ForRange(layout.shape, layout.itemsize, offset, len)
              raw == RawFrame(offset, len)
              enc == EncodedFrame(layout.codec, spec[1], offset, len, len - 1)
  <2>1. frame = IF layout.codec = "Raw" THEN <<raw>>
                ELSE IF spec = << >> THEN << >>
                ELSE IF Shrinks(offset, len) THEN <<enc>> ELSE <<raw>>
    BY DEF DataFrame
  <2>. HIDE DEF raw, enc, spec, frame
  <2>2. frame # << >>
    BY DEF frame
  <2>3. frame = <<raw>> \/ frame = <<enc>>
    BY <2>1, <2>2
  <2>. QED
    BY <2>3
<1>. HIDE DEF x
<1>3. DataFrame(x.at, x.len) = <<x>>
  BY <1>1, <1>2
<1>. QED
  BY <1>1, <1>3 DEF Made, x

LEMMA ServerReliable ==
  ASSUME Types, Reliable, NEW c \in Conns, Accept(c) \/ SendPiece(c) \/ ReadFails(c)
  PROVE  Reliable'
<1>. DEFINE fr == frames[c]
            se == serving[c]
            fe == fetches[c]
<1>1. /\ fe \in Seq(Request) /\ se \in Seq(Serving) /\ Len(se) <= 1 /\ fr \in Seq(Range(fr)) /\ DOMAIN frames = Conns
      /\ serving \in [Conns -> Seq(Serving)] /\ fetches \in [Conns -> Seq(Request)]
  BY TypeFacts
<1>2. /\ \A i \in DOMAIN fe : RangeOf(fe[i]) \in Planned
      /\ se # << >> => InStep(se[1])
      /\ \A i \in DOMAIN fr : Made(fr[i])
  BY DEF Reliable, Requested
<1>3. UNCHANGED given
  BY DEF Accept, SendPiece, ReadFails
<1>4. /\ layout.itemsize \in Nat \ {0} /\ layout.total \in Nat
      /\ \A i \in DOMAIN Chunks : Chunks[i] \in ChunkType /\ EndOf(Chunks[i]) <= layout.total
  <2>1. Chunks \in Seq(ChunkType)
    BY GivenFacts DEF Types
  <2>. QED
    BY <2>1, GivenFacts DEF Types
<1>5. ASSUME NEW x, Made(x), frames' = [frames EXCEPT ![c] = Append(@, x)]
      PROVE  /\ \A i \in DOMAIN frames'[c] : Made(frames'[c][i])
             /\ \A d \in Conns \ {c} : frames'[d] = frames[d]
  <2>1. frames'[c] = Append(fr, x) /\ \A d \in Conns \ {c} : frames'[d] = frames[d]
    BY <1>1, <1>5
  <2>2. \A i \in DOMAIN Append(fr, x) : Made(Append(fr, x)[i])
    BY <1>1, <1>2, <1>5, AppendMade
  <2>. QED
    BY <2>1, <2>2
<1>6. CASE Accept(c)
  <2>. DEFINE f == Head(fe)
              s == [offset |-> f.offset, len |-> f.len, fetch |-> f.offset]
  <2>1. /\ se = << >> /\ fe # << >> /\ fetches' = [fetches EXCEPT ![c] = Tail(@)]
        /\ IF f.len <= settings.limit /\ f.offset + f.len <= layout.total /\ WholeElements(f)
           THEN serving' = [serving EXCEPT ![c] = <<s>>] /\ frames' = frames
           ELSE frames' = [frames EXCEPT ![c] = Append(@, ErrorFrame("request", f.offset))] /\ serving' = serving
    BY <1>6 DEF Accept, Replies
  <2>2. f \in Request /\ RangeOf(f) \in Planned
    <3>1. 1 \in DOMAIN fe /\ f = fe[1]
      BY <1>1, <2>1, TailFacts
    <3>. QED
      BY <1>1, <1>2, <3>1
  <2>3. \A i \in DOMAIN fetches'[c] : RangeOf(fetches'[c][i]) \in Planned
    <3>1. /\ fetches'[c] = Tail(fe)
          /\ DOMAIN fe = 1 .. Len(fe) /\ DOMAIN Tail(fe) = 1 .. Len(fe) - 1
          /\ \A i \in 1 .. Len(fe) - 1 : Tail(fe)[i] = fe[i + 1] /\ i + 1 \in 1 .. Len(fe)
      BY <1>1, <2>1, TailFacts
    <3>. QED
      BY <1>2, <3>1
  <2>4. \A d \in Conns \ {c} : fetches'[d] = fetches[d]
    BY <1>1, <2>1
  <2>. HIDE DEF f
  <2>5. CASE f.len <= settings.limit /\ f.offset + f.len <= layout.total /\ WholeElements(f)
    <3>1. serving' = [serving EXCEPT ![c] = <<s>>] /\ frames' = frames
      BY <2>1, <2>5
    <3>2. serving'[c][1] = s /\ \A d \in Conns \ {c} : serving'[d] = serving[d]
      BY <1>1, <3>1
    <3>3. s.offset = f.offset /\ s.len = f.len
      OBVIOUS
    <3>. HIDE DEF s
    <3>4. WholeElements(s) /\ s.offset + s.len <= layout.total
      BY <2>5, <3>3 DEF WholeElements
    <3>5. \E i \in DOMAIN Chunks : Chunks[i].offset = s.offset
      BY <2>2, <3>3, FetchIsChunk
    <3>6. InStep(s)
      BY <3>4, <3>5 DEF InStep
    <3>. QED
      BY <1>2, <1>3, <2>3, <2>4, <3>1, <3>2, <3>6, ReliableFrom
  <2>6. CASE ~(f.len <= settings.limit /\ f.offset + f.len <= layout.total /\ WholeElements(f))
    <3>. DEFINE x == ErrorFrame("request", f.offset)
    <3>1. frames' = [frames EXCEPT ![c] = Append(@, x)] /\ serving' = serving
      BY <2>1, <2>6
    <3>2. Made(x)
      BY DEF Made, ErrorFrame
    <3>. HIDE DEF x
    <3>3. /\ \A i \in DOMAIN frames'[c] : Made(frames'[c][i])
          /\ \A d \in Conns \ {c} : frames'[d] = frames[d]
      BY <1>5, <3>1, <3>2
    <3>. QED
      BY <1>2, <1>3, <2>3, <2>4, <3>1, <3>3, ReliableFrom
  <2>. QED
    BY <2>5, <2>6
<1>7. CASE SendPiece(c)
  <2>. DEFINE f == se[1]
              piece == RowAligned(f.offset, Min({f.len, settings.buffer}))
              frame == DataFrame(f.offset, piece)
              s == [f EXCEPT !.offset = @ + piece, !.len = @ - piece]
  <2>1. se # << >>
    BY <1>7 DEF SendPiece
  <2>2. f \in Serving /\ InStep(f)
    BY <1>1, <1>2, <2>1
  <2>3. f.offset \in Nat /\ f.len \in Nat \ {0}
    BY <2>2 DEF Serving
  <2>4. piece \in 1 .. f.len
    BY <2>3, PieceFacts DEF Types
  <2>5. \/ /\ frames' = [frames EXCEPT ![c] = Append(@, [type |-> "closed"])]
           /\ serving' = [serving EXCEPT ![c] = << >>] /\ fetches' = [fetches EXCEPT ![c] = << >>]
        \/ /\ frame # << >> /\ frames' = [frames EXCEPT ![c] = Append(@, frame[1])]
           /\ serving' = [serving EXCEPT ![c] = IF piece = f.len THEN << >> ELSE <<s>>] /\ fetches' = fetches
    BY <1>7 DEF SendPiece, Replies
  <2>6. CASE /\ frames' = [frames EXCEPT ![c] = Append(@, [type |-> "closed"])]
             /\ serving' = [serving EXCEPT ![c] = << >>] /\ fetches' = [fetches EXCEPT ![c] = << >>]
    <3>. DEFINE x == [type |-> "closed"]
    <3>1. Made(x)
      BY DEF Made
    <3>2. frames' = [frames EXCEPT ![c] = Append(@, x)]
      BY <2>6
    <3>. HIDE DEF x
    <3>3. /\ \A i \in DOMAIN frames'[c] : Made(frames'[c][i])
          /\ \A d \in Conns \ {c} : frames'[d] = frames[d]
      BY <1>5, <3>1, <3>2
    <3>4. /\ serving'[c] = << >> /\ fetches'[c] = << >>
          /\ \A d \in Conns \ {c} : serving'[d] = serving[d] /\ fetches'[d] = fetches[d]
      BY <1>1, <2>6
    <3>5. \A i \in DOMAIN fetches'[c] : RangeOf(fetches'[c][i]) \in Planned
      BY <3>4
    <3>. QED
      BY <1>3, <3>3, <3>4, <3>5, ReliableFrom
  <2>7. CASE /\ frame # << >> /\ frames' = [frames EXCEPT ![c] = Append(@, frame[1])]
             /\ serving' = [serving EXCEPT ![c] = IF piece = f.len THEN << >> ELSE <<s>>] /\ fetches' = fetches
    <3>0. f.offset + f.len <= layout.total /\ f.offset + piece <= layout.total /\ piece \in Nat \ {0}
          /\ f.len - piece \in Nat /\ f.offset + piece + (f.len - piece) = f.offset + f.len
      <4>. DEFINE o == f.offset
                  l == f.len
      <4>1. o + l <= layout.total
        BY <2>2 DEF InStep
      <4>2. o \in Nat /\ l \in Nat \ {0} /\ piece \in 1 .. l
        BY <2>3, <2>4
      <4>. HIDE DEF o, l, piece
      <4>3. o + piece <= layout.total /\ piece \in Nat \ {0} /\ l - piece \in Nat /\ o + piece + (l - piece) = o + l
        BY <1>4, <4>1, <4>2
      <4>. QED
        BY <4>1, <4>3 DEF o, l
    <3>1. Made(frame[1])
      <4>. HIDE DEF piece
      <4>. QED
        BY <2>3, <2>7, <3>0, FrameMade
    <3>2. /\ \A i \in DOMAIN frames'[c] : Made(frames'[c][i])
          /\ \A d \in Conns \ {c} : frames'[d] = frames[d]
      <4>. DEFINE x == frame[1]
      <4>1. Made(x) /\ frames' = [frames EXCEPT ![c] = Append(@, x)]
        BY <2>7, <3>1
      <4>. HIDE DEF x
      <4>. QED
        BY <1>5, <4>1
    <3>3. ASSUME piece # f.len
          PROVE  InStep(s)
      <4>1. s.offset = f.offset + piece /\ s.len = f.len - piece
        BY <2>2 DEF Serving
      <4>2. ASSUME Eps(layout.quality) # << >>, layout.shape # << >>, RowBytes <= settings.buffer
            PROVE  WholeElements(s) /\ s.offset % RowBytes = 0
        <5>1. layout.total > 0
          BY <1>4, <2>3, <3>0
        <5>2. RowBytes \in Nat \ {0}
          BY <4>2, <5>1, LayoutFacts DEF Types
        <5>3. f.offset % layout.itemsize = 0 /\ f.len % layout.itemsize = 0
          BY <2>2, <4>2 DEF InStep, WholeElements, RowBytes
        <5>4. IsMultiple(f.offset, layout.itemsize) /\ IsMultiple(f.len, layout.itemsize)
          BY <1>4, <2>3, <5>3, MultipleIs
        <5>5. /\ IsMultiple(f.offset + piece, RowBytes)
              /\ IsMultiple(f.offset + piece, layout.itemsize) /\ IsMultiple(f.len - piece, layout.itemsize)
          BY <2>3, <3>3, <4>2, <5>1, <5>4, RowStep DEF Types
        <5>. HIDE DEF piece
        <5>6. f.offset + piece \in Int /\ f.len - piece \in Int
          BY <2>3, <3>0
        <5>7. (f.offset + piece) % RowBytes = 0
          BY <5>2, <5>5, <5>6, MultipleIs
        <5>8. (f.offset + piece) % layout.itemsize = 0 /\ (f.len - piece) % layout.itemsize = 0
          BY <1>4, <5>5, <5>6, MultipleIs
        <5>. QED
          BY <4>1, <5>7, <5>8 DEF WholeElements
      <4>. HIDE DEF s, piece
      <4>3. s.offset + s.len <= layout.total
        BY <3>0, <4>1
      <4>. QED
        BY <4>2, <4>3 DEF InStep, RowBytes
    <3>4. /\ serving'[c] # << >> => InStep(serving'[c][1])
          /\ \A d \in Conns \ {c} : serving'[d] = serving[d]
      <4>. HIDE DEF s, piece, frame
      <4>1. serving'[c] = (IF piece = f.len THEN << >> ELSE <<s>>) /\ \A d \in Conns \ {c} : serving'[d] = serving[d]
        BY <1>1, <2>7
      <4>2. <<s>>[1] = s
        OBVIOUS
      <4>. QED
        BY <3>3, <4>1, <4>2
    <3>. QED
      BY <1>2, <1>3, <2>7, <3>2, <3>4, ReliableFrom
  <2>. QED
    BY <2>5, <2>6, <2>7
<1>8. CASE ReadFails(c)
  <2>1. serving' = [serving EXCEPT ![c] = << >>] /\ fetches' = fetches
    BY <1>8 DEF ReadFails, Stops
  <2>2. PICK class \in {"transient", "storage"} :
          frames' = [frames EXCEPT ![c] = Append(@, ErrorFrame(class, se[1].fetch))]
    BY <1>8 DEF ReadFails, Replies
  <2>. DEFINE x == ErrorFrame(class, se[1].fetch)
  <2>3. Made(x) /\ frames' = [frames EXCEPT ![c] = Append(@, x)]
    BY <2>2 DEF Made, ErrorFrame
  <2>. HIDE DEF x
  <2>4. /\ \A i \in DOMAIN frames'[c] : Made(frames'[c][i])
        /\ \A d \in Conns \ {c} : frames'[d] = frames[d]
    BY <1>5, <2>3
  <2>5. serving'[c] = << >> /\ \A d \in Conns \ {c} : serving'[d] = serving[d]
    BY <1>1, <2>1
  <2>. QED
    BY <1>2, <1>3, <2>1, <2>4, <2>5, ReliableFrom
<1>. QED
  BY <1>6, <1>7, <1>8

LEMMA ChunksApart ==
  ASSUME \E one \in Cases : Chosen(one), NEW i \in DOMAIN Chunks, NEW j \in DOMAIN Chunks,
         Chunks[i].offset # Chunks[j].offset
  PROVE  ~Overlaps(Chunks[i], Chunks[j])
<1>. DEFINE total == layout.total
            size == ChunkBytesFor(settings, total)
            q == ChunksOf(total, size)
            n == CeilDiv(total, size)
<1>1. total \in Nat /\ size \in Nat \ {0}
  BY GivenFacts
<1>2. Chunks = q /\ DOMAIN q = 1 .. n
  BY DEF Chunks, ChunksOf
<1>. HIDE DEF total, size, n
<1>3. n \in Nat
  <2>1. total + size - 1 \in Nat
    BY <1>1
  <2>. QED
    BY <1>1, <2>1, Division DEF CeilDiv, n
<1>4. ASSUME NEW k \in 1 .. n
      PROVE  /\ q[k].offset = (k - 1) * size /\ q[k].offset \in Nat
             /\ q[k].len <= size /\ q[k].len \in Int
  <2>1. q[k].offset = (k - 1) * size /\ q[k].len = Min({size, total - (k - 1) * size})
    BY DEF ChunksOf, n
  <2>2. k - 1 \in Nat
    BY <1>3
  <2>3. (k - 1) * size \in Nat
    BY <1>1, <2>2, Multiples
  <2>4. Min({size, total - (k - 1) * size}) \in Int /\ Min({size, total - (k - 1) * size}) <= size
    <3>. DEFINE b == total - (k - 1) * size
    <3>1. b \in Int
      BY <1>1, <2>3
    <3>. HIDE DEF b
    <3>2. Min({size, b}) \in Int /\ Min({size, b}) <= size
      BY <1>1, <3>1, MinOfTwo
    <3>. QED
      BY <3>2 DEF b
  <2>. QED
    BY <2>1, <2>3, <2>4
<1>. HIDE DEF q
<1>5. ASSUME NEW a \in 1 .. n, NEW b \in 1 .. n, a < b
      PROVE  ~Overlaps(q[a], q[b]) /\ ~Overlaps(q[b], q[a])
  <2>1. a - 1 \in Nat /\ b - 1 \in Nat /\ a - 1 < b - 1
    BY <1>3, <1>5
  <2>2. (a - 1) * size + size <= (b - 1) * size
    BY <1>1, <2>1, Multiples
  <2>3. q[a].offset + size <= q[b].offset
    BY <1>4, <2>2
  <2>4. q[a].offset + q[a].len <= q[b].offset
    BY <1>1, <1>4, <2>3
  <2>5. q[a].offset \in Nat /\ q[b].offset \in Nat /\ q[a].len \in Int /\ q[b].len \in Int
    BY <1>4
  <2>. QED
    BY <2>4, <2>5 DEF Overlaps
<1>6. i \in 1 .. n /\ j \in 1 .. n /\ i # j
  BY <1>2
<1>7. i < j \/ j < i
  BY <1>3, <1>6
<1>. QED
  BY <1>2, <1>5, <1>6, <1>7

\* The chunks of a plan are apart, and each is in flight once at most.
LEMMA PlannedApart ==
  ASSUME Types, NEW a \in ChunkType, NEW b \in ChunkType, RangeOf(a) \in Planned, RangeOf(b) \in Planned,
         a.offset # b.offset
  PROVE  ~Overlaps(a, b)
<1>1. \E one \in Cases : Chosen(one)
  BY DEF Types
<1>2. PICK i \in DOMAIN Chunks : Chunks[i].offset = a.offset /\ Chunks[i].len = a.len
  BY FetchIsChunk
<1>3. PICK j \in DOMAIN Chunks : Chunks[j].offset = b.offset /\ Chunks[j].len = b.len
  BY FetchIsChunk
<1>4. ~Overlaps(Chunks[i], Chunks[j])
  BY <1>1, <1>2, <1>3, ChunksApart
<1>. QED
  BY <1>2, <1>3, <1>4 DEF Overlaps

LEMMA FlightOnce ==
  ASSUME Types, OnceInFlight, NEW c \in Conns, NEW d \in Conns,
         NEW i \in DOMAIN flight[c], NEW j \in DOMAIN flight[d],
         flight[c][i].chunk.offset = flight[d][j].chunk.offset
  PROVE  c = d /\ i = j
<1>. DEFINE a == flight[c][i].chunk
            b == flight[d][j].chunk
<1>1. a \in ChunkType /\ b \in ChunkType
  BY FlightTyped
<1>2. a.offset = b.offset /\ a.offset \in Nat /\ a.len \in Nat \ {0} /\ b.len \in Nat \ {0}
  BY <1>1 DEF ChunkType
<1>3. Overlaps(a, b)
  BY <1>2 DEF Overlaps
<1>4. <<c, i>> = <<d, j>>
  BY <1>3 DEF OnceInFlight
<1>. QED
  BY <1>4

\* A claim is never refused: what is still to be fetched is apart from what is
\* in flight, and inside the plan.
LEMMA AskGranted ==
  ASSUME IInv, OnceToFetch, NEW c \in Conns, Ask(c)
  PROVE  Asks(c)
<1>. DEFINE chunk == Head(todo)
            refused == chunk.offset + chunk.len > layout.total \/ \E r \in claimed : Overlaps(r, chunk)
<1>1. Types /\ Covered /\ ClaimsMatch
  BY DEF IInv
<1>2. IF refused THEN GivesUp(c) ELSE Asks(c)
  BY AskTaken
<1>3. todo # << >>
  BY AskTaken
<1>4. todo \in Seq(ChunkType)
  BY <1>1, TypeFacts
<1>5. 1 \in DOMAIN todo /\ chunk = todo[1] /\ chunk \in ChunkType
  BY <1>3, <1>4, TailFacts
<1>6. RangeOf(chunk) \in Planned
  BY <1>1, <1>5 DEF Covered
<1>7. chunk.offset + chunk.len <= layout.total
  <2>1. PICK i \in DOMAIN Chunks : Chunks[i].offset = chunk.offset /\ Chunks[i].len = chunk.len
    BY <1>6, FetchIsChunk
  <2>2. EndOf(Chunks[i]) <= layout.total
    BY <1>1, GivenFacts DEF Types
  <2>. QED
    BY <2>1, <2>2 DEF EndOf
<1>8. ASSUME NEW r \in claimed
      PROVE  ~Overlaps(r, chunk)
  <2>1. PICK d \in Conns : \E i \in DOMAIN flight[d] : r = RangeOf(flight[d][i].chunk)
    BY <1>1, ClaimsAre DEF Claimed
  <2>2. PICK i \in DOMAIN flight[d] : r = RangeOf(flight[d][i].chunk)
    BY <2>1
  <2>. DEFINE a == flight[d][i].chunk
  <2>3. a \in ChunkType /\ RangeOf(a) \in Planned /\ a.offset # chunk.offset
    BY <1>1, <1>5, FlightTyped DEF Covered, OnceToFetch
  <2>4. ~Overlaps(a, chunk)
    <3>. HIDE DEF a, chunk
    <3>. QED
      BY <1>1, <1>5, <1>6, <2>3, PlannedApart
  <2>. HIDE DEF chunk
  <2>. QED
    BY <2>2, <2>4 DEF Overlaps, RangeOf
<1>9. ~refused
  <2>1. chunk.offset \in Nat /\ chunk.len \in Nat /\ layout.total \in Nat
    BY <1>1, <1>5, TypeFacts DEF ChunkType
  <2>2. ~(chunk.offset + chunk.len > layout.total)
    BY <1>7, <2>1
  <2>. HIDE DEF chunk
  <2>. QED
    BY <1>8, <2>2
<1>. QED
  BY <1>2, <1>9

---------------------------------------------------------------------------
(* What a frame needs to be taken.                                         *)

LEMMA CodecFits ==
  ASSUME NEW build, NEW q
  PROVE  /\ CodecOf(build, q) \in {"Raw", "Gzip", "Sz", "Zfp"}
         /\ IsErrorBounded(CodecOf(build, q)) <=> q.encoding = "ErrorBound"
<1>. DEFINE named == {c \in {"Raw", "Gzip", "Sz", "Zfp"} : q.codec = <<c>>}
            fit == {c \in named : IsErrorBounded(c) <=> q.encoding = "ErrorBound"}
            chosen == CHOOSE c \in fit : TRUE
<1>1. fit # {} => chosen \in fit
  OBVIOUS
<1>2. CodecOf(build, q) = IF q.encoding = "ErrorBound"
                          THEN IF fit = {} THEN DefaultLossy(build) ELSE chosen
                          ELSE IF \E c \in fit : CodecSupported(build, c) THEN chosen ELSE "Raw"
  BY DEF CodecOf
<1>3. DefaultLossy(build) \in {"Sz", "Zfp"}
  BY DEF DefaultLossy
<1>4. \A c \in fit : c \in {"Raw", "Gzip", "Sz", "Zfp"} /\ (IsErrorBounded(c) <=> q.encoding = "ErrorBound")
  OBVIOUS
<1>. HIDE DEF fit, chosen
<1>5. \/ CodecOf(build, q) \in fit
      \/ q.encoding = "ErrorBound" /\ CodecOf(build, q) \in {"Sz", "Zfp"}
      \/ q.encoding # "ErrorBound" /\ CodecOf(build, q) = "Raw"
  BY <1>1, <1>2, <1>3
<1>. QED
  BY <1>4, <1>5 DEF IsErrorBounded

\* A quality with the codec that fits it is carried by that one, or by none.
LEMMA CodecNamed ==
  ASSUME NEW build, NEW q, NEW c \in {"Raw", "Gzip", "Sz", "Zfp"}, q.codec = <<c>>,
         IsErrorBounded(c) <=> q.encoding = "ErrorBound"
  PROVE  CodecOf(build, q) \in {c, "Raw"}
<1>. DEFINE named == {d \in {"Raw", "Gzip", "Sz", "Zfp"} : q.codec = <<d>>}
            fit == {d \in named : IsErrorBounded(d) <=> q.encoding = "ErrorBound"}
<1>1. \A d : q.codec = <<d>> <=> d = c
  OBVIOUS
<1>2. fit = {c}
  BY <1>1
<1>3. CodecOf(build, q) = IF q.encoding = "ErrorBound"
                          THEN IF fit = {} THEN DefaultLossy(build) ELSE CHOOSE d \in fit : TRUE
                          ELSE IF \E d \in fit : CodecSupported(build, d) THEN CHOOSE d \in fit : TRUE ELSE "Raw"
  BY DEF CodecOf
<1>. HIDE DEF fit
<1>4. (CHOOSE d \in fit : TRUE) = c /\ fit # {}
  BY <1>2
<1>. QED
  BY <1>3, <1>4

\* Whatever the two sides are built with, the codec that the server uses is one
\* that the client has.
LEMMA CodecAgreed ==
  ASSUME \E one \in Cases : Chosen(one)
  PROVE  CodecSupported(builds[1], layout.codec)
<1>1. PICK one \in Cases : Chosen(one)
  OBVIOUS
<1>. DEFINE q == one.plan.quality
            mine == one.builds[1]
            yours == one.builds[2]
            e == Expandable(mine, q)
            c == CodecOf(mine, e)
            r == [[e EXCEPT !.codec = << >>] EXCEPT !.codec = <<c>>]
            agreed == Applied(yours, r, one.plan.dtype)
<1>2. builds = one.builds /\ layout = LayoutFor(one.plan, one.builds)
  BY <1>1 DEF Chosen
<1>3. layout.codec = CodecOf(yours, agreed)
  BY <1>2 DEF LayoutFor, Agreed, PrepareRequest
<1>4. q \in Qualities
  BY FetchAssumption
<1>5. CodecSupported(mine, "Raw")
  BY DEF CodecSupported
<1>6. \A build : CodecOf(build, Exact) = "Raw"
  <2>. TAKE build
  <2>1. Exact.encoding = "Exact" /\ Exact.codec = << >>
    BY DEF Exact, Quality
  <2>. DEFINE named == {d \in {"Raw", "Gzip", "Sz", "Zfp"} : Exact.codec = <<d>>}
  <2>2. named = {}
    BY <2>1
  <2>. HIDE DEF named
  <2>. QED
    BY <2>1, <2>2 DEF CodecOf, named
<1>7. e = q \/ e = Exact
  BY DEF Expandable
<1>8. CodecSupported(mine, c)
  <2>1. CASE e = Exact
    BY <1>5, <1>6, <2>1
  <2>2. CASE e # Exact
    BY <2>2 DEF Expandable
  <2>. QED
    BY <2>1, <2>2
<1>9. r.encoding = e.encoding /\ r.codec = <<c>>
  <2>1. q = [encoding |-> q.encoding, cast |-> q.cast, abs |-> q.abs, rel |-> q.rel, codec |-> q.codec]
    BY <1>4 DEF Qualities
  <2>2. e = [encoding |-> e.encoding, cast |-> e.cast, abs |-> e.abs, rel |-> e.rel, codec |-> e.codec]
    BY <1>7, <2>1 DEF Exact, Quality
  <2>. HIDE DEF e, c
  <2>. QED
    BY <2>2
<1>10. c \in {"Raw", "Gzip", "Sz", "Zfp"} /\ (IsErrorBounded(c) <=> e.encoding = "ErrorBound")
  BY CodecFits
<1>11. agreed = r \/ agreed = Exact
  BY DEF Applied
<1>. HIDE DEF e, c, r, agreed
<1>12. CASE agreed = r
  <2>1. CodecOf(yours, r) \in {c, "Raw"}
    BY <1>9, <1>10, CodecNamed
  <2>. QED
    BY <1>2, <1>3, <1>5, <1>8, <1>12, <2>1
<1>13. CASE agreed = Exact
  BY <1>2, <1>3, <1>5, <1>6, <1>13
<1>. QED
  BY <1>11, <1>12, <1>13

---------------------------------------------------------------------------
(* The shapes of blocks.                                                   *)

\* The axes that are longer than one.
Long == Nat \ {0, 1}

LEMMA RetainOne ==
  ASSUME NEW q \in Seq(Nat), NEW x \in Nat \ {0}
  PROVE  Retain(Append(q, x), Long) = IF x > 1 THEN Append(Retain(q, Long), x) ELSE Retain(q, Long)
<1>1. x \in Long <=> x > 1
  BY DEF Long
<1>. QED
  BY <1>1, RetainAppend

LEMMA LongOfTwo ==
  ASSUME NEW a \in Nat \ {0}, NEW b \in Nat \ {0}
  PROVE  Retain(<<a, b>>, Long) = IF a > 1 THEN IF b > 1 THEN <<a, b>> ELSE <<a>>
                                  ELSE IF b > 1 THEN <<b>> ELSE << >>
<1>1. /\ << >> \in Seq(Nat) /\ <<a>> \in Seq(Nat)
      /\ <<a>> = Append(<< >>, a) /\ <<a, b>> = Append(<<a>>, b) /\ <<b>> = Append(<< >>, b)
  OBVIOUS
<1>2. Retain(<< >>, Long) = << >>
  BY <1>1, RetainAppend
<1>3. Retain(Append(<< >>, a), Long) = IF a > 1 THEN Append(Retain(<< >>, Long), a) ELSE Retain(<< >>, Long)
  BY <1>1, RetainOne
<1>4. Retain(<<a>>, Long) = IF a > 1 THEN <<a>> ELSE << >>
  BY <1>1, <1>2, <1>3
<1>5. Retain(Append(<<a>>, b), Long) = IF b > 1 THEN Append(Retain(<<a>>, Long), b) ELSE Retain(<<a>>, Long)
  BY <1>1, RetainOne
<1>. QED
  BY <1>1, <1>4, <1>5

LEMMA LongOfThree ==
  ASSUME NEW a \in Nat \ {0}, NEW b \in Nat \ {0, 1}, NEW c \in Nat \ {0}
  PROVE  Retain(<<a, b, c>>, Long) = IF a > 1 THEN IF c > 1 THEN <<a, b, c>> ELSE <<a, b>>
                                     ELSE IF c > 1 THEN <<b, c>> ELSE <<b>>
<1>1. <<a, b>> \in Seq(Nat)
  OBVIOUS
<1>2. Append(<<a, b>>, c) = <<a, b, c>> /\ Append(<<b>>, c) = <<b, c>>
  <2>1. a \in Nat /\ b \in Nat /\ c \in Nat
    OBVIOUS
  <2>2. <<a, b>> \in Seq(Nat) /\ <<a, b, c>> = Append(<<a, b>>, c)
    BY <2>1, SmallAppends
  <2>3. <<b>> \in Seq(Nat) /\ <<b, c>> = Append(<<b>>, c)
    BY <2>1, SmallAppends
  <2>4. \A x, y : x = y <=> y = x
    OBVIOUS
  <2>. QED
    BY <2>2, <2>3, <2>4
<1>3. Retain(<<a, b>>, Long) = IF a > 1 THEN <<a, b>> ELSE <<b>>
  <2>1. b > 1
    OBVIOUS
  <2>. QED
    BY <2>1, LongOfTwo
<1>4. Retain(Append(<<a, b>>, c), Long) = IF c > 1 THEN Append(Retain(<<a, b>>, Long), c) ELSE Retain(<<a, b>>, Long)
  BY <1>1, RetainOne
<1>. QED
  BY <1>2, <1>3, <1>4

\* What the dimensions of a block can be.  One axis says nothing of the array;
\* more than one are rows of it, or planes.
Shaped(dims, at, len) ==
  LET last == LastOf(layout.shape)
      plane == PlaneOf(layout.shape)
      first == at \div layout.itemsize
  IN  \/ \E n \in Nat \ {0} : dims = <<n>> /\ n * layout.itemsize = len
      \/ \E m \in Nat \ {0, 1} :
           /\ layout.shape # << >>
           /\ dims = <<m, last>> /\ last > 1 /\ m * last * layout.itemsize = len
           /\ IsMultiple(first, last)
      \/ \E k \in Nat \ {0, 1} :
           /\ layout.shape # << >> /\ plane > 1 /\ last = 1
           /\ dims = <<k, plane>> /\ k * plane * layout.itemsize = len
           /\ IsMultiple(first, plane * last)
      \/ \E k \in Nat \ {0, 1} :
           /\ layout.shape # << >> /\ plane > 1 /\ last > 1
           /\ dims = <<k, plane, last>> /\ k * plane * last * layout.itemsize = len
           /\ IsMultiple(first, plane * last)

LEMMA ForRangeShaped ==
  ASSUME \E one \in Cases : Chosen(one), NEW at \in Nat, NEW len \in Nat \ {0}, at + len <= layout.total,
         ForRange(layout.shape, layout.itemsize, at, len) # << >>
  PROVE  LET spec == ForRange(layout.shape, layout.itemsize, at, len)[1]
         IN  spec.itemsize = layout.itemsize /\ Shaped(spec.dims, at, len)
<1>. DEFINE shape == layout.shape
            item == layout.itemsize
            slab == SlabAxes(shape, item, at, len)
            axes == IF slab = << >> THEN <<len \div item>> ELSE slab[1]
            spec == [dims |-> axes, itemsize |-> item]
            range == ForRange(shape, item, at, len)
            last == LastOf(shape)
            plane == PlaneOf(shape)
            row == last * item
            rows == len \div row
            whole == WholePlanes(shape, at \div row, rows)
            these == IF whole THEN <<rows \div plane, plane, last>> ELSE <<rows, last>>
            long == Retain(these, Long)
            first == at \div item
<1>1. item \in Nat \ {0} /\ shape \in Seq(Nat) /\ layout.total > 0 /\ layout.total \in Nat
  BY GivenFacts
<1>2. len % item = 0 /\ range = <<spec>>
  <2>1. range = IF len = 0 \/ len % item # 0 THEN << >>
                ELSE IF \E i \in DOMAIN axes : axes[i] > MaxAxis THEN << >> ELSE <<spec>>
    BY DEF ForRange
  <2>. HIDE DEF spec, axes
  <2>2. range # << >>
    OBVIOUS
  <2>. HIDE DEF range
  <2>. QED
    BY <2>1, <2>2
<1>3. range[1] = spec
  <2>. HIDE DEF spec, range
  <2>. QED
    BY <1>2
<1>4. slab = IF shape = << >> THEN << >>
             ELSE IF row = 0 \/ at % row # 0 \/ len % row # 0 \/ long = << >> THEN << >> ELSE <<long>>
  BY DEF SlabAxes, Long
<1>5. CASE slab = << >>
  <2>1. axes = <<len \div item>>
    BY <1>5
  <2>2. len \div item \in Nat \ {0} /\ (len \div item) * item = len
    <3>1. len \in Nat /\ len # 0 /\ item \in Nat \ {0} /\ len % item = 0
      BY <1>1, <1>2
    <3>. HIDE DEF item
    <3>. QED
      BY <3>1, DivideEvenly
  <2>3. Shaped(axes, at, len)
    BY <2>1, <2>2 DEF Shaped
  <2>. HIDE DEF axes
  <2>4. spec.dims = axes /\ spec.itemsize = item
    OBVIOUS
  <2>. QED
    BY <1>3, <2>3, <2>4
<1>6. CASE slab # << >>
  <2>. HIDE DEF long
  <2>1. shape # << >> /\ row # 0 /\ at % row = 0 /\ len % row = 0 /\ long # << >> /\ slab = <<long>>
    BY <1>4, <1>6
  <2>2. spec.dims = long /\ spec.itemsize = item
    <3>. HIDE DEF slab
    <3>. QED
      BY <2>1
  <2>3. last \in Nat \ {0} /\ row \in Nat \ {0}
    BY <1>1, <2>1, LayoutFacts DEF RowBytes
  <2>4. plane \in Nat \ {0}
    BY <1>1, LayoutFacts
  <2>5. rows \in Nat \ {0} /\ len = rows * row
    <3>. HIDE DEF row
    <3>. QED
      BY <2>1, <2>3, DivideEvenly
  <2>. DEFINE fr == at \div row
  <2>6. fr \in Nat /\ at = fr * row
    <3>. HIDE DEF row
    <3>. QED
      BY <2>1, <2>3, DivideEvenly
  <2>. HIDE DEF rows, fr
  <2>7. first = fr * last
    <3>. HIDE DEF last, item
    <3>1. at = (fr * last) * item /\ fr * last \in Nat
      BY <1>1, <2>3, <2>6
    <3>. DEFINE n == fr * last
    <3>2. n \in Nat /\ at = n * item
      BY <3>1
    <3>. HIDE DEF n
    <3>3. (n * item) \div item = n
      BY <1>1, <3>2
    <3>. QED
      BY <3>2, <3>3 DEF n
  <2>8. IsMultiple(first, last)
    BY <2>6, <2>7 DEF IsMultiple
  <2>9. CASE whole
    <3>1. plane > 1 /\ rows % plane = 0 /\ fr % plane = 0
      BY <2>9 DEF WholePlanes, rows, fr
    <3>. DEFINE k == rows \div plane
                j == fr \div plane
    <3>2. k \in Nat \ {0} /\ rows = k * plane /\ j \in Nat /\ fr = j * plane
      <4>. HIDE DEF plane
      <4>1. k \in Nat \ {0} /\ rows = k * plane
        BY <2>4, <2>5, <3>1, DivideEvenly
      <4>2. j \in Nat /\ fr = j * plane
        BY <2>4, <2>6, <3>1, DivideEvenly
      <4>. QED
        BY <4>1, <4>2
    <3>3. long = IF k > 1 THEN IF last > 1 THEN <<k, plane, last>> ELSE <<k, plane>>
                 ELSE IF last > 1 THEN <<plane, last>> ELSE <<plane>>
      <4>1. long = Retain(<<k, plane, last>>, Long)
        BY <2>9 DEF long, rows
      <4>. HIDE DEF k, plane, last
      <4>2. plane \in Nat \ {0, 1}
        BY <2>4, <3>1
      <4>. QED
        BY <2>3, <3>2, <4>1, <4>2, LongOfThree
    <3>. HIDE DEF k, j, plane, last, item, shape, first
    <3>4. IsMultiple(first, plane * last)
      <4>1. first = j * (plane * last)
        BY <2>3, <2>4, <2>7, <3>2
      <4>. QED
        BY <3>2, <4>1 DEF IsMultiple
    <3>5. len = k * plane * last * item
      BY <1>1, <2>3, <2>4, <2>5, <3>2
    <3>6. CASE k > 1 /\ last > 1
      <4>1. long = <<k, plane, last>> /\ k \in Nat \ {0, 1}
        BY <3>2, <3>3, <3>6
      <4>. QED
        BY <1>3, <2>1, <2>2, <3>1, <3>4, <3>5, <3>6, <4>1 DEF Shaped, first, plane, last, item, shape
    <3>7. CASE k > 1 /\ ~(last > 1)
      <4>1. long = <<k, plane>> /\ k \in Nat \ {0, 1} /\ last = 1
        BY <2>3, <3>2, <3>3, <3>7
      <4>2. len = k * plane * item
        BY <1>1, <2>4, <3>2, <3>5, <4>1
      <4>. QED
        BY <1>3, <2>1, <2>2, <3>1, <3>4, <4>1, <4>2 DEF Shaped, first, plane, last, item, shape
    <3>8. CASE ~(k > 1) /\ last > 1
      <4>1. long = <<plane, last>> /\ k = 1 /\ plane \in Nat \ {0, 1}
        BY <2>4, <3>1, <3>2, <3>3, <3>8
      <4>2. len = plane * last * item
        BY <1>1, <2>3, <2>4, <3>5, <4>1
      <4>. QED
        BY <1>3, <2>1, <2>2, <2>8, <3>8, <4>1, <4>2 DEF Shaped, first, plane, last, item, shape
    <3>9. CASE ~(k > 1) /\ ~(last > 1)
      <4>1. long = <<plane>> /\ k = 1 /\ last = 1
        BY <2>3, <3>2, <3>3, <3>9
      <4>2. len = plane * item
        BY <1>1, <2>3, <2>4, <3>5, <4>1
      <4>. QED
        BY <1>3, <2>2, <2>4, <4>1, <4>2 DEF Shaped, first, plane, last, item, shape
    <3>. QED
      BY <3>6, <3>7, <3>8, <3>9
  <2>10. CASE ~whole
    <3>1. long = IF rows > 1 THEN IF last > 1 THEN <<rows, last>> ELSE <<rows>>
                 ELSE IF last > 1 THEN <<last>> ELSE << >>
      <4>1. long = Retain(<<rows, last>>, Long)
        BY <2>10 DEF long, rows
      <4>. HIDE DEF last
      <4>. QED
        BY <2>3, <2>5, <4>1, LongOfTwo
    <3>. HIDE DEF plane, last, item, shape, first
    <3>2. len = rows * last * item
      BY <1>1, <2>3, <2>5
    <3>3. CASE rows > 1 /\ last > 1
      <4>1. long = <<rows, last>> /\ rows \in Nat \ {0, 1}
        BY <2>5, <3>1, <3>3
      <4>. QED
        BY <1>3, <2>1, <2>2, <2>8, <3>2, <3>3, <4>1 DEF Shaped, first, last, item, shape
    <3>4. CASE ~(rows > 1 /\ last > 1)
      <4>1. (long = <<rows>> /\ last = 1) \/ (long = <<last>> /\ rows = 1)
        BY <2>1, <2>3, <2>5, <3>1, <3>4
      <4>2. \E n \in Nat \ {0} : long = <<n>> /\ n * item = len
        BY <1>1, <2>3, <2>5, <3>2, <4>1
      <4>3. Shaped(long, at, len)
        BY <4>2 DEF Shaped, item
      <4>. QED
        BY <1>3, <2>2, <4>3 DEF item, shape
    <3>. QED
      BY <3>3, <3>4
  <2>. QED
    BY <2>9, <2>10
<1>. QED
  BY <1>5, <1>6

LEMMA ShapedExpands ==
  ASSUME \E one \in Cases : Chosen(one), NEW spec, NEW at, NEW len \in Nat \ {0},
         spec.itemsize = layout.itemsize, Shaped(spec.dims, at, len), layout.total > 0
  PROVE  Expands(spec, len)
<1>. DEFINE last == LastOf(layout.shape)
            plane == PlaneOf(layout.shape)
            item == layout.itemsize
            d == spec.dims
<1>1. item \in Nat \ {0}
  BY GivenFacts
<1>2. ASSUME NEW n \in Nat \ {0}, d = <<n>>, n * item = len
      PROVE  Expands(spec, len)
  <2>1. Len(d) = 1 /\ DOMAIN d = {1} /\ d[1] = n
    BY <1>2
  <2>2. Product(d) = n
    BY <1>2, SmallProducts
  <2>3. n > 1 \/ d = <<1>>
    BY <1>2
  <2>. HIDE DEF d, item
  <2>. QED
    BY <1>2, <2>1, <2>2, <2>3 DEF Expands, SpecBytes, MAX_BLOCK_DIMS, d, item
<1>3. ASSUME NEW m \in Nat, NEW n \in Nat, m > 1, n > 1, d = <<m, n>>, m * n * item = len
      PROVE  Expands(spec, len)
  <2>1. Len(d) = 2 /\ DOMAIN d = {1, 2} /\ d[1] = m /\ d[2] = n
    BY <1>3
  <2>2. Product(d) = m * n
    <3>. HIDE DEF d
    <3>1. Product(<<m, n>>) = m * n
      BY SmallProducts
    <3>. QED
      BY <1>3, <3>1
  <2>. HIDE DEF d, item
  <2>. QED
    BY <1>3, <2>1, <2>2 DEF Expands, SpecBytes, MAX_BLOCK_DIMS, d, item
<1>4. ASSUME NEW k \in Nat, NEW m \in Nat, NEW n \in Nat, k > 1, m > 1, n > 1, d = <<k, m, n>>, k * m * n * item = len
      PROVE  Expands(spec, len)
  <2>1. Len(d) = 3 /\ DOMAIN d = {1, 2, 3} /\ d[1] = k /\ d[2] = m /\ d[3] = n
    BY <1>4
  <2>2. Product(d) = k * m * n
    <3>. HIDE DEF d
    <3>1. Product(<<k, m, n>>) = k * m * n
      <4>1. <<k, m>> \in Seq(Nat) /\ <<k, m, n>> = Append(<<k, m>>, n)
        BY SmallAppends
      <4>2. Product(<<k, m>>) = k * m
        BY SmallProducts
      <4>. QED
        BY <4>1, <4>2, ProductAppend
    <3>. QED
      BY <1>4, <3>1
  <2>. HIDE DEF d, item
  <2>. QED
    BY <1>4, <2>1, <2>2 DEF Expands, SpecBytes, MAX_BLOCK_DIMS, d, item
<1>5. \A k \in Nat \ {0, 1} : k \in Nat /\ k > 1
  OBVIOUS
<1>6. \/ \E n \in Nat \ {0} : d = <<n>> /\ n * item = len
      \/ \E m \in Nat \ {0, 1} : layout.shape # << >> /\ d = <<m, last>> /\ last > 1 /\ m * last * item = len
      \/ \E k \in Nat \ {0, 1} : plane > 1 /\ d = <<k, plane>> /\ k * plane * item = len
      \/ \E k \in Nat \ {0, 1} : layout.shape # << >> /\ plane > 1 /\ last > 1 /\ d = <<k, plane, last>> /\ k * plane * last * item = len
  BY DEF Shaped
<1>7. plane \in Nat /\ (layout.shape # << >> => last \in Nat)
  BY LayoutFacts
<1>. HIDE DEF last, plane, item, d
<1>. QED
  BY <1>2, <1>3, <1>4, <1>5, <1>6, <1>7

\* A frame with data is raw, or one block.
LEMMA MadeIs ==
  ASSUME NEW f, <<f>> = DataFrame(f.at, f.len)
  PROVE  LET spec == ForRange(layout.shape, layout.itemsize, f.at, f.len)
         IN  \/ f.codec = "Raw" /\ f.wire_len = f.len
             \/ /\ spec # << >> /\ f.spec = spec[1]
                /\ layout.codec # "Raw" /\ f.codec = layout.codec /\ f.wire_len = f.len - 1
<1>. DEFINE spec == ForRange(layout.shape, layout.itemsize, f.at, f.len)
            raw == RawFrame(f.at, f.len)
            enc == EncodedFrame(layout.codec, spec[1], f.at, f.len, f.len - 1)
<1>1. DataFrame(f.at, f.len) = IF layout.codec = "Raw" THEN <<raw>>
                               ELSE IF spec = << >> THEN << >>
                               ELSE IF Shrinks(f.at, f.len) THEN <<enc>> ELSE <<raw>>
  BY DEF DataFrame
<1>2. raw.codec = "Raw" /\ raw.wire_len = f.len
  BY DEF RawFrame
<1>3. enc.codec = layout.codec /\ enc.wire_len = f.len - 1 /\ enc.spec = spec[1]
  BY DEF EncodedFrame
<1>. HIDE DEF raw, enc
<1>4. f = raw \/ (f = enc /\ spec # << >> /\ layout.codec # "Raw")
  <2>. HIDE DEF spec
  <2>1. <<f>> = <<raw>> \/ (<<f>> = <<enc>> /\ spec # << >> /\ layout.codec # "Raw")
    BY <1>1
  <2>2. \A x : <<f>> = <<x>> => f = x
    OBVIOUS
  <2>. QED
    BY <2>1, <2>2
<1>. QED
  BY <1>2, <1>3, <1>4

\* The frames that the server makes are ones that the client expands.
LEMMA MadeExpands ==
  ASSUME \E one \in Cases : Chosen(one), NEW f, Made(f), f.type = "data"
  PROVE  CanExpand(f)
<1>. DEFINE spec == ForRange(layout.shape, layout.itemsize, f.at, f.len)
<1>1. f.at \in Nat /\ f.len \in Nat \ {0} /\ f.at + f.len <= layout.total /\ <<f>> = DataFrame(f.at, f.len)
  BY DEF Made
<1>. HIDE DEF spec
<1>2. \/ f.codec = "Raw" /\ f.wire_len = f.len
      \/ /\ spec # << >> /\ f.spec = spec[1]
         /\ layout.codec # "Raw" /\ f.codec = layout.codec /\ f.wire_len = f.len - 1
  BY <1>1, MadeIs DEF spec
<1>3. CASE f.codec = "Raw" /\ f.wire_len = f.len
  BY <1>3 DEF CanExpand, CodecSupported
<1>4. CASE /\ spec # << >> /\ f.spec = spec[1]
           /\ layout.codec # "Raw" /\ f.codec = layout.codec /\ f.wire_len = f.len - 1
  <2>1. spec[1].itemsize = layout.itemsize /\ Shaped(spec[1].dims, f.at, f.len)
    BY <1>1, <1>4, ForRangeShaped DEF spec
  <2>2. layout.total > 0
    BY <1>1, GivenFacts
  <2>3. Expands(f.spec, f.len)
    BY <1>1, <1>4, <2>1, <2>2, ShapedExpands
  <2>4. CodecSupported(builds[1], f.codec)
    BY <1>4, CodecAgreed
  <2>5. f.wire_len < f.len
    BY <1>1, <1>4
  <2>. QED
    BY <1>4, <2>3, <2>4, <2>5 DEF CanExpand
<1>. QED
  BY <1>2, <1>3, <1>4

---------------------------------------------------------------------------
(* What the client makes of what it is sent.                               *)

\* A client never meets what ends a transfer as a fault of the protocol.
LEMMA ClientUnderstands ==
  ASSUME UInv, NEW c \in Conns,
         Ask(c) \/ ReceiveData(c) \/ ReceiveError(c) \/ ReadsClosed(c) \/ Cut(c)
  PROVE  /\ Understood'
         /\ Asks(c) \/ GoesOn(c) \/ Completes(c) \/ Returns(c) \/ (Loses(c) /\ GoesBack(c))
<1>1. /\ IInv /\ OnceToFetch /\ Types /\ Answered(c) /\ failure # "protocol"
      /\ \A i \in DOMAIN frames[c] : Made(frames[c][i])
  BY DEF UInv, IInv, Understood
<1>2. ASSUME frames[c] # << >>
      PROVE  Made(Head(frames[c]))
  <2>1. frames[c] \in Seq(Range(frames[c]))
    BY <1>1, TypeFacts
  <2>2. 1 \in DOMAIN frames[c] /\ Head(frames[c]) = frames[c][1]
    BY <1>2, <2>1, TailFacts
  <2>. QED
    BY <1>1, <2>2
<1>3. CASE Ask(c)
  <2>1. Asks(c)
    BY <1>1, <1>3, AskGranted
  <2>. QED
    BY <1>1, <2>1 DEF Asks, Understood
<1>4. CASE ReceiveData(c)
  <2>. DEFINE f == Head(frames[c])
              a == Head(flight[c])
  <2>1. flight[c] # << >> /\ frames[c] # << >> /\ f.type = "data"
    BY <1>4 DEF ReceiveData, Reads
  <2>2. CanExpand(f)
    BY <1>1, <1>2, <2>1, MadeExpands DEF Types
  <2>3. /\ a.chunk \in ChunkType /\ a.received \in Nat
        /\ f.offset = a.chunk.offset + a.received /\ f.offset + f.len <= EndOf(a.chunk)
    BY <1>1, <2>1, ReadFrame
  <2>4. FrameIsSane(f, a.chunk)
    <3>1. a.chunk.offset \in Nat /\ a.chunk.offset <= f.offset
      BY <2>3 DEF ChunkType
    <3>. QED
      BY <2>2, <2>3, <3>1 DEF FrameIsSane, EndOf
  <2>5. GoesOn(c) \/ Completes(c)
    BY <1>4, <2>4, DataTaken
  <2>. QED
    BY <1>1, <2>5 DEF GoesOn, Completes, Understood
<1>5. CASE ReceiveError(c)
  <2>. DEFINE f == Head(frames[c])
              a == Head(flight[c])
  <2>1. flight[c] # << >> /\ frames[c] # << >> /\ f.type = "error"
    BY <1>5 DEF ReceiveError, Reads
  <2>2. f.offset = a.chunk.offset
    BY <1>1, <2>1, ReadFrame
  <2>3. Returns(c) /\ failure' \in {failure, f.class}
    BY <1>1, <1>5, <2>2, ErrorTaken
  <2>4. f.class \in {"request", "transient", "storage"}
    BY <1>2, <2>1 DEF Made
  <2>. QED
    BY <1>1, <2>3, <2>4 DEF Understood
<1>6. CASE ReadsClosed(c) \/ Cut(c)
  <2>1. Breaks(c)
    BY <1>6 DEF ReadsClosed, Cut
  <2>2. failure' \in {failure, "connection"}
    BY <2>1 DEF Breaks
  <2>. QED
    BY <1>1, <2>1, <2>2, BreaksLoses DEF Understood
<1>. QED
  BY <1>3, <1>4, <1>5, <1>6

\* What goes back before the queue was in flight and is so no more.
LEMMA BackOnce ==
  ASSUME Types, OnceInFlight, OnceToFetch, NEW c \in Conns,
         NEW rest \in Seq(ChunkType), NEW shift \in {0, 1}, todo' = rest \o todo,
         \A i \in 1 .. Len(rest) : i + shift \in 1 .. Len(flight[c]) /\ RangeOf(rest[i]) = RangeOf(flight[c][i + shift].chunk),
         \A d \in Conns : \A j \in DOMAIN flight'[d] : \E k \in DOMAIN flight[d] :
           /\ flight'[d][j].chunk = flight[d][k].chunk
           /\ d = c => \A i \in 1 .. Len(rest) : k # i + shift
  PROVE  OnceToFetch'
<1>1. todo \in Seq(ChunkType) /\ flight[c] \in Seq(InFlight)
  BY TypeFacts
<1>2. /\ Len(rest) \in Nat /\ DOMAIN todo = 1 .. Len(todo) /\ DOMAIN flight[c] = 1 .. Len(flight[c])
      /\ DOMAIN todo' = 1 .. Len(rest) + Len(todo) /\ Len(todo) \in Nat
      /\ \A i \in 1 .. Len(rest) : todo'[i] = rest[i]
      /\ \A i \in 1 .. Len(rest) + Len(todo) : i > Len(rest) =>
           todo'[i] = todo[i - Len(rest)] /\ i - Len(rest) \in 1 .. Len(todo)
  BY <1>1
<1>3. \A i \in 1 .. Len(rest) : i + shift \in DOMAIN flight[c] /\ todo'[i].offset = flight[c][i + shift].chunk.offset
  <2>. TAKE i \in 1 .. Len(rest)
  <2>1. RangeOf(rest[i]).offset = rest[i].offset
        /\ RangeOf(flight[c][i + shift].chunk).offset = flight[c][i + shift].chunk.offset
    BY DEF RangeOf
  <2>. QED
    BY <1>2, <2>1
<1>4. \A i \in DOMAIN todo' : i \in 1 .. Len(rest) \/ (i > Len(rest) /\ i \in 1 .. Len(rest) + Len(todo))
  BY <1>2
<1>5. \A i, j \in DOMAIN todo : todo[i].offset = todo[j].offset => i = j
  BY DEF OnceToFetch
<1>6. \A i \in DOMAIN todo : \A d \in Conns : \A j \in DOMAIN flight[d] : todo[i].offset # flight[d][j].chunk.offset
  BY DEF OnceToFetch
<1>7. ASSUME NEW i \in DOMAIN todo', NEW j \in DOMAIN todo', todo'[i].offset = todo'[j].offset
      PROVE  i = j
  <2>1. CASE i \in 1 .. Len(rest) /\ j \in 1 .. Len(rest)
    <3>1. i + shift = j + shift
      <4>1. /\ i + shift \in DOMAIN flight[c] /\ j + shift \in DOMAIN flight[c]
            /\ flight[c][i + shift].chunk.offset = flight[c][j + shift].chunk.offset
        BY <1>3, <1>7, <2>1
      <4>. QED
        BY <4>1, FlightOnce
    <3>. QED
      BY <2>1, <3>1
  <2>2. CASE i \in 1 .. Len(rest) /\ j \notin 1 .. Len(rest)
    BY <1>2, <1>3, <1>4, <1>6, <1>7, <2>2
  <2>3. CASE i \notin 1 .. Len(rest) /\ j \in 1 .. Len(rest)
    BY <1>2, <1>3, <1>4, <1>6, <1>7, <2>3
  <2>4. CASE i \notin 1 .. Len(rest) /\ j \notin 1 .. Len(rest)
    <3>1. i - Len(rest) = j - Len(rest)
      BY <1>2, <1>4, <1>5, <1>7, <2>4
    <3>2. i \in Int /\ j \in Int /\ Len(rest) \in Int
      BY <1>2
    <3>. QED
      BY <3>1, <3>2
  <2>. QED
    BY <2>1, <2>2, <2>3, <2>4
<1>8. ASSUME NEW i \in DOMAIN todo', NEW d \in Conns, NEW j \in DOMAIN flight'[d]
      PROVE  todo'[i].offset # flight'[d][j].chunk.offset
  <2>1. PICK k \in DOMAIN flight[d] : /\ flight'[d][j].chunk = flight[d][k].chunk
                                      /\ d = c => \A n \in 1 .. Len(rest) : k # n + shift
    OBVIOUS
  <2>2. CASE i \in 1 .. Len(rest)
    <3>1. ~(c = d /\ i + shift = k)
      BY <2>1, <2>2
    <3>. QED
      BY <1>3, <2>1, <2>2, <3>1, FlightOnce
  <2>3. CASE i \notin 1 .. Len(rest)
    BY <1>2, <1>4, <1>6, <2>1, <2>3
  <2>. QED
    BY <2>2, <2>3
<1>. QED
  BY <1>7, <1>8 DEF OnceToFetch

LEMMA AsksOnce ==
  ASSUME Types, OnceToFetch, NEW c \in Conns, Asks(c)
  PROVE  OnceToFetch'
<1>. DEFINE m == Len(flight[c])
<1>1. /\ \A d \in Conns \ {c} : flight'[d] = flight[d]
      /\ m \in Nat /\ DOMAIN flight[c] = 1 .. m /\ DOMAIN flight'[c] = 1 .. m + 1
      /\ \A i \in 1 .. m : flight'[c][i] = flight[c][i]
      /\ flight'[c][m + 1] = [chunk |-> Head(todo), received |-> 0]
      /\ todo \in Seq(ChunkType) /\ todo # << >>
  BY AsksFlight
<1>0. todo' = Tail(todo) /\ [chunk |-> Head(todo), received |-> 0].chunk = Head(todo)
  BY DEF Asks
<1>2. /\ Head(todo) = todo[1] /\ DOMAIN todo = 1 .. Len(todo) /\ Len(todo) \in Nat \ {0}
      /\ DOMAIN todo' = 1 .. Len(todo) - 1
      /\ \A i \in 1 .. Len(todo) - 1 : todo'[i] = todo[i + 1] /\ i + 1 \in 1 .. Len(todo)
  BY <1>0, <1>1, TailFacts
<1>3. \A i, j \in DOMAIN todo : todo[i].offset = todo[j].offset => i = j
  BY DEF OnceToFetch
<1>4. \A i \in DOMAIN todo : \A d \in Conns : \A j \in DOMAIN flight[d] : todo[i].offset # flight[d][j].chunk.offset
  BY DEF OnceToFetch
<1>. HIDE DEF m
<1>5. ASSUME NEW i \in DOMAIN todo', NEW j \in DOMAIN todo', todo'[i].offset = todo'[j].offset
      PROVE  i = j
  <2>0. /\ todo'[i] = todo[i + 1] /\ i + 1 \in DOMAIN todo
        /\ todo'[j] = todo[j + 1] /\ j + 1 \in DOMAIN todo
    BY <1>2
  <2>1. i + 1 = j + 1
    BY <1>3, <1>5, <2>0
  <2>2. i \in Int /\ j \in Int
    BY <1>2
  <2>. QED
    BY <2>1, <2>2
<1>6. ASSUME NEW i \in DOMAIN todo', NEW d \in Conns, NEW j \in DOMAIN flight'[d]
      PROVE  todo'[i].offset # flight'[d][j].chunk.offset
  <2>1. todo'[i] = todo[i + 1] /\ i + 1 \in DOMAIN todo /\ i + 1 # 1 /\ 1 \in DOMAIN todo
    BY <1>2
  <2>2. CASE d # c
    BY <1>1, <1>4, <2>1, <2>2
  <2>3. CASE d = c /\ j \in 1 .. m
    <3>1. flight'[c][j] = flight[c][j] /\ j \in DOMAIN flight[c]
      BY <1>1, <2>3
    <3>. QED
      BY <1>4, <2>1, <2>3, <3>1
  <2>4. CASE d = c /\ j = m + 1
    <3>1. flight'[d][j].chunk = todo[1]
      BY <1>0, <1>1, <1>2, <2>4
    <3>. QED
      BY <1>3, <2>1, <3>1
  <2>. QED
    BY <1>1, <2>2, <2>3, <2>4
<1>. QED
  BY <1>5, <1>6 DEF OnceToFetch

LEMMA ClientOnce ==
  ASSUME Types, OnceInFlight, OnceToFetch, NEW c \in Conns,
         Asks(c) \/ GoesOn(c) \/ Completes(c) \/ Returns(c) \/ (Loses(c) /\ GoesBack(c))
  PROVE  OnceToFetch'
<1>. DEFINE m == Len(flight[c])
<1>1. todo \in Seq(ChunkType) /\ << >> \in Seq(ChunkType) /\ todo = << >> \o todo /\ Len(<< >>) = 0
  BY TypeFacts
<1>2. ASSUME todo' = todo,
             \A d \in Conns : \A j \in DOMAIN flight'[d] : \E k \in DOMAIN flight[d] : flight'[d][j].chunk = flight[d][k].chunk
      PROVE  OnceToFetch'
  <2>. DEFINE rest == << >>
  <2>1. rest \in Seq(ChunkType) /\ todo' = rest \o todo /\ \A i \in 1 .. Len(rest) : FALSE
    BY <1>1, <1>2
  <2>. HIDE DEF rest
  <2>2. \A i \in 1 .. Len(rest) : i + 0 \in 1 .. Len(flight[c]) /\ RangeOf(rest[i]) = RangeOf(flight[c][i + 0].chunk)
    BY <2>1
  <2>3. \A d \in Conns : \A j \in DOMAIN flight'[d] : \E k \in DOMAIN flight[d] :
          /\ flight'[d][j].chunk = flight[d][k].chunk
          /\ d = c => \A i \in 1 .. Len(rest) : k # i + 0
    BY <1>2, <2>1
  <2>. QED
    BY <2>1, <2>2, <2>3, BackOnce
<1>3. CASE Asks(c)
  BY <1>3, AsksOnce
<1>4. CASE GoesOn(c)
  <2>1. /\ \A d \in Conns \ {c} : flight'[d] = flight[d]
        /\ DOMAIN flight'[c] = DOMAIN flight[c]
        /\ \A j \in DOMAIN flight[c] : flight'[c][j].chunk = flight[c][j].chunk
    BY <1>4, GoesOnFlight
  <2>2. \A d \in Conns : \A j \in DOMAIN flight'[d] : \E k \in DOMAIN flight[d] : flight'[d][j].chunk = flight[d][k].chunk
    <3>. TAKE d \in Conns
    <3>1. CASE d = c
      BY <2>1, <3>1
    <3>2. CASE d # c
      BY <2>1, <3>2
    <3>. QED
      BY <3>1, <3>2
  <2>. QED
    BY <1>2, <1>4, <2>2 DEF GoesOn
<1>5. ASSUME IsDone(c)
      PROVE  \A d \in Conns : \A j \in DOMAIN flight'[d] : \E k \in DOMAIN flight[d] :
               flight'[d][j].chunk = flight[d][k].chunk /\ (d = c => k # 1)
  <2>1. /\ \A d \in Conns \ {c} : flight'[d] = flight[d]
        /\ m \in Nat \ {0} /\ DOMAIN flight[c] = 1 .. m /\ DOMAIN flight'[c] = 1 .. m - 1
        /\ \A i \in 1 .. m - 1 : flight'[c][i] = flight[c][i + 1] /\ i + 1 \in 1 .. m
    BY <1>5, DoneFlight
  <2>. HIDE DEF m
  <2>. TAKE d \in Conns
  <2>. TAKE j \in DOMAIN flight'[d]
  <2>2. CASE d = c
    <3>1. j \in 1 .. m - 1
      BY <2>1, <2>2
    <3>2. j + 1 \in DOMAIN flight[d] /\ flight'[d][j].chunk = flight[d][j + 1].chunk /\ j + 1 # 1
      BY <2>1, <2>2, <3>1
    <3>. QED
      BY <3>2
  <2>3. CASE d # c
    BY <2>1, <2>3
  <2>. QED
    BY <2>2, <2>3
<1>6. CASE Completes(c)
  BY <1>2, <1>5, <1>6 DEF Completes
<1>7. CASE Returns(c)
  <2>1. IsDone(c)
    BY <1>7 DEF Returns
  <2>2. CASE todo' = todo
    BY <1>2, <1>5, <2>1, <2>2
  <2>3. CASE todo' # todo
    <3>1. PICK chunk \in ChunkType : RangeOf(chunk) = RangeOf(Head(flight[c]).chunk) /\ todo' = <<chunk>> \o todo
      BY <1>7, <2>3 DEF Returns
    <3>. DEFINE rest == <<chunk>>
    <3>2. rest \in Seq(ChunkType) /\ Len(rest) = 1 /\ rest[1] = chunk /\ todo' = rest \o todo
      BY <3>1
    <3>3. m \in Nat \ {0} /\ Head(flight[c]) = flight[c][1]
      BY <2>1, DoneFlight
    <3>. HIDE DEF rest, m
    <3>4. \A i \in 1 .. Len(rest) : i = 1
      BY <3>2
    <3>5. \A i \in 1 .. Len(rest) : i + 0 \in 1 .. m /\ RangeOf(rest[i]) = RangeOf(flight[c][i + 0].chunk)
      <4>1. 1 + 0 \in 1 .. m /\ RangeOf(rest[1]) = RangeOf(flight[c][1 + 0].chunk)
        BY <3>1, <3>2, <3>3
      <4>. QED
        BY <3>4, <4>1
    <3>6. \A d \in Conns : \A j \in DOMAIN flight'[d] : \E k \in DOMAIN flight[d] :
            /\ flight'[d][j].chunk = flight[d][k].chunk
            /\ d = c => \A i \in 1 .. Len(rest) : k # i + 0
      <4>. TAKE d \in Conns
      <4>. TAKE j \in DOMAIN flight'[d]
      <4>1. PICK k \in DOMAIN flight[d] : flight'[d][j].chunk = flight[d][k].chunk /\ (d = c => k # 1)
        BY <1>5, <2>1
      <4>2. d = c => \A i \in 1 .. Len(rest) : k # i + 0
        <5>1. 1 + 0 = 1
          OBVIOUS
        <5>. QED
          BY <3>4, <4>1, <5>1
      <4>. QED
        BY <4>1, <4>2
    <3>. QED
      BY <3>2, <3>5, <3>6, BackOnce DEF m
  <2>. QED
    BY <2>2, <2>3
<1>8. CASE Loses(c) /\ GoesBack(c)
  <2>1. PICK rest \in Seq(ChunkType), shift \in {0, 1} :
          /\ todo' = rest \o todo
          /\ \A i \in 1 .. Len(rest) : i + shift \in 1 .. m /\ RangeOf(rest[i]) = RangeOf(flight[c][i + shift].chunk)
    BY <1>8 DEF GoesBack
  <2>2. DOMAIN flight'[c] = {} /\ \A d \in Conns \ {c} : flight'[d] = flight[d]
    BY <1>8, LosesFlight
  <2>3. \A d \in Conns : \A j \in DOMAIN flight'[d] : \E k \in DOMAIN flight[d] :
          /\ flight'[d][j].chunk = flight[d][k].chunk
          /\ d = c => \A i \in 1 .. Len(rest) : k # i + shift
    <3>. TAKE d \in Conns
    <3>1. CASE d = c
      BY <2>2, <3>1
    <3>2. CASE d # c
      BY <2>2, <3>2
    <3>. QED
      BY <3>1, <3>2
  <2>. QED
    BY <2>1, <2>3, BackOnce
<1>. QED
  BY <1>3, <1>4, <1>6, <1>7, <1>8

LEMMA ClientReliable ==
  ASSUME Types, Covered, Reliable, NEW c \in Conns,
         Asks(c) \/ GoesOn(c) \/ Completes(c) \/ Returns(c) \/ Loses(c)
  PROVE  Reliable'
<1>. DEFINE fr == frames[c]
            fe == fetches[c]
<1>1. /\ fetches \in [Conns -> Seq(Request)] /\ fe \in Seq(Request)
      /\ serving \in [Conns -> Seq(Serving)] /\ DOMAIN frames = Conns /\ fr \in Seq(Range(fr))
      /\ todo \in Seq(ChunkType)
  BY TypeFacts
<1>2. /\ \A i \in DOMAIN fe : RangeOf(fe[i]) \in Planned
      /\ serving[c] # << >> => InStep(serving[c][1])
      /\ \A i \in DOMAIN fr : Made(fr[i])
  BY DEF Reliable, Requested
<1>3. CASE Asks(c)
  <2>. DEFINE h == Head(todo)
              x == FetchFrame(h)
  <2>1. UNCHANGED given /\ frames' = frames /\ serving' = serving /\ todo # << >>
        /\ fetches' = [fetches EXCEPT ![c] = Append(@, x)]
    BY <1>3 DEF Asks
  <2>2. 1 \in DOMAIN todo /\ h = todo[1] /\ h \in ChunkType
    BY <1>1, <2>1, TailFacts
  <2>3. RangeOf(h) \in Planned
    BY <2>2 DEF Covered
  <2>4. RangeOf(x) = RangeOf(h) /\ x \in Request
    BY <2>2 DEF RangeOf, FetchFrame, Request, ChunkType
  <2>. HIDE DEF x, h
  <2>5. fetches'[c] = Append(fe, x) /\ \A d \in Conns \ {c} : fetches'[d] = fetches[d]
    BY <1>1, <2>1
  <2>6. /\ Len(fe) \in Nat /\ DOMAIN fe = 1 .. Len(fe) /\ DOMAIN Append(fe, x) = 1 .. Len(fe) + 1
        /\ \A i \in 1 .. Len(fe) : Append(fe, x)[i] = fe[i]
        /\ Append(fe, x)[Len(fe) + 1] = x
    BY <1>1, <2>4, AppendFacts
  <2>7. \A i \in DOMAIN fetches'[c] : RangeOf(fetches'[c][i]) \in Planned
    <3>. TAKE i \in DOMAIN fetches'[c]
    <3>1. i \in 1 .. Len(fe) \/ i = Len(fe) + 1
      BY <2>5, <2>6
    <3>. QED
      BY <1>2, <2>3, <2>4, <2>5, <2>6, <3>1
  <2>. QED
    BY <1>2, <2>1, <2>5, <2>7, ReliableFrom
<1>4. CASE GoesOn(c) \/ Completes(c) \/ Returns(c)
  <2>1. UNCHANGED given /\ fetches' = fetches /\ serving' = serving /\ fr # << >>
        /\ frames' = [frames EXCEPT ![c] = Tail(@)]
    BY <1>4 DEF GoesOn, Completes, Returns, IsDone
  <2>2. frames'[c] = Tail(fr) /\ \A d \in Conns \ {c} : frames'[d] = frames[d]
    BY <1>1, <2>1
  <2>3. /\ DOMAIN fr = 1 .. Len(fr) /\ DOMAIN Tail(fr) = 1 .. Len(fr) - 1
        /\ \A i \in 1 .. Len(fr) - 1 : Tail(fr)[i] = fr[i + 1] /\ i + 1 \in 1 .. Len(fr)
    BY <1>1, <2>1, TailFacts
  <2>4. \A i \in DOMAIN frames'[c] : Made(frames'[c][i])
    BY <1>2, <2>2, <2>3
  <2>. QED
    BY <1>2, <2>1, <2>2, <2>4, ReliableFrom
<1>5. CASE Loses(c)
  <2>1. /\ UNCHANGED given
        /\ fetches' = [fetches EXCEPT ![c] = << >>]
        /\ serving' = [serving EXCEPT ![c] = << >>]
        /\ frames' = [frames EXCEPT ![c] = << >>]
    BY <1>5 DEF Loses, Hangs
  <2>2. /\ fetches'[c] = << >> /\ serving'[c] = << >> /\ frames'[c] = << >>
        /\ \A d \in Conns \ {c} : frames'[d] = frames[d] /\ serving'[d] = serving[d] /\ fetches'[d] = fetches[d]
    BY <1>1, <2>1
  <2>3. DOMAIN fetches'[c] = {} /\ DOMAIN frames'[c] = {}
    BY <2>2
  <2>. QED
    BY <2>1, <2>2, <2>3, ReliableFrom
<1>. QED
  BY <1>3, <1>4, <1>5

\* What the server leaves alone, and what a step that changes nothing does.
LEMMA UnderstandingStays ==
  ASSUME OnceToFetch, Understood, UNCHANGED <<given, client>>
  PROVE  OnceToFetch' /\ Understood'
<1>1. todo' = todo /\ flight' = flight /\ failure' = failure
  BY DEF client
<1>. QED
  BY <1>1 DEF OnceToFetch, Understood

LEMMA SidesUnderstand ==
  ASSUME UInv, [Next]_vars
  PROVE  UInv'
<1>1. IInv /\ OnceToFetch /\ Reliable /\ Understood /\ Types /\ OnceInFlight /\ Covered
  BY DEF UInv, IInv, Reliable
<1>2. IInv'
  BY <1>1, StepKeeps
<1>3. SUFFICES OnceToFetch' /\ Reliable' /\ Understood'
  BY <1>2 DEF UInv, Reliable
<1>4. CASE Next
  <2>1. PICK c \in Conns :
          \/ Ask(c) \/ ReceiveData(c) \/ ReceiveError(c) \/ ReadsClosed(c) \/ Cut(c)
          \/ Accept(c) \/ SendPiece(c) \/ ReadFails(c)
    BY <1>4 DEF Next
  <2>2. CASE Ask(c) \/ ReceiveData(c) \/ ReceiveError(c) \/ ReadsClosed(c) \/ Cut(c)
    <3>1. /\ Understood'
          /\ Asks(c) \/ GoesOn(c) \/ Completes(c) \/ Returns(c) \/ (Loses(c) /\ GoesBack(c))
      BY <2>2, ClientUnderstands
    <3>2. OnceToFetch'
      BY <1>1, <3>1, ClientOnce
    <3>3. Reliable'
      BY <1>1, <3>1, ClientReliable
    <3>. QED
      BY <3>1, <3>2, <3>3
  <2>3. CASE Accept(c) \/ SendPiece(c) \/ ReadFails(c)
    <3>1. UNCHANGED <<given, client>>
      BY <2>3 DEF Accept, SendPiece, ReadFails
    <3>2. Reliable'
      BY <1>1, <2>3, ServerReliable
    <3>. QED
      BY <1>1, <3>1, <3>2, UnderstandingStays
  <2>. QED
    BY <2>1, <2>2, <2>3
<1>5. CASE UNCHANGED vars
  <2>1. UNCHANGED <<given, client>> /\ UNCHANGED server
    BY <1>5 DEF vars
  <2>2. Reliable'
    <3>1. CASE Conns = {}
      BY <3>1 DEF Reliable, Requested
    <3>2. CASE Conns # {}
      <4>1. PICK c \in Conns : TRUE
        BY <3>2
      <4>2. UNCHANGED given /\ frames' = frames /\ serving' = serving /\ fetches' = fetches
        BY <2>1 DEF server
      <4>. QED
        BY <1>1, <4>2, ReliableFrom DEF Reliable, Requested
    <3>. QED
      BY <3>1, <3>2
  <2>. QED
    BY <1>1, <2>1, <2>2, UnderstandingStays
<1>. QED
  BY <1>4, <1>5

\* A plan describes itself consistently, and nothing is in flight yet.
LEMMA BeginsUnderstood ==
  ASSUME Init
  PROVE  UInv
<1>. DEFINE plan == PlanReply(layout, settings)
<1>1. IInv
  BY InitHolds
<1>2. \E one \in Cases : Chosen(one)
  BY DEF Init
<1>3. /\ layout.total \in Nat /\ layout.total = Product(layout.shape) * layout.itemsize /\ layout.total < Word
      /\ \A i, j \in DOMAIN Chunks : Chunks[i].offset = Chunks[j].offset => i = j
  BY <1>2, GivenFacts, LayoutFacts
<1>4. /\ failure = IF PlanIsConsistent(plan) THEN "none" ELSE "protocol"
      /\ todo = IF plan.remote THEN ChunksOf(plan.total_bytes, ChunkBytesFor(settings, plan.total_bytes)) ELSE << >>
      /\ flight = [c \in Conns |-> << >>]
      /\ fetches = [c \in Conns |-> << >>] /\ serving = [c \in Conns |-> << >>] /\ frames = [c \in Conns |-> << >>]
  BY DEF Init
<1>5. /\ plan.total_bytes = layout.total /\ plan.shape = layout.shape /\ plan.itemsize = layout.itemsize
      /\ plan.remote <=> ~Comes(layout, settings)
      /\ Comes(layout, settings) => plan.inline_data = [i \in 1 .. layout.total |-> i - 1]
  BY DEF PlanReply
<1>. HIDE DEF plan
<1>6. PlanIsConsistent(plan)
  <2>1. Min({layout.total, Word - 1}) = layout.total
    <3>1. Word - 1 \in Int /\ layout.total <= Word - 1
      BY <1>3, WordAssumption
    <3>. QED
      BY <1>3, <3>1, MinOfTwo
  <2>2. plan.total_bytes = Min({Product(plan.shape) * plan.itemsize, Word - 1})
    BY <1>3, <1>5, <2>1
  <2>3. ~plan.remote => Len(plan.inline_data) = plan.total_bytes
    <3>1. Len([i \in 1 .. layout.total |-> i - 1]) = layout.total
      BY <1>3
    <3>. QED
      BY <1>5, <3>1
  <2>. QED
    BY <2>2, <2>3 DEF PlanIsConsistent
<1>7. Understood
  BY <1>4, <1>6 DEF Understood
<1>8. \A c \in Conns : flight[c] = << >> /\ fetches[c] = << >> /\ serving[c] = << >> /\ frames[c] = << >>
  BY <1>4
<1>9. DOMAIN << >> = {}
  OBVIOUS
<1>10. Requested
  BY <1>8, <1>9 DEF Requested
<1>11. /\ \A c \in Conns : serving[c] # << >> => InStep(serving[c][1])
       /\ \A c \in Conns : \A i \in DOMAIN frames[c] : Made(frames[c][i])
  BY <1>8, <1>9
<1>12. OnceToFetch
  <2>1. todo = << >> \/ todo = Chunks
    BY <1>4, <1>5 DEF Chunks
  <2>. QED
    BY <1>3, <1>8, <1>9, <2>1 DEF OnceToFetch
<1>. QED
  BY <1>1, <1>7, <1>10, <1>11, <1>12 DEF UInv

---------------------------------------------------------------------------
(* Steps along the axes of an array.                                       *)

\* A step of one stride is a step along that axis alone, while it does not end.
LEMMA StepAlong ==
  ASSUME NEW q \in Seq(Nat), \A a \in DOMAIN q : q[a] # 0, NEW x \in DOMAIN q, NEW e \in Nat,
         Coords(e, q)[x] + 1 < q[x]
  PROVE  Coords(e + Stride(q, x), q) = [Coords(e, q) EXCEPT ![x] = @ + 1]
<1>. DEFINE s == Stride(q, x)
            d == q[x]
            from == Coords(e, q)
            to == Coords(e + s, q)
<1>1. DOMAIN q = 1 .. Len(q) /\ Len(q) \in Nat /\ \A a \in DOMAIN q : q[a] \in Nat \ {0}
  OBVIOUS
<1>2. s \in Nat \ {0} /\ d \in Nat \ {0}
  BY <1>1, StrideSplit
<1>3. /\ from = [a \in DOMAIN q |-> (e \div Stride(q, a)) % q[a]]
      /\ to = [a \in DOMAIN q |-> ((e + s) \div Stride(q, a)) % q[a]]
  BY DEF Coords
<1>4. ((e \div s) % d) + 1 < d
  BY <1>3
<1>. HIDE DEF s, d, from, to
<1>5. e \div s \in Nat
  BY <1>2, Division
<1>6. (e + s) \div s = e \div s + 1
  <2>1. e + 1 * s = e + s /\ e \in Int /\ 1 \in Int
    BY <1>2
  <2>2. (e + 1 * s) \div s = e \div s + 1
    BY <1>2, <2>1, ShiftDivision
  <2>. QED
    BY <2>1, <2>2
<1>7. (e \div s + 1) % d = ((e \div s) % d) + 1 /\ (e \div s + 1) \div d = (e \div s) \div d
  <2>. DEFINE n == e \div s
  <2>. HIDE DEF n
  <2>1. n \in Nat /\ (n % d) + 1 < d
    BY <1>4, <1>5 DEF n
  <2>2. (n + 1) % d = (n % d) + 1 /\ (n + 1) \div d = n \div d
    BY <1>2, <2>1, OneFurther
  <2>. QED
    BY <2>2 DEF n
<1>8. to[x] = from[x] + 1
  BY <1>3, <1>6, <1>7 DEF s, d
<1>9. ASSUME NEW a \in DOMAIN q, a < x
      PROVE  to[a] = from[a]
  <2>1. PICK k \in Nat \ {0} : Stride(q, a) = k * (d * s)
    BY <1>9, StrideSplit DEF s, d
  <2>2. \A n \in Nat : n \div (k * (d * s)) = ((n \div s) \div d) \div k
    <3>. TAKE n \in Nat
    <3>. DEFINE t == d * s
    <3>1. t \in Nat \ {0}
      BY <1>2
    <3>2. n \div (d * s) = (n \div s) \div d
      BY <1>2, DivideTwice
    <3>. HIDE DEF t
    <3>3. n \div (k * t) = (n \div t) \div k
      BY <3>1, DivideTwice
    <3>. QED
      BY <3>2, <3>3 DEF t
  <2>3. e + s \in Nat
    BY <1>2
  <2>4. (e + s) \div Stride(q, a) = e \div Stride(q, a)
    <3>1. (e + s) \div (k * (d * s)) = (((e + s) \div s) \div d) \div k
      BY <2>2, <2>3
    <3>2. e \div (k * (d * s)) = ((e \div s) \div d) \div k
      BY <2>2
    <3>3. ((e + s) \div s) \div d = (e \div s) \div d
      BY <1>6, <1>7
    <3>. QED
      BY <2>1, <3>1, <3>2, <3>3
  <2>. QED
    BY <1>3, <2>4
<1>10. ASSUME NEW a \in DOMAIN q, x < a
       PROVE  to[a] = from[a]
  <2>. DEFINE t == Stride(q, a)
  <2>1. t \in Nat \ {0} /\ q[a] \in Nat \ {0}
    BY <1>1, StrideSplit
  <2>2. PICK k \in Nat \ {0} : s = k * (q[a] * t)
    BY <1>10, StrideSplit DEF s
  <2>. HIDE DEF t
  <2>3. (e + s) \div t = e \div t + k * q[a]
    <3>. DEFINE m == k * q[a]
    <3>1. m \in Int /\ s = m * t /\ e \in Int
      BY <2>1, <2>2
    <3>. HIDE DEF m
    <3>2. (e + m * t) \div t = e \div t + m
      BY <2>1, <3>1, ShiftDivision
    <3>. QED
      BY <3>1, <3>2 DEF m
  <2>4. ((e \div t) + k * q[a]) % q[a] = (e \div t) % q[a]
    <3>. DEFINE n == e \div t
                b == q[a]
    <3>1. n \in Int /\ b \in Nat \ {0} /\ k \in Int
      BY <2>1
    <3>. HIDE DEF n, b
    <3>2. (n + k * b) % b = n % b
      BY <3>1, ShiftDivision
    <3>. QED
      BY <3>2 DEF n, b
  <2>. QED
    BY <1>3, <2>3, <2>4 DEF t
<1>11. to = [from EXCEPT ![x] = @ + 1]
  <2>1. \A a \in DOMAIN q : to[a] = [from EXCEPT ![x] = @ + 1][a]
    <3>. TAKE a \in DOMAIN q
    <3>1. a = x \/ a < x \/ x < a
      BY <1>1
    <3>. QED
      BY <1>3, <1>8, <1>9, <1>10, <3>1
  <2>. QED
    BY <1>3, <2>1
<1>. QED
  BY <1>11 DEF s, from, to

\* So many elements further on is one further along some axis.
Follows(q, at, further) == \E x \in DOMAIN q : Coords(at + further, q) = [Coords(at, q) EXCEPT ![x] = @ + 1]

\* An axis of a block that begins at a multiple of an axis of the array.
AxisAt(dims, a, q, x, first) ==
  /\ a \in DOMAIN dims /\ x \in DOMAIN q
  /\ dims[a] = q[x] /\ Stride(dims, a) = Stride(q, x)
  /\ IsMultiple(first, q[x] * Stride(q, x))

LEMMA AxisFollows ==
  ASSUME NEW q \in Seq(Nat), \A i \in DOMAIN q : q[i] # 0, NEW first \in Nat, NEW e \in Nat,
         NEW dims, NEW a, NEW x, AxisAt(dims, a, q, x, first), Coords(e, dims)[a] + 1 < dims[a]
  PROVE  Follows(q, first + e, Stride(dims, a))
<1>0. /\ a \in DOMAIN dims /\ x \in DOMAIN q
      /\ dims[a] = q[x] /\ Stride(dims, a) = Stride(q, x)
      /\ IsMultiple(first, q[x] * Stride(q, x))
  BY DEF AxisAt
<1>. DEFINE s == Stride(q, x)
            d == q[x]
<1>1. s \in Nat \ {0} /\ d \in Nat \ {0}
  <2>1. d \in Nat /\ d # 0
    BY <1>0
  <2>. QED
    BY <1>0, <2>1, StrideSplit
<1>2. PICK k \in Int : first = k * (d * s)
  BY <1>0 DEF IsMultiple
<1>3. Coords(e, dims)[a] = (e \div s) % d
  BY <1>0 DEF Coords
<1>4. Coords(first + e, q)[x] = ((first + e) \div s) % d
  BY <1>0 DEF Coords
<1>. HIDE DEF s, d
<1>5. (first + e) \div s = e \div s + k * d
  <2>. DEFINE m == k * d
  <2>1. m \in Int /\ e \in Int /\ first + e = e + m * s
    BY <1>1, <1>2
  <2>. HIDE DEF m
  <2>2. (e + m * s) \div s = e \div s + m
    BY <1>1, <2>1, ShiftDivision
  <2>. QED
    BY <2>1, <2>2 DEF m
<1>6. (e \div s + k * d) % d = (e \div s) % d
  <2>. DEFINE n == e \div s
  <2>1. n \in Int
    BY <1>1
  <2>. HIDE DEF n
  <2>2. (n + k * d) % d = n % d
    BY <1>1, <2>1, ShiftDivision
  <2>. QED
    BY <2>2 DEF n
<1>7. Coords(first + e, q)[x] + 1 < q[x]
  BY <1>0, <1>3, <1>4, <1>5, <1>6
<1>8. first + e \in Nat
  OBVIOUS
<1>9. Coords((first + e) + Stride(q, x), q) = [Coords(first + e, q) EXCEPT ![x] = @ + 1]
  <2>. DEFINE at == first + e
  <2>1. at \in Nat /\ Coords(at, q)[x] + 1 < q[x]
    BY <1>7, <1>8
  <2>. HIDE DEF at
  <2>2. Coords(at + Stride(q, x), q) = [Coords(at, q) EXCEPT ![x] = @ + 1]
    BY <1>0, <2>1, StepAlong
  <2>. QED
    BY <2>2 DEF at
<1>. QED
  BY <1>0, <1>9 DEF Follows

\* The axes of a block after its first are the array's own.
LEMMA SlabFollows ==
  ASSUME NEW q \in Seq(Nat), \A i \in DOMAIN q : q[i] # 0, q # << >>, NEW first \in Nat, NEW e \in Nat,
         NEW dims, NEW a \in 2 .. Len(dims), Coords(e, dims)[a] + 1 < dims[a],
         LET last == LastOf(q)
             plane == PlaneOf(q)
         IN  \/ \E m \in Nat : dims = <<m, last>> /\ IsMultiple(first, last)
             \/ \E k \in Nat : plane > 1 /\ last = 1 /\ dims = <<k, plane>> /\ IsMultiple(first, plane * last)
             \/ \E k \in Nat : plane > 1 /\ dims = <<k, plane, last>> /\ IsMultiple(first, plane * last)
  PROVE  Follows(q, first + e, Stride(dims, a))
<1>. DEFINE n == Len(q)
            last == LastOf(q)
            plane == PlaneOf(q)
<1>1. n \in Nat \ {0} /\ DOMAIN q = 1 .. n
  OBVIOUS
<1>2. n \in DOMAIN q /\ q[n] = last /\ last \in Nat \ {0} /\ Stride(q, n) = 1
  <2>1. n \in DOMAIN q /\ q[n] = last
    BY <1>1 DEF LastOf
  <2>2. Stride(q, n) = 1
    BY LastStrides
  <2>. QED
    BY <2>1, <2>2
<1>3. ASSUME plane > 1
      PROVE  n - 1 \in DOMAIN q /\ q[n - 1] = plane /\ plane \in Nat \ {0} /\ Stride(q, n - 1) = last
  <2>1. n >= 2 /\ plane = q[n - 1]
    BY <1>3 DEF PlaneOf
  <2>2. n - 1 \in DOMAIN q
    BY <1>1, <2>1
  <2>3. Stride(q, n - 1) = q[n]
    BY <2>1, LastStrides
  <2>. QED
    BY <1>2, <2>1, <2>2, <2>3
<1>. HIDE DEF n, last, plane
<1>4. CASE \E m \in Nat : dims = <<m, last>> /\ IsMultiple(first, last)
  <2>1. PICK m \in Nat : dims = <<m, last>> /\ IsMultiple(first, last)
    BY <1>4
  <2>2. dims \in Seq(Nat) /\ dims # << >> /\ Len(dims) = 2 /\ DOMAIN dims = 1 .. 2 /\ dims[2] = last /\ a = 2
    BY <1>2, <2>1
  <2>3. Stride(dims, 2) = 1
    BY <2>2, LastStrides
  <2>4. AxisAt(dims, a, q, n, first)
    <3>1. q[n] * Stride(q, n) = last
      BY <1>2
    <3>. QED
      BY <1>2, <2>1, <2>2, <2>3, <3>1 DEF AxisAt
  <2>. QED
    BY <2>4, AxisFollows
<1>5. CASE \E k \in Nat : plane > 1 /\ last = 1 /\ dims = <<k, plane>> /\ IsMultiple(first, plane * last)
  <2>1. PICK k \in Nat : plane > 1 /\ last = 1 /\ dims = <<k, plane>> /\ IsMultiple(first, plane * last)
    BY <1>5
  <2>2. n - 1 \in DOMAIN q /\ q[n - 1] = plane /\ plane \in Nat \ {0} /\ Stride(q, n - 1) = last
    BY <1>3, <2>1
  <2>3. dims \in Seq(Nat) /\ dims # << >> /\ Len(dims) = 2 /\ DOMAIN dims = 1 .. 2 /\ dims[2] = plane /\ a = 2
    BY <2>1, <2>2
  <2>4. Stride(dims, 2) = 1
    BY <2>3, LastStrides
  <2>5. AxisAt(dims, a, q, n - 1, first)
    BY <2>1, <2>2, <2>3, <2>4 DEF AxisAt
  <2>. QED
    BY <2>5, AxisFollows
<1>6. CASE \E k \in Nat : plane > 1 /\ dims = <<k, plane, last>> /\ IsMultiple(first, plane * last)
  <2>1. PICK k \in Nat : plane > 1 /\ dims = <<k, plane, last>> /\ IsMultiple(first, plane * last)
    BY <1>6
  <2>2. n - 1 \in DOMAIN q /\ q[n - 1] = plane /\ plane \in Nat \ {0} /\ Stride(q, n - 1) = last
    BY <1>3, <2>1
  <2>3. /\ dims \in Seq(Nat) /\ dims # << >> /\ Len(dims) = 3 /\ DOMAIN dims = 1 .. 3
        /\ dims[2] = plane /\ dims[3] = last
    BY <1>2, <2>1, <2>2
  <2>4. Stride(dims, 3) = 1 /\ Stride(dims, 2) = last
    <3>1. Len(dims) >= 2 /\ Len(dims) - 1 = 2
      BY <2>3
    <3>. QED
      BY <2>3, <3>1, LastStrides
  <2>5. CASE a = 2
    <3>1. AxisAt(dims, a, q, n - 1, first)
      BY <2>1, <2>2, <2>3, <2>4, <2>5 DEF AxisAt
    <3>. QED
      BY <3>1, AxisFollows
  <2>6. CASE a = 3
    <3>1. IsMultiple(first, last * 1)
      <4>1. PICK j \in Int : first = j * (plane * last)
        BY <2>1 DEF IsMultiple
      <4>2. j * plane \in Int /\ first = (j * plane) * (last * 1)
        BY <1>2, <2>2, <4>1
      <4>. QED
        BY <4>2 DEF IsMultiple
    <3>2. AxisAt(dims, a, q, n, first)
      BY <1>2, <2>3, <2>4, <2>6, <3>1 DEF AxisAt
    <3>. QED
      BY <3>2, AxisFollows
  <2>. QED
    BY <2>3, <2>5, <2>6
<1>. QED
  BY <1>4, <1>5, <1>6 DEF last, plane

LEMMA ShapedFollows ==
  ASSUME \E one \in Cases : Chosen(one), layout.total > 0, NEW at \in Nat, NEW len, NEW dims, Shaped(dims, at, len),
         NEW e \in Nat, NEW a \in 2 .. Len(dims), Coords(e, dims)[a] + 1 < dims[a]
  PROVE  Follows(layout.shape, at \div layout.itemsize + e, Stride(dims, a))
<1>. DEFINE q == layout.shape
            last == LastOf(q)
            plane == PlaneOf(q)
            first == at \div layout.itemsize
<1>1. q \in Seq(Nat) /\ (\A i \in DOMAIN q : q[i] # 0) /\ first \in Nat
  BY GivenFacts, LayoutFacts, Division
<1>2. /\ q # << >>
      /\ \/ \E m \in Nat : dims = <<m, last>> /\ IsMultiple(first, last)
         \/ \E k \in Nat : plane > 1 /\ last = 1 /\ dims = <<k, plane>> /\ IsMultiple(first, plane * last)
         \/ \E k \in Nat : plane > 1 /\ dims = <<k, plane, last>> /\ IsMultiple(first, plane * last)
  <2>1. \A m : dims # <<m>>
    OBVIOUS
  <2>. QED
    BY <2>1 DEF Shaped
<1>. HIDE DEF q, first
<1>3. Coords(e, dims)[a] + 1 < dims[a]
  OBVIOUS
<1>4. Follows(q, first + e, Stride(dims, a))
  BY <1>1, <1>2, <1>3, SlabFollows
<1>. QED
  BY <1>4 DEF q, first

\* What the server makes of a range has the shape of its rows.
LEMMA MadeFollows ==
  ASSUME UInv
  PROVE  BlocksFollowRows
<1>. SUFFICES ASSUME NEW c \in Conns, NEW i \in DOMAIN frames[c],
                     frames[c][i].type = "data", frames[c][i].codec # "Raw",
                     NEW e \in 0 .. Product(frames[c][i].spec.dims) - 1, NEW a \in 2 .. Len(frames[c][i].spec.dims),
                     Coords(e, frames[c][i].spec.dims)[a] + 1 < frames[c][i].spec.dims[a]
              PROVE  LET f == frames[c][i]
                         from == Coords(f.at \div layout.itemsize + e, layout.shape)
                         to == Coords(f.at \div layout.itemsize + e + Stride(f.spec.dims, a), layout.shape)
                     IN  \E x \in DOMAIN from : to = [from EXCEPT ![x] = @ + 1]
  BY DEF BlocksFollowRows
<1>. DEFINE f == frames[c][i]
            spec == ForRange(layout.shape, layout.itemsize, f.at, f.len)
            raw == RawFrame(f.at, f.len)
            enc == EncodedFrame(layout.codec, spec[1], f.at, f.len, f.len - 1)
<1>1. Made(f) /\ \E one \in Cases : Chosen(one)
  BY DEF UInv, IInv, Types
<1>2. f.at \in Nat /\ f.len \in Nat \ {0} /\ f.at + f.len <= layout.total /\ <<f>> = DataFrame(f.at, f.len)
  BY <1>1 DEF Made
<1>3. spec # << >> /\ f.spec = spec[1]
  BY <1>2, MadeIs
<1>4. Shaped(f.spec.dims, f.at, f.len) /\ layout.total > 0
  <2>1. Shaped(spec[1].dims, f.at, f.len)
    <3>. HIDE DEF f
    <3>. QED
      BY <1>1, <1>2, <1>3, ForRangeShaped
  <2>2. layout.total > 0
    <3>. HIDE DEF f
    <3>. QED
      BY <1>1, <1>2, GivenFacts
  <2>. HIDE DEF spec
  <2>. QED
    BY <1>3, <2>1, <2>2
<1>5. Follows(layout.shape, f.at \div layout.itemsize + e, Stride(f.spec.dims, a))
  <2>. DEFINE dims == f.spec.dims
              at == f.at
              len == f.len
  <2>1. /\ e \in Nat /\ a \in 2 .. Len(dims) /\ Coords(e, dims)[a] + 1 < dims[a]
        /\ at \in Nat /\ Shaped(dims, at, len) /\ layout.total > 0
    BY <1>2, <1>4
  <2>. HIDE DEF dims, at, len
  <2>2. Follows(layout.shape, at \div layout.itemsize + e, Stride(dims, a))
    BY <1>1, <2>1, ShapedFollows
  <2>. QED
    BY <2>2 DEF dims, at
<1>6. DOMAIN Coords(f.at \div layout.itemsize + e, layout.shape) = DOMAIN layout.shape
  BY DEF Coords
<1>. QED
  BY <1>5, <1>6 DEF Follows

\* Client and server understand each other, whatever either is built with: the
\* client is never sent a frame that it refuses, and never refused a range that
\* it claims (receive_data, expandable, QualitySpec::applied, row_aligned).
THEOREM SidesStayUnderstood ==
  Spec => []Understood
<1>1. Init => UInv
  BY BeginsUnderstood
<1>2. UInv /\ [Next]_vars => UInv'
  BY SidesUnderstand
<1>3. UInv => Understood
  BY DEF UInv
<1>. QED
  BY <1>1, <1>2, <1>3, PTL DEF Spec

\* Where a row fits the buffer, a fetch of a transfer that is cut by rows goes on
\* at the start of a row, but for the piece it began with (row_aligned).
THEOREM ReaderBackInStep ==
  Spec => []BackInStep
<1>1. Init => UInv
  BY BeginsUnderstood
<1>2. UInv /\ [Next]_vars => UInv'
  BY SidesUnderstand
<1>3. UInv => BackInStep
  BY DEF UInv, BackInStep, InStep
<1>. QED
  BY <1>1, <1>2, <1>3, PTL DEF Spec

\* A compressed block is described by the rows and planes of the array that it
\* holds, whatever the array's shape and wherever the fetch begins (slab_axes,
\* BlockSpec::for_range).
THEOREM BlocksKeepToRows ==
  Spec => []BlocksFollowRows
<1>1. Init => UInv
  BY BeginsUnderstood
<1>2. UInv /\ [Next]_vars => UInv'
  BY SidesUnderstand
<1>3. UInv => BlocksFollowRows
  BY MadeFollows
<1>. QED
  BY <1>1, <1>2, <1>3, PTL DEF Spec
=============================================================================
