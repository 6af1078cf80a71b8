------------------------------- MODULE Fetches --------------------------------
(***************************************************************************)
(* The bytes of one transfer, from the plan to the caller's buffer: the    *)
(* client cuts the plan into chunks and asks for them on its connections   *)
(* (crates/aex-client/src/client.rs, transfer.rs and pool.rs), the server  *)
(* answers each fetch in pieces, compressed or not                         *)
(* (crates/aex-server/src/dataplane.rs and reader.rs), and the client puts *)
(* every frame into its place (crates/aex-wire/src/scatter.rs).            *)
(*                                                                         *)
(* How the threads of the pool share slots and queue is the subject of     *)
(* Pool, what becomes of plans that of Server; here a connection is a pair *)
(* of FIFO channels, the plan stays, and the bytes are told apart by their *)
(* position in the logical stream.  The read-ahead hints of FetchReader    *)
(* change nothing that is read and are left out.                           *)
(***************************************************************************)
EXTENDS Blocks, Quality

CONSTANTS
  Conns,
  Cases,             \* [plan : , builds : , settings : ], see below
  Credit,
  MaxRetries,
  MIN_CHUNK_BYTES,
  MaxFaults          \* bound: reads that fail and connections that break

\* A plan is [shape : , dtype : , quality : , noise : ] with the quality as asked
\* for and the elements that do not compress; builds are <<client, server>>, and settings are those of both:
\*   chunk            AexConfig.chunk_bytes of the client, 0 for as it sees fit
\*   default, limit   default_chunk_bytes and max_fetch_bytes, as the server announces them
\*   buffer, inline   read_buffer_bytes and inline_limit_bytes of the server

VARIABLES
  layout,    \* SelectionLayout: [shape : , itemsize : , quality : , codec : , total : , noise : ]
  builds,    \* what client and server were built with
  settings,  \* the configuration of both
  todo,      \* State.queue: chunks to ask for, [offset : , len : , attempts : ]
  flight,    \* InFlight of each connection, oldest first
  claimed,   \* ScatterBuffer.claimed
  dst,       \* the caller's buffer: the position each byte was read from, or -1
  finished,  \* the offsets of the chunks that are complete
  failure,   \* State.error, by its cause
  fetches,   \* FETCH frames on their way, per connection
  serving,   \* what the server is answering, an Option
  frames,    \* frames on their way back
  faults

client == <<todo, flight, claimed, dst, finished, failure>>
server == <<fetches, serving, frames>>
given == <<layout, builds, settings>>
vars == <<given, client, server, faults>>

---------------------------------------------------------------------------
(* Cutting the plan into chunks.                                           *)

\* split_for_streams.
SplitForStreams(chunk, total, streams) ==
  IF CeilDiv(total, chunk) >= streams THEN chunk
  ELSE Min({Max({CeilDiv(total, streams), MIN_CHUNK_BYTES}), chunk})

\* Client::chunk_bytes: what was configured, or what keeps every stream busy.
ChunkBytesFor(s, total) ==
  LET ceiling == Max({s.limit, 1})
  IN  IF s.chunk # 0 THEN Clamp(s.chunk, 1, ceiling)
      ELSE SplitForStreams(Clamp(s.default, 1, ceiling), total, Max({Cardinality(Conns), 1}))

\* Plan::chunks.
ChunksOf(total, chunk) ==
  [i \in 1 .. CeilDiv(total, chunk) |->
     [offset |-> (i - 1) * chunk, len |-> Min({chunk, total - (i - 1) * chunk}), attempts |-> 0]]

\* SelectionLayout::resolve, of a selection that takes the whole array, with the
\* quality that client and server agree on.
LayoutFor(plan, pair) ==
  LET agreed == Agreed(pair[2], PrepareRequest(pair[1], plan.quality), plan.dtype)
      itemsize == ItemSize(WireDtype(pair[2], agreed, plan.dtype))
  IN  [shape |-> plan.shape, itemsize |-> itemsize, quality |-> agreed,
       codec |-> CodecOf(pair[2], agreed), total |-> Product(plan.shape) * itemsize, noise |-> plan.noise]

\* plan_reply: what the client is told of it, with the data where it is small.
Comes(lay, s) == lay.total <= s.inline
PlanReply(lay, s) ==
  [shape |-> lay.shape, itemsize |-> lay.itemsize, total_bytes |-> lay.total, remote |-> ~Comes(lay, s),
   inline_data |-> IF Comes(lay, s) THEN [i \in 1 .. lay.total |-> i - 1] ELSE << >>]

\* Plan::check: the plan describes itself consistently.
PlanIsConsistent(plan) ==
  /\ plan.total_bytes = Min({Product(plan.shape) * plan.itemsize, Word - 1})
  /\ ~plan.remote => Len(plan.inline_data) = plan.total_bytes

\* ServerConfig::validate, of what a transfer depends on.
ValidSettings(s) == s.default # 0 /\ s.buffer # 0 /\ s.limit >= s.default

ASSUME FetchAssumption ==
  /\ IsFiniteSet(Conns)
  /\ MIN_CHUNK_BYTES \in Nat \ {0} /\ Credit \in Nat
  /\ \A one \in Cases :
       /\ \A field \in {"chunk", "default", "limit", "buffer", "inline"} : one.settings[field] \in Nat
       /\ one.plan.quality \in Qualities
       /\ LET lay == LayoutFor(one.plan, one.builds)
          IN  lay.shape \in Seq(Nat) /\ lay.itemsize \in Nat \ {0} /\ lay.total \in Nat /\ lay.total < Word

Chosen(one) ==
  /\ ValidSettings(one.settings)
  /\ builds = one.builds
  /\ settings = one.settings
  /\ layout = LayoutFor(one.plan, one.builds)

\* The plan has come and was checked, and what came with it is in the buffer.
Init ==
  /\ \E one \in Cases : Chosen(one)
  /\ LET plan == PlanReply(layout, settings)
     IN  /\ failure = IF PlanIsConsistent(plan) THEN "none" ELSE "protocol"
         /\ todo = IF plan.remote THEN ChunksOf(plan.total_bytes, ChunkBytesFor(settings, plan.total_bytes)) ELSE << >>
         /\ dst = [p \in 0 .. plan.total_bytes - 1 |-> IF plan.remote THEN -1 ELSE plan.inline_data[p + 1]]
  /\ flight = [c \in Conns |-> << >>]
  /\ claimed = {}
  /\ finished = {}
  /\ fetches = [c \in Conns |-> << >>]
  /\ serving = [c \in Conns |-> << >>]
  /\ frames = [c \in Conns |-> << >>]
  /\ faults = 0

---------------------------------------------------------------------------
(* Frames.                                                                 *)

FetchFrame(chunk) == [type |-> "fetch", offset |-> chunk.offset, len |-> chunk.len]

\* at: the position in the stream that the payload was read from.
RawFrame(offset, len) ==
  [type |-> "data", codec |-> "Raw", offset |-> offset, len |-> len, wire_len |-> len, at |-> offset]

EncodedFrame(codec, spec, offset, len, wire) ==
  [type |-> "data", codec |-> codec, offset |-> offset, len |-> len, wire_len |-> wire, at |-> offset, spec |-> spec]

\* About a fetch, not about the part of it that failed.
ErrorFrame(class, fetch) == [type |-> "error", class |-> class, offset |-> fetch]

---------------------------------------------------------------------------
(* The client: Transfer::step, on each connection.                         *)

\* Mutant: one fetch more than the credit allows.
OneMore(c) == Len(flight[c]) <= Credit

HasCredit(c) == Len(flight[c]) < Credit
MayAsk(c) == failure = "none" /\ todo # << >> /\ HasCredit(c)

Overlaps(a, b) == a.offset < b.offset + b.len /\ b.offset < a.offset + a.len
RangeOf(chunk) == [offset |-> chunk.offset, len |-> chunk.len]

\* The connection is in an unknown state and is not used again; another is
\* made in its place, which knows of no fetch.
Hangs(c) ==
  /\ fetches' = [fetches EXCEPT ![c] = << >>]
  /\ serving' = [serving EXCEPT ![c] = << >>]
  /\ frames' = [frames EXCEPT ![c] = << >>]

\* What a connection loses when it is given up for a fault of the protocol.
GivesUp(c) ==
  /\ failure' = IF failure = "none" THEN "protocol" ELSE failure
  /\ claimed' = claimed \ {RangeOf(flight[c][i].chunk) : i \in DOMAIN flight[c]}
  /\ flight' = [flight EXCEPT ![c] = << >>]
  /\ Hangs(c)

\* Top up this connection by one fetch: claim the range and ask for it.  A
\* refused claim ends the transfer and gives up the connection.
Ask(c) ==
  /\ MayAsk(c)
  /\ LET chunk == Head(todo)
     IN  /\ todo' = Tail(todo)
         /\ IF chunk.offset + chunk.len > layout.total \/ \E r \in claimed : Overlaps(r, chunk)
            THEN GivesUp(c)
            ELSE /\ claimed' = claimed \cup {RangeOf(chunk)}
                 /\ flight' = [flight EXCEPT ![c] = Append(@, [chunk |-> chunk, received |-> 0])]
                 /\ fetches' = [fetches EXCEPT ![c] = Append(@, FetchFrame(chunk))]
                 /\ UNCHANGED <<failure, frames, serving>>
  /\ UNCHANGED <<given, dst, finished, faults>>

\* A frame is read once the connection is topped up; chunks that others give back
\* while it waits stay in the queue until it has been.
Reads(c) == flight[c] # << >> /\ frames[c] # << >>

\* receive_data: the frame is one the client can expand, and falls inside the
\* fetch it has to answer, the oldest.
CanExpand(f) ==
  /\ CodecSupported(builds[1], f.codec)
  /\ IF f.codec = "Raw" THEN f.wire_len = f.len ELSE f.wire_len < f.len
  /\ f.codec # "Raw" => Expands(f.spec, f.len)

FrameIsSane(f, chunk) ==
  /\ CanExpand(f)
  /\ chunk.offset <= f.offset /\ f.offset + f.len <= chunk.offset + chunk.len

\* Mutant: a fetch is answered by one frame.
OneFrame(asked, f) == TRUE

\* Whether the frame is the last of its fetch.
CompletesFetch(asked, f) == asked.received + f.len >= asked.chunk.len

ReceiveData(c) ==
  /\ Reads(c) /\ Head(frames[c]).type = "data"
  /\ LET f == Head(frames[c])
         asked == Head(flight[c])
     IN  IF FrameIsSane(f, asked.chunk)
         THEN /\ dst' = [p \in DOMAIN dst |->
                           IF p \in f.offset .. f.offset + f.len - 1 THEN f.at + (p - f.offset) ELSE dst[p]]
              /\ IF CompletesFetch(asked, f)
                 THEN /\ flight' = [flight EXCEPT ![c] = Tail(@)]
                      /\ claimed' = claimed \ {RangeOf(asked.chunk)}
                      /\ finished' = finished \cup {asked.chunk.offset}
                 ELSE /\ flight' = [flight EXCEPT ![c][1].received = @ + f.len]
                      /\ UNCHANGED <<claimed, finished>>
              /\ frames' = [frames EXCEPT ![c] = Tail(@)]
              /\ UNCHANGED <<failure, fetches, serving>>
         ELSE GivesUp(c) /\ UNCHANGED <<dst, finished>>
  /\ UNCHANGED <<given, todo, faults>>

\* An ERROR frame about the oldest fetch: it goes back to the front of the
\* queue, or ends the transfer.
ReceiveError(c) ==
  /\ Reads(c) /\ Head(frames[c]).type = "error"
  /\ LET f == Head(frames[c])
         chunk == [Head(flight[c]).chunk EXCEPT !.attempts = @ + 1]
     IN  IF f.offset = chunk.offset
         THEN /\ flight' = [flight EXCEPT ![c] = Tail(@)]
              /\ claimed' = claimed \ {RangeOf(chunk)}
              /\ IF f.class = "transient" /\ chunk.attempts <= MaxRetries
                 THEN todo' = <<chunk>> \o todo /\ UNCHANGED failure
                 ELSE failure' = (IF failure = "none" THEN f.class ELSE failure) /\ UNCHANGED todo
              /\ frames' = [frames EXCEPT ![c] = Tail(@)]
              /\ UNCHANGED <<fetches, serving>>
         ELSE GivesUp(c) /\ UNCHANGED todo
  /\ UNCHANGED <<given, dst, finished, faults>>

\* The connection breaks, or the server closes it: all that was in flight goes
\* back, the oldest of it charged.
Breaks(c) ==
  LET all == [i \in DOMAIN flight[c] |->
                [flight[c][i].chunk EXCEPT !.attempts = IF i = 1 THEN @ + 1 ELSE @]]
      spent == all # << >> /\ all[1].attempts > MaxRetries
  IN  /\ todo' = (IF spent THEN Tail(all) ELSE all) \o todo
      /\ claimed' = claimed \ {RangeOf(all[i]) : i \in DOMAIN all}
      /\ failure' = IF failure = "none" /\ spent THEN "connection" ELSE failure
      /\ flight' = [flight EXCEPT ![c] = << >>]
      /\ Hangs(c)
      /\ UNCHANGED <<given, dst, finished>>

Cut(c) ==
  /\ faults < MaxFaults
  /\ faults' = faults + 1
  /\ Breaks(c)

ReadsClosed(c) ==
  /\ Reads(c) /\ Head(frames[c]).type = "closed"
  /\ Breaks(c)
  /\ UNCHANGED faults

---------------------------------------------------------------------------
(* The server: handle_fetch and FetchReader::serve, on each connection.    *)

Replies(c, f) == frames' = [frames EXCEPT ![c] = Append(@, f)]

\* An encoded transfer is fetched in whole elements.
WholeElements(f) ==
  Eps(layout.quality) # << >> => f.offset % layout.itemsize = 0 /\ f.len % layout.itemsize = 0

\* The checks before a fetch is served.
Accept(c) ==
  /\ serving[c] = << >> /\ fetches[c] # << >>
  /\ LET f == Head(fetches[c])
     IN  IF f.len <= settings.limit /\ f.offset + f.len <= layout.total /\ WholeElements(f)
         THEN serving' = [serving EXCEPT ![c] = <<[offset |-> f.offset, len |-> f.len, fetch |-> f.offset]>>] /\ UNCHANGED frames
         ELSE Replies(c, ErrorFrame("request", f.offset)) /\ UNCHANGED serving
  /\ fetches' = [fetches EXCEPT ![c] = Tail(@)]
  /\ UNCHANGED <<given, client, faults>>

\* Mutant: pieces are cut to a multiple of a row, wherever they begin.
RowMultiple(offset, piece) ==
  LET row == LastOf(layout.shape) * layout.itemsize
  IN  IF Eps(layout.quality) = << >> \/ layout.shape = << >> \/ piece < row THEN piece ELSE piece - (piece % row)

\* row_aligned: a piece ends where a row does, or at least an element, and is
\* never empty.
RowAligned(offset, piece) ==
  LET row == LastOf(layout.shape) * layout.itemsize
      over == (offset + piece) % row
      aligned == IF layout.shape # << >> /\ row > 0 /\ over < piece THEN piece - over
                 ELSE piece - (piece % layout.itemsize)
  IN  IF Eps(layout.quality) = << >> \/ aligned = 0 THEN piece ELSE aligned

\* compress: whether a block comes out smaller than it is.
Shrinks(offset, len) == ~\E e \in layout.noise : e \in offset \div layout.itemsize .. (offset + len - 1) \div layout.itemsize

\* send_piece: compressed if the transfer is and the block shrinks.  An Option: a
\* range that cannot be described to the codec fails.
DataFrame(offset, len) ==
  LET spec == ForRange(layout.shape, layout.itemsize, offset, len)
  IN  IF layout.codec = "Raw" THEN <<RawFrame(offset, len)>>
      ELSE IF spec = << >> THEN << >>
      ELSE IF Shrinks(offset, len) THEN <<EncodedFrame(layout.codec, spec[1], offset, len, len - 1)>>
      ELSE <<RawFrame(offset, len)>>

\* One piece is read and sent, or fails the connection.
SendPiece(c) ==
  /\ serving[c] # << >>
  /\ LET f == serving[c][1]
     IN  \E piece \in {RowAligned(f.offset, Min({f.len, settings.buffer}))} :
         \E frame \in {DataFrame(f.offset, piece)} :
           IF frame = << >>
           THEN /\ Replies(c, [type |-> "closed"])
                /\ serving' = [serving EXCEPT ![c] = << >>]
                /\ fetches' = [fetches EXCEPT ![c] = << >>]
           ELSE /\ Replies(c, frame[1])
                /\ serving' = [serving EXCEPT ![c] =
                     IF piece = f.len THEN << >> ELSE <<[f EXCEPT !.offset = @ + piece, !.len = @ - piece]>>]
                /\ UNCHANGED fetches
  /\ UNCHANGED <<given, client, faults>>

\* Mutant: the rest of the range is sent after the error.
SkipsPiece(f) ==
  IF f.len <= settings.buffer THEN << >>
  ELSE <<[f EXCEPT !.offset = @ + settings.buffer, !.len = @ - settings.buffer]>>

\* Nothing of the range is sent after the error.
Stops(f) == << >>

\* A read fails: the client is told, and asks again or gives up.
ReadFails(c) ==
  /\ serving[c] # << >> /\ faults < MaxFaults
  /\ \E class \in {"transient", "storage"} : Replies(c, ErrorFrame(class, serving[c][1].fetch))
  /\ serving' = [serving EXCEPT ![c] = Stops(serving[c][1])]
  /\ faults' = faults + 1
  /\ UNCHANGED <<given, client, fetches>>

Next == \E c \in Conns :
  \/ Ask(c) \/ ReceiveData(c) \/ ReceiveError(c) \/ ReadsClosed(c) \/ Cut(c)
  \/ Accept(c) \/ SendPiece(c) \/ ReadFails(c)

\* Threads of both sides go on; nothing has to fail.
Fairness == \A c \in Conns :
  /\ WF_vars(Ask(c)) /\ WF_vars(ReceiveData(c)) /\ WF_vars(ReceiveError(c)) /\ WF_vars(ReadsClosed(c))
  /\ WF_vars(Accept(c)) /\ WF_vars(SendPiece(c))

Spec == Init /\ [][Next]_vars /\ Fairness

---------------------------------------------------------------------------
(* Properties.                                                             *)

\* The chunks of the transfer, were they all fetched.
Chunks == ChunksOf(layout.total, ChunkBytesFor(settings, layout.total))

Idle == todo = << >> /\ \A c \in Conns : flight[c] = << >>
Over == Idle \/ (failure # "none" /\ \A c \in Conns : flight[c] = << >>)

\* What is claimed is what is in flight, each range once; and no connection has
\* more in flight than its credit (Transfer::step, ScatterBuffer::claim).
ClaimsMatch ==
  /\ claimed = UNION {{RangeOf(flight[c][i].chunk) : i \in DOMAIN flight[c]} : c \in Conns}
  /\ \A r, s \in claimed : r # s => ~Overlaps(r, s)
  /\ \A c \in Conns : Len(flight[c]) <= Credit

\* A chunk that counts as complete is in the buffer, each byte in its place,
\* whatever was fetched twice, broke off or came in pieces (receive_data).  A
\* transfer that is over without a failure is complete.
LandsInPlace ==
  /\ \A i \in DOMAIN Chunks :
       Chunks[i].offset \in finished => \A p \in Chunks[i].offset .. Chunks[i].offset + Chunks[i].len - 1 : dst[p] = p
  /\ Idle /\ failure = "none" => \A p \in DOMAIN dst : dst[p] = p

\* The two sides understand each other, whatever either was built with: no
\* frame is one that the client refuses, and no range is claimed twice
\* (receive_data, expandable, QualitySpec::applied).
Understood == failure # "protocol"

\* A block has the shape of what it holds: along every axis of it but the first,
\* a step is one step along one axis of the output array (slab_axes).
BlocksFollowRows ==
  \A c \in Conns : \A i \in DOMAIN frames[c] :
    LET f == frames[c][i]
    IN  f.type = "data" /\ f.codec # "Raw" =>
          \A e \in 0 .. Product(f.spec.dims) - 1 : \A a \in 2 .. Len(f.spec.dims) :
            Coords(e, f.spec.dims)[a] + 1 < f.spec.dims[a] =>
              LET from == Coords(f.at \div layout.itemsize + e, layout.shape)
                  to == Coords(f.at \div layout.itemsize + e + Stride(f.spec.dims, a), layout.shape)
              IN  \E x \in DOMAIN from : to = [from EXCEPT ![x] = @ + 1]

\* The reader is back in step with the rows after at most one short piece: where
\* a row fits the buffer, a fetch goes on at the start of a row (row_aligned).
BackInStep ==
  \A c \in Conns : serving[c] # << >> /\ Eps(layout.quality) # << >> /\ layout.shape # << >> =>
    LET row == LastOf(layout.shape) * layout.itemsize
        f == serving[c][1]
    IN  row <= settings.buffer =>
          \/ f.offset % row = 0
          \/ \E i \in DOMAIN Chunks : Chunks[i].offset = f.offset

\* However the client cuts the stream, each of its fetches is served
\* (split_for_streams, BlockSpec::for_range).
AnyCutServed ==
  /\ failure # "request"
  /\ \A c \in Conns : \A i \in DOMAIN frames[c] : frames[c][i].type # "closed"

\* What a compressed transfer needs of its chunks and of the server's pieces.
InWholeElements ==
  layout.codec # "Raw" =>
    /\ \A i \in DOMAIN Chunks : Chunks[i].offset % layout.itemsize = 0 /\ Chunks[i].len % layout.itemsize = 0
    /\ IF Eps(layout.quality) = << >> THEN settings.buffer % layout.itemsize = 0 ELSE settings.buffer >= layout.itemsize

\* A transfer ends.  Where it is cut in whole elements, and less fails than may
\* be tried again, it ends with all of its data unless a read failed for good
\* (step, retry, serve).
Delivers == <>[](Over /\ (InWholeElements => failure \in {"none", "storage"}))

---------------------------------------------------------------------------
(* The inductive invariant, in parts.                                      *)

ChunkType == [offset : Nat, len : Nat \ {0}, attempts : Nat]

Types ==
  /\ \E one \in Cases : Chosen(one)
  /\ todo \in Seq(ChunkType)
  /\ flight \in [Conns -> Seq([chunk : ChunkType, received : Nat])]
  /\ fetches \in [Conns -> Seq([type : {"fetch"}, offset : Nat, len : Nat \ {0}])]
  /\ serving \in [Conns -> Seq([offset : Nat, len : Nat \ {0}, fetch : Nat])]
  /\ \A c \in Conns : Len(serving[c]) <= 1
  /\ DOMAIN frames = Conns /\ \A c \in Conns : frames[c] \in Seq(Range(frames[c]))
  /\ DOMAIN dst = 0 .. layout.total - 1

\* No range is in flight twice.
OnceInFlight ==
  \A c, d \in Conns : \A i \in DOMAIN flight[c], j \in DOMAIN flight[d] :
    <<c, i>> # <<d, j>> => ~Overlaps(flight[c][i].chunk, flight[d][j].chunk)

EndOf(chunk) == chunk.offset + chunk.len

\* The parts of a connection: what is in flight (fl), the frames on their way
\* back (fr), what is being served (se) and the requests (fe).

\* Where frame i has to begin if it is about fetch own[i] of those in flight.
Begins(fl, fr, own, i) ==
  IF i > 1 /\ own[i] = own[i - 1] THEN fr[i - 1].offset + fr[i - 1].len
  ELSE fl[own[i]].chunk.offset + fl[own[i]].received

\* Frame i goes on with that fetch, or ends it.
GoesOnWith(fl, fr, own, i) ==
  /\ fr[i].type = "data" /\ fr[i].len \in Nat \ {0}
  /\ fr[i].offset = Begins(fl, fr, own, i) /\ fr[i].at = fr[i].offset
  /\ fr[i].offset + fr[i].len <= EndOf(fl[own[i]].chunk)
  /\ own[i + 1] = IF fr[i].offset + fr[i].len = EndOf(fl[own[i]].chunk) THEN own[i] + 1 ELSE own[i]

Fails(fl, fr, own, i) ==
  /\ fr[i].type = "error" /\ fr[i].class # "none" /\ fr[i].offset = fl[own[i]].chunk.offset
  /\ own[i + 1] = own[i] + 1

Answers(fl, fr, own, i) == GoesOnWith(fl, fr, own, i) \/ Fails(fl, fr, own, i)

\* The requests are for what is in flight from fetch first on.
Follow(fl, fe, first) ==
  /\ Len(fe) = Len(fl) + 1 - first
  /\ \A j \in 1 .. Len(fe) : fe[j] = FetchFrame(fl[first + j - 1].chunk)

\* The server is at fetch k, and has to go on at `at`; the others follow.
Behind(fl, se, fe, k, at) ==
  \/ /\ se = << >>
     /\ k <= Len(fl) => at = fl[k].chunk.offset
     /\ Follow(fl, fe, k)
  \/ /\ se # << >> /\ k <= Len(fl)
     /\ se[1].offset = at
     /\ se[1].offset + se[1].len = EndOf(fl[k].chunk)
     /\ se[1].fetch = fl[k].chunk.offset
     /\ Follow(fl, fe, k + 1)

\* Frames, what is being served and the requests answer, in this order, the
\* fetches in flight: up to a frame that says the connection is closed.
InOrder(fl, fr, se, fe, n, own) ==
  /\ own[1] = 1
  /\ \A i, j \in 1 .. n + 1 : i <= j => own[i] <= own[j]
  /\ \A i \in 1 .. n : own[i] <= Len(fl) /\ Answers(fl, fr, own, i)
  /\ IF n < Len(fr) THEN fr[n + 1].type = "closed"
     ELSE Behind(fl, se, fe, own[n + 1], Begins(fl, fr, own, n + 1))

Pipelined(fl, fr, se, fe) ==
  \E n \in 0 .. Len(fr) : \E own \in [1 .. n + 1 -> 1 .. Len(fl) + 1] : InOrder(fl, fr, se, fe, n, own)

Answered(c) == Pipelined(flight[c], frames[c], serving[c], fetches[c])

\* What was received of a chunk is in place, and only the oldest has received.
Received(c) ==
  \A i \in DOMAIN flight[c] :
    /\ i > 1 => flight[c][i].received = 0
    /\ flight[c][i].received <= flight[c][i].chunk.len
    /\ \A p \in flight[c][i].chunk.offset .. flight[c][i].chunk.offset + flight[c][i].received - 1 : dst[p] = p

\* Until something fails, what is not finished is still to be fetched.
ToFetch(r) ==
  \/ \E i \in DOMAIN todo : RangeOf(todo[i]) = r
  \/ \E c \in Conns : \E i \in DOMAIN flight[c] : RangeOf(flight[c][i].chunk) = r

Planned == {RangeOf(Chunks[i]) : i \in DOMAIN Chunks}

Covered ==
  /\ \A i \in DOMAIN todo : RangeOf(todo[i]) \in Planned
  /\ \A c \in Conns : \A i \in DOMAIN flight[c] : RangeOf(flight[c][i].chunk) \in Planned
  /\ Comes(layout, settings) => Idle /\ \A p \in DOMAIN dst : dst[p] = p
  /\ ~Comes(layout, settings) /\ failure = "none" =>
       \A r \in Planned : r.offset \in finished \/ ToFetch(r)

\* The inductive invariant that FetchProofs proves.
IInv ==
  /\ Types
  /\ OnceInFlight
  /\ \A c \in Conns : Answered(c) /\ Received(c)
  /\ Covered
  /\ ClaimsMatch
  /\ LandsInPlace

\* No range is to be fetched twice, and what is asked for are chunks of the plan.
OnceToFetch ==
  /\ \A i, j \in DOMAIN todo : todo[i].offset = todo[j].offset => i = j
  /\ \A i \in DOMAIN todo : \A c \in Conns : \A j \in DOMAIN flight[c] :
       todo[i].offset # flight[c][j].chunk.offset

Requested == \A c \in Conns : \A i \in DOMAIN fetches[c] : RangeOf(fetches[c][i]) \in Planned

\* What is left of a fetch.  In a transfer that is cut by rows it is whole elements.
InStep(f) ==
  LET row == LastOf(layout.shape) * layout.itemsize
  IN  /\ f.offset + f.len <= layout.total
      /\ Eps(layout.quality) # << >> /\ layout.shape # << >> /\ row <= settings.buffer =>
           /\ WholeElements(f)
           /\ f.offset % row = 0 \/ \E i \in DOMAIN Chunks : Chunks[i].offset = f.offset

\* A frame is one that the server makes, of a range of the plan.
Made(f) ==
  \/ f.type = "closed"
  \/ f.type = "error" /\ f.class \in {"request", "transient", "storage"}
  \/ /\ f.type = "data" /\ f.at \in Nat /\ f.len \in Nat \ {0} /\ f.at + f.len <= layout.total
     /\ <<f>> = DataFrame(f.at, f.len)

\* With these, neither side ever sends what the other refuses.
UInv ==
  /\ IInv
  /\ OnceToFetch
  /\ Requested
  /\ \A c \in Conns : serving[c] # << >> => InStep(serving[c][1])
  /\ \A c \in Conns : \A i \in DOMAIN frames[c] : Made(frames[c][i])
  /\ Understood
=============================================================================
