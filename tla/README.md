# A TLA+ model of aex2's transfer path

aex2 serves slices of remote arrays.  A control plane (gRPC) opens sessions and
files and resolves selections into *plans*; a data plane (raw TCP, one thread
per connection) sends the bytes of a plan in answer to fetches; a client splits
a plan into chunks and fetches them over several connections at once, straight
into the output buffer.  This project models the concurrent parts of that path
(who holds what, what is in flight, what is retried, evicted or expired, and in
which orders it can happen), the bytes on their way from a file through reader,
codec and frames to the caller's buffer, and the algorithms that decide which
bytes those are: selections, chunk grids, storage formats and reductions.

## Inventory

| Component | Source (under `src/crates`) | State | Operations | Hard because |
|---|---|---|---|---|
| Client connection pool | `aex-client/src/pool.rs` | slots `Mutex<Option<DataConn>>`; per call a queue, `remaining`, `live`, `error`, a condition variable | `connect`, `fetch`, per thread `work`/`drive`/`step`, `retry`, `give_back`, `complete`, `fail`, `leave`, `reconnect` | threads share a queue and wait on each other; connections break mid-frame; calls share slots |
| Client API | `aex-client/src/client.rs`, `transfer.rs` | plans of a batch, statistics | `prepare_many`, `fill_batch`, `chunk_bytes`, forwarding RPCs | plans vanish between prepare and fetch |
| Scatter buffer | `aex-wire/src/scatter.rs` | claimed ranges | `claim`, drop | several threads write one buffer |
| Wire framing | `aex-wire/src/frame.rs`, `handshake.rs` | none | frames of each kind, encode, decode | both sides must agree on what a frame covers |
| Session registry | `aex-server/src/session.rs` | map of sessions, stream counts, last use | `create`, `get`, `touch`, `remove`, `sweep_expired`, `open_data_conn`, `close_data_conn` | several locks per operation; timeouts |
| Transfer registry | `aex-server/src/transfer.rs` | plans by request id, ids by session, id counter | `insert`, `fetch`, `touch`, `remove_session`, `sweep` | LRU eviction, TTL, ids that wrap |
| Sweeper | `aex-server/src/lib.rs` | none | periodic sweep of both registries | holds one lock while it asks the other registry |
| Data-plane connections | `aex-server/src/dataplane.rs`, `reader.rs` | one thread per connection, its session | handshake, frames, fetches, pieces, shutdown | clients may vanish at any byte |
| Control service | `aex-server/src/control.rs` | none of its own | `connect`, `disconnect`, `prepare*`, file RPCs | concurrent RPCs of one session |
| Decode cache | `aex-core/src/backends/decode_cache.rs` | LRU of decoded chunks, spare buffers | `read_into`, `take_spare`, `get`, `insert` | buffers are recycled under concurrent readers |
| Selections and layouts | `aex-core/src/selection.rs` | scratch buffers of a thread | `resolve`, `read_with`, the walk over stretches and spans, `check_range`, casts | negative steps, index arrays, empty axes, ranges that begin anywhere, wrapping sums |
| Chunk grid | `aex-core/src/backends/chunks.rs` | none (pure) | `walk`, `chunk_of`, `coords_of` | chunks that hang over the edge |
| Fetch reader | `aex-server/src/reader.rs` | a buffer per connection | `serve`, `row_aligned` | rows longer than the buffer, ranges that begin inside a row |
| Storage backends | `aex-core/src/backends/{zarr,hdf5,npy,null}.rs`, `backend.rs` | arrays that are open, their indexes, cache keys | `open`, `get_item`, `list_children`, `attrs`, `layout`, `read_range` | lazily built indexes shared by threads; chunks missing, damaged, padded or stray; files cut while open |
| Codecs and quality | `aex-core/src/codec`, `quality.rs`, `dtype.rs`, `aex-proto/src/convert.rs` | none | `applied`, `codec`, `expandable`, `BlockSpec`, `compress` | client and server built differently; blocks at any offset |
| Reductions | `aex-core/src/reduce.rs` | an accumulator per output cell | `plan`, `fold`, one accumulator per function | any axes, empty axes, not-a-numbers, wrapping sums, blocks that end anywhere |
| Python package, CLI, config | `aex-py`, `python/aex`, `aex-server/src/main.rs`, `config.rs` | settings | wrapping, parsing | - |

How they interact: a client calls `prepare_selections` (control service, session
registry, transfer registry), gets plans with a request id and a ticket, and
hands their chunks to its pool.  Each pool thread sends FETCH frames on its
connection; the server's thread for that connection marks the session as used,
looks the plan up, and sends pieces read through a backend (and, for compressed
formats, the decode cache).  The sweeper removes idle sessions, then idle plans
and plans whose session has gone.

What makes each part correct:

- *pool*: every call returns; each chunk is delivered at most once and success
  means all were; nothing waits for a wake-up that will not come; a connection
  passed from one call to the next owes no answers; the credit and the retries
  of a fetch are respected;
- *registries*: the caps hold; the index by session matches the plans; nothing
  outlives its session for good; a connection is sent what its ticket names;
  counts of connections are neither exceeded nor lost;
- *batches*: a batch ends, and each buffer gets the data of its own selection;
- *selections*: a selection is accepted when numpy accepts it and has numpy's
  shape, but for one kind of ellipsis; any range of it is the bytes numpy selects, however the walk joins,
  splits and casts; what is read aside stays within its ceiling;
- *decode cache*: a reader copies out the chunk it asked for, and the bytes
  counted are those held;
- *storage*: what is read is the array as it was written, with the fill value
  where nothing was; a request fails for a reason that is in the file; an index
  is built and sound before anything is read by it; one item that cannot be
  served or said spoils nothing for the others;
- *reductions*: the result is numpy's, for every function, type and set of axes,
  but for an axis of a scalar and for products of reals with an infinity;
- *transfers*: each byte lands in its place whatever breaks and is asked for
  again; what the server sends is something the client can expand; blocks keep
  the shape of the array; a transfer ends.

## Modules

| Module | Models | Composed of |
|---|---|---|
| `Delivery` | what `DataPool::fetch` promises (abstract) | |
| `Pool` | `pool.rs`, with the server's side of a connection as a queue of fetches | refines `Delivery` |
| `Vecs` | `Vec::retain` and `Vec::swap_remove`, shared by registries, batches and cache | |
| `Sessions` | what one lock acquisition on the session registry does | |
| `Plans` | the same for the transfer registry | `Sessions` |
| `Server` | RPC handlers, data connections and the sweeper over both registries | `Plans` |
| `Batch` | `prepare_many` and `fill_batch` of the client over the transfer registry | `Plans` |
| `DecodeCache` | `decode_cache.rs` | |
| `Shapes` | how many elements a shape has, the stride of an axis, and sums of terms | |
| `Selection` | `resolve` and the layouts of `selection.rs`, as operators | `Shapes`, `Vecs` |
| `ChunkGrid` | `chunks.rs`, as operators | `Selection` |
| `Numpy` | what numpy selects (reference definition, models no code) | `ChunkGrid` |
| `Gather` | `read_with` and `Gathered::read`: a range of a selection, read from chunks | `Numpy` |
| `Elements` | the element types of `reduce.rs`: reals as fractions with infinities and not-a-numbers, wrapping integers | `ChunkGrid` |
| `NumpyReduce` | what numpy reduces to (reference definition, models no code) | `Elements` |
| `Reduce` | `reduce.rs`: the plan of a reduction, the walk and the accumulators | `NumpyReduce` |
| `Blobs` | stored bytes, as far as a decoder tells them apart | `ChunkGrid` |
| `Zarr`, `Hdf5`, `Flat` | what each backend serves and how it finds and decodes a chunk, as operators | `Blobs` |
| `Attrs` | attributes and descriptions of items, from the backend to the client | `Flat` |
| `Store` | an open file under threads that list, open, index and read | `Attrs` |
| `Quality` | which encoding and codec client and server settle on | |
| `Blocks` | how a range is described to a codec | `ChunkGrid`, `Vecs` |
| `Fetches` | a transfer from plan to buffer: chunks, frames, pieces, claims | `Blocks`, `Quality` |
| `SeqFacts` | lemmas about sequences and `Vecs`, least elements and steps over the naturals, quotients and remainders, products and strides of shapes, sums, sequences put one after another | `Vecs`, `Shapes`, TLAPS |
| `PoolProofs`, `ServerProofs`, `BatchProofs`, `CacheProofs`, `FetchProofs`, `GatherProofs` | theorems about `Pool`, `Server`, `Batch`, `DecodeCache`, `Fetches` and `Gather` | the module each is about, `SeqFacts` |
| `CoreProofs` | theorems about `Reduce`, `ChunkGrid` and `Store` | `Reduce`, `Store`, `SeqFacts` |
| `MCPool`, `MCServer`, `MCBatch`, `MCDecodeCache`, `MCGather`, `MCReduce`, `MCStore`, `MCFetches` | instances for TLC | |

### Pool

A thread is named by its call and its slot, `<<t, s>>`.  `pc` says where it is;
two labels are separated wherever the code takes the lock over `State` again,
touches the network or waits.  `fresh`, `flight` and `back` are the chunks the
thread holds: taken off the queue and not asked for, asked for, and taken out
of flight but not yet counted or queued again (the moment between `pop_front`
and `complete`, or in the middle of a drain).  `asked` and `sent` are the
server's side: the fetches it has yet to answer on a connection, and the pieces
of the oldest it has sent.  The server answers in order; it may at any moment
break the connection, refuse a fetch for good or for now, or report an error
about the connection.  A connection that is dropped takes its answers with it.

`done` and `faults` are history.  `HangUp` is not an action: it is the part of
several that drops the connection, as `*held = None` is in `drive`.  A retry
inside `drive`'s drain and one after an ERROR frame are the same code and the
same action; whether the slot still has a connection tells them apart.

Left out: panics, PING and PONG, statistics, and the attempts inside
`reconnect`, of which only the outcome shows.

### Sessions, Plans, Server

`Sessions` and `Plans` define what each registry does under its mutex; `Server`
gives them the threads.  A handler of an RPC or a data connection has a `pc`,
the session it is `about`, the clock value it read (`at`) and the `plan` it
mints or sends.  Steps end where the code releases a mutex, so `get_at`,
`create_at`, `fetch` and `disconnect` are several steps each, as in the code.
The sweeper holds the mutex over plans from `SweepBegins` to `SweepEnds` and
asks about sessions at each entry and each list, which is where others come in.
A data connection reads the header of a frame and the clock in one step (`Frame`)
and touches its session in the next (`Touch`), so that the session may go in
between; a fetch may name any plan that was ever told to a client, of whichever
session, and with any ticket.
Tickets are numbers that are never reused; request ids are taken modulo
`IdModulus`, which stands for 2^32.  A clock tick stands for a millisecond, and
`now` is the one clock of both registries.

Left out: files of a session, the data sent, the accept loop and shutdown.

### Batch

Threads of one client share a session.  A batch is prepared item by item (the
server registers plans one at a time, so other threads' come in between), then
fetched; a plan that is gone sends what is remote through a second round, and a
second loss is the caller's.  `got` records from which selection each buffer was
filled, `made` for which selection each plan was minted.  `DataPool::fetch` is
taken at the promise that `KeepsPromise` checks of `Pool`.

### DecodeCache

Buffers have an identity and a content, the chunk last decoded into them, which
is undefined from the moment a decoder is lent the buffer.  A handle (`Arc`) is
a reader's `buffer` or an entry; `Arc::into_inner` succeeds when no reader has
one.  `Insert` is the whole locked part, evictions included: one large
insert may turn several chunks into spares at once, so the comment on
`MAX_SPARES` that an eviction "hands one back" is about the common case only.  Counters are left
out.

### Selection, ChunkGrid, Numpy, Gather

`Selection` resolves a selection against a shape (`Resolve`, with ellipses, new
axes, slices of either direction and index arrays) and lays it out as one run of
the source or as dimensions to walk (`Layout`).  Axes count from 1, indices and
offsets from 0.  Every error is `Bad`.  `ChunkGrid` cuts a range of an array
into runs of chunks and says what the chunks hold there: a byte of the array is
named by its position, so that a byte from the wrong place shows, and a byte
past the edge of the array is `Padding`.

`Gather` is one thread that prepares a selection and reads ranges of it.  `Step`
is one round of `for_each_stretch`: `index`, `prefix` and `pending` are its
locals, and a stretch that is not absorbed by the pending one is passed to the
closure of `Gathered::read` (`Visit`), which joins it to the span or has the
span copied first.  Each copy reads the array and may fail.  A contiguous read
that fails changes nothing, so it is not an action.  `Reset` empties what the
next read clears before it is used.

`Word` stands for 2^64.  The prefixes wrap around it, as in the code, whenever a
step is negative.  The output shape of the instance stays below it: its product
is not checked for overflow in the code and would wrap in a release build, and
the run does not reach that.

`Numpy` says what numpy selects by coordinates, one loop per output dimension.
Code and numpy part in one place: an ellipsis that stands for no axis, between
index arrays, sets them apart in numpy (`np.zeros((5, 1, 2))[:, [0], ..., [0, 1]]`
has shape `(2, 5)`), and `expand` (`selection.rs:271-288`) leaves nothing in its
place, so that the code has `(5, 2)`.  `ResolvesLikeNumpy` and `ReadsSelection`
hold with that reading of such a selection (`Understood`) and numpy's of any
other; `DotsSetApart` has numpy's for all, and is violated
(`MCGather_dots.cfg`).

Left out: `source_run` (read-ahead only) and what a cast does to a value.  Blocks
are the subject of `Blocks`, shards of `Zarr`.

### Elements, NumpyReduce, Reduce

A number is a fraction, an infinity or not a number; an element is a pair of
them, the second for the imaginary part.  Integers are kept modulo `Word`, which
stands for 2^64.  Rounding is left out, and a square root is kept as its square.
`Reduce` is one thread: it checks the request (`Apply`), reads a block, folds its elements one at a time with
the odometer of `fold`, and finishes each cell.  A block may fail to be read.  Its
definitions are named for the module (`ReduceInit`, `ReduceNext`, `ReduceSpec`) so
that `CoreProofs` can extend it and `Store`.  `OdometerInStep` says of every element
folded that its cell has numpy's coordinates.
`NumpyReduce` says what the answer is by looking at all elements of a cell at
once.  Code and numpy part in two places.  numpy lets an axis of 0 or -1 of a
scalar through in most functions (all but the means and deviations, and `nanmean`
of integers); `reduced_axes` refuses it in every one: `ScalarAxesTaken` is violated
(`MCReduce_scalar.cfg`).  And a product of reals with an infinity: `ProductOfReals`
is violated (`MCReduce_product.cfg`).  `ReducesLikeNumpy` names both and compares
all else.  Bounds: blocks of 20 bytes, so that they end inside rows; at most 24
bytes of result, so that some are refused.

### Blobs, Zarr, Hdf5, Flat, Attrs, Store

A stored chunk is a term: the raw bytes of a chunk of an array, wrapped in the
codecs its writer applied, with its length; damage makes junk of it.  Undoing a
codec is external, but the limits the code puts on it, and what it checks
afterwards, are not.  A decoded byte is named by its array and position, or by
the fill value it is a part of.

`Zarr` has the metadata that is served (`ZarrServed`), the chain of codecs and
its undoing (`undo`), shards with their indexes at either end, checksums and
limits, and missing chunks.  `Hdf5` has the storage layouts, the index that
libhdf5 reports (strays from a resize included), filter masks and fill values.
`Flat` has `.npy` files and synthetic datasets.  Parsing of JSON, of the `.npy`
header, and libhdf5 are external: a file is given as what they say of it.

`Attrs` follows an attribute from what is stored (a JSON value or an HDF5
attribute) through `attr_value`, the reply and `attr_from_proto`.  JSON arrays
are flattened level by level rather than depth first: what `flatten` refuses
depends on lengths and depths alone.  Axes longer than `WireMax` stand for those
that do not fit an int64.

In `Store` each thread holds at most one array.  The map of open arrays, the
`OnceLock` of each index and the cache are shared; an index is built shard by
shard without a lock, so two threads may build one at once and the first to
finish leaves it.  The cache of this module keeps what was decoded until `Evict`
takes it (its own steps are `DecodeCache`).  `Truncate` cuts a flat file once.

### Quality, Blocks, Fetches

A build is the set of lossy compressors compiled in.  `Fetches` begins with a
plan that has been prepared by a server of one build for a client of another
(`LayoutFor`, `PlanReply`, `PlanIsConsistent`), with the data in it when it is
small.  The client cuts it (`ChunkBytesFor`), claims ranges, asks, and takes each
frame for what it says; the server checks a fetch, cuts it into pieces
(`RowAligned`) and sends each one compressed if that makes it smaller.  Which
blocks shrink is given by the elements that do not compress.  Bytes are known by
their position, and a frame records the position it was read from.  A connection
that breaks is replaced at once: slots, threads and reconnects are `Pool`'s.

Left out: read-ahead hints, tickets (`Server`), and what lossy codecs do to
values.

## Runs

Passing runs (bounds are the constants in the `.cfg`):

| Run | Checks | Instance and why it is enough |
|---|---|---|
| `retry` | `TypeOK`, `ChunkAccounting`, `NoInternalError`, `WaitsForSomething`, `OneChargePerFault`, `WithinCredit`, `FailureHasAReason`, `KeepsPromise` | one call, 3 chunks, 2 slots, credit 2, 1 retry, 2 pieces: a thread can have two fetches outstanding while the other waits, and each chunk can fail, be retried and fail again |
| `shared` | `CleanSlot`, `KeepsPromise` | calls of 2, 1 and 0 chunks over two slots, no retries: a call fails with answers outstanding while the other waits for its slot, and an empty call returns at once |
| `plans` | `IndexSound`, `IndexComplete`, `OrphansGo` | 1 session, 2 handlers, cap 1: prepare, disconnect, expiry and sweep in every order, so that a prepare races a disconnect |
| `evict` | `TypeOK`, `EvictsTheOldest` | cap 2, 3 plans, a connection that touches them and comes and goes, and ids modulo 3, so that the third plan takes the id of the first |
| `streams` | `StreamsCapped`, `IndexSound` | 2 connections for the one stream granted, so that their handshakes race; 1 handler that disconnects and prepares, expiry of the session and of its plan, which a fetch then removes |
| `cache` | `TypeOK`, `ChunksIntact`, `BytesExact` | 2 readers; 2 small chunks, one that fills the cache, one too large for it; 1 spare; as many buffers as can be in use |
| `fill` | `RightData`, `BatchEnds` | 1 thread, 2 batches of 3 items, cap 2, with expiry: every batch with more than two remote items loses plans, and preparing them again evicts others |
| `gather` | `ResolvesLikeNumpy`, `ReadsSelection`, `ScratchBounded`, `WalkMovesOn` | 6 arrays up to 3x3, of which two have chunks that hang over the edge, one is a scalar and one is empty; all selections of up to two indices of 14 kinds and of three or four of fewer, ellipses that stand for two axes, one or none among them; every range; elements of 2 bytes, or of 4 cast to 2; spans of at most 8 bytes with gaps of at most 4, so that spans join, are refused for their gap and are refused for their size |
| `reduce` | `OdometerInStep`, `ReducesLikeNumpy` | all functions over vectors, matrices, a cube with an axis of one, a scalar and three empty shapes, of every kind of element, with all data from three or four values each (not-a-numbers in either part, infinities, integers whose sums wrap at 16); axes all, one, several, none, negative, repeated, out of range and of a scalar; `ddof` 0, 1 and past the count |
| `store` | `TypeOK`, `ReadsArray`, `OneKeyPerArray`, `IndexBeforeReads`, `ListsServed`, `FailsForAReason` | 2 threads; 29 stores of two arrays, a group or a broken child, 20 of which open: chunks of 2x2 over 3x3 and 3x2, shards of two chunks with a good, short, corrupt or overlong index, filters skipped by mask, checksums before and after a compression, strays, big-endian and unserved types, `.npy` files cut at every byte, synthetic data of four periods, attributes of every kind; reads of the whole array and of all but its first and last byte |
| `fetches` | `ClaimsMatch`, `LandsInPlace`, `Understood`, `BlocksFollowRows`, `BackInStep`, `Delivers` | 2 connections, credit 2, 2 retries, 2 faults; arrays of up to three axes with pieces shorter and longer than a row and a plane; nine pairs of builds; exact, gzipped, cast and error-bounded; chunks of whole elements and not; empty and inline plans |

Every property of these runs is broken by a mutant of the code it is about
(`PROJECT.json`, `mutants`): a claim that is not released, a wake-up that is not
sent, an index that is not cleaned, a buffer handed out while it is read.

Deadlock is checked in the `Server`, `DecodeCache`, `Gather`, `Reduce` and `Store`
runs.  `Pool`, `Batch` and `Fetches` really stop, when all calls have returned.

`IndexSound` is about ids that have not wrapped.  After 2^32 plans an insert may
replace a live plan of another session, whose list then names a plan that is
not its own.  That data stays apart then rests on the comparison of tickets in `fetch`
alone.
`IndexComplete` is about sessions that are registered: a disconnect between the
two passes of a sweep leaves plans without a list until the next sweep, which is
when `OrphansGo` has them removed.  `EvictsTheOldest` is about such sessions for
the same reason: a session that goes after the sweeper has kept one of its plans
and before the sweeper comes to its list loses the list and not the plan, and an
insert that was under way for it then finds the list empty, so that the session
holds more plans than its cap, of which the oldest is not the one that goes.

`WalkMovesOn` is an action property that gives the walk a measure; that it ends
follows, since a range is finite and a copy leaves the walk where it was.

`FailsForAReason` names one reason that lies in the code and not in the file: a
checksum that was taken before a compression (`Overgrown`), of which below.

The violation run is a finding in `PROJECT.json` with the text it contradicts:

| Run | Property | What happens |
|---|---|---|
| `cut` | `AnyCutServed` | the client divides a short transfer by its streams, inside an element; the server refuses an error-bounded fetch of that and drops the connection of a gzipped one |

Instances beside the runs show eight more disagreements between text, or numpy,
and code, each a violation of a property of the module it is about.  Five have a
configuration of their own; the other three are one of the configurations with the
constants and the property the table gives:

| Instance | Property | What happens |
|---|---|---|
| `MCServer_leak.cfg` with `SessionIds = {s1, s2}`, `Workers = {w1, w2}`, `Conns = {}`, `MaxSessions = 1` | `SessionLimit` | two connects pass the check of `max_sessions` (`session.rs:209`) before either inserts |
| `MCServer_leak.cfg` with `MaxPlans = 1` | `TransferKeepsSession` (a `PROPERTY`) | pieces of a long reply touch the plan (`dataplane.rs:451`) and not the session, which expires |
| `MCBatch_fill.cfg` with `MaxTime = 1`, `MaxTransfers = 3` | `TwiceIsNotEviction` | with equal timestamps `swap_remove` brings the newest plan to the place that is evicted next, and a batch that fits loses a plan twice in a row, which `client.rs:557` says is not eviction |
| `MCServer_leak.cfg` | `CountsExactly` | `handshake` returns the write error of READY (`dataplane.rs:278`) after `check_hello` has counted the connection, and nothing counts it out: the stream stays taken until the session ends, though the count is said to be "released exactly when the connection ends" (`dataplane.rs:297`) |
| `MCGather_dots.cfg` | `DotsSetApart` | an ellipsis of no axes between index arrays does not set them apart (`selection.rs:271-288`), as it does in numpy |
| `MCReduce_scalar.cfg` | `ScalarAxesTaken` | axis 0 or -1 of a scalar is refused by every function (`reduce.rs:210-234`), and by few in numpy, though axes are "checked as numpy checks them" (`reduce.rs:209`) |
| `MCStore_checksum.cfg` | `ReadsWhatOpens` | a chain of `crc32c` and then `gzip` or `zstd` is accepted by `parse_codecs`, but what is expanded is then four bytes longer than the limit of `undo` (`zarr.rs:472`), so that no chunk of such an array can be read; `decode` of HDF5 is the same with `fletcher32` before `deflate` |
| `MCReduce_product.cfg` | `ProductOfReals` | the product of real numbers is folded as complex numbers with a zero imaginary part, so that one with an infinity is not a number |

Others were met while modelling and have no property of their own:

- `backend.rs:37` says that an attribute over `MAX_ATTR_BYTES` is left out; text of
  variable length in an HDF5 file is not measured (`Attrs!Hdf5Attr`);
- an item with an axis past int64, or an attribute with one, fails the whole
  `list_children` call (`control.rs:325`), though a backend leaves out a child it
  cannot serve "rather than hiding its siblings" (`zarr.rs:189`): `Describe`;
- `shutdown` says it "takes about as long as one poll interval rather than as long
  as a transfer" (`dataplane.rs:130`): a thread that answers a fetch does not look
  at the flag until the fetch is answered, and writes have no timeout.

### Fairness

`Pool`: each thread keeps taking its steps, and a call returns once its threads
have.  The operating system schedules threads, reads and writes have a timeout
(`IO_TIMEOUT`), and a mutex that stays free is acquired.  Which outcome a read
has, whether a thread wakes for no reason and whether anybody calls `fetch` is
left open.  Weak fairness suffices for the slot's lock in these instances since
each call is made once.

`Server`: the sweeper's interval keeps firing and handlers that have begun are
polled.  Clients, connections and the clock may stop.

`Batch`: RPCs and fetches end; the latter is `KeepsPromise`.

`Fetches`: threads of the client keep asking and reading, and the server's thread
for a connection keeps accepting and sending.  Nothing has to break or fail.

## Proofs

Each component's inductive invariant is at the end of its module, in named parts,
so that TLC can check it like any other invariant; it holds on the instances of
the runs, and the runs check only what follows from it.  A proof has one lemma
per action or group of actions that change the state in the same way.  The
constants are arbitrary, within the named assumption of the module.

| Theorem | States | For every value of |
|---|---|---|
| `PoolProofs!TypeCorrect` | `Spec => []TypeOK` | calls, chunks, slots, credit, retries and pieces (`PoolAssumption`) |
| `PoolProofs!SlotsAreClean` | `Spec => []CleanSlot` | the same |
| `PoolProofs!CreditIsKept` | `Spec => []WithinCredit` | the same |
| `PoolProofs!ChunksAccountedFor` | `Spec => []ChunkAccounting` | the same |
| `PoolProofs!NoChecksFire` | `Spec => []NoInternalError` | the same |
| `PoolProofs!NoWakeUpIsLost` | `Spec => []WaitsForSomething` | the same |
| `PoolProofs!FailuresAreExplained` | `Spec => []FailureHasAReason` | the same |
| `PoolProofs!PoolDelivers` | `Spec => Promise!Safety` | the same |
| `PoolProofs!FaultsPayForCharges` | `Spec => []OneChargePerFault` | the same |
| `ServerProofs!TypesKept`, `StreamsStayCapped` | `Spec => []TypeOK`, `[]StreamsCapped` | sessions, handlers, connections, plans, caps and timeouts (`SessionAssumption`, `PlanAssumption`) |
| `ServerProofs!IndexStaysSound`, `IndexStaysComplete`, `OldestIsEvicted` | `NoWrap /\ Spec =>` `[]IndexSound`, `[]IndexComplete`, `EvictsTheOldest` | the same, with fewer plans than request ids |
| `BatchProofs!BuffersAreRight` | `Spec => []RightData` | callers, items, batches and plans |
| `CacheProofs!TypesHold`, `ChunksStayIntact`, `BytesStayExact` | `Spec => []TypeOK`, `[]ChunksIntact`, `[]BytesExact` | readers, chunks and their sizes, capacity, spares (`CacheAssumption`) |
| `FetchProofs!ClaimsStayMatched`, `BytesLandInPlace` | `Spec => []ClaimsMatch`, `[]LandsInPlace` | connections, plans, builds, sizes of chunks, pieces and buffers, credit, retries and faults (`FetchAssumption`) |
| `FetchProofs!SidesStayUnderstood` | `Spec => []Understood` | the same |
| `FetchProofs!ReaderBackInStep` | `Spec => []BackInStep` | the same |
| `FetchProofs!BlocksKeepToRows` | `Spec => []BlocksFollowRows` | the same, and arrays of any number of axes |
| `GatherProofs!ScratchStaysBounded`, `WalkEnds` | `Spec => []ScratchBounded`, `WalkMovesOn` | arrays of any shape, selections of them, ranges, types read and written, sizes of spans and gaps (`GatherAssumption`) |
| `GatherProofs!StaysInside` | `Spec => []ReadsInside` | the same |
| `CoreProofs!OdometerStaysInStep` | `ReduceSpec => []OdometerInStep` | selections, element types, requests and sizes of blocks (`ReduceAssumption`) |
| `CoreProofs!ShapesAreNumpys` | `ReduceSpec => []ShapedLikeNumpy` | the same, and any limit on the result |
| `CoreProofs!AxesAreNumpys` | `reduced_axes` is `NumpyTakes` without `ScalarAxis`, and `NumpyAxes` | numbers of axes, functions, element kinds and ways to name axes |
| `CoreProofs!ReadsInPlace` | `ReadSource` is the range asked for | arrays, grids of chunks over them, element sizes and ranges |
| `CoreProofs!KeysStayApart` | `Spec => []OneKeyPerArray` | files, arrays in them and threads |
| `CoreProofs!ChildrenAreListed` | `Spec => []ListsServed` | the same, attributes, and bounds on those and on axes (`StoreAssumption`, `AttrsAssumption`) |

### Pool

`CleanSlot` speaks of slots nobody holds, and a slot becomes one when a thread at
"unlock" lets go: one has to know that such a thread has nothing in flight and
that the server owes exactly what the thread has in flight.  `IInv` says so:

- `ThreadShape`: what a thread may hold at each label, that it owns its slot's
  lock exactly between "lock" and "unlock", and where the connection is there
  or not;
- `InCredit`: `fresh` and `flight` together stay within the credit;
- `InStep`: the server's fetches on a connection are the holder's `flight`, in
  that order, with the same pieces counted.

`Accounted` adds what becomes of chunks: each is in one place (`OnePlace`), claims
are what is in flight (`ClaimsExact`), `live` and `remaining` count (`Counted`), a
chunk is missing only because of a thread that fails the call for it, and a call
fails only for a missing chunk (`Blame`), and a thread waits only while another
is at work, and leaves only when the call is decided or its connection is lost
(`Excused`).  `NoWakeUpIsLost` needs all of it: were every other thread waiting or
gone, no chunk could be anywhere but complete, and `remaining` would be zero.

`PoolDelivers` is the refinement of `Delivery` without its liveness: the initial
states are initial states of `Delivery`, and under `IInv` and `Accounted` each step
is a step of it or leaves `done` and `outcome` alone.

`Charged` counts: the attempts charged to the chunks of a call, and the threads
that have still to charge one for a connection they lost, are together no more
than the faults the call met.

### Server

`IInv` says that a thread past its first step serves a session that was created,
with a plan of that session (`Serving`), that an entry is filed under the id of
its plan (`Registry`), and `StreamsCapped`.

The index needs more.  `IndexSound` is about moments when the lock over the plans
is free, and the sweeper drops entries long before it comes to the lists: `Swept`
says that a list with a stale id is one the sweeper has still to look at.  A plan
about to be inserted is in neither map and with no other handler (`Fresh`), and a
list has plans of its own session, once each and within the cap (`Listed`).  These
parts are `Indexed`, and need `NoWrap`, that there are fewer plans than request
ids: in the code, that fewer than 2^32 ids have been drawn since the server
started.  Beyond that they are false, as said above of `IndexSound`.  The run
`evict` has ids that do wrap.

### Batch

`RightData` is about batches that have succeeded.  `IInv` follows one from its
start: each position came inline and has its data, or has a plan minted for that
position's selection, or is among those still to be prepared (`Preparing`,
`Inserting`), and once all are settled, what was fetched without a loss is in its
buffer (`Fetching`).  It says nothing of the registry: what is evicted or expires
is any plan at any time, and a plan keeps the selection it was minted for.

### DecodeCache

`ChunksIntact` is kept because a buffer that is decoded into is its reader's own
until the cache has taken it (`Private`), and because no buffer is the home of two
chunks and a spare one is neither cached nor held (`Apart`).  `BytesExact` needs
what a recursive function computes: that the sum over the entries changes by the
size of what is appended, removed or cut off at the front.

### Fetches

`LandsInPlace` speaks of finished chunks; a chunk finishes when the last of its
pieces is read, and that the pieces are the right ones depends on everything that
is under way on the connection.  `Answered` says it: there is an assignment of
frames to the fetches in flight, in their order, such that each frame goes on
where the one before it ended, the server's current fetch goes on after the last
of them, and its requests are the rest, up to a frame that says the connection
has closed.  A break empties all of these at once, and `Received` says that what
has been received of the oldest fetch is in place.  `OnceInFlight` keeps two
connections from writing the same bytes, and `Covered` that until something fails
each chunk of the plan is finished, in flight or to be asked for.  The parts of
`Answered` are operators of the four sequences of a connection, so that a step of
the server and a step of the client can be shown to keep them one at a time.

`IInv` says which frames come in which order, and nothing of what is in them.
`UInv` adds that, and is what the other three theorems rest on:

- `Understood` is that no transfer fails for a breach of the protocol, of either
  side; a fetch answered as a bad request is another failure, which it does not
  exclude and the run `cut` shows.  The client refuses a frame whose codec is not the plan's, or whose
  lengths do not fit, and the server a range that is in use or outside the plan.
  What is to be fetched is neither twice in the queue nor in flight
  (`OnceToFetch`), so a claim is never refused; a request is for a chunk of the
  plan (`Requested`), so it is inside; and every frame on its way is one that
  `DataFrame` makes of a range of the plan (`Made`).  Such a frame is one the
  client takes, because `LayoutFor` settles on a codec both builds have and
  `PlanReply` passes it on (`CodecAgreed`), a block is sent compressed only if that
  makes it smaller, and a compressed block has the shape of its range (`Shaped`).
- `BackInStep`.  What is left of a fetch begins at a row or at the start of a chunk
  (`InStep`), and is whole elements: `RowAligned` cuts a piece at an element, and at
  a row when one fits.  Without the clause about whole elements this is not
  inductive, since the next cut is counted from where the last one fell.
- `BlocksFollowRows`.  A range's axes after the first are the array's own last axes,
  and a position of the block and its successor along one of them are a stride of
  the array apart (`StepAlong`).  This is about shapes of any length, and rests on
  `StrideSplit` and `LastStrides` of `SeqFacts`.

`FetchAssumption` requires of a plan that its shape and item size are natural
numbers, the latter not zero, that its total is one below 2^64, as `resolve` and
the layouts refuse what does not fit, and that its quality is one a request can
carry; of the settings it requires what their types say.  `ValidSettings` is part
of `Init`, as `ServerConfig::validate` runs before anything is served.

### Gather

What a walk may read follows from what a selection was resolved to, in this chain:

- an index that is accepted fits its axis (`Fits`): a single position is on it, a
  slice has only positions that are, in either direction, and an index array too;
- so do the entries the selection expands to (`Fitting`), an ellipsis and index
  arrays that are broadcast against each other included, and the resolved
  selection as a whole (`Fitted`);
- its layout is then on the array (`Located`): the base and the least that each
  dimension can add come to no less than zero, and with the most to no more than
  the last element.  These are sums over the dimensions, and the two places where
  dimensions are merged or put in front keep them.

The walk keeps a prefix per dimension, modulo 2^64.  `Prefixed` says that each stands
for the sum it was made of, and since that sum and every one that the walk can still
reach lies between the sums above, a prefix is the sum itself whenever the walk uses
it, however often it wrapped on the way.  A stretch is then on the array (`Within`),
and so are the one held back, whatever was joined to it, and the span, whose ends
are those of stretches (`Spanned`).  `ReadsInside` is what follows of every read.

`ScratchBounded` needs that a span is only ever made longer after its new length was
compared, and that one stretch alone may be longer than the ceiling only when it is
read without the scratch buffer.  `WalkMovesOn` needs that a dimension is never empty
while the walk is in it.

`GatherAssumption` says that an array has fewer than 2^64 bytes, which every backend
refuses otherwise, that elements are no longer than a span may be, and that a gap
that is read over is no longer than a span.

### Reduce

`reduced_axes` folds negative axes and marks each one reduced, and refuses one that
is out of range or marked already; numpy's rule is stated in remainders and
distances.  `AxesAreNumpys` shows that they agree for every list of integers and
every array that has an axis; an axis of a scalar is the exception that the theorem
names.

The odometer never computes coordinates: it adds one to the last axis that has room,
clears those after it, and moves the cell by the strides of the axes that moved.
`Carry` and `NextDigits` show that this is the next element's coordinates, as the
digits of a number whose base changes from axis to axis; `SumsMove` that the cell
stays the sum of the strides (`Turned`).  Why that sum is the cell: its terms are the
coordinates on the axes that are kept times strides of the result, and a number put
together from coordinates has them (`Composed`).  `Buffered` says which elements the
block holds, wherever it ends.

`ShapesAreNumpys` is the part of `ReducesLikeNumpy` that does not look at the numbers:
what is refused (by numpy, for an axis of a scalar or for its size), and the type,
the shape and the number of cells of what is not.

`ReduceAssumption` requires of a selection that its data is as long as its shape
says, that an element is no longer than a block, that complex numbers have 8 or 16
bytes, and that products of its lengths do not wrap.  The last is not checked in
`reduce.rs` and is left to the selection (see the hazard at `selection.rs:176`).

### Chunks

`ReadsInPlace` is about `walk`, which goes from one chunk to the next without ever
looking at one element: it computes how many bytes it may take from the coordinates
of the first.  The axes after the run axis are the chunk's own (`AfterRunAxis`), so
from one element of a run to a later one only the coordinate on the run axis and
those after it change, and they number the same elements in the chunk as in the
array (`SameMove`, `RunElements`).  A run therefore stays in its chunk, clear of the
padding, and holds the next bytes of the array (`RunIsPiece`), wherever in an element
it starts and ends.  That the runs of a range then cover it is an induction down
from its end (`WalkCovers`).

### Store

`OneKeyPerArray` compares what two threads hold, who may have looked the array up at
any time and in any order with a listing that opened it first.  `IInv` goes through
the map: each open array has a key that was taken, no two have the same (`Keyed`),
and whoever holds an array has the key in the map (`Holding`), which an array that
is open never changes.

`ListsServed` is about a reply, and what it names was looked at long before, child
by child, while other threads opened some of them.  `ListInv` follows the list: of
the children looked at, those that are offered were found (`Looking`), which holds
because nothing but a cut of the file changes what is offered and an array that is
open was offered (`Offered`); sorted, they are the names in order; and described,
there is an item for each or the call has failed (`InList`).  The other half is
about one item at a time: an attribute that `attr_value` makes of a JSON value or of
an HDF5 attribute has as many elements as its shape says, in a form that
`attr_from_proto` takes, however deep and ragged the value is; the levels of a
nested array are flattened one by one, and only one that is rectangular at each is
kept.  A JSON value is one of finite depth (`JsonValue`, to `Nesting` levels), which is all
that `AttrsAssumption` and `StoreAssumption` ask of it.

### Facts the proofs share

`SeqFacts` has what `Append`, `Tail`, `SubSeq`, concatenation, `Retain` and
`SwapRemove` do to the elements of a sequence.  What `Retain` and the sum of the
cache compute is proved by induction in the form of a set (`NatSteps`: a set with
zero, and the successor of each natural number it has, has them all), which the
provers can use where a theorem with an operator as a parameter is out of reach.
`Product`, `Added` and the flattening of sequences are unfolded in the same way.  The rest
is about quotients and remainders (`DivisionUnique`, `DivideTwice`,
`ShiftDivision`, `RoundDown`): the provers know little of a division by anything
but a number, and each of these is one fact that a cut at elements, rows or planes
needs.

### Only model-checked

- What has to happen: that a call of the pool returns (the rest of `KeepsPromise`),
  `OrphansGo`, `BatchEnds` and `Delivers`.  Liveness under fairness is beyond the
  prover.
- `Gather`: `ResolvesLikeNumpy` and `ReadsSelection`, that a selection has numpy's
  shape and that any range of it is the bytes numpy selects.  They equate
  recursive definitions of several levels (resolution, walk, grid) with loops over
  coordinates.  What is proved is that no read leaves the array.
- `Reduce`: the numbers in `ReducesLikeNumpy`.  Each is a fold over the elements of a
  cell, and the reference is another one, over all of them at once.
- `Store`: `ReadsArray`, `IndexBeforeReads` and `FailsForAReason` rest on what
  encoders and decoders, indexes and walks compute, and `TypeOK` on the lengths of
  a walk's runs.

## Plan

Done: `Pool`, `Delivery`, `Sessions`, `Plans`, `Server`, `Batch`, `DecodeCache`,
`Selection`, `ChunkGrid`, `Gather`, `Reduce`, the storage backends under `Store`,
and transfers under `Fetches`; the theorems above.  Next, in this order:

1. Proofs: `IndexBeforeReads` of `Store`, for which the folds of the index become
   recursive functions that `NatSteps` unfolds.
2. `Shutdown`: the accept loop, the stop flag, joins and blocked writers.
3. `FileRegistry`: the file handles of a session, with `open` and `close`.

## Not modelled

- The accept loop and shutdown of the data plane, and the files of a session.
- The syntax of file headers, metadata and messages (JSON, `.npy`, protobuf, the
  32 bytes of a frame header), libhdf5, and what compressors do to numbers: they
  are external, and modelled by what the code makes of their answers.
- Rounding in reductions and casts.
- Parsing of the configuration, the policy on paths, the Python package, the CLI.
  What `ServerConfig::validate` guarantees of the limits appears as
  `SessionAssumption` and `PlanAssumption`, and as `ValidSettings` of `Fetches`.
