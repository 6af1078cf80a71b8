-------------------------------- MODULE Store --------------------------------
(***************************************************************************)
(* A file that the server has open, read by many threads                   *)
(* (crates/aex-core/src/backend.rs and the backends that implement it).    *)
(*                                                                         *)
(* Handlers of the control plane look items up, list groups and resolve    *)
(* selections; threads of the data plane read ranges.  They share the map  *)
(* from paths to open arrays, the index of each array, which is built on   *)
(* first use, and the cache of decoded chunks.  What the cache promises is *)
(* the subject of DecodeCache; here it holds any of the chunks decoded.    *)
(*                                                                         *)
(* Nobody writes to the file, but a flat one may be cut while it is read.  *)
(***************************************************************************)
EXTENDS Attrs

CONSTANTS
  Threads,
  Files      \* [format : , nodes : , names : , attrs : , length : ]; nodes by path, the root is ""

\* What a backend says of an array, and what its writer may have left behind: its
\* chunks are numbered, no two arrays have the same bytes, and coordinates outside
\* the dataset need an axis.
StoredArray(f, d) ==
  /\ d.shape \in Seq(Nat) /\ d.dtype.size \in Nat \ {0}
  /\ f.format = "zarr" =>
       /\ d.chunk \in Seq(Nat) /\ d.codecs \in Seq(STRING)
       /\ d.inner.chunk \in Seq(Nat) /\ d.inner.codecs \in Seq(STRING)
       /\ d.written \subseteq 0 .. Chunks(d.shape, d.chunk) * (IF IsSharded(d) THEN PerShard(d) ELSE 1) - 1
  /\ f.format = "hdf5" /\ d.layout = "chunked" =>
       /\ d.chunk \in Seq(Nat) /\ d.filters \in Seq(STRING)
       /\ d.written \subseteq 0 .. Chunks(d.shape, d.chunk) - 1
       /\ d.strays => d.shape # << >>
  /\ f.format = "npy" => d.offset # << >>

ASSUME StoreAssumption ==
  /\ PERIOD_MULTIPLE \in Nat \ {0}
  /\ \A f \in Files :
       LET at == {p \in DOMAIN f.nodes : f.nodes[p].kind = "array"}
       IN  /\ f.format \in {"zarr", "hdf5", "npy", "null"}
           /\ f.length \in Nat
           /\ f.names \in Seq(DOMAIN f.nodes)
           /\ \A p \in Range(f.names) :
                /\ f.attrs[p] \in Seq(Range(f.attrs[p]))
                /\ \A a \in Range(f.attrs[p]) : Attribute(f.format, a)
           /\ \A p \in at : StoredArray(f, f.nodes[p].array)
           /\ \A p, q \in at : f.nodes[p].array.id = f.nodes[q].array.id => p = q

VARIABLES
  file,     \* the file that is open
  length,   \* its bytes, where it is one run of them
  arrays,   \* arrays or datasets: the cache key of each array that was opened
  nextKey,  \* DecodeCache.next_key
  index,    \* the OnceLock of each array, an Option
  cache,    \* decoded chunks, [key : , n : , id : , fill : ]
  pc,       \* what each thread is about to do
  handle,   \* the array it holds, [path : , key : ], an Option
  children, \* listing: the paths to look at, those found, and the reply
  building, \* the index it is building, an Option, and the units it has read
  range,    \* the range it reads, <<at, len>>
  runs,     \* the runs that are left of it
  out       \* the bytes read so far

control == <<handle, children>>
reading == <<range, runs, out>>
vars == <<file, length, arrays, nextKey, index, cache, pc, control, building, reading>>

Array(p) == file.nodes[p].array
IsArray(p) == file.nodes[p].kind = "array"

\* Whether the backend opens array d of file f, while f has `len` bytes.
Served(f, d, len) ==
  CASE f.format = "zarr" -> ZarrServed(d)
    [] f.format = "hdf5" -> Hdf5Served(d, len)
    [] f.format = "npy" -> NpyServed(d, len)
    [] f.format = "null" -> NullServed(d)

\* A .npy or synthetic file is opened with its one array; in a store each array
\* is opened when it is asked for.
OpensWhole(f) == f.format \in {"npy", "null"}
Opens(f) == OpensWhole(f) =>
  \A p \in DOMAIN f.nodes : f.nodes[p].kind = "array" => Served(f, f.nodes[p].array, f.length)

Chunky(d) == IF file.format = "hdf5" THEN d.layout = "chunked" ELSE file.format = "zarr"
NeedsIndex(d) == Chunky(d) /\ (file.format = "zarr" => IsSharded(d))

\* Only decoded chunks are cached.
Caches(d) == IF file.format = "zarr" THEN TRUE ELSE d.filters # << >>

FillOf(d) == IF file.format = "zarr" THEN fill_bytes(d.dtype, d.fill)[1] ELSE d.fill

---------------------------------------------------------------------------

Init ==
  /\ file \in {f \in Files : Opens(f)}
  /\ length = file.length
  /\ arrays = [p \in DOMAIN file.nodes |-> << >>]
  /\ nextKey = 0
  /\ index = [p \in DOMAIN file.nodes |-> << >>]
  /\ cache = {}
  /\ pc = [t \in Threads |-> "idle"]
  /\ handle = [t \in Threads |-> << >>]
  /\ children = [t \in Threads |-> [left |-> {}, found |-> << >>, items |-> << >>]]
  /\ building = [t \in Threads |-> [units |-> 0, index |-> << >>]]
  /\ range = [t \in Threads |-> <<0, 0>>]
  /\ runs = [t \in Threads |-> << >>]
  /\ out = [t \in Threads |-> << >>]

\* Mutant: an array that is open is opened again.
OpensAnew(p) == TRUE

\* array and dataset, under the lock of the map: the array is opened the first
\* time only, and its cache key taken.
Unopened(p) == arrays[p] = << >>

Opened(p) ==
  IF Unopened(p)
  THEN /\ arrays' = [arrays EXCEPT ![p] = <<nextKey>>]
       /\ nextKey' = nextKey + 1
  ELSE UNCHANGED <<arrays, nextKey>>

\* Whether there is something to answer with at p.  An array that is open stays
\* so, whatever became of the file.
Shown(p) ==
  \/ file.nodes[p].kind = "group"
  \/ IsArray(p) /\ (~Unopened(p) \/ OpensWhole(file) \/ Served(file, Array(p), length))

\* get_item of an array.  Asking for a group, or for what cannot be served,
\* changes nothing.
GetItem(t) ==
  /\ pc[t] = "idle" /\ handle[t] = << >>
  /\ \E p \in DOMAIN file.nodes :
       /\ IsArray(p) /\ Shown(p)
       /\ Opened(p)
       /\ handle' = [handle EXCEPT ![t] = <<[path |-> p, key |-> arrays'[p][1]]>>]
  /\ UNCHANGED <<file, length, index, cache, pc, children, building, reading>>

\* list_children of the root.
List(t) ==
  /\ pc[t] = "idle" /\ handle[t] = << >>
  /\ pc' = [pc EXCEPT ![t] = "list"]
  /\ children' = [children EXCEPT ![t].left = Range(file.names)]
  /\ UNCHANGED <<file, length, arrays, nextKey, index, cache, handle, building, reading>>

\* Mutant: a child that cannot be served ends the listing.
HidesSiblings(left, p) == IF Shown(p) THEN left \ {p} ELSE {}

\* A child that cannot be served is left out.
GoOn(left, p) == left \ {p}

\* One child, in the order of the directory.  An array is opened.
ListChild(t) ==
  /\ pc[t] = "list"
  /\ \E p \in children[t].left :
       /\ IF IsArray(p) /\ Shown(p) THEN Opened(p) ELSE UNCHANGED <<arrays, nextKey>>
       /\ children' = [children EXCEPT ![t].left = GoOn(@, p),
                                       ![t].found = IF Shown(p) THEN Append(@, p) ELSE @]
  /\ UNCHANGED <<file, length, index, cache, pc, handle, building, reading>>

\* The names are sorted.
SortNames(t) ==
  /\ pc[t] = "list" /\ children[t].left = {}
  /\ pc' = [pc EXCEPT ![t] = "sorted"]
  /\ children' = [children EXCEPT ![t].found = Retain(file.names, Range(@))]
  /\ UNCHANGED <<file, length, arrays, nextKey, index, cache, handle, building, reading>>

\* What the control plane says of each child.  One it cannot say fails the call.
Describe(t) ==
  /\ pc[t] = "sorted"
  /\ \E items \in {Map(children[t].found, LAMBDA p :
                     ItemToProto(p, file.nodes[p], AttrsOf(file.format, file.attrs[p])))} :
       /\ pc' = [pc EXCEPT ![t] = IF << >> \in Range(items) THEN "idle" ELSE "listed"]
       /\ children' = [children EXCEPT
            ![t].found = << >>,
            ![t].items = IF << >> \in Range(items) THEN << >> ELSE FlattenSeq(items)]
  /\ UNCHANGED <<file, length, arrays, nextKey, index, cache, handle, building, reading>>

\* The listing is sent.
EndList(t) ==
  /\ pc[t] = "listed"
  /\ pc' = [pc EXCEPT ![t] = "idle"]
  /\ children' = [children EXCEPT ![t].items = << >>]
  /\ UNCHANGED <<file, length, arrays, nextKey, index, cache, handle, building, reading>>

\* The units an index is built from: shards, or one visit by libhdf5.
Units(d) == IF file.format = "zarr" THEN Chunks(d.shape, d.chunk) ELSE 1

EmptyIndex(d) ==
  IF file.format = "zarr"
  THEN [n \in 0 .. Chunks(d.shape, d.chunk) * PerShard(d) - 1 |-> NoEntry]
  ELSE [n \in 0 .. Chunks(d.shape, d.chunk) - 1 |-> NoChunk]

\* layout: the index is built unless somebody has built it.
MakeLayout(t) ==
  /\ pc[t] = "idle" /\ handle[t] # << >>
  /\ LET p == handle[t][1].path
     IN  IF NeedsIndex(Array(p)) /\ index[p] = << >>
         THEN /\ pc' = [pc EXCEPT ![t] = "build"]
              /\ building' = [building EXCEPT ![t] = [units |-> 0, index |-> EmptyIndex(Array(p))]]
         ELSE /\ pc' = [pc EXCEPT ![t] = "ready"]
              /\ UNCHANGED building
  /\ UNCHANGED <<file, length, arrays, nextKey, index, cache, control, reading>>

NextIndexOf(d, unit, ix) == IF file.format = "zarr" THEN IndexShard(d, unit, ix) ELSE Hdf5Index(d)

\* One unit of the index is read.  A bad one fails the request.
BuildUnit(t) ==
  /\ pc[t] = "build"
  /\ LET d == Array(handle[t][1].path)
     IN  /\ building[t].units < Units(d)
         /\ \E next \in {NextIndexOf(d, building[t].units, building[t].index)} :
              IF next = << >>
              THEN /\ pc' = [pc EXCEPT ![t] = "idle"]
                   /\ handle' = [handle EXCEPT ![t] = << >>]
                   /\ building' = [building EXCEPT ![t] = [units |-> 0, index |-> << >>]]
              ELSE /\ building' = [building EXCEPT ![t] = [units |-> @.units + 1, index |-> next[1]]]
                   /\ UNCHANGED <<pc, handle>>
  /\ UNCHANGED <<file, length, arrays, nextKey, index, cache, children, reading>>

\* get_or_init: the first index is the one that stays.
KeepFirst(p, ix) == index' = IF index[p] = << >> THEN [index EXCEPT ![p] = <<ix>>] ELSE index

Install(t) ==
  /\ pc[t] = "build"
  /\ building[t].units = Units(Array(handle[t][1].path))
  /\ KeepFirst(handle[t][1].path, building[t].index)
  /\ building' = [building EXCEPT ![t] = [units |-> 0, index |-> << >>]]
  /\ pc' = [pc EXCEPT ![t] = "ready"]
  /\ UNCHANGED <<file, length, arrays, nextKey, cache, control, reading>>

RunsOf(d, at, len) ==
  CASE file.format = "zarr" -> ZarrRuns(d, at, len)
    [] file.format = "hdf5" /\ d.layout = "chunked" -> Walk(d.shape, d.chunk, d.dtype.size, at, len)
    [] OTHER -> <<[chunk |-> 0, start |-> at, len |-> len]>>

\* read_range, of a selection that is the array: all of it, or without the first
\* and the last byte.  A plan whose shape the wire cannot carry is not answered.
Read(t) ==
  /\ pc[t] = "ready"
  /\ OnWire(Array(handle[t][1].path).shape)
  /\ LET d == Array(handle[t][1].path)
     IN  \E r \in {<<0, DataLen(d)>>, <<1, DataLen(d) - 2>>} :
           /\ r[2] > 0
           /\ range' = [range EXCEPT ![t] = r]
           /\ runs' = [runs EXCEPT ![t] = RunsOf(d, r[1], r[2])]
  /\ out' = [out EXCEPT ![t] = << >>]
  /\ pc' = [pc EXCEPT ![t] = "read"]
  /\ UNCHANGED <<file, length, arrays, nextKey, index, cache, control, building>>

Took(t, bytes, run) ==
  /\ out' = [out EXCEPT ![t] = @ \o bytes]
  /\ runs' = [runs EXCEPT ![t] = IF run.len = Len(bytes) THEN Tail(@)
                                 ELSE <<[run EXCEPT !.start = @ + Len(bytes), !.len = @ - Len(bytes)]>>]
  /\ UNCHANGED <<pc, range>>

Failed(t) ==
  /\ pc' = [pc EXCEPT ![t] = "ready"]
  /\ runs' = [runs EXCEPT ![t] = << >>]
  /\ out' = [out EXCEPT ![t] = << >>]
  /\ range' = [range EXCEPT ![t] = <<0, 0>>]

\* The bytes of a run of a chunk, once it is decoded or found missing.
ChunkBytesOf(d, n, filled, run) ==
  IF filled THEN FillFrom(FillOf(d), d.dtype.size, run.start, run.len)
  ELSE [b \in 1 .. run.len |->
          DataByte(d.id, IF file.format = "zarr" THEN ZarrPosition(d, n, run.start + b - 1)
                         ELSE Stored(d.shape, d.chunk, d.dtype.size, n, run.start + b - 1))]

Fetched(d, ix, n) == IF file.format = "zarr" THEN ZarrFetch(d, ix, n) ELSE Hdf5Fetch(d, ix, n)

\* A run of a chunk that is in the cache, whichever array put it there.
ReadCached(t) ==
  /\ pc[t] = "read" /\ runs[t] # << >>
  /\ Chunky(Array(handle[t][1].path)) /\ Caches(Array(handle[t][1].path))
  /\ \E c \in cache :
       /\ c.key = handle[t][1].key /\ c.n = Head(runs[t]).chunk
       /\ LET owner == CHOOSE p \in DOMAIN file.nodes : IsArray(p) /\ Array(p).id = c.id
          IN  Took(t, ChunkBytesOf(Array(owner), c.n, c.fill, Head(runs[t])), Head(runs[t]))
  /\ UNCHANGED <<file, length, arrays, nextKey, index, cache, control, building>>

\* A run of a chunk that is not: it is decoded and put into the cache.  A chunk
\* that libhdf5 has not, or stores as it is, is not cached.
ReadChunked(t) ==
  /\ pc[t] = "read" /\ runs[t] # << >>
  /\ LET d == Array(handle[t][1].path)
         run == Head(runs[t])
         key == handle[t][1].key
     IN  /\ Chunky(d)
         /\ Caches(d) => ~\E c \in cache : c.key = key /\ c.n = run.chunk
         /\ \E got \in {Fetched(d, IF NeedsIndex(d) THEN index[handle[t][1].path][1] ELSE << >>, run.chunk)} :
              IF got = << >> THEN Failed(t) /\ UNCHANGED cache
              ELSE /\ Took(t, ChunkBytesOf(d, run.chunk, got[1] = Missing, run), run)
                   /\ cache' = IF Caches(d) /\ ~(file.format = "hdf5" /\ got[1] = Missing)
                               THEN cache \cup {[key |-> key, n |-> run.chunk, id |-> d.id,
                                                 fill |-> got[1] = Missing]}
                               ELSE cache
  /\ UNCHANGED <<file, length, arrays, nextKey, index, control, building>>

\* pread, which may return short, until the run is read or the file ends.
ReadFlat(t) ==
  /\ pc[t] = "read" /\ runs[t] # << >>
  /\ LET d == Array(handle[t][1].path)
         run == Head(runs[t])
     IN  /\ ~Chunky(d) /\ file.format # "null" /\ d.offset # << >>
         /\ IF d.offset[1] + run.start >= length THEN Failed(t)
            ELSE \E n \in 1 .. Min({run.len, length - d.offset[1] - run.start}) :
                   Took(t, [i \in 1 .. n |-> DataByte(d.id, run.start + i - 1)], run)
  /\ UNCHANGED <<file, length, arrays, nextKey, index, cache, control, building>>

\* A dataset that was never written, and a synthetic one.
ReadNothing(t) ==
  /\ pc[t] = "read" /\ runs[t] # << >>
  /\ LET d == Array(handle[t][1].path)
         run == Head(runs[t])
     IN  \/ /\ file.format = "hdf5" /\ d.layout = "contiguous" /\ d.offset = << >>
            /\ Took(t, FillFrom(FillOf(d), d.dtype.size, run.start, run.len), run)
         \/ /\ file.format = "null"
            /\ LET s == NextStretch(d.period, run.start, run.len)
               IN  Took(t, Map(Pattern(s.start, s.len), LAMBDA b : DataByte(d.id, b)), run)
  /\ UNCHANGED <<file, length, arrays, nextKey, index, cache, control, building>>

\* The range is read and sent.
Sent(t) ==
  /\ pc[t] = "read" /\ runs[t] = << >>
  /\ pc' = [pc EXCEPT ![t] = "ready"]
  /\ out' = [out EXCEPT ![t] = << >>]
  /\ range' = [range EXCEPT ![t] = <<0, 0>>]
  /\ UNCHANGED <<file, length, arrays, nextKey, index, cache, control, building, runs>>

\* The plan and the item it held are dropped.
Drop(t) ==
  /\ pc[t] \in {"idle", "ready"} /\ handle[t] # << >>
  /\ pc' = [pc EXCEPT ![t] = "idle"]
  /\ handle' = [handle EXCEPT ![t] = << >>]
  /\ UNCHANGED <<file, length, arrays, nextKey, index, cache, children, building, reading>>

Evict ==
  /\ \E c \in cache : cache' = cache \ {c}
  /\ UNCHANGED <<file, length, arrays, nextKey, index, pc, control, building, reading>>

\* Somebody cuts a flat file.
Truncate ==
  /\ length > 0 /\ length = file.length
  /\ \E n \in 0 .. length - 1 : length' = n
  /\ UNCHANGED <<file, arrays, nextKey, index, cache, pc, control, building, reading>>

Next ==
  \/ \E t \in Threads :
       \/ GetItem(t) \/ List(t) \/ ListChild(t) \/ SortNames(t) \/ Describe(t) \/ EndList(t)
       \/ MakeLayout(t) \/ BuildUnit(t) \/ Install(t)
       \/ Read(t) \/ ReadCached(t) \/ ReadChunked(t) \/ ReadFlat(t) \/ ReadNothing(t)
       \/ Sent(t) \/ Drop(t)
  \/ Evict
  \/ Truncate

Spec == Init /\ [][Next]_vars

---------------------------------------------------------------------------
(* Properties.                                                             *)

\* A cache key is taken for each array that is opened, once.
TypeOK ==
  /\ \A p \in DOMAIN file.nodes : arrays[p] # << >> => IsArray(p) /\ arrays[p][1] \in 0 .. nextKey - 1
  /\ nextKey = Cardinality({p \in DOMAIN file.nodes : ~Unopened(p)})
  /\ pc \in [Threads -> {"idle", "list", "sorted", "listed", "build", "ready", "read"}]
  /\ \A t \in Threads : pc[t] \in {"build", "ready", "read"} => handle[t] # << >>
  /\ \A t \in Threads : Len(out[t]) <= range[t][2]

\* The chunk that element e is in, found by its coordinates alone.
ChunkAt(d, e) ==
  LET pos == Coords(e, d.shape)
      inShard == [a \in DOMAIN pos |-> pos[a] % d.chunk[a]]
      outer == Linear([a \in DOMAIN pos |-> pos[a] \div d.chunk[a]], Grid(d.shape, d.chunk))
  IN  IF file.format = "zarr" /\ IsSharded(d)
      THEN outer * PerShard(d) + Linear([a \in DOMAIN pos |-> inShard[a] \div d.inner.chunk[a]],
                                        Grid(d.chunk, d.inner.chunk))
      ELSE outer

IsWritten(d, e) ==
  IF Chunky(d) THEN ChunkAt(d, e) \in d.written ELSE file.format = "null" \/ d.offset # << >>

\* The byte at position p of the array.
ByteAt(d, p) ==
  CASE file.format = "null" -> DataByte(d.id, p % PERIOD_MULTIPLE)
    [] file.format # "null" /\ IsWritten(d, p \div d.dtype.size) -> DataByte(d.id, p)
    [] OTHER -> FillByte(FillOf(d), p % d.dtype.size)

\* What is read of an array is its own bytes, in place: of the chunks written
\* what was written, and the fill value elsewhere, whatever threads read, list
\* and build indexes meanwhile, whatever is evicted, and wherever the file is
\* cut (read_at, Chunked::read, read_bytes_at).
ReadsArray ==
  \A t \in Threads : pc[t] = "read" =>
    \A i \in DOMAIN out[t] : out[t][i] = ByteAt(Array(handle[t][1].path), range[t][1] + i - 1)

\* All who hold an array share its chunks in the cache, and no two arrays do
\* (ZarrFile::array, Hdf5File::dataset, DecodeCache::new_key).
OneKeyPerArray ==
  \A t, u \in Threads : handle[t] # << >> /\ handle[u] # << >> =>
    (handle[t][1].path = handle[u][1].path <=> handle[t][1].key = handle[u][1].key)

\* A broken index fails the request that met it rather than a transfer already
\* under way: by the time of a read there is an index, and the index is right.
IndexBeforeReads ==
  \A t \in Threads : pc[t] \in {"ready", "read"} /\ NeedsIndex(Array(handle[t][1].path)) =>
    /\ index[handle[t][1].path] # << >>
    /\ LET d == Array(handle[t][1].path)
           ix == index[handle[t][1].path][1]
       IN  \A n \in DOMAIN ix : n \in d.written <=> ix[n] \notin {NoEntry, NoChunk}

\* The codecs that chunk n of an array went through, in the order applied, and
\* what a chunk holds when they are undone.
CodecsOf(d, n) == IF file.format = "zarr" THEN Chain(ChunkCodecs(d)) ELSE Applied(d, n)
Room(d) == ChunkBytes(IF file.format = "zarr" THEN ChunkShape(d) ELSE d.chunk, d.dtype.size)

\* A checksum was taken before the chunk was compressed, so that what was
\* compressed is longer than a chunk.
Overgrown(d, n) ==
  \E i \in DOMAIN CodecsOf(d, n) :
    /\ CodecsOf(d, n)[i] \in {"gzip", "zstd", "deflate"}
    /\ Encode(SubSeq(CodecsOf(d, n), 1, i - 1), Raw(n, Room(d))).len > Room(d)

\* A read of thread t fails at the run that comes next.
GivesUp(t) == handle[t] # << >> /\ pc[t] = "read" /\ runs[t] # << >> /\ pc'[t] # "read"

\* A read fails only for a chunk in its range that is damaged or that the limit
\* on expansion turns away, for a checksum under a compression, or for a file
\* that was cut; and a request only for an index that is broken (undo, decode,
\* read_bytes_at, Sharded::index, Chunked::index).
FailsForAReason ==
  [][\A t \in Threads :
       LET d == Array(handle[t][1].path)
       IN  /\ GivesUp(t) =>
                IF Chunky(d) THEN Head(runs[t]).chunk \in d.damaged \/ Overgrown(d, Head(runs[t]).chunk)
                ELSE length < file.length
           /\ handle[t] # << >> /\ pc[t] = "build" /\ pc'[t] = "idle" =>
                IF file.format = "zarr" THEN \E s \in DOMAIN d.hurt : d.hurt[s] # "no" ELSE d.cut]_vars

\* Codecs that are not decoded are refused when the array is opened, and crc32c,
\* gzip and zstd are (docs/overview.md, the list of codecs): what is open and
\* whole is read.  With the checksum listed before the compression it is not, so
\* this does not hold.
ReadsWhatOpens ==
  [][\A t \in Threads : GivesUp(t) /\ Chunky(Array(handle[t][1].path)) =>
       Head(runs[t]).chunk \in Array(handle[t][1].path).damaged]_vars

\* A listing that reaches the client names every child that is served, in order,
\* and no other (list_children): a child that is not does not hide its siblings.
\* And the client makes sense of it, whatever attributes a writer made up
\* (attr_value, attr_from_proto).  While the file is being cut, a child may go
\* either way.
ListsServed ==
  \A t \in Threads : pc[t] = "listed" =>
    /\ length = file.length =>
         Map(children[t].items, LAMBDA item : item.name) = Retain(file.names, {p \in DOMAIN file.nodes :
           file.nodes[p].kind = "group" \/ (IsArray(p) /\ Served(file, Array(p), length))})
    /\ \A i \in DOMAIN children[t].items : ItemFromProto(children[t].items[i])

---------------------------------------------------------------------------
(* The inductive invariant behind OneKeyPerArray, in parts.                *)

\* Each open array has one key, of those that were taken, and none has another's.
Keyed ==
  /\ nextKey \in Nat
  /\ arrays \in [DOMAIN file.nodes -> Seq(Nat)]
  /\ \A p \in DOMAIN arrays : arrays[p] # << >> => Len(arrays[p]) = 1 /\ arrays[p][1] < nextKey
  /\ \A p, q \in DOMAIN arrays :
       arrays[p] # << >> /\ arrays[q] # << >> /\ arrays[p][1] = arrays[q][1] => p = q

\* Whoever holds an array has the key it was opened with.
Holding(t) ==
  handle[t] # << >> =>
    /\ handle[t][1].path \in DOMAIN arrays
    /\ arrays[handle[t][1].path] # << >>
    /\ arrays[handle[t][1].path][1] = handle[t][1].key

IInv ==
  /\ Keyed
  /\ DOMAIN handle = Threads
  /\ \A t \in Threads : Holding(t)

---------------------------------------------------------------------------
(* The inductive invariant behind ListsServed, in parts.                   *)

\* What is served while nobody has cut the file.
Offered == {p \in DOMAIN file.nodes :
              file.nodes[p].kind = "group" \/ (IsArray(p) /\ Served(file, Array(p), length))}
Uncut == length = file.length

\* The item that stands for p in a reply.
ItemAt(p) == [name |-> p, kind |-> file.nodes[p].kind, attrs |-> AttrsOf(file.format, file.attrs[p])]

SoFar == [left : SUBSET Range(file.names), found : Seq(Range(file.names)),
          items : Seq({ItemAt(p) : p \in Range(file.names)})]

\* Of the children that were looked at, those that are offered were found.
Looking(c) ==
  \A p \in Range(file.names) : p \in Range(c.found) <=> p \in Offered \ c.left

\* A list is made of all that is offered.
InList(t) ==
  /\ pc[t] \notin {"list", "sorted"} => children[t].found = << >>
  /\ Uncut =>
       /\ pc[t] = "list" => Looking(children[t])
       /\ pc[t] = "sorted" => children[t].found = Retain(file.names, Offered)
       /\ pc[t] = "listed" =>
            Map(children[t].items, LAMBDA item : item.name) = Retain(file.names, Offered)

ListInv ==
  /\ file \in Files /\ Opens(file)
  /\ DOMAIN pc = Threads
  /\ children \in [Threads -> SoFar]
  /\ Uncut => \A p \in DOMAIN arrays : arrays[p] # << >> => p \in Offered
  /\ \A t \in Threads : InList(t)
=============================================================================
