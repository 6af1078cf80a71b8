-------------------------------- MODULE Zarr ---------------------------------
(***************************************************************************)
(* The Zarr backend (crates/aex-core/src/backends/zarr.rs): which arrays   *)
(* are served, where their chunks are, and how a chunk is decoded.         *)
(*                                                                         *)
(* An array is its metadata and what its writer left on disk: the numbers  *)
(* of the chunks it wrote, those among them that were damaged since, and   *)
(* what became of the index of each shard.  Chunks of a sharded array are  *)
(* numbered shard by shard.                                                *)
(***************************************************************************)
EXTENDS Blobs

CONSTANT MAX_CHUNKS   \* inner chunks an array may have

Missing == [kind |-> "missing"]

---------------------------------------------------------------------------
(* What is served.                                                         *)

\* The names of parse_codecs.  A byte order or a transposition that is not the
\* one served is a codec of its own here, and is refused like an unknown one.
PassThrough == {"bytes", "transpose"}
Decoded == {"gzip", "zstd", "crc32c"}
Parses(codecs) == Range(codecs) \subseteq PassThrough \cup Decoded
Chain(codecs) == Retain(codecs, Decoded)

\* json_float and int_bytes.  The integers of a type of `size` bytes.
IsFloat(v) == v.kind = "number" \/ (v.kind = "text" /\ v.text \in {"NaN", "Infinity", "-Infinity"})
Fits(dtype, n) ==
  IF dtype.kind = "Uint" THEN 0 <= n /\ n < 2 ^ (8 * dtype.size)
  ELSE -(2 ^ (8 * dtype.size - 1)) <= n /\ n < 2 ^ (8 * dtype.size - 1)

\* The value of a float of `size` bytes, or its bits spelled in hexadecimal.
FloatOrBits(v, size) == IsFloat(v) \/ (v.kind = "hex" /\ v.digits = 2 * size)

\* fill_bytes: the fill value of the metadata as the array stores it, an Option.
\* The parts of a complex number are floats of half its size.
fill_bytes(dtype, v) ==
  CASE v.kind = "null" -> <<0>>
    [] v.kind # "null" /\ dtype.kind = "Bool" -> IF v.kind = "bool" THEN <<v.n>> ELSE << >>
    [] v.kind # "null" /\ dtype.kind = "Float" ->
         IF FloatOrBits(v, dtype.size) THEN <<v.n>> ELSE << >>
    [] v.kind # "null" /\ dtype.kind = "Complex" ->
         IF v.kind = "pair" /\ \A part \in {v.re, v.im} : FloatOrBits(part, dtype.size \div 2)
         THEN <<v.n>> ELSE << >>
    [] OTHER -> IF v.kind = "number" /\ v.whole /\ Fits(dtype, v.n) THEN <<v.n>> ELSE << >>

\* Sixteen bytes per inner chunk, and the checksum.
IndexBytes(m) ==
  16 * Chunks(m.chunk, m.inner.chunk) + IF "crc32c" \in Range(m.inner.index) THEN 4 ELSE 0

\* Sharded::new: inner chunks divide the shard, and the index stays in its place.
ShardServed(m) ==
  /\ GridFits(m.chunk, m.inner.chunk, m.dtype.size)
  /\ \A a \in DOMAIN m.chunk : m.chunk[a] % m.inner.chunk[a] = 0
  /\ Parses(m.inner.codecs)
  /\ Range(m.inner.index) \subseteq {"bytes", "crc32c"}
  /\ m.inner.place \in {"start", "end"}
  /\ Chunks(m.shape, m.chunk) * Chunks(m.chunk, m.inner.chunk) < Word
  /\ Chunks(m.shape, m.chunk) * Chunks(m.chunk, m.inner.chunk) <= MAX_CHUNKS

\* sharding_of: sharding has to be the whole chain.
IsSharded(m) == m.codecs = <<"sharding_indexed">>

\* ZarrArray::new.
ZarrServed(m) ==
  /\ m.dtype.kind # "extension"
  /\ ~m.transformers
  /\ m.grid = "regular"
  /\ GridFits(m.shape, m.chunk, m.dtype.size)
  /\ IF IsSharded(m) THEN ShardServed(m) ELSE Parses(m.codecs)
  /\ m.encoding \in {"default", "v2"}
  /\ fill_bytes(m.dtype, m.fill) # << >>

---------------------------------------------------------------------------
(* What is on disk, under the names of the chunks.                         *)

ChunkCodecs(m) == IF IsSharded(m) THEN m.inner.codecs ELSE m.codecs
ChunkShape(m) == IF IsSharded(m) THEN m.inner.chunk ELSE m.chunk
PerShard(m) == Chunks(m.chunk, m.inner.chunk)

\* Chunk n as its writer encoded it.
BlobOf(m, n) ==
  LET b == Encode(Chain(ChunkCodecs(m)), Raw(n, ChunkBytes(ChunkShape(m), m.dtype.size)))
  IN  IF n \in m.damaged THEN Damaged(b) ELSE b

\* The file of the chunk at these coordinates.
ChunkFile(m, coords) ==
  LET n == Linear(coords, Grid(m.shape, m.chunk))
  IN  IF n \in m.written THEN BlobOf(m, n) ELSE Missing

\* The bytes the first k chunks of shard s take.
Before(m, s, k) ==
  Added([i \in 1 .. k |->
           IF s * PerShard(m) + i - 1 \in m.written THEN BlobOf(m, s * PerShard(m) + i - 1).len ELSE 0])

NoEntry == [offset |-> -1, nbytes |-> -1]

\* The file of a shard: how long it is, where its index is and what it says.
\* An index that was damaged is cut off, fails its checksum or points outside.
ShardFile(m, coords) ==
  LET s == Linear(coords, Grid(m.shape, m.chunk))
      base == IF m.inner.place = "start" THEN IndexBytes(m) ELSE 0
      EntryOf(i) == [offset |-> base + Before(m, s, i - 1), nbytes |-> BlobOf(m, s * PerShard(m) + i - 1).len]
      entries == [i \in 1 .. PerShard(m) |->
                    IF s * PerShard(m) + i - 1 \in m.written THEN EntryOf(i) ELSE NoEntry]
      len == IndexBytes(m) + Before(m, s, PerShard(m))
  IN  IF \A i \in DOMAIN entries : entries[i] = NoEntry THEN Missing
      ELSE [kind |-> "shard", shard |-> s, base |-> base,
            len |-> IF m.hurt[s] = "short" THEN IndexBytes(m) - 1 ELSE len,
            sound |-> m.hurt[s] # "crc",
            entries |-> IF m.hurt[s] = "past" THEN [entries EXCEPT ![1] = [offset |-> len, nbytes |-> 1]]
                        ELSE entries]

---------------------------------------------------------------------------
(* How it is read.                                                         *)

\* The coordinates that name the file of chunk or shard n.
key_of(m, n) == Coords(n, Grid(m.shape, m.chunk))

\* Mutant: the codecs are undone in the order they were applied.
undo_forward(codecs, blob, limit) ==
  LET Step(b, c) ==
        CASE b = << >> -> << >>
          [] b # << >> /\ c = "gzip" -> Inflated("gzip", b[1], limit)
          [] b # << >> /\ c = "zstd" -> Unpacked(b[1], limit)
          [] b # << >> /\ c = "crc32c" -> Undone("crc32c", b[1])
      bytes[i \in 0 .. Len(codecs)] == IF i = 0 THEN <<blob>> ELSE Step(bytes[i - 1], codecs[i])
      all == bytes[Len(codecs)]
  IN  IF all = << >> \/ all[1].len # limit THEN << >> ELSE all

\* The codecs backwards, and the length of a chunk in the end; an Option.
undo(codecs, blob, limit) ==
  LET Step(b, c) ==
        CASE b = << >> -> << >>
          [] b # << >> /\ c = "gzip" -> Inflated("gzip", b[1], limit)
          [] b # << >> /\ c = "zstd" -> Unpacked(b[1], limit)
          [] b # << >> /\ c = "crc32c" -> Undone("crc32c", b[1])
      bytes[i \in 0 .. Len(codecs)] ==
        IF i = 0 THEN <<blob>> ELSE Step(bytes[i - 1], codecs[Len(codecs) + 1 - i])
      all == bytes[Len(codecs)]
  IN  IF all = << >> \/ all[1].len # limit THEN << >> ELSE all

\* What index adds for shard s to the entries it has, an Option.
IndexShard(m, s, index) ==
  LET file == ShardFile(m, key_of(m, s))
      Outside(e) == e # NoEntry /\ e.offset + e.nbytes > file.len
  IN  CASE file = Missing -> <<index>>
        [] file # Missing ->
             IF \/ file.len < IndexBytes(m)
                \/ "crc32c" \in Range(m.inner.index) /\ ~file.sound
                \/ \E i \in DOMAIN file.entries : Outside(file.entries[i])
             THEN << >>
             ELSE <<[n \in DOMAIN index |->
                       IF n \div PerShard(m) = s THEN file.entries[(n % PerShard(m)) + 1] ELSE index[n]]>>

\* The chunk stored at an entry of a shard.
ReadEntry(m, n, entry) ==
  LET s == n \div PerShard(m)
      here == {i \in 1 .. PerShard(m) :
                 LET c == s * PerShard(m) + i - 1
                 IN  /\ c \in m.written
                     /\ ShardFile(m, key_of(m, s)).base + Before(m, s, i - 1) = entry.offset
                     /\ BlobOf(m, c).len = entry.nbytes}
  IN  IF here = {} THEN Junk(entry.nbytes) ELSE BlobOf(m, s * PerShard(m) + Min(here) - 1)

\* The closures of read_at: chunk n decoded, Missing where the fill value goes,
\* or nothing.  Without sharding there is no index.
ZarrFetch(m, index, n) ==
  LET limit == ChunkBytes(ChunkShape(m), m.dtype.size)
  IN  IF IsSharded(m)
      THEN IF index[n] = NoEntry \/ ShardFile(m, key_of(m, n \div PerShard(m))) = Missing THEN <<Missing>>
           ELSE undo(Chain(m.inner.codecs), ReadEntry(m, n, index[n]), limit)
      ELSE IF ChunkFile(m, key_of(m, n)) = Missing THEN <<Missing>>
           ELSE undo(Chain(m.codecs), ChunkFile(m, key_of(m, n)), limit)

\* Mutant: chunks of a shard are counted from the shard's start only.
NestedUnnumbered(m, at, len) ==
  LET Inner(r) == Map(Walk(m.chunk, m.inner.chunk, m.dtype.size, r.start, r.len),
                      LAMBDA q : [q EXCEPT !.chunk = @])
  IN  FlattenSeq(Map(Walk(m.shape, m.chunk, m.dtype.size, at, len), Inner))

\* The walk over shards with, in each, the walk over its chunks.
Nested(m, at, len) ==
  LET Inner(r) == Map(Walk(m.chunk, m.inner.chunk, m.dtype.size, r.start, r.len),
                      LAMBDA q : [q EXCEPT !.chunk = r.chunk * PerShard(m) + @])
  IN  FlattenSeq(Map(Walk(m.shape, m.chunk, m.dtype.size, at, len), Inner))

ZarrRuns(m, at, len) ==
  IF IsSharded(m) THEN Nested(m, at, len) ELSE Walk(m.shape, m.chunk, m.dtype.size, at, len)

\* The position in the array of byte `at` of chunk n.
ZarrPosition(m, n, at) ==
  IF IsSharded(m)
  THEN Stored(m.shape, m.chunk, m.dtype.size, n \div PerShard(m),
              Stored(m.chunk, m.inner.chunk, m.dtype.size, n % PerShard(m), at))
  ELSE Stored(m.shape, m.chunk, m.dtype.size, n, at)
=============================================================================
