-------------------------------- MODULE Hdf5 ---------------------------------
(***************************************************************************)
(* The HDF5 backend (crates/aex-core/src/backends/hdf5.rs): which datasets *)
(* are served, the chunk index, and how a chunk is decoded.                *)
(*                                                                         *)
(* A dataset is what libhdf5 says of it and what its writer left in the    *)
(* file: the chunks it wrote, those among them that were damaged since,    *)
(* the filters it skipped for each, chunks that are left from before the   *)
(* dataset was shrunk, and whether the file still holds all of them.       *)
(***************************************************************************)
EXTENDS Zarr

\* dtype_of: little-endian numbers, booleans, and complex numbers as h5py lays
\* them out.  A single byte has no order.
dtype_of(t) ==
  /\ t.size > 1 => t.order = "little"
  /\ \/ t.kind \in {"Int", "Uint"} /\ t.size \in {1, 2, 4, 8}
     \/ t.kind = "Float" /\ t.size \in {2, 4, 8}
     \/ t.kind = "Bool"
     \/ t.kind = "Complex" /\ t.size \in {8, 16} /\ t.fields = <<"r", "i">>

DataLen(d) == Product(d.shape) * d.dtype.size

\* Hdf5Dataset::open and Chunked::new, for a file of `length` bytes.  Where a
\* contiguous dataset is, is an Option: it may never have been written.
Hdf5Served(d, length) ==
  /\ dtype_of(d.dtype)
  /\ ~d.null
  /\ DataLen(d) < Word
  /\ ~d.external
  /\ \/ /\ d.layout = "contiguous"
        /\ d.offset # << >> => d.offset[1] + DataLen(d) <= length
     \/ /\ d.layout = "chunked"
        /\ Range(d.filters) \subseteq {"deflate", "shuffle", "fletcher32"}
        /\ GridFits(d.shape, d.chunk, d.dtype.size)
        /\ Chunks(d.shape, d.chunk) <= MAX_CHUNKS

---------------------------------------------------------------------------
(* What is in the file.                                                    *)

Applied(d, n) ==
  LET kept == Retain([i \in DOMAIN d.filters |-> i], DOMAIN d.filters \ d.mask[n])
  IN  Map(kept, LAMBDA i : d.filters[i])

FilteredBlob(d, n) ==
  LET b == Encode(Applied(d, n), Raw(n, ChunkBytes(d.chunk, d.dtype.size)))
  IN  IF n \in d.damaged THEN Damaged(b) ELSE b

NoChunk == [addr |-> -1, size |-> 0, filter_mask |-> {}]

\* The chunks that libhdf5 visits: their coordinates, and where they are.
\* Strays lie outside the dataset.
Visited(d) ==
  LET order == Retain([k \in 1 .. Chunks(d.shape, d.chunk) |-> k - 1], d.written)
      Addr(k) == Added([i \in 1 .. k - 1 |-> FilteredBlob(d, order[i]).len])
      Placed(k) == [coords |-> Coords(order[k], Grid(d.shape, d.chunk)), addr |-> Addr(k),
                    size |-> FilteredBlob(d, order[k]).len, filter_mask |-> d.mask[order[k]]]
      inside == [k \in DOMAIN order |-> Placed(k)]
      stray == [coords |-> [a \in DOMAIN d.shape |-> IF a = 1 THEN Grid(d.shape, d.chunk)[1] ELSE 0], addr |-> 0, size |-> 1, filter_mask |-> {}]
  IN  IF d.strays THEN <<stray>> \o inside ELSE inside

\* The file's length, less than the chunks take up when it was cut.
ChunkFileLen(d) ==
  LET all == Visited(d)
      end == IF all = << >> THEN 0 ELSE Last(all).addr + Last(all).size
  IN  IF d.cut THEN end - 1 ELSE end

\* The bytes at an entry.
ReadChunk(d, entry) ==
  LET here == {n \in d.written : \E i \in DOMAIN Visited(d) :
                 /\ Visited(d)[i].coords = Coords(n, Grid(d.shape, d.chunk))
                 /\ Visited(d)[i].addr = entry.addr}
  IN  FilteredBlob(d, CHOOSE n \in here : TRUE)

---------------------------------------------------------------------------
(* How it is read.                                                         *)

\* Mutant: chunks of the larger dataset there once was are taken for chunks of
\* this one.
LinearAnyway(coords, dims) == <<Linear(coords, dims) % Product(dims)>>

\* chunk_of: the number of the chunk at `coords`, an Option.
chunk_of(coords, dims) ==
  IF \E a \in DOMAIN coords : coords[a] >= dims[a] THEN << >> ELSE <<Linear(coords, dims)>>

\* One visit of index: the entry is taken, is not part of the dataset, or ends
\* the visit.  The index is an Option.
TakeEntry(d, index, v) ==
  LET n == chunk_of(v.coords, Grid(d.shape, d.chunk))
  IN  CASE index = << >> -> << >>
        [] index # << >> /\ n = << >> -> index
        [] OTHER ->
             IF \/ d.filters = << >> /\ v.size # ChunkBytes(d.chunk, d.dtype.size)
                \/ v.addr + v.size > ChunkFileLen(d)
             THEN << >>
             ELSE <<[index[1] EXCEPT ![n[1]] =
                       [addr |-> v.addr, size |-> v.size, filter_mask |-> v.filter_mask]]>>

Hdf5Index(d) ==
  LET visits == Visited(d)
      index[i \in 0 .. Len(visits)] ==
        IF i = 0 THEN <<[n \in 0 .. Chunks(d.shape, d.chunk) - 1 |-> NoChunk]>>
        ELSE TakeEntry(d, index[i - 1], visits[i])
  IN  index[Len(visits)]

Skipped(entry, i) == i \in entry.filter_mask

\* A permutation of whatever bytes there are.
Unshuffled(b) == IF b.kind = "shuffle" THEN b.of ELSE Junk(b.len)

\* decode: the filters backwards without those skipped, and the length of a
\* chunk in the end; an Option.
decode(d, entry) ==
  LET limit == ChunkBytes(d.chunk, d.dtype.size)
      Undo(b, i) ==
        CASE b = << >> \/ Skipped(entry, i) -> b
          [] b # << >> /\ ~Skipped(entry, i) /\ d.filters[i] = "deflate" -> Inflated("deflate", b[1], limit)
          [] b # << >> /\ ~Skipped(entry, i) /\ d.filters[i] = "shuffle" -> <<Unshuffled(b[1])>>
          [] OTHER -> Undone(d.filters[i], b[1])
      bytes[i \in 0 .. Len(d.filters)] ==
        IF i = 0 THEN <<ReadChunk(d, entry)>> ELSE Undo(bytes[i - 1], Len(d.filters) + 1 - i)
      all == bytes[Len(d.filters)]
  IN  IF all = << >> \/ all[1].len # limit THEN << >> ELSE all

Hdf5Fetch(d, index, n) ==
  CASE index[n] = NoChunk -> <<Missing>>
    [] index[n] # NoChunk -> IF d.filters = << >> THEN <<ReadChunk(d, index[n])>> ELSE decode(d, index[n])
=============================================================================
