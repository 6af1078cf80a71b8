------------------------------- MODULE Blobs ---------------------------------
(***************************************************************************)
(* The bytes of files, as far as a decoder tells them apart: how many they *)
(* are and what they decode to.                                            *)
(*                                                                         *)
(* Storage libraries write them (Encode) and the backends take them apart. *)
(* Once decoded, a byte is known by the array and the position it belongs  *)
(* to, or by the fill value it is a part of.                               *)
(***************************************************************************)
EXTENDS ChunkGrid, Vecs

Raw(n, len) == [kind |-> "raw", len |-> len, of |-> n]
Junk(len) == [kind |-> "junk", len |-> len]

\* Checksums add four bytes, the compressors halve, a shuffle keeps the length.
Coded(codec, b) ==
  [kind |-> codec, of |-> b,
   len |-> CASE codec \in {"crc32c", "fletcher32"} -> b.len + 4
             [] codec = "shuffle" -> b.len
             [] OTHER -> (b.len + 1) \div 2]

\* What a writer stores, its codecs listed in the order they are applied.
Encode(codecs, b) ==
  LET upTo[i \in 0 .. Len(codecs)] == IF i = 0 THEN b ELSE Coded(codecs[i], upTo[i - 1])
  IN  upTo[Len(codecs)]

\* A stored chunk that lost its end.
Damaged(b) == Junk(b.len - 1)

\* What undoing one codec leaves, an Option.
Undone(codec, b) == IF b.kind = codec THEN <<b.of>> ELSE << >>

\* gzip and zlib streams, read to one byte past what a chunk may hold.
Inflated(codec, b, limit) ==
  CASE b.kind # codec -> << >>
    [] b.kind = codec -> IF b.of.len <= limit + 1 THEN <<b.of>> ELSE <<Junk(limit + 1)>>

\* zstd into a buffer of one chunk.
Unpacked(b, limit) == IF b.kind = "zstd" /\ b.of.len <= limit THEN <<b.of>> ELSE << >>

DataByte(id, position) == <<"data", id, position>>
FillByte(value, k) == <<"fill", value, k>>

\* fill_from: the bytes from `at` on of an array made of nothing but the value.
FillFrom(value, itemsize, at, len) ==
  [i \in 1 .. len |-> FillByte(value, ((at % itemsize) + i - 1) % itemsize)]

\* ChunkGrid::new: the ranks agree, no axis of a chunk is empty, and the chunks
\* of the grid and the bytes of a chunk can be counted.
GridFits(shape, chunk, itemsize) ==
  /\ Len(chunk) = Len(shape)
  /\ \A a \in DOMAIN chunk : chunk[a] # 0
  /\ Product(Grid(shape, chunk)) < Word
  /\ Product(chunk) * itemsize < Word

Chunks(shape, chunk) == Product(Grid(shape, chunk))
ChunkBytes(chunk, itemsize) == Product(chunk) * itemsize
=============================================================================
