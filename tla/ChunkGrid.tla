------------------------------ MODULE ChunkGrid ------------------------------
(***************************************************************************)
(* A grid of chunks over an array (crates/aex-core/src/backends/chunks.rs): *)
(* which chunk, and where in it, holds the bytes of a range of the array.  *)
(***************************************************************************)
EXTENDS Selection

CeilDiv(n, d) == (n + d - 1) \div d

Grid(shape, chunk) == [a \in DOMAIN shape |-> CeilDiv(shape[a], chunk[a])]

\* Every axis after this one is covered by one chunk without padding.
RunAxis(shape, chunk) ==
  Max({1} \cup {a \in DOMAIN shape : chunk[a] # shape[a]})

\* The coordinates of element number n, in C order.
Coords(n, dims) == [a \in DOMAIN dims |-> (n \div Stride(dims, a)) % dims[a]]

\* One round of walk: the run that begins at byte `at` of the array and ends
\* with its chunk along the run axis, of at most `most` bytes.
Run(shape, chunk, itemsize, at, most) ==
  LET skip == at % itemsize
      pos == Coords(at \div itemsize, shape)
      j == RunAxis(shape, chunk)
      trailing == Stride(shape, j)
      behind == Linear(SubSeq(pos, j + 1, Len(pos)), SubSeq(shape, j + 1, Len(shape)))
      along == Min({chunk[j] - (pos[j] % chunk[j]), shape[j] - pos[j]})
  IN  [chunk |-> Linear([a \in DOMAIN pos |-> pos[a] \div chunk[a]], Grid(shape, chunk)),
       start |-> Linear([a \in DOMAIN pos |-> pos[a] % chunk[a]], chunk) * itemsize + skip,
       len |-> Min({(along * trailing - behind) * itemsize - skip, most})]

\* The runs of the range [at, at + count), in order.  A scalar is one chunk.
Walk(shape, chunk, itemsize, at, count) ==
  LET runs[a \in at .. at + count] ==
        IF a = at + count THEN << >>
        ELSE LET r == Run(shape, chunk, itemsize, a, at + count - a)
             IN  <<r>> \o runs[a + r.len]
  IN  IF shape = << >> THEN <<[chunk |-> 0, start |-> at, len |-> count]>> ELSE runs[at]

\* What is stored at byte `at` of a chunk: that byte of the array, named by its
\* position, or padding where the chunk hangs over the edge.
Padding == -1
Stored(shape, chunk, itemsize, number, at) ==
  LET corner == Coords(number, Grid(shape, chunk))
      inside == Coords(at \div itemsize, chunk)
      pos == [a \in DOMAIN shape |-> corner[a] * chunk[a] + inside[a]]
  IN  IF \A a \in DOMAIN shape : pos[a] < shape[a]
      THEN Linear(pos, shape) * itemsize + (at % itemsize)
      ELSE Padding

\* The bytes a backend reads for the range [at, at + count) of the array.
ReadSource(shape, chunk, itemsize, at, count) ==
  LET runs == Walk(shape, chunk, itemsize, at, count)
  IN  FlattenSeq([i \in DOMAIN runs |->
        [b \in 1 .. runs[i].len |-> Stored(shape, chunk, itemsize, runs[i].chunk, runs[i].start + b - 1)]])
=============================================================================
