-------------------------------- MODULE Blocks --------------------------------
(***************************************************************************)
(* Blocks of a compressed transfer: how the range of a piece is described  *)
(* to a codec, and what a receiver makes of the description                *)
(* (crates/aex-core/src/codec/mod.rs).                                     *)
(***************************************************************************)
EXTENDS ChunkGrid, Vecs

CONSTANTS MaxAxis   \* the longest axis a header can hold

MAX_BLOCK_DIMS == 3

LastOf(shape) == shape[Len(shape)]
PlaneOf(shape) == IF Len(shape) >= 2 THEN shape[Len(shape) - 1] ELSE 1

\* Mutant: whole planes are taken for planes wherever they begin.
AnyPlanes(shape, first, rows) == PlaneOf(shape) > 1 /\ rows % PlaneOf(shape) = 0

\* Whether so many rows are whole planes.
WholePlanes(shape, first, rows) ==
  PlaneOf(shape) > 1 /\ rows % PlaneOf(shape) = 0 /\ first % PlaneOf(shape) = 0

\* slab_axes: the axes of a range of whole rows, an Option.
SlabAxes(shape, itemsize, offset, len) ==
  LET row == LastOf(shape) * itemsize
      rows == len \div row
      planes == WholePlanes(shape, offset \div row, rows)
      axes == IF planes THEN <<rows \div PlaneOf(shape), PlaneOf(shape), LastOf(shape)>> ELSE <<rows, LastOf(shape)>>
      long == Retain(axes, Nat \ {0, 1})
  IN  CASE shape = << >> -> << >>
        [] shape # << >> ->
             IF row = 0 \/ offset % row # 0 \/ len % row # 0 \/ long = << >> THEN << >> ELSE <<long>>

\* BlockSpec::for_range, an Option.
ForRange(shape, itemsize, offset, len) ==
  CASE len = 0 \/ len % itemsize # 0 -> << >>
    [] OTHER ->
         LET slab == SlabAxes(shape, itemsize, offset, len)
             axes == IF slab = << >> THEN <<len \div itemsize>> ELSE slab[1]
         IN  IF \E i \in DOMAIN axes : axes[i] > MaxAxis THEN << >>
             ELSE <<[dims |-> axes, itemsize |-> itemsize]>>

SpecBytes(spec) == Product(spec.dims) * spec.itemsize

\* BlockSpec::decode and decompress_into: what a receiver takes for `len` bytes.
Expands(spec, len) ==
  /\ Len(spec.dims) \in 1 .. MAX_BLOCK_DIMS
  /\ \A i \in DOMAIN spec.dims : spec.dims[i] > 1 \/ spec.dims = <<1>>
  /\ SpecBytes(spec) = len
=============================================================================
