-------------------------------- MODULE Flat ---------------------------------
(***************************************************************************)
(* Arrays without chunks: .npy files and synthetic datasets                *)
(* (crates/aex-core/src/backends/npy.rs and null.rs).                      *)
(***************************************************************************)
EXTENDS Hdf5

CONSTANT PERIOD_MULTIPLE   \* the values a byte can have

\* DType::from_type_str: the plain types that are served.  A single byte has no
\* order.
TypeServed(t) ==
  /\ t.size > 1 => t.order = "little"
  /\ <<t.kind, t.size>> \in {<<"Bool", 1>>} \cup ({"Int", "Uint"} \X {1, 2, 4, 8})
                            \cup ({"Float"} \X {2, 4, 8}) \cup ({"Complex"} \X {8, 16})

\* NpyDataset::open, for a file of `length` bytes.
NpyServed(d, length) ==
  /\ d.order = "C"
  /\ ~d.pickled
  /\ TypeServed(d.dtype)
  /\ Product(d.shape) < Word
  /\ DataLen(d) < Word
  /\ d.offset[1] + DataLen(d) < Word
  /\ d.offset[1] + DataLen(d) <= length

\* NullDataset::from_spec and with_period.
NullServed(d) ==
  /\ d.period # 0
  /\ d.period % PERIOD_MULTIPLE = 0
  /\ d.dtype.kind # "unknown"
  /\ Product(d.shape) < Word
  /\ DataLen(d) < Word

\* One round of NullDataset::fill: the stretch of the pattern that comes next.
NextStretch(period, at, len) ==
  [start |-> at % period, len |-> Min({period - (at % period), len})]

\* What a stretch of the pattern says: pattern[i] is the low byte of i.
Pattern(start, len) == [i \in 1 .. len |-> (start + i - 1) % PERIOD_MULTIPLE]
=============================================================================
