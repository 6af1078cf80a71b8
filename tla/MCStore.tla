------------------------------- MODULE MCStore --------------------------------
(***************************************************************************)
(* Small stores of every format, for TLC.                                  *)
(***************************************************************************)
EXTENDS Store

CONSTANTS t1, t2

ThreadSymmetry == Permutations(Threads)

Root == [kind |-> "group"]
Node(d) == [kind |-> "array", array |-> d]
Broken == [kind |-> "broken"]

Number(n) == [kind |-> "number", n |-> n, whole |-> TRUE]
NoneHurt(shards) == [s \in 0 .. shards - 1 |-> "no"]

\* No attributes, of these paths.
Bare(paths) == [p \in paths |-> << >>]

---------------------------------------------------------------------------
(* Zarr.                                                                   *)

JBool == [kind |-> "bool"]
JInt == [kind |-> "int"]
JFloat == [kind |-> "float"]
JList(items) == [kind |-> "array", items |-> items]

\* Scalars and arrays, ragged in every way, mixed, empty and too long.
JsonAttrs ==
  <<JInt, JList(<<JInt, JFloat>>), JList(<<JList(<<JBool, JBool>>), JList(<<JBool, JBool>>)>>),
    JList(<<JList(<<JInt>>), JList(<<JInt, JInt>>)>>), JList(<<JInt, JList(<< >>)>>), JList(<<JList(<< >>), JInt>>),
    JList(<<JList(<<JInt>>), JInt>>), JList(<<JBool, JInt>>), JList(<<JInt, [kind |-> "other"]>>),
    JList(<< >>), JList(<<JList(<< >>), JList(<< >>)>>), JList(<<JInt, JInt, JInt, JInt, JInt>>),
    [kind |-> "text", len |-> 32], [kind |-> "text", len |-> 33], JList(<<[kind |-> "text", len |-> 1]>>)>>

\* 3 x 3 in chunks of 2 x 2: the edge chunks stick out.
Plain(id, codecs, written, damaged, fill) ==
  [id |-> id, dtype |-> [kind |-> "Int", size |-> 1], transformers |-> FALSE, grid |-> "regular",
   shape |-> <<3, 3>>, chunk |-> <<2, 2>>, codecs |-> codecs,
   inner |-> [chunk |-> <<1, 1>>, codecs |-> << >>, index |-> << >>, place |-> "end"],
   encoding |-> "default", fill |-> fill, written |-> written, damaged |-> damaged, hurt |-> NoneHurt(4)]

\* 3 x 2 in shards of 2 x 2, each of two chunks.
Shards(id, codecs, ixcodecs, place, written, damaged, hurt) ==
  [Plain(id, <<"sharding_indexed">>, written, damaged, [kind |-> "null"]) EXCEPT
     !.shape = <<3, 2>>, !.hurt = hurt,
     !.inner = [chunk |-> <<1, 2>>, codecs |-> codecs, index |-> ixcodecs, place |-> place]]

ZarrStore(a, b) ==
  [format |-> "zarr", length |-> 0, names |-> <<"a", "b", "c">>,
   attrs |-> [Bare({"", "a", "b", "c"}) EXCEPT !["b"] = JsonAttrs],
   nodes |-> ("" :> Root) @@ ("a" :> a) @@ ("b" :> b) @@ ("c" :> Broken)]

ZarrFiles ==
  {ZarrStore(Node(Plain("x", <<"transpose", "bytes", "gzip", "crc32c">>, {0, 3}, {}, Number(-1))),
             Node([Plain("y", <<"bytes">>, {0}, {0}, Number(3)) EXCEPT !.shape = <<2, 3>>])),
   ZarrStore(Node([Plain("x", <<"bytes", "blosc">>, {}, {}, Number(0)) EXCEPT !.shape = <<2, 2>>]),
             Node([Plain("y", <<"zstd">>, {0, 1}, {1}, [kind |-> "hex", digits |-> 4, n |-> 5])
                     EXCEPT !.dtype = [kind |-> "Float", size |-> 2], !.shape = <<2, 3>>])),
   ZarrStore(Node(Shards("x", <<"bytes", "crc32c">>, <<"bytes", "crc32c">>, "start", {0, 2}, {}, NoneHurt(2))),
             Root),
   ZarrStore(Node(Shards("x", <<"gzip">>, <<"bytes">>, "end", {1, 2, 3}, {2}, NoneHurt(2))),
             Node([Shards("y", << >>, <<"bytes">>, "end", {}, {}, NoneHurt(2)) EXCEPT !.inner.chunk = <<2, 3>>]))}
  \cup
  {ZarrStore(Node(Shards("x", <<"bytes">>, <<"bytes", "crc32c">>, "end", {0, 2}, {}, (0 :> "no") @@ (1 :> hurt))),
             Broken) : hurt \in {"short", "crc", "past"}}
  \cup
  {ZarrStore(Node(Plain("x", <<"crc32c", "gzip">>, {0, 3}, {3}, Number(1))),
             Node([Shards("y", <<"crc32c", "zstd">>, <<"bytes">>, "end", {0}, {}, NoneHurt(2)) EXCEPT
                     !.fill = [kind |-> "pair", n |-> 6, re |-> [kind |-> "hex", digits |-> 8, n |-> 6],
                               im |-> [kind |-> "number", n |-> 0, whole |-> FALSE]],
                     !.dtype = [kind |-> "Complex", size |-> 8], !.shape = <<2, 2>>]))}

---------------------------------------------------------------------------
(* HDF5.                                                                   *)

Filtered(id, filters, written, damaged, mask) ==
  [id |-> id, dtype |-> [kind |-> "Int", size |-> 1, order |-> "none", fields |-> << >>],
   null |-> FALSE, external |-> FALSE, layout |-> "chunked", offset |-> << >>,
   shape |-> <<3, 2>>, chunk |-> <<2, 2>>, filters |-> filters, written |-> written, damaged |-> damaged,
   mask |-> mask, strays |-> FALSE, cut |-> FALSE, fill |-> 7]

Contiguous(id, offset) ==
  [Filtered(id, << >>, {}, {}, << >>) EXCEPT
     !.layout = "contiguous", !.offset = offset, !.shape = <<2>>,
     !.dtype = [kind |-> "Float", size |-> 2, order |-> "little", fields |-> << >>]]

AllFilters == (0 :> {}) @@ (1 :> {})

StoredAttr(kind, size, shape, utf8) ==
  [type |-> [kind |-> kind, size |-> size, order |-> "little", fields |-> << >>],
   shape |-> shape, len |-> 2, utf8 |-> utf8]

StoredAttrs ==
  <<StoredAttr("varlen", 8, << >>, TRUE), StoredAttr("varlen", 8, <<2>>, TRUE), StoredAttr("fixed", 4, <<1>>, TRUE),
    StoredAttr("fixed", 4, << >>, FALSE), StoredAttr("fixed", 33, << >>, TRUE), StoredAttr("Float", 4, <<2, 3>>, TRUE),
    StoredAttr("Float", 8, <<5>>, TRUE), StoredAttr("Int", 2, << >>, TRUE), StoredAttr("Int", 2, <<10>>, TRUE),
    StoredAttr("compound", 2, << >>, TRUE)>>

Hdf5Store(a, b, bytes) ==
  [format |-> "hdf5", length |-> bytes, names |-> <<"a", "b">>,
   attrs |-> [Bare({"", "a", "b"}) EXCEPT !["b"] = IF b.kind = "broken" THEN << >> ELSE SubSeq(StoredAttrs, 1, 8)],
   nodes |-> ("" :> Root) @@ ("a" :> a) @@ ("b" :> b)]

Hdf5Files ==
  {[Hdf5Store(Node(Contiguous("x", << >>)), Root, 0) EXCEPT !.attrs["a"] = StoredAttrs]} \cup
  {Hdf5Store(Node(Filtered("x", <<"shuffle", "deflate", "fletcher32">>, {0, 1}, {}, (0 :> {2}) @@ (1 :> {}))),
             Node([Filtered("y", <<"deflate">>, {1}, {1}, AllFilters) EXCEPT !.strays = TRUE]), 0),
   Hdf5Store(Node([Filtered("x", << >>, {1}, {}, AllFilters) EXCEPT !.strays = TRUE]),
             Node([Filtered("y", <<"szip">>, {0}, {}, AllFilters) EXCEPT !.shape = <<2, 2>>]), 0),
   Hdf5Store(Node([Filtered("x", <<"fletcher32">>, {0, 1}, {}, AllFilters) EXCEPT !.cut = TRUE]),
             Broken, 0),
   Hdf5Store(Node(Contiguous("x", <<1>>)), Node(Contiguous("y", << >>)), 5),
   Hdf5Store(Node([Contiguous("x", <<1>>) EXCEPT !.dtype.order = "big"]), Node(Contiguous("y", <<2>>)), 5)}

---------------------------------------------------------------------------
(* Flat files.                                                             *)

OneArray(format, d, bytes) ==
  [format |-> format, length |-> bytes, names |-> <<"data">>, attrs |-> Bare({"", "data"}),
   nodes |-> ("" :> Root) @@ ("data" :> Node(d))]

Npy(shape, order) ==
  [id |-> "x", order |-> order, pickled |-> FALSE, dtype |-> [kind |-> "Int", size |-> 2, order |-> "little"],
   shape |-> shape, offset |-> <<1>>]

Synthetic(shape, period) ==
  [id |-> "x", period |-> period, dtype |-> [kind |-> "Uint", size |-> 1], shape |-> shape]

FlatFiles ==
  {OneArray("npy", Npy(shape, order), 5) : shape \in {<<2>>, <<3>>, << >>}, order \in {"C", "F"}}
  \cup {OneArray("npy", [Npy(<<2>>, "C") EXCEPT !.dtype = type], 17) :
           type \in {[kind |-> "Int", size |-> 2, order |-> "big"], [kind |-> "Int", size |-> 1, order |-> "big"],
                     [kind |-> "Float", size |-> 16, order |-> "little"],
                     [kind |-> "structured", size |-> 2, order |-> "none"]}}
  \cup {OneArray("null", Synthetic(<<9>>, period), 0) : period \in {0, 4, 6, 8}}
  \cup {OneArray("null", Synthetic(<<10>>, 4), 0)}

---------------------------------------------------------------------------

AllFiles == ZarrFiles \cup Hdf5Files \cup FlatFiles
=============================================================================
