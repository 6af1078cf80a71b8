-------------------------------- MODULE Attrs --------------------------------
(***************************************************************************)
(* Attributes and descriptions of items: what a backend makes of them      *)
(* (attr_value in crates/aex-core/src/backends/zarr.rs and hdf5.rs), how   *)
(* the server puts them into a reply (crates/aex-server/src/control.rs)    *)
(* and what the client makes of that (crates/aex-client/src/client.rs).    *)
(*                                                                         *)
(* Attributes are a sequence in the order of their names, numbers here.    *)
(* One of a Zarr node is a JSON value: text of a length, an array of       *)
(* values, a boolean, an integer, another number, or something else.       *)
(***************************************************************************)
EXTENDS Flat

CONSTANTS
  MAX_ATTR_BYTES,
  WireMax,         \* the longest axis the wire carries, i64::MAX
  Nesting          \* bound: how deep the arrays of an attribute nest

ASSUME AttrsAssumption ==
  MAX_ATTR_BYTES \in Nat /\ MAX_ATTR_BYTES < Word /\ WireMax < Word /\ Nesting \in Nat

Text(len) == [kind |-> "text", len |-> len]
Numbers(dtype, shape, len) == [kind |-> "array", dtype |-> dtype, shape |-> shape, len |-> len]

---------------------------------------------------------------------------
(* Zarr.                                                                   *)

\* The values that are k arrays deep in v, from left to right.
Level(v, k) ==
  LET Items(values) ==
        FlattenSeq(Map(values, LAMBDA w : IF w.kind = "array" THEN w.items ELSE << >>))
      level[i \in 0 .. k] == IF i = 0 THEN <<v>> ELSE Items(level[i - 1])
  IN  level[k]

\* A JSON value, as far as its kinds go: no array of it is deeper than the bound.
JsonValue(v) ==
  /\ \A k \in 0 .. Nesting : \A w \in Range(Level(v, k)) :
       \/ w.kind \in {"text", "bool", "int", "float", "other"}
       \/ w.kind = "array" /\ w.items \in Seq(Range(w.items))
  /\ Level(v, Nesting + 1) = << >>

OfKinds(values, kinds) == Retain(values, {w \in Range(values) : w.kind \in kinds})

\* flatten: the axes and the leaves of a value, an Option.  Arrays of one depth
\* are equally long, and leaves have all the same depth.
flatten(v) ==
  LET Arrays(k) == OfKinds(Level(v, k), {"array"})
      Leaves(k) == OfKinds(Level(v, k), {"bool", "int", "float"})
      axes == Cardinality({k \in 0 .. Nesting : Arrays(k) # << >>})
      depths == {k \in 0 .. Nesting : Leaves(k) # << >>}
  IN  IF \/ \E k \in 0 .. Nesting :
              \/ OfKinds(Level(v, k), {"text", "other"}) # << >>
              \/ \E a, b \in Range(Arrays(k)) : Len(a.items) # Len(b.items)
         \/ Cardinality(depths) > 1
      THEN << >>
      ELSE <<[shape |-> [k \in 1 .. axes |-> Len(Arrays(k - 1)[1].items)],
              depths |-> depths,
              leaves |-> IF depths = {} THEN << >> ELSE Leaves(Max(depths))]>>

\* What the leaves are read as, an Option.
LeafDtype(leaves) ==
  LET All(kinds) == OfKinds(leaves, kinds) = leaves
  IN  IF leaves # << >> /\ All({"bool"}) THEN <<[kind |-> "Bool", size |-> 1]>>
      ELSE IF leaves # << >> /\ All({"int"}) THEN <<[kind |-> "Int", size |-> 8]>>
      ELSE IF All({"int", "float"}) THEN <<[kind |-> "Float", size |-> 8]>>
      ELSE << >>

\* Mutant: an array beside numbers passes for a deeper axis.
AnyDepth(flat) == TRUE

\* A leaf below the deepest axis means the array was ragged.
Rectangular(flat) == flat.depths \subseteq {Len(flat.shape)}

\* attr_value of a Zarr attribute, an Option.
ZarrAttr(v) ==
  LET flat == flatten(v)
      dtype == LeafDtype(flat[1].leaves)
      len == Len(flat[1].leaves) * dtype[1].size
  IN  IF v.kind = "text" THEN IF v.len <= MAX_ATTR_BYTES THEN <<Text(v.len)>> ELSE << >>
      ELSE IF flat = << >> THEN << >>
      ELSE IF ~Rectangular(flat[1]) \/ dtype = << >> THEN << >>
      ELSE IF len > MAX_ATTR_BYTES THEN << >>
      ELSE <<Numbers(dtype[1], flat[1].shape, len)>>

---------------------------------------------------------------------------
(* HDF5.                                                                   *)

\* read_raw: whether that many bytes are read.
ReadRaw(len) == len <= MAX_ATTR_BYTES

\* attr_value of an HDF5 attribute, an Option.  Text is of variable or of fixed
\* size, one string at a time; the bytes of the latter have to be UTF-8.
Hdf5Attr(a) ==
  LET bytes == a.type.size * Product(a.shape)
  IN  CASE a.type.kind = "varlen" /\ Product(a.shape) = 1 -> <<Text(a.len)>>
        [] a.type.kind = "fixed" /\ Product(a.shape) = 1 ->
             IF ReadRaw(a.type.size) /\ a.utf8 THEN <<Text(a.len)>> ELSE << >>
        [] OTHER ->
             IF dtype_of(a.type) /\ bytes < Word /\ ReadRaw(bytes)
             THEN <<Numbers(a.type, a.shape, bytes)>>
             ELSE << >>

---------------------------------------------------------------------------
(* Both.                                                                   *)

\* What an attribute is to its format.
Attribute(format, a) ==
  CASE format = "zarr" -> JsonValue(a)
    [] format = "hdf5" -> a.shape \in Seq(Nat) /\ a.type.size \in Nat
    [] OTHER -> TRUE

\* Those that have a value, by name.
Named(values) ==
  LET names == Retain([n \in DOMAIN values |-> n], {n \in DOMAIN values : values[n] # << >>})
  IN  Map(names, LAMBDA n : [name |-> n, value |-> values[n][1]])

\* attrs of a Zarr node, and read_attrs of an HDF5 object.
ZarrAttrs(attrs) == Named(Map(attrs, ZarrAttr))
read_attrs(attrs) == Named(Map(attrs, Hdf5Attr))

\* attrs.  The flat formats have none.
AttrsOf(format, attrs) ==
  CASE format = "zarr" -> ZarrAttrs(attrs)
    [] format = "hdf5" -> read_attrs(attrs)
    [] OTHER -> << >>

---------------------------------------------------------------------------
(* Over the wire.                                                          *)

\* shape_to_proto.
OnWire(shape) == \A a \in DOMAIN shape : shape[a] <= WireMax

\* dataset_to_proto and attr_to_proto: whether there is a message for it.
DatasetOnWire(node) == node.kind = "array" => OnWire(node.array.shape)
AttrOnWire(attr) == attr.value.kind = "array" => OnWire(attr.value.shape)

\* item_to_proto, an Option.
ItemToProto(name, node, attrs) ==
  IF DatasetOnWire(node) /\ \A i \in DOMAIN attrs : AttrOnWire(attrs[i])
  THEN <<[name |-> name, kind |-> node.kind, attrs |-> attrs]>>
  ELSE << >>

\* nbytes, which saturates.
NBytes(shape, itemsize) == Min({Product(shape) * itemsize, Word - 1})

\* attr_from_proto: whether the client makes sense of an attribute.
AttrFromProto(attr) ==
  LET v == attr.value
  IN  v.kind = "array" => v.len = NBytes(v.shape, v.dtype.size)

\* item_from_proto: and of an item.
ItemFromProto(item) == \A i \in DOMAIN item.attrs : AttrFromProto(item.attrs[i])
=============================================================================
