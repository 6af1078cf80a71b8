------------------------------- MODULE Quality --------------------------------
(***************************************************************************)
(* What a client asks for, what goes over the wire for it, and what a      *)
(* server applies (crates/aex-core/src/quality.rs, with the conversions of *)
(* crates/aex-proto/src/convert.rs and the callers on both sides).         *)
(*                                                                         *)
(* Client and server may be built with different compressors; a build is   *)
(* the set of those it has.                                                *)
(***************************************************************************)
EXTENDS Naturals, Sequences

Builds == SUBSET {"sz", "zfp"}

\* QualitySpec.  An error bound is usable or not: negative, zero or not finite.
Quality(encoding, cast, abs, rel, codec) ==
  [encoding |-> encoding, cast |-> cast, abs |-> abs, rel |-> rel, codec |-> codec]
Exact == Quality("Exact", << >>, << >>, FALSE, << >>)

Option(S) == {<< >>} \cup {<<x>> : x \in S}
Qualities ==
  [encoding : {"Exact", "ErrorBound", "DtypeCast"}, cast : Option({"Float64", "Float32", "Float16", "Int32"}),
   abs : Option({"usable", "unusable"}), rel : BOOLEAN, codec : Option({"Raw", "Gzip", "Sz", "Zfp"})]

IsErrorBounded(codec) == codec \in {"Sz", "Zfp"}
CodecSupported(build, codec) ==
  codec \in {"Raw", "Gzip"} \cup (IF "sz" \in build THEN {"Sz"} ELSE {}) \cup (IF "zfp" \in build THEN {"Zfp"} ELSE {})
EncodingSupported(build, encoding) == encoding = "ErrorBound" => build # {}
DefaultLossy(build) == IF "sz" \in build THEN "Sz" ELSE "Zfp"

\* QualitySpec::codec: the codec that carries an encoding.
CodecOf(build, q) ==
  LET named == {c \in {"Raw", "Gzip", "Sz", "Zfp"} : q.codec = <<c>>}
      fit == {c \in named : IsErrorBounded(c) <=> q.encoding = "ErrorBound"}
  IN  IF q.encoding = "ErrorBound"
      THEN IF fit = {} THEN DefaultLossy(build) ELSE CHOOSE c \in fit : TRUE
      ELSE IF \E c \in fit : CodecSupported(build, c) THEN CHOOSE c \in fit : TRUE ELSE "Raw"

\* QualitySpec::can_apply and applied: what cannot be done is not done by halves.
CanApply(build, q, dtype) ==
  CASE q.encoding = "Exact" -> TRUE
    [] q.encoding = "ErrorBound" ->
         /\ CodecSupported(build, CodecOf(build, q))
         /\ dtype \in {"Float32", "Float64"}
         /\ ~q.rel
         /\ q.abs = <<"usable">>
    [] q.encoding = "DtypeCast" ->
         <<dtype, q.cast>> \in {<<"Float64", <<"Float32">>>>, <<"Float32", <<"Float16">>>>}
Applied(build, q, dtype) == IF CanApply(build, q, dtype) THEN q ELSE Exact

WireDtype(build, q, dtype) ==
  IF q.encoding = "DtypeCast" /\ CanApply(build, q, dtype) THEN q.cast[1] ELSE dtype

\* QualitySpec::eps, an Option.
Eps(q) == IF q.encoding = "ErrorBound" THEN q.abs ELSE << >>

ItemSize(dtype) ==
  CASE dtype = "Float64" -> 8 [] dtype \in {"Float32", "Int32"} -> 4 [] dtype = "Float16" -> 2

---------------------------------------------------------------------------

\* Mutant: the client asks for what it was told to ask for.
AsAsked(build, q) == q

\* expandable: the client asks for nothing it could not expand.
Expandable(build, q) ==
  IF EncodingSupported(build, q.encoding) /\ CodecSupported(build, CodecOf(build, q)) THEN q ELSE Exact

\* prepare_request: the codec travels beside the quality, and by name.
PrepareRequest(client, q) ==
  [quality |-> [Expandable(client, q) EXCEPT !.codec = << >>],
   codec |-> CodecOf(client, Expandable(client, q))]

\* What prepare makes of the request.
Agreed(server, request, dtype) ==
  Applied(server, [request.quality EXCEPT !.codec = <<request.codec>>], dtype)
=============================================================================
