------------------------------ MODULE MCFetches -------------------------------
(* Small transfers for TLC. *)
EXTENDS Fetches

CONSTANTS c1, c2, Family

Case(dims, dtype, quality, pair, how) ==
  [plan |-> [shape |-> dims, dtype |-> dtype, quality |-> quality, noise |-> {5}],
   builds |-> pair, settings |-> how]

Bounded(codec) == Quality("ErrorBound", << >>, <<"usable">>, FALSE, codec)
Packed == Quality("Exact", << >>, << >>, FALSE, <<"Gzip">>)
Halved(dtype) == Quality("DtypeCast", <<dtype>>, << >>, FALSE, <<"Gzip">>)

None == {}
Both == {"sz", "zfp"}

Pinned(chunk, buffer) == [chunk |-> chunk, default |-> 1, limit |-> 64, buffer |-> buffer, inline |-> 0]
Choosing(default, limit, buffer) == [chunk |-> 0, default |-> default, limit |-> limit, buffer |-> buffer, inline |-> 0]

\* Chunks of whole elements, pieces shorter and longer than a row and a plane;
\* builds that differ; and what is not cut in whole elements.
MixedCases ==
  {Case(<<4, 3>>, "Float32", Bounded(<< >>), <<Both, Both>>, Pinned(20, 16)),
   Case(<<2, 3>>, "Float32", Bounded(<< >>), <<Both, Both>>, Pinned(12, 6))}
  \cup {Case(<<5, 2, 2>>, "Float32", Bounded(<<"Zfp">>), <<Both, Both>>, Pinned(40, buffer)) : buffer \in {16, 32}}
  \cup {Case(<<2>>, "Float32", Bounded(<< >>), <<a, b>>, Pinned(8, 8)) : a \in {None, {"zfp"}, Both}, b \in {None, {"sz"}, Both}}
  \cup {Case(<<3>>, "Int32", quality, <<None, Both>>, Pinned(4, 4)) : quality \in {Exact, Packed, Bounded(<<"Sz">>)}}
  \cup {Case(<<2, 2>>, "Float32", Halved("Float16"), <<None, None>>, Pinned(4, 4)),
        Case(<<2, 2>>, "Float32", Halved("Float32"), <<None, None>>, Choosing(8, 12, 8)),
        Case(<< >>, "Float64", Bounded(<<"Gzip">>), <<Both, Both>>, Choosing(8, 64, 4)),
        Case(<<0, 2>>, "Float32", Packed, <<Both, Both>>, Choosing(8, 64, 4)),
        Case(<<3>>, "Float32", Bounded(<< >>), <<Both, Both>>, Pinned(6, 8)),
        Case(<<3>>, "Int32", Packed, <<Both, Both>>, Pinned(6, 4)),
        Case(<<3>>, "Int32", Exact, <<None, None>>, Choosing(8, 8, 3)),
        Case(<<2>>, "Float32", Halved("Float16"), <<Both, Both>>, [Choosing(8, 8, 3) EXCEPT !.inline = 4])}

\* One transfer that the client cuts as it sees fit.
CutCases == {Case(<<5>>, "Float32", Bounded(<< >>), <<Both, Both>>, Choosing(32, 64, 16))}

AllCases == IF Family = "cut" THEN CutCases ELSE MixedCases
=============================================================================
