------------------------------ MODULE MCGather -------------------------------
EXTENDS Gather

\* A matrix whose chunks hang over its edge, a square one, one with a short axis
\* between two others, a vector, a scalar and an array with nothing in it.
SmallArrays ==
  {[shape |-> <<3, 3>>, chunk |-> <<2, 2>>], [shape |-> <<2, 2>>, chunk |-> <<1, 2>>],
   [shape |-> <<2, 1, 2>>, chunk |-> <<1, 1, 2>>], [shape |-> <<5>>, chunk |-> <<2>>],
   [shape |-> << >>, chunk |-> << >>], [shape |-> <<0, 2>>, chunk |-> <<1, 2>>]}

\* Elements sent as they are, and elements narrowed on the way.
PlainAndCast == {<<2, 2>>, <<4, 2>>}

All == Slice(<< >>, << >>, << >>)
Back == Slice(<< >>, << >>, <<-1>>)

\* Every selection of up to two indices of all kinds, of three among the kinds
\* that combine, and of four among those that move the group to the front; and
\* two with an ellipsis of no axes between index arrays of a cube, or between an
\* integer and one.
SmallSelections ==
  SeqOf({Single(0), Single(-1), Single(2), All, Back, Slice(<<-9>>, <<-1>>, <<2>>), Slice(<<9>>, <<0>>, <<-2>>),
         Slice(<<1>>, << >>, <<0>>), Fancy(<<0, 1>>), Fancy(<<1, 0, 1>>), Fancy(<<-1>>), Fancy(<< >>),
         Ellipsis, NewAxis}, 2)
    \cup TupleOf({Single(1), Back, Fancy(<<0, 1>>), Fancy(<<0>>), Ellipsis, NewAxis}, 3)
    \cup TupleOf({All, Fancy(<<1, 0>>), NewAxis, Ellipsis}, 4)
    \cup {<<All, Fancy(<<0>>), Ellipsis, Fancy(<<0, 1>>)>>, <<Back, Single(0), Ellipsis, Fancy(<<1, 1>>)>>}
=============================================================================
