------------------------------ MODULE MCReduce -------------------------------
EXTENDS Reduce

Type(kind, size) == [kind |-> kind, size |-> size]

Selected(shapes, dtype, values) ==
  UNION {{[shape |-> s, dtype |-> dtype, data |-> d] : d \in TupleOf(values, Product(s))} : s \in shapes}

\* Vectors, matrices, a cube with a short axis, a scalar and arrays with nothing
\* in them; integers whose sums and products wrap, NaN in either part.
SmallInputs ==
  Selected({<<2, 2>>, <<1, 3>>}, Type("Float", 8), {Real(0), Real(2), <<NaN, Whole(0)>>})
    \cup Selected({<<2, 1, 2>>}, Type("Int", 8), {Real(-3), Real(1), Real(7)})
    \cup Selected({<<2>>, << >>}, Type("Uint", 4), {Real(0), Real(9), Real(15)})
    \cup Selected({<<3>>}, Type("Complex", 8),
                  {Real(1), <<Whole(1), Whole(-1)>>, <<NaN, Whole(1)>>, <<Whole(2), NaN>>})
    \cup Selected({<<1, 2>>}, Type("Bool", 1), {Real(0), Real(1)})
    \cup Selected({<<0, 2>>, <<0, 0>>, <<2, 0>>}, Type("Complex", 16), {Real(0)})
    \cup Selected({<<2>>}, Type("Float", 2), {Real(3), <<Infinity, Whole(0)>>, <<<<-1, 0>>, Whole(0)>>})

Infinities == Selected({<<3>>}, Type("Float", 8), {Real(2), <<Infinity, Whole(0)>>})

Over1(a) == [kind |-> "One", a |-> a]
OverMany(list) == [kind |-> "Many", list |-> list]

Products == [name : {"prod"}, keepdims : {FALSE}, ddof : {0}, axis : {[kind |-> "All"]}]

SmallRequests ==
  [name : Functions \ {"var", "std"}, keepdims : {FALSE}, ddof : {0},
   axis : {[kind |-> "All"], Over1(0), Over1(1), Over1(-1), OverMany(<< >>), OverMany(<<-1, 0>>)}]
  \cup [name : {"var", "std"}, keepdims : {FALSE}, ddof : {0, 1, 3},
        axis : {[kind |-> "All"], Over1(0)}]
  \cup [name : {"amax", "amin", "median", "any"}, keepdims : {TRUE}, ddof : {0},
        axis : {Over1(-2), Over1(2), OverMany(<<0, -2>>), OverMany(<<1>>)}]
=============================================================================
