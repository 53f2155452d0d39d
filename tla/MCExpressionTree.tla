-------------------------- MODULE MCExpressionTree ---------------------------
(* Instances of ExpressionText: leaves, operators and dicts for the modes, for   *)
(* concatenation and for the text of trees.                                      *)
EXTENDS ExpressionText

MCAlphabet == <<"s", "t">>
MCPieces == {"or", "and", "not", "in", "is", "True", "False", "None", "f", "nan",
             "foo", "bar", "r"}

foo == <<"foo">>
bar == <<"bar">>
r == <<"r">>
Whole(n) == Const(PyInt(n))
EmptyList == List(<<>>)

\* Modes: two variables, a path and a constant; numbers, a text, a dict and nothing.
ModeLeaves == {Variable(foo), Variable(bar), Path(<<foo, r>>), Whole(1), NoneNode}
ModeOps == {"or", "and", "==", "<", ">=", "is not", "not in", "+"}
Inner == PyDict(r :> PyInt(0))
ModeDicts ==
    {foo :> v @@ bar :> w : v \in {None, PyInt(0), PyInt(2), PyStr(<<"s">>), Inner},
                            w \in {None, PyBool(TRUE), PyFloat(3, 2), PyList(<<None>>)}}

\* Concatenation: values of every type, comparisons that fail and that do not.
ConcatLeaves ==
    {Variable(foo), Whole(0), Whole(2), Const(PyFloat(1, 2)), Const(PyStr(<<"s">>)), NoneNode, EmptyList}
ConcatOps == {"or", "<"}
ConcatDicts == {foo :> v : v \in {None, PyInt(1), PyInt(3), PyStr(<<>>)}}

\* Texts: every operator.
TextDicts == {foo :> PyList(<<PyInt(-5)>>)}
TextLeaves == {Variable(foo), Whole(-5), Const(PyFloat(5, 2))}
AllLogic == {"or", "and", "in", "not in", "is", "is not", "==", "!="}
TextOps == AllLogic \cup OrderOps \cup ArithmeticOps

MCKits ==
    {[leaves |-> ModeLeaves, unary |-> {"not", "neg"}, binary |-> ModeOps, lists |-> FALSE,
      dicts |-> ModeDicts, nodes |-> 5, filters |-> 0],
     [leaves |-> ConcatLeaves, unary |-> {"not"}, binary |-> ConcatOps, lists |-> FALSE,
      dicts |-> ConcatDicts, nodes |-> 5, filters |-> 3],
     [leaves |-> TextLeaves, unary |-> {"not", "neg"}, binary |-> TextOps, lists |-> TRUE,
      dicts |-> TextDicts, nodes |-> 5, filters |-> 0]}
=============================================================================
