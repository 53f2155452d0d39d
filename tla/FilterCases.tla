----------------------------- MODULE FilterCases -----------------------------
(* How the tests of qlproto.cpp write filters, dicts and values, and what one    *)
(* TEST_EQUAL or TEST_THROW asks: a case gives the texts of a filter (the second *)
(* is concatenated), the tree that toString must show, the dict, and what eval   *)
(* must give.                                                                    *)
EXTENDS Grammar

foo == <<"foo">>
bar == <<"bar">>

\* The dicts of the tests; None stands for a name that is not set.
Unset == [name \in {foo, bar, <<"a">>, <<"b">>} |-> None]
Foo(v) == [Unset EXCEPT ![foo] = v]
FooBar(v, w) == [Unset EXCEPT ![foo] = v, ![bar] = w]
Nested(key, v) == PyDict(key :> v)     \* makePath
-----------------------------------------------------------------------------
\* Expressions as the tests write them, a text with its tree.
Expr(text, tree) == [text |-> text, tree |-> tree]

Num(digits) == Expr(digits, Const(PyInt(Decimal(digits))))
Real(digits, tenth) ==
    Expr(digits \o <<".", tenth>>, Const(PyFloat(Decimal(Append(digits, tenth)), 10)))
Minus(e) == Expr(<<"-">> \o e.text, Const(Negative(e.tree[2])))
Str(s) == Expr(<<"\"">> \o s \o <<"\"">>, Const(PyStr(s)))
True == Expr(<<"True">>, Const(PyBool(TRUE)))
False == Expr(<<"False">>, Const(PyBool(FALSE)))
Nothing == Expr(<<"None">>, NoneNode)
Name(id) == Expr(id, Variable(id))
Dotted(id, key) == Expr(id \o <<".">> \o key, Path(<<id, key>>))

\* Elements between brackets: [a, b], [a,], (a, b) and (a,).
Enclosed(open, es, close) ==
    LET commas == FlattenSeq([i \in DOMAIN es |-> <<",", " ">> \o es[i].text])
    IN Expr(open \o SubSeq(commas, 3, Len(commas)) \o close,
            List([i \in DOMAIN es |-> es[i].tree]))
Listed(es) == Enclosed(<<"[">>, es, <<"]">>)
Tuple(es) == Enclosed(<<"(">>, es, IF Len(es) = 1 THEN <<",", ")">> ELSE <<")">>)
EmptyList == Expr(<<"[", "]">>, List(<<>>))

Parenthesized(e) == Expr(<<"(">> \o e.text \o <<")">>, e.tree)
NotOf(e) == Expr(<<"not", " ">> \o e.text, Not(e.tree))
NegateOf(e) == Expr(<<"-">> \o e.text, Negate(e.tree))

Marks == [op \in {"or", "and", "in", "is", "<", ">", "+", "-", "*", "/", "%"} |-> <<op>>]
         @@ ("<=" :> <<"<", "=">>) @@ (">=" :> <<">", "=">>)
         @@ ("==" :> <<"=", "=">>) @@ ("!=" :> <<"!", "=">>) @@ ("//" :> <<"/", "/">>)
         @@ ("not in" :> <<"not", " ", "in">>) @@ ("is not" :> <<"is", " ", "not">>)
Infix(op, a, b, space, then) ==
    Expr(a.text \o space \o Marks[op] \o then \o b.text, BinaryNode(op, a.tree, b.tree, TRUE))
Tight(op, a, b) == Infix(op, a, b, <<>>, <<>>)          \* a==b
Spaced(op, a, b) == Infix(op, a, b, <<" ">>, <<" ">>)   \* a == b

\* What one TEST_EQUAL or TEST_THROW asks of e in a mode.
Case(e, dict, expected, strict) ==
    [texts |-> <<e.text>>, dict |-> dict, expected |-> expected, strict |-> strict,
     tree |-> IF e.tree[1] \in OrderOps THEN [e.tree EXCEPT ![4] = strict] ELSE e.tree]
Alone(e, expected, strict) == Case(e, Unset, expected, strict)

Yes == PyBool(TRUE)
No == PyBool(FALSE)

\* The answers of e for the values of foo in three sets, beside a value of bar.
Answers(e, w, yes, no, raising, strict) ==
    {Case(e, FooBar(v, w), Yes, strict) : v \in yes}
        \cup {Case(e, FooBar(v, w), No, strict) : v \in no}
        \cup {Case(e, FooBar(v, w), Raised, strict) : v \in raising}

\* The answers of the expressions in three sets, without variables.
Verdicts(yes, no, raising, strict) ==
    {Alone(e, Yes, strict) : e \in yes} \cup {Alone(e, No, strict) : e \in no}
        \cup {Alone(e, Raised, strict) : e \in raising}
-----------------------------------------------------------------------------
\* Operands of the tests.
N(digit) == Num(<<digit>>)
R(digit) == Real(<<digit>>, "0")
teststr == <<"t", "e", "s", "t", "s", "t", "r">>
teststs == <<"t", "e", "s", "t", "s", "t", "s">>
teststq == <<"t", "e", "s", "t", "s", "t", "q">>
testst == <<"t", "e", "s", "t", "s", "t">>
test == <<"t", "e", "s", "t">>
str == <<"s", "t", "r">>
Arman == <<"A", "r", "m", "a", "n">>
TestStr == Str(teststr)
TestStr1 == Str(Append(teststr, "1"))
FooVar == Name(foo)
BarVar == Name(bar)

\* Their values.
Tenths(n) == PyFloat(n, 10)
Ints(ns) == PyList([i \in DOMAIN ns |-> PyInt(ns[i])])
ValueOf(e) == IF e = Nothing THEN None ELSE e.tree[2]
ValuesOf(es) == PyList([i \in DOMAIN es |-> ValueOf(es[i])])
=============================================================================
