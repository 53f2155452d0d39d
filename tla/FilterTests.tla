----------------------------- MODULE FilterTests -----------------------------
(* The tests of filters in qlproto.cpp: one definition for each test function,   *)
(* the set of its cases.  Every function comes in two modes, which differ only   *)
(* where a missing variable is compared.                                         *)
EXTENDS FilterCases

testConstantsStrict(strict) ==
    {Alone(e, e.tree[2], strict) :
        e \in {N("5"), Minus(N("5")), True, R("5"), Minus(R("5")), TestStr}}

testNoneStrict(strict) == {Alone(Nothing, None, strict)}

testVarsAndPathsStrict(strict) ==
    {Alone(FooVar, None, strict), Case(FooVar, Foo(PyInt(5)), PyInt(5), strict),
     Alone(Dotted(foo, bar), None, strict), Case(Dotted(foo, bar), Foo(None), None, strict)}
        \cup {Case(Dotted(foo, bar), Foo(Nested(bar, v)), v, strict) :
                v \in {PyInt(500), PyStr(Append(test, "s"))}}

OneElement == {N("5"), Minus(N("5")), False, R("5"), Minus(R("5")), TestStr, Nothing}
TwoElements == {<<N("5"), True>>, <<Minus(N("5")), Nothing>>, <<False, N("5")>>,
                <<R("5"), N("7")>>, <<Minus(R("5")), Nothing>>, <<TestStr, N("5")>>,
                <<Nothing, False>>}
TrailingComma(e) == Enclosed(<<"[">>, <<e>>, <<",", "]">>)

testList1Strict(strict) ==
    {Alone(Listed(<<e>>), ValuesOf(<<e>>), strict) : e \in OneElement}
        \cup {Alone(TrailingComma(e), ValuesOf(<<e>>), strict) : e \in OneElement}
testList1TupleStrict(strict) ==
    {Alone(Tuple(<<e>>), ValuesOf(<<e>>), strict) : e \in OneElement}
testList2Strict(strict) ==
    {Alone(Listed(es), ValuesOf(es), strict) : es \in TwoElements}
testList2TupleStrict(strict) ==
    {Alone(Tuple(es), ValuesOf(es), strict) : es \in TwoElements}

\* A list of one variable, and one of one path.
OfVariable(e, strict) ==
    {Alone(e, PyList(<<None>>), strict), Case(e, Foo(PyInt(5)), Ints(<<5>>), strict)}
OfPath(e, strict) ==
    {Alone(e, PyList(<<None>>), strict),
     Case(e, Foo(Nested(bar, PyInt(7))), Ints(<<7>>), strict)}

testList1VarStrict(strict) ==
    OfVariable(Listed(<<FooVar>>), strict)
        \cup {Case(TrailingComma(FooVar), Foo(PyInt(5)), Ints(<<5>>), strict)}
        \cup OfPath(Listed(<<Dotted(foo, bar)>>), strict)
        \cup OfPath(TrailingComma(Dotted(foo, bar)), strict)
testList1VarTupleStrict(strict) ==
    OfVariable(Tuple(<<FooVar>>), strict) \cup OfPath(Tuple(<<Dotted(foo, bar)>>), strict)

\* A list of two variables, and one of two paths, which plain values do not have.
TwoVariables(Brackets(_), strict) ==
    LET vars == Brackets(<<FooVar, BarVar>>)
        paths == Brackets(<<Dotted(foo, <<"r">>), Dotted(bar, <<"r">>)>>)
        R5 == Nested(<<"r">>, PyInt(5))
        RT == Nested(<<"r">>, Yes)
    IN {Alone(vars, PyList(<<None, None>>), strict),
        Case(vars, Foo(PyInt(5)), PyList(<<PyInt(5), None>>), strict),
        Case(vars, FooBar(PyInt(5), Yes), PyList(<<PyInt(5), Yes>>), strict),
        Case(paths, Foo(R5), PyList(<<PyInt(5), None>>), strict),
        Case(paths, FooBar(R5, RT), PyList(<<PyInt(5), Yes>>), strict)}
PathsOf(e, dict, strict) == {Case(e, dict, PyList(<<None, None>>), strict)}

testList2VarStrict(strict) ==
    TwoVariables(Listed, strict)
        \cup PathsOf(Listed(<<Dotted(foo, <<"r">>), Dotted(bar, <<"r">>)>>),
                     FooBar(PyInt(5), Yes), strict)
testList2VarTupleStrict(strict) ==
    TwoVariables(Tuple, strict)
        \cup PathsOf(Tuple(<<Dotted(foo, <<"r">>), Dotted(bar, <<"r">>)>>), Unset, strict)

testNotWithConstantsStrict(strict) ==
    Verdicts({NotOf(False), NotOf(Nothing)},
             {NotOf(e) : e \in {N("5"), Minus(N("5")), True, R("5"), Minus(R("5")), TestStr,
                                Listed(<<N("5")>>), Tuple(<<N("5")>>)}}, {}, strict)
testNotWithVarsStrict(strict) ==
    Answers(NotOf(FooVar), None, {None, No},
            {PyInt(5), PyFloat(5, 1), Yes, PyStr(teststr)}, {}, strict)

testNegateWithConstantsStrict(strict) ==
    {Alone(NegateOf(Minus(N("5"))), PyInt(5), strict), Alone(NegateOf(True), PyInt(-1), strict),
     Alone(NegateOf(False), PyInt(0), strict),
     Alone(NegateOf(Minus(R("5"))), PyFloat(5, 1), strict)}
        \cup {Alone(NegateOf(e), Raised, strict) :
                e \in {TestStr, Listed(<<N("5")>>), Tuple(<<N("5")>>), Nothing}}

\* The values that - takes, with its results, and those that it refuses.
testNegateWithVarsStrict(strict) ==
    LET negated == {<<PyInt(5), PyInt(-5)>>, <<PyFloat(5, 1), PyFloat(-5, 1)>>,
                    <<Yes, PyInt(-1)>>, <<No, PyInt(0)>>, <<PyStr(teststr), Raised>>,
                    <<Ints(<<5>>), Raised>>}
        dotted == NegateOf(Dotted(foo, bar))
    IN {Alone(NegateOf(FooVar), Raised, strict), Case(dotted, Foo(Ints(<<5>>)), Raised, strict)}
           \cup {Case(NegateOf(FooVar), Foo(v[1]), v[2], strict) : v \in negated}
           \cup {Case(dotted, Foo(Nested(bar, v[1])), v[2], strict) : v \in negated}
-----------------------------------------------------------------------------
\* Pairs of operands, and the values of foo that the comparisons refuse.
FiveList == Listed(<<N("5")>>)
FiveTuple == Tuple(<<N("5")>>)
OnePointOne == Real(<<"1">>, "1")
Mixed == Tuple(<<R("5"), N("6"), False>>)
Text == PyStr(teststr)
Float0 == PyFloat(0, 1)
NotTexts == {PyInt(6), No, Float0, Ints(<<0>>)}
NotLists == {PyInt(6), No, Float0, Text}
All(op, pairs) == {Tight(op, p[1], p[2]) : p \in pairs}
InverseOf(e) == Parenthesized(NotOf(e))

\* The tests of == and, with the answers exchanged, those of !=.
EqualPairs ==
    {<<N("5"), N("5")>>, <<True, True>>, <<R("5"), R("5")>>, <<TestStr, TestStr>>,
     <<FiveList, FiveTuple>>, <<Nothing, Nothing>>, <<N("1"), True>>, <<R("1"), True>>,
     <<N("1"), R("1")>>}
UnequalPairs ==
    {<<N("5"), N("6")>>, <<True, False>>, <<R("5"), R("6")>>, <<TestStr, TestStr1>>,
     <<FiveList, Tuple(<<N("6")>>)>>, <<FiveList, Listed(<<N("5"), N("6")>>)>>,
     <<N("2"), True>>, <<R("2"), True>>, <<N("2"), R("1")>>}

testEqualWithConstantsStrict(strict) ==
    Verdicts(All("==", EqualPairs \cup {<<True, InverseOf(False)>>, <<FiveList, Tuple(<<R("5")>>)>>}),
             All("==", UnequalPairs), {}, strict)
testNotEqualWithConstantsStrict(strict) ==
    Verdicts(All("!=", UnequalPairs), All("!=", EqualPairs), {}, strict)

\* The values of foo that are equal to an operand, and those that are not.
EqualToFoo ==
    {[e |-> N("1"), equal |-> {PyInt(1), Yes, PyFloat(1, 1)},
      unequal |-> {None, PyInt(6), Ints(<<1>>), Text}],
     [e |-> False, equal |-> {PyInt(0), No, Float0},
      unequal |-> {None, PyInt(6), Ints(<<0>>), Text}],
     [e |-> TestStr, equal |-> {Text}, unequal |-> {None} \cup NotTexts],
     [e |-> Listed(<<N("0")>>), equal |-> {Ints(<<0>>)}, unequal |-> {None} \cup NotLists]}
EqualToBar ==
    {[w |-> None, equal |-> {None}, unequal |-> {}],
     [w |-> PyInt(1), equal |-> {PyInt(1), Yes, PyFloat(1, 1)},
      unequal |-> {PyInt(6), Ints(<<1>>), Text}],
     [w |-> No, equal |-> {PyInt(0), No, Float0}, unequal |-> {PyInt(6), Ints(<<0>>), Text}],
     [w |-> Text, equal |-> {Text}, unequal |-> NotTexts],
     [w |-> Ints(<<0>>), equal |-> {Ints(<<0>>)}, unequal |-> NotLists]}

testEqualWithVarsStrict(strict) ==
    UNION {Answers(Tight("==", r.e, FooVar), None, r.equal, r.unequal, {}, strict)
              \cup Answers(Tight("==", FooVar, r.e), None, r.equal, r.unequal, {}, strict) :
              r \in EqualToFoo}
        \cup UNION {Answers(Tight("==", FooVar, BarVar), r.w, r.equal, r.unequal, {}, strict) :
                       r \in EqualToBar}
testNotEqualWithVarsStrict(strict) ==
    UNION {Answers(Tight("!=", r.e, FooVar), None, r.unequal, r.equal, {}, strict)
              \cup Answers(Tight("!=", FooVar, r.e), None, r.unequal, r.equal, {}, strict) :
              r \in EqualToFoo}
        \cup UNION {Answers(Tight("!=", FooVar, BarVar), r.w, r.unequal, r.equal, {}, strict) :
                       r \in EqualToBar}

\* not a, compared with not b by op: same when they agree, other when they do not.
WithNot(op, same, other, strict) ==
    LET OnFoo(e, values, v) == {Case(e, Foo(x), v, strict) : x \in values}
        Both(e, v, w, answer) == {Case(e, FooBar(v, w), answer, strict)}
        NotFoo == InverseOf(FooVar)
        zeroList == InverseOf(Listed(<<N("0")>>))
        ofBoth == Tight(op, NotFoo, InverseOf(BarVar))
    IN OnFoo(Tight(op, InverseOf(N("1")), NotFoo), {PyInt(6)}, same)
           \cup OnFoo(Tight(op, InverseOf(N("1")), NotFoo), {None, PyInt(0)}, other)
           \cup OnFoo(Tight(op, InverseOf(False), NotFoo), {PyInt(0)}, same)
           \cup OnFoo(Tight(op, InverseOf(False), NotFoo), {PyInt(1)}, other)
           \cup UNION {OnFoo(e, {PyInt(6)}, same) \cup OnFoo(e, {None}, other) :
                  e \in {Infix(op, zeroList, NotFoo, <<>>, <<" ">>), Tight(op, NotFoo, InverseOf(N("1"))),
                         Tight(op, NotFoo, InverseOf(TestStr)), Tight(op, NotFoo, zeroList)}}
           \cup Both(ofBoth, None, None, same) \cup Both(ofBoth, PyInt(6), PyInt(1), same)
           \cup Both(ofBoth, PyInt(6), PyInt(0), other)
           \cup Both(ofBoth, Ints(<<0>>), Ints(<<6>>), same)
           \cup Both(ofBoth, Ints(<<>>), Ints(<<6>>), other)
           \cup Both(ofBoth, PyStr(str \o <<"1">>), PyStr(str \o <<"2">>), same)
           \cup Both(ofBoth, PyStr(<<>>), PyStr(str \o <<"2">>), other)
testEqualWithNotStrict(strict) == WithNot("==", Yes, No, strict)
testNotEqualWithNotStrict(strict) == WithNot("!=", No, Yes, strict)
-----------------------------------------------------------------------------
\* The tests of < and <=, and with operands exchanged those of > and >=: Rel(a, b)
\* is the expression that says a before b.  A missing operand fails in the strict
\* mode and answers False in the other.
Missing(e, strict) == {Alone(e, IF strict THEN Raised ELSE No, strict)}
Lt(a, b) == Tight("<", a, b)
Le(a, b) == Tight("<=", a, b)
Gt(a, b) == Tight(">", b, a)
Ge(a, b) == Tight(">=", b, a)

Below ==
    {<<N("5"), N("6")>>, <<False, True>>, <<R("5"), R("6")>>, <<TestStr, TestStr1>>,
     <<FiveList, Mixed>>, <<Listed(<<False>>), Listed(<<N("1"), N("6")>>)>>,
     <<N("0"), True>>, <<R("0"), True>>, <<N("1"), OnePointOne>>}
Level ==
    {<<N("5"), N("5")>>, <<True, True>>, <<R("5"), R("5")>>, <<TestStr, TestStr>>,
     <<N("1"), True>>, <<R("1"), True>>, <<N("1"), R("1")>>}
Above ==
    {<<N("5"), N("4")>>, <<True, False>>, <<R("5"), R("4")>>, <<TestStr1, TestStr>>,
     <<FiveList, Tuple(<<N("4")>>)>>, <<Listed(<<N("5"), N("1")>>), FiveTuple>>,
     <<N("1"), False>>}
Judged(Rel(_, _), pairs) == {Rel(p[1], p[2]) : p \in pairs}

\* lesser and greater are the brackets of 5 in the first and the second operand.
Strictly(Rel(_, _), lesser(_), greater(_), strict) ==
    LET five == lesser(<<N("5")>>) IN
    Verdicts(Judged(Rel, Below \cup {<<five, greater(<<N("6")>>)>>}),
             Judged(Rel, Level \cup {<<five, greater(<<N("5")>>)>>}),
             {Rel(N("1"), Listed(<<OnePointOne>>))}, strict)
        \cup Missing(Rel(Nothing, Nothing), strict)
testLessWithConstantsStrict(strict) == Strictly(Lt, Listed, Tuple, strict)
testGreaterWithConstantsStrict(strict) == Strictly(Gt, Tuple, Listed, strict)

AtMost(Rel(_, _), more, strict) ==
    Verdicts(Judged(Rel, Below \cup Level \cup {<<FiveList, Tuple(<<N("6")>>)>>, <<N("0"), False>>}),
             Judged(Rel, Above \cup more), {Rel(N("1"), Listed(<<OnePointOne>>))}, strict)
        \cup Missing(Rel(Nothing, Nothing), strict)
testLessEqWithConstantsStrict(strict) == AtMost(Le, {}, strict)
testGreaterEqWithConstantsStrict(strict) ==
    AtMost(Ge, {<<FiveTuple, Tuple(<<N("4")>>)>>}, strict)

\* A row of answers of Rel(a, b), one of which is foo, beside a value of bar.
Row(a, b, w, yes, no, raising) ==
    [a |-> a, b |-> b, w |-> w, yes |-> yes, no |-> no, raising |-> raising]
Rows(Rel(_, _), rows, strict) ==
    UNION {Answers(Rel(r.a, r.b), r.w, r.yes, r.no, r.raising, strict)
              \cup Missing(Rel(r.a, r.b), strict) : r \in rows}
List0 == Listed(<<N("0")>>)

LessRows ==
    {Row(N("1"), FooVar, None, {PyInt(6), Tenths(11)}, {PyInt(1), Yes}, {Ints(<<1>>), Text}),
     Row(False, FooVar, None, {PyInt(6), Tenths(2)}, {PyInt(0), No}, {Ints(<<0>>), Text}),
     Row(TestStr, FooVar, None, {PyStr(teststs)}, {Text}, NotTexts),
     Row(List0, FooVar, None, {Ints(<<1>>)}, {Ints(<<0>>)}, NotLists),
     Row(FooVar, N("1"), None, {PyInt(0), Tenths(9)}, {PyInt(1), Yes}, {Ints(<<1>>), Text}),
     Row(FooVar, False, None, {PyInt(-1), Tenths(-1)}, {PyInt(6), No}, {Ints(<<0>>), Text}),
     Row(FooVar, TestStr, None, {PyStr(teststq)}, {Text}, NotTexts),
     Row(FooVar, List0, None, {}, {Ints(<<0>>)}, NotLists),
     Row(FooVar, BarVar, PyInt(1), {PyInt(0), No, Tenths(5)}, {PyInt(6)}, {Ints(<<1>>), Text}),
     Row(FooVar, BarVar, No, {Tenths(-1)}, {PyInt(6), PyInt(0), No}, {Ints(<<0>>), Text}),
     Row(FooVar, BarVar, Text, {PyStr(testst)}, {Text, PyStr(Append(teststr, "1"))}, NotTexts),
     Row(FooVar, BarVar, Ints(<<0>>), {Ints(<<>>)}, {Ints(<<0>>), Ints(<<1>>)}, NotLists)}
LessEqRows ==
    {Row(N("1"), FooVar, None, {PyInt(6), Yes, PyFloat(1, 1)}, {PyInt(0)}, {Ints(<<1>>), Text}),
     Row(False, FooVar, None, {PyInt(6), No, Tenths(2)}, {PyInt(-1)}, {Ints(<<0>>), Text}),
     Row(TestStr, FooVar, None, {Text}, {PyStr(teststq)}, NotTexts),
     Row(List0, FooVar, None, {Ints(<<0>>)}, {Ints(<<>>)}, NotLists),
     Row(FooVar, N("1"), None, {PyInt(0), Yes, Tenths(9)}, {PyInt(2)}, {Ints(<<1>>), Text}),
     Row(FooVar, False, None, {PyInt(-1), No, Tenths(-1)}, {PyInt(6)}, {Ints(<<0>>), Text}),
     Row(FooVar, TestStr, None, {Text}, {PyStr(teststs)}, NotTexts),
     Row(FooVar, List0, None, {Ints(<<0>>)}, {}, NotLists),
     Row(FooVar, BarVar, PyInt(1), {PyInt(0), No, Tenths(5)}, {PyInt(6)}, {Ints(<<1>>), Text}),
     Row(FooVar, BarVar, No, {PyInt(0), No}, {PyInt(6), Tenths(1)}, {Ints(<<0>>), Text}),
     Row(FooVar, BarVar, Text, {Text}, {PyStr(Append(teststr, "1"))}, NotTexts),
     Row(FooVar, BarVar, Ints(<<0>>), {Ints(<<>>), Ints(<<0>>)}, {Ints(<<1>>)}, NotLists)}

testLessWithVarsStrict(strict) == Rows(Lt, LessRows, strict)
testGreaterWithVarsStrict(strict) == Rows(Gt, LessRows, strict)
testLessEqWithVarsStrict(strict) == Rows(Le, LessEqRows, strict)
testGreaterEqWithVarsStrict(strict) == Rows(Ge, LessEqRows, strict)
-----------------------------------------------------------------------------
\* The tests of is and, with the answers exchanged, those of is not.
Identical == {<<N("5"), N("5")>>, <<True, True>>, <<Nothing, Nothing>>}
Distinct ==
    {<<N("5"), N("6")>>, <<True, False>>, <<R("5"), R("5")>>, <<R("5"), R("6")>>,
     <<TestStr, TestStr>>, <<TestStr, TestStr1>>, <<Nothing, N("1")>>, <<N("1"), True>>,
     <<R("1"), True>>, <<N("1"), R("1")>>}
Apart(op, pairs) == {Spaced(op, p[1], p[2]) : p \in pairs}

testIsWithConstantsStrict(strict) ==
    Verdicts(Apart("is", Identical), Apart("is", Distinct) \cup {Tight("is", FiveList, FiveTuple)},
             {}, strict)
testIsNotWithConstantsStrict(strict) ==
    Verdicts(Apart("is not", Distinct) \cup {Tight("is not", FiveList, FiveTuple)},
             Apart("is not", Identical), {}, strict)

OtherThanOne == {PyInt(2), Yes, PyFloat(1, 1), Ints(<<1>>), Text}
OfFooAndBar(op) == Spaced(op, FooVar, BarVar)
testIsWithVarsStrict(strict) ==
    {Alone(OfFooAndBar("is"), Yes, strict)}
        \cup Answers(OfFooAndBar("is"), PyInt(1), {PyInt(1)}, OtherThanOne, {}, strict)
testIsNotWithVarsStrict(strict) ==
    {Alone(OfFooAndBar("is not"), No, strict)}
        \cup Answers(OfFooAndBar("is not"), PyInt(1), OtherThanOne, {PyInt(1)}, {}, strict)

IdentityOfNots(op, same, other, strict) ==
    LET of1 == Spaced(op, InverseOf(N("1")), InverseOf(FooVar))
        ofBoth == Tight(op, InverseOf(FooVar), InverseOf(BarVar))
    IN {Alone(of1, other, strict), Alone(ofBoth, same, strict),
        Case(ofBoth, FooBar(PyInt(6), PyInt(1)), same, strict),
        Case(ofBoth, FooBar(Ints(<<0>>), Ints(<<>>)), other, strict)}
           \cup {Case(of1, Foo(v), same, strict) : v \in {PyInt(6), PyInt(1), PyStr(test)}}
testIsWithNotStrict(strict) == IdentityOfNots("is", Yes, No, strict)
testIsNotWithNotStrict(strict) == IdentityOfNots("is not", No, Yes, strict)

\* The tests of in and, with the answers exchanged, those of not in.
ThreeTo6(e) == Listed(<<N("3"), N("4"), e, N("6")>>)
Ar == Str(<<"A", "r">>)
Members ==
    {<<N("5"), ThreeTo6(N("5"))>>, <<FiveList, ThreeTo6(FiveList)>>,
     <<N("5"), ThreeTo6(R("5"))>>, <<True, ThreeTo6(N("1"))>>, <<Ar, Str(Arman)>>,
     <<Str(<<"r", "m">>), Str(Arman)>>}
NoMembers ==
    {<<N("2"), ThreeTo6(N("5"))>>, <<FiveList, ThreeTo6(N("5"))>>, <<Ar, ThreeTo6(N("1"))>>}
Refused == {<<N("5"), Str(Arman)>>, <<N("5"), N("5")>>}

testInStrict(strict) ==
    Verdicts(Apart("in", Members), Apart("in", NoMembers), Apart("in", Refused), strict)
testNotInStrict(strict) ==
    Verdicts(Apart("not in", NoMembers \cup {<<Listed(<<N("2")>>), ThreeTo6(FiveList)>>}),
             Apart("not in", Members), Apart("not in", Refused), strict)
-----------------------------------------------------------------------------
\* The results of op on pairs of operands, and the pairs that it refuses.
Results(op, triples, strict) ==
    {Alone(Tight(op, t[1], t[2]), t[3], strict) : t \in triples}
Refusals(op, pairs, strict) == {Alone(Spaced(op, p[1], p[2]), Raised, strict) : p \in pairs}

\* and, or: one of the operands, or the truth of it.
OneOf(op, triples, strict) ==
    {Alone(Spaced(op, t[1], t[2]), t[3], strict) : t \in triples}
Empty == Str(<<>>)

\* The last case concatenates two texts.
testAndStrict(strict) ==
    LET Ten == Num(<<"1", "0">>)
        A == Name(<<"a">>)
        B == Name(<<"b">>)
        among == Spaced("in", Str(<<"1">>), Str(<<"1", "2", "3", "4">>))
        either == Parenthesized(Spaced("or", Spaced("==", Ten, N("3")), among))
        first == Parenthesized(Spaced("and", Spaced("==", A, Ten), either))
        second == Spaced("!=", B, N("1"))
    IN OneOf("and",
             {<<N("5"), N("4"), Yes>>, <<N("5"), N("0"), No>>, <<N("0"), N("1"), No>>,
              <<True, False, No>>, <<False, True, No>>, <<True, True, Yes>>,
              <<R("1"), R("5"), PyFloat(5, 1)>>, <<R("1"), R("0"), Float0>>, <<R("1"), False, No>>,
              <<True, TestStr, Text>>, <<Empty, True, PyStr(<<>>)>>, <<True, FiveList, Ints(<<5>>)>>,
              <<EmptyList, True, Ints(<<>>)>>, <<Nothing, True, None>>}, strict)
           \cup {[texts |-> <<first.text, second.text>>,
                  dict |-> [Unset EXCEPT ![<<"a">>] = PyInt(10), ![<<"b">>] = PyInt(2)],
                  expected |-> Yes, strict |-> strict,
                  tree |-> Binary("and", first.tree, second.tree)]}

testOrStrict(strict) ==
    OneOf("or",
          {<<N("5"), N("4"), Yes>>, <<N("5"), N("0"), Yes>>, <<N("0"), N("1"), Yes>>,
           <<N("0"), N("0"), No>>, <<False, False, No>>, <<True, False, Yes>>,
           <<False, True, Yes>>, <<True, True, Yes>>, <<R("1"), R("5"), PyFloat(1, 1)>>,
           <<R("0"), R("0"), Float0>>, <<R("0"), False, No>>, <<False, TestStr, Text>>,
           <<Empty, False, No>>, <<False, FiveList, Ints(<<5>>)>>, <<EmptyList, False, No>>,
           <<Nothing, False, No>>, <<False, Nothing, No>>}, strict)

testNumericPlusStrict(strict) ==
    Results("+", {<<N("5"), N("6"), PyInt(11)>>, <<True, True, PyInt(2)>>, <<True, False, PyInt(1)>>,
                  <<R("4"), R("5"), PyFloat(9, 1)>>, <<N("5"), True, PyInt(6)>>,
                  <<False, N("5"), PyInt(5)>>, <<N("5"), R("7"), PyFloat(12, 1)>>,
                  <<R("7"), N("5"), PyFloat(12, 1)>>}, strict)
Te == <<"T", "e">>
st == <<"s", "t">>
testStringPlusStrict(strict) ==
    Results("+", {<<Str(Te), Str(st), PyStr(Te \o st)>>, <<Str(Te), Empty, PyStr(Te)>>,
                  <<Empty, Str(st), PyStr(st)>>}, strict)

List12 == Listed(<<N("1"), N("2")>>)
List34 == Listed(<<N("3"), N("4")>>)
testListPlusStrict(strict) ==
    {Alone(Spaced("+", List12, List34), Ints(<<1, 2, 3, 4>>), strict),
     Alone(Spaced("+", List12, EmptyList), Ints(<<1, 2>>), strict),
     Alone(Spaced("+", EmptyList, List34), Ints(<<3, 4>>), strict),
     Alone(Spaced("+", EmptyList, EmptyList), Ints(<<>>), strict)}

Test == Str(test)
WithText == {<<List12, Test>>, <<N("1"), Test>>, <<R("1"), Test>>, <<True, Test>>}
Mismatched == WithText \cup {<<Test, Test>>, <<List12, List12>>}
testPlusErrorsStrict(strict) == Refusals("+", WithText, strict)

testListPlusVarsStrict(strict) ==
    LET sum == OfFooAndBar("+")
        lists(e, f) == Spaced("+", Listed(<<N("1"), N("2"), e>>), Listed(<<f, N("3")>>))
        te == PyStr(<<"t", "e">>)
    IN {Alone(sum, Raised, strict), Case(sum, Foo(PyInt(5)), Raised, strict),
        Case(sum, FooBar(PyInt(5), PyInt(6)), PyInt(11), strict),
        Case(sum, FooBar(Ints(<<1, 2>>), Ints(<<3, 4>>)), Ints(<<1, 2, 3, 4>>), strict),
        Case(Spaced("+", FooVar, FooVar), Foo(Ints(<<1, 2>>)), Ints(<<1, 2, 1, 2>>), strict),
        Case(sum, FooBar(te, PyStr(st)), PyStr(test), strict),
        Case(lists(FooVar, FooVar), Foo(te), PyList(<<PyInt(1), PyInt(2), te, te, PyInt(3)>>), strict)}
           \cup {Case(lists(FooVar, BarVar), FooBar(v[1], v[2]),
                      PyList(<<PyInt(1), PyInt(2), v[1], v[2], PyInt(3)>>), strict) :
                   v \in {<<te, PyStr(st)>>, <<Ints(<<3, 4>>), Ints(<<5, 6>>)>>}}

testNumericMinusStrict(strict) ==
    Results("-", {<<N("5"), N("6"), PyInt(-1)>>, <<True, True, PyInt(0)>>, <<True, False, PyInt(1)>>,
                  <<R("4"), R("5"), PyFloat(-1, 1)>>, <<N("5"), True, PyInt(4)>>,
                  <<False, N("5"), PyInt(-4)>>, <<N("5"), R("7"), PyFloat(-2, 1)>>,
                  <<R("7"), N("5"), PyFloat(2, 1)>>}, strict)
testMinusErrorsStrict(strict) == Refusals("-", Mismatched, strict)

testNumericMulStrict(strict) ==
    Results("*", {<<N("5"), N("6"), PyInt(30)>>, <<True, True, PyInt(1)>>, <<True, False, PyInt(0)>>,
                  <<R("4"), R("5"), PyFloat(20, 1)>>, <<N("5"), True, PyInt(5)>>,
                  <<N("5"), Listed(<<N("3")>>), Ints(<<3, 3, 3, 3, 3>>)>>,
                  <<False, N("5"), PyInt(0)>>, <<N("5"), R("7"), PyFloat(35, 1)>>,
                  <<R("7"), N("5"), PyFloat(35, 1)>>}, strict)
testMulErrorsStrict(strict) ==
    Refusals("*", Mismatched \ {<<N("1"), Test>>, <<True, Test>>}, strict)

\* The pairs of the tests of /, // and %, with three results each.
Quotients(op, f(_), strict) ==
    {Alone(Tight(op, p[1], p[2]), Raised, strict) : p \in {<<N("5"), N("0")>>, <<True, False>>}}
        \cup Results(op, {<<N("5"), N("6"), f(1)>>, <<True, True, f(2)>>, <<R("4"), R("5"), f(3)>>,
                          <<N("5"), True, f(4)>>, <<False, N("5"), f(5)>>, <<N("5"), R("7"), f(6)>>,
                          <<R("7"), N("5"), f(7)>>}, strict)
testNumericDivStrict(strict) ==
    Quotients("/", LAMBDA i : <<PyFloat(5, 6), PyFloat(1, 1), PyFloat(4, 5), PyFloat(5, 1), Float0,
                                PyFloat(5, 7), PyFloat(7, 5)>>[i], strict)
testDivErrorsStrict(strict) == Refusals("/", Mismatched, strict)
testNumericFloorStrict(strict) ==
    Quotients("//", LAMBDA i : <<PyInt(0), PyInt(1), Float0, PyInt(5), PyInt(0),
                                 Float0, PyFloat(1, 1)>>[i], strict)
testFloorErrorsStrict(strict) == Refusals("//", Mismatched, strict)
testNumericRmStrict(strict) ==
    Quotients("%", LAMBDA i : <<PyInt(5), PyInt(0), PyFloat(4, 1), PyInt(0), PyInt(0),
                                PyFloat(5, 1), PyFloat(2, 1)>>[i], strict)
testRmErrorsStrict(strict) == Refusals("%", Mismatched, strict)
-----------------------------------------------------------------------------
\* The tests of the other mode.
testConstantsNonStrict == testConstantsStrict(FALSE)
testNoneNonStrict == testNoneStrict(FALSE)
testVarsAndPathsNonStrict == testVarsAndPathsStrict(FALSE)
testList1NonStrict == testList1Strict(FALSE)
testList1TupleNonStrict == testList1TupleStrict(FALSE)
testList1VarNonStrict == testList1VarStrict(FALSE)
testList1VarTupleNonStrict == testList1VarTupleStrict(FALSE)
testList2NonStrict == testList2Strict(FALSE)
testList2TupleNonStrict == testList2TupleStrict(FALSE)
testList2VarNonStrict == testList2VarStrict(FALSE)
testList2VarTupleNonStrict == testList2VarTupleStrict(FALSE)
testNotWithConstantsNonStrict == testNotWithConstantsStrict(FALSE)
testNotWithVarsNonStrict == testNotWithVarsStrict(FALSE)
testNegateWithConstantsNonStrict == testNegateWithConstantsStrict(FALSE)
testNegateWithVarsNonStrict == testNegateWithVarsStrict(FALSE)
testEqualWithConstantsNonStrict == testEqualWithConstantsStrict(FALSE)
testEqualWithVarsNonStrict == testEqualWithVarsStrict(FALSE)
testEqualWithNotNonStrict == testEqualWithNotStrict(FALSE)
testNotEqualWithConstantsNonStrict == testNotEqualWithConstantsStrict(FALSE)
testNotEqualWithVarsNonStrict == testNotEqualWithVarsStrict(FALSE)
testNotEqualWithNotNonStrict == testNotEqualWithNotStrict(FALSE)
testLessWithConstantsNonStrict == testLessWithConstantsStrict(FALSE)
testLessWithVarsNonStrict == testLessWithVarsStrict(FALSE)
testLessEqWithConstantsNonStrict == testLessEqWithConstantsStrict(FALSE)
testLessEqWithVarsNonStrict == testLessEqWithVarsStrict(FALSE)
testGreaterWithConstantsNonStrict == testGreaterWithConstantsStrict(FALSE)
testGreaterWithVarsNonStrict == testGreaterWithVarsStrict(FALSE)
testGreaterEqWithConstantsNonStrict == testGreaterEqWithConstantsStrict(FALSE)
testGreaterEqWithVarsNonStrict == testGreaterEqWithVarsStrict(FALSE)
testIsWithConstantsNonStrict == testIsWithConstantsStrict(FALSE)
testIsWithVarsNonStrict == testIsWithVarsStrict(FALSE)
testIsWithNotNonStrict == testIsWithNotStrict(FALSE)
testIsNotWithConstantsNonStrict == testIsNotWithConstantsStrict(FALSE)
testIsNotWithVarsNonStrict == testIsNotWithVarsStrict(FALSE)
testIsNotWithNotNonStrict == testIsNotWithNotStrict(FALSE)
testInNonStrict == testInStrict(FALSE)
testNotInNonStrict == testNotInStrict(FALSE)
testAndNonStrict == testAndStrict(FALSE)
testOrNonStrict == testOrStrict(FALSE)
testNumericPlusNonStrict == testNumericPlusStrict(FALSE)
testStringPlusNonStrict == testStringPlusStrict(FALSE)
testListPlusNonStrict == testListPlusStrict(FALSE)
testPlusErrorsNonStrict == testPlusErrorsStrict(FALSE)
testListPlusVarsNonStrict == testListPlusVarsStrict(FALSE)
testNumericMinusNonStrict == testNumericMinusStrict(FALSE)
testMinusErrorsNonStrict == testMinusErrorsStrict(FALSE)
testNumericMulNonStrict == testNumericMulStrict(FALSE)
testMulErrorsNonStrict == testMulErrorsStrict(FALSE)
testNumericDivNonStrict == testNumericDivStrict(FALSE)
testDivErrorsNonStrict == testDivErrorsStrict(FALSE)
testNumericFloorNonStrict == testNumericFloorStrict(FALSE)
testFloorErrorsNonStrict == testFloorErrorsStrict(FALSE)
testNumericRmNonStrict == testNumericRmStrict(FALSE)
testRmErrorsNonStrict == testRmErrorsStrict(FALSE)

\* The driver lists the tests of + twice and those of - not at all.
UncalledTests == testNumericMinusStrict(TRUE) \cup testNumericMinusNonStrict

StrictTests ==
    UNION {testConstantsStrict(TRUE), testNoneStrict(TRUE), testVarsAndPathsStrict(TRUE),
           testList1Strict(TRUE), testList1TupleStrict(TRUE), testList1VarStrict(TRUE),
           testList1VarTupleStrict(TRUE), testList2Strict(TRUE), testList2TupleStrict(TRUE),
           testList2VarStrict(TRUE), testList2VarTupleStrict(TRUE),
           testNotWithConstantsStrict(TRUE), testNotWithVarsStrict(TRUE),
           testNegateWithConstantsStrict(TRUE), testNegateWithVarsStrict(TRUE),
           testEqualWithConstantsStrict(TRUE), testEqualWithVarsStrict(TRUE),
           testEqualWithNotStrict(TRUE), testNotEqualWithConstantsStrict(TRUE),
           testNotEqualWithVarsStrict(TRUE), testNotEqualWithNotStrict(TRUE),
           testLessWithConstantsStrict(TRUE), testLessWithVarsStrict(TRUE),
           testLessEqWithConstantsStrict(TRUE), testLessEqWithVarsStrict(TRUE),
           testGreaterWithConstantsStrict(TRUE), testGreaterWithVarsStrict(TRUE),
           testGreaterEqWithConstantsStrict(TRUE), testGreaterEqWithVarsStrict(TRUE),
           testIsWithConstantsStrict(TRUE), testIsWithVarsStrict(TRUE),
           testIsWithNotStrict(TRUE), testIsNotWithConstantsStrict(TRUE),
           testIsNotWithVarsStrict(TRUE), testIsNotWithNotStrict(TRUE), testInStrict(TRUE),
           testNotInStrict(TRUE), testAndStrict(TRUE), testOrStrict(TRUE),
           testNumericPlusStrict(TRUE), testStringPlusStrict(TRUE), testListPlusStrict(TRUE),
           testPlusErrorsStrict(TRUE), testListPlusVarsStrict(TRUE),
           testMinusErrorsStrict(TRUE),
           testNumericMulStrict(TRUE), testMulErrorsStrict(TRUE), testNumericDivStrict(TRUE),
           testDivErrorsStrict(TRUE), testNumericFloorStrict(TRUE),
           testFloorErrorsStrict(TRUE), testNumericRmStrict(TRUE), testRmErrorsStrict(TRUE)}
NonStrictTests ==
    UNION {testConstantsNonStrict, testNoneNonStrict, testVarsAndPathsNonStrict,
           testList1NonStrict, testList1TupleNonStrict, testList1VarNonStrict,
           testList1VarTupleNonStrict, testList2NonStrict, testList2TupleNonStrict,
           testList2VarNonStrict, testList2VarTupleNonStrict, testNotWithConstantsNonStrict,
           testNotWithVarsNonStrict, testNegateWithConstantsNonStrict,
           testNegateWithVarsNonStrict, testEqualWithConstantsNonStrict,
           testEqualWithVarsNonStrict, testEqualWithNotNonStrict,
           testNotEqualWithConstantsNonStrict, testNotEqualWithVarsNonStrict,
           testNotEqualWithNotNonStrict, testLessWithConstantsNonStrict,
           testLessWithVarsNonStrict, testLessEqWithConstantsNonStrict,
           testLessEqWithVarsNonStrict, testGreaterWithConstantsNonStrict,
           testGreaterWithVarsNonStrict, testGreaterEqWithConstantsNonStrict,
           testGreaterEqWithVarsNonStrict, testIsWithConstantsNonStrict,
           testIsWithVarsNonStrict, testIsWithNotNonStrict, testIsNotWithConstantsNonStrict,
           testIsNotWithVarsNonStrict, testIsNotWithNotNonStrict, testInNonStrict,
           testNotInNonStrict, testAndNonStrict, testOrNonStrict, testNumericPlusNonStrict,
           testStringPlusNonStrict, testListPlusNonStrict, testPlusErrorsNonStrict,
           testListPlusVarsNonStrict, testMinusErrorsNonStrict,
           testNumericMulNonStrict, testMulErrorsNonStrict, testNumericDivNonStrict,
           testDivErrorsNonStrict, testNumericFloorNonStrict, testFloorErrorsNonStrict,
           testNumericRmNonStrict, testRmErrorsNonStrict}
=============================================================================
