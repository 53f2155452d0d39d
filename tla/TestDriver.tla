----------------------------- MODULE TestDriver ------------------------------
(* What qlproto.cpp does with filters: test() runs the cases of the tests, and   *)
(* the loop of main() reads lines, each parsed into a tree of its own.  Neither  *)
(* leaves anything to the other, so a behaviour has one case or one line, typed  *)
(* symbol by symbol, so that every text on the way is a line: texts that were    *)
(* not made from a tree, and most of which are no filters.                       *)
EXTENDS FilterTests, TreeEval

CONSTANTS Keyboards,   \* sets of symbols, one of which a line is made of
          MaxLength    \* bound: symbols of a line

VARIABLES case,     \* the case that is run, <<>> for none
          result,   \* what the parser makes of it, the tree, and the value of the tree
          keyboard, \* the symbols of the line
          line

vars == <<case, result, keyboard, line>>

Pending == [st |-> "pending", tree |-> <<>>, value |-> Raised]
Cases == StrictTests \cup NonStrictTests \cup UncalledTests

Init ==
    /\ result = Pending /\ line = <<>>
    /\ \/ case \in Cases /\ keyboard = {}
       \/ case = <<>> /\ keyboard \in Keyboards

\* parseExpressionStr, parseAndConcatExpressionStr and eval.
Outcome(parsed) ==
    [st |-> parsed.st, tree |-> parsed.node,
     value |-> IF parsed.st = "match" THEN Eval(parsed.node, case.dict).value ELSE Raised]
RunCase ==
    /\ case # <<>> /\ result = Pending
    /\ result' = Outcome(ParseAll(case.texts, case.strict))
    /\ UNCHANGED <<case, keyboard, line>>

Read(symbol) ==
    /\ Len(line) < MaxLength
    /\ line' = Append(line, symbol)
    /\ UNCHANGED <<case, result, keyboard>>

Next == RunCase \/ \E symbol \in keyboard : Read(symbol)

Spec == Init /\ [][Next]_vars
-----------------------------------------------------------------------------
\* TEST_EQUAL of an extracted value, or of is_none, and TEST_THROW: extract<bool> takes
\* None and the integers for bools, the other conversions want an object of their type.
Meets(o, expected) ==
    CASE Type(expected) = "bool" -> Type(o) \in {"None", "bool", "int"} /\ Truth(o) = expected[2]
      [] OTHER -> Type(o) = Type(expected) /\ (o = Raised \/ Equal(o, expected))

Passes ==
    result.st = "match" /\ result.tree = case.tree /\ Meets(result.value, case.expected)

\* The cases of testNumericMinusStrict and its twin, which test() does not list, that
\* take 5 from False: qlproto.cpp:3195 expects -4 of it.
Mistaken == case \in UncalledTests /\ case.texts = <<<<"False", "-", "5">>>>

\* Every case passes, but for the mistaken ones: the texts parse to the tree that the
\* test expects toString to show, in both modes, and eval gives the value or fails as the
\* test expects.  The driver returns before it comes to them, so no build shows it.
TestsPass == result # Pending => Mistaken # Passes
-----------------------------------------------------------------------------
\* What the loop of main() makes of the line.
Parsed == parseExpressionNode(line, TRUE)
IsTree(r, node) == r.st = "match" /\ r.node = node

OpSymbols(op) ==
    CASE op = "not in" -> <<"not", "in">>
      [] op = "is not" -> <<"is", "not">>
      [] op = "<=" -> <<"<", "=">>
      [] op = ">=" -> <<">", "=">>
      [] op = "==" -> <<"=", "=">>
      [] op = "!=" -> <<"!", "=">>
      [] op = "//" -> <<"/", "/">>
      [] OTHER -> <<op>>

\* What is left of a text without its spaces, brackets, commas and plus signs.
Kept(s) == SelectSeq(s, LAMBDA x : x \notin {" ", "(", ")", "[", "]", ",", "+"})

\* The digits of a natural number that a line can hold.
DigitsOf(n) ==
    LET k == Max({1} \cup {e \in 1 .. MaxLength : 10 ^ (e - 1) <= n})
    IN [i \in 1 .. k |-> ToString((n \div 10 ^ (k - i)) % 10)]

\* The words and marks of a tree in the order of the text.
RECURSIVE Yield(_)
Yield(node) ==
    CASE node[1] = "const" /\ Type(node[2]) = "bool" -> <<IF node[2][2] THEN "True" ELSE "False">>
      [] node[1] = "const" /\ Type(node[2]) = "int" ->
            IF node[2][2] < 0 THEN <<"-">> \o DigitsOf(-node[2][2]) ELSE DigitsOf(node[2][2])
      [] node = Const(Infinity(1)) -> <<"in", "f">>
      [] node = Const(Infinity(-1)) -> <<"-", "in", "f">>
      [] node[1] = "none" -> <<"None">>
      [] node[1] = "var" -> node[2]
      [] node[1] = "path" -> FoldLeft(LAMBDA s, id : s \o <<".">> \o id, Head(node[2]), Tail(node[2]))
      [] node[1] = "list" -> FlattenSeq([i \in DOMAIN node[2] |-> Yield(node[2][i])])
      [] node[1] = "not" -> <<"not">> \o Yield(node[2])
      [] node[1] = "neg" -> <<"-">> \o Yield(node[2])
      [] OTHER -> Yield(node[2]) \o OpSymbols(node[1]) \o Yield(node[3])

\* A line that is accepted is in the tree as a whole and in its order: what the
\* alternatives that were given up had read is read again, and nothing twice.
NothingSkipped ==
    LET HasAll(r) == r.st = "match" => Kept(Yield(r.node)) = Kept(line)
    IN line # <<>> => HasAll(Parsed)

Count(s, symbols) == Cardinality({i \in DOMAIN s : s[i] \in symbols})

\* The nodes of alternatives that fail stay in the heap, and a parenthesis that turns
\* out to be a tuple is read twice: at most two nodes for a symbol, and as many again
\* for every parenthesis around it.
HeapBound == Parsed.made <= 2 * Len(line) * 2 ^ Count(line, {"("})

\* The words that the grammar looks for, and the ones that its numbers take.
Keywords == {"or", "and", "not", "in", "is", "True", "False", "None", "nan"}

\* A name that does not begin with a keyword is a variable of that name, whatever
\* keywords and digits follow: rules that start with py match those of Python's
\* grammar (ql/qlparser.cpp:293).  Names that begin with one are read otherwise,
\* since the literals at ql/qlparser.cpp:226 have no boundary.
NamesAreVariables ==
    /\ line # <<>> /\ line[1] \notin Digits \cup Keywords
    /\ \A i \in DOMAIN line : line[i] \in WordSymbols
    => IsTree(Parsed, Variable(line))
=============================================================================
