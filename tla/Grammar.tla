------------------------------ MODULE Grammar -------------------------------
(* The grammar of filters (ql/qlparser.cpp): a recursive descent that tries    *)
(* the alternatives of a rule in order and takes the first that matches.  A     *)
(* text is a sequence of symbols.  A symbol is a space, a mark, a digit or a    *)
(* piece of a word, cut so that a word the grammar looks for is a run of whole  *)
(* symbols wherever it occurs: "notable" is <<"not", "able">>, and "inf" is     *)
(* <<"in", "f">>.  Literals match symbols, not words.  No piece begins with the *)
(* e of an exponent, which the model leaves out.                                *)
EXTENDS ExpressionNodes

CONSTANTS Pieces,    \* the symbols that make words, the ones the grammar looks for included
          MaxInt     \* the largest value of an int

ASSUME GrammarAssumption ==
    /\ MaxInt \in Nat
    /\ {"or", "and", "not", "in", "is", "True", "False", "None", "f", "nan"} \subseteq Pieces

Digits == {"0", "1", "2", "3", "4", "5", "6", "7", "8", "9"}
WordSymbols == Pieces \cup Digits \cup {"_"}

\* The first place from i on whose symbol is not in S, behind the text if all are.
RunEnd(text, i, S) ==
    LET stops == {j \in i .. Len(text) : text[j] \notin S}
    IN IF stops = {} THEN Len(text) + 1 ELSE Min(stops)

At(text, i, literal) ==
    i + Len(literal) - 1 <= Len(text) /\ SubSeq(text, i, i + Len(literal) - 1) = literal

SkipTo(text, i) == RunEnd(text, i, {" "})

\* The place behind the literals, spaces skipped before each; 0 if they are not there.
Behind(text, i, literals) ==
    LET Pass(j, literal) ==
            IF j # 0 /\ At(text, SkipTo(text, j), literal)
            THEN SkipTo(text, j) + Len(literal) ELSE 0
    IN FoldLeft(Pass, i, literals)

\* What a rule makes of a text from a place on: a match that ends before at, no
\* match, or the failure of what was expected at that place; and the nodes it
\* put in the heap, those of alternatives that failed included.
Match(at, node, made) == [st |-> "match", at |-> at, node |-> node, made |-> made]
NoMatch(made) == [st |-> "none", at |-> 0, node |-> <<>>, made |-> made]
Failure(at, made) == [st |-> "failure", at |-> at, node |-> <<>>, made |-> made]

Adding(r, made) == [r EXCEPT !.made = @ + made]

\* The alternatives of a rule: the second is tried when the first does not match.
r | s == IF r.st = "none" THEN Adding(s, r.made) ELSE r

\* a > b: once a is read, b must match, or parsing fails there.
Expected(r, at) == IF r.st = "none" THEN Failure(at, r.made) ELSE r
-----------------------------------------------------------------------------
\* Decimal(digits) and the numbers: a sign may lead, without a space behind it.
Decimal(digits) ==
    LET value[i \in 0 .. Len(digits)] ==
            IF i = 0 THEN 0
            ELSE 10 * value[i - 1] + (CHOOSE n \in 0 .. 9 : ToString(n) = digits[i])
    IN value[Len(digits)]

Unsigned(text, i) == IF At(text, i, <<"+">>) \/ At(text, i, <<"-">>) THEN i + 1 ELSE i
Sign(text, i) == IF At(text, i, <<"-">>) THEN -1 ELSE 1

\* A number that does not fit is no int, and so no match.
pyinteger(text, i) ==
    LET from == SkipTo(text, i)
        first == Unsigned(text, from)
        end == RunEnd(text, first, Digits)
        n == Sign(text, from) * Decimal(SubSeq(text, first, end - 1))
    IN IF end > first /\ n \in (-MaxInt - 1) .. MaxInt
       THEN Match(end, Const(PyInt(n)), 1) ELSE NoMatch(0)

Infinity(sign) == <<"float", <<sign, 0>>>>
NaN == <<"float", <<0, 0>>>>

\* strict_real_policies: a point is required, digits on one side of it are; the
\* words nan, whatever in parentheses behind it, and inf are numbers as well.
pyfloatnumber(text, i) ==
    LET from == SkipTo(text, i)
        first == Unsigned(text, from)
        dot == RunEnd(text, first, Digits)
        end == RunEnd(text, dot + 1, Digits)
        whole == SubSeq(text, first, dot - 1)
        fraction == SubSeq(text, dot + 1, end - 1)
        closing == {j \in first + 2 .. Len(text) : text[j] = ")"}
    IN CASE dot = first /\ At(text, first, <<"nan">>) ->
               IF ~At(text, first + 1, <<"(">>) THEN Match(first + 1, Const(NaN), 1)
               ELSE IF closing = {} THEN NoMatch(0)
               ELSE Match(Min(closing) + 1, Const(NaN), 1)
         [] dot = first /\ At(text, first, <<"in", "f">>) ->
               Match(first + 2, Const(Infinity(Sign(text, from))), 1)
         [] At(text, dot, <<".">>) /\ whole \o fraction # <<>> ->
               Match(end, Const(PyFloat(Sign(text, from) * Decimal(whole \o fraction),
                                        10 ^ Len(fraction))), 1)
         [] OTHER -> NoMatch(0)

\* From one quote to the next, which must come.
pystringliteral(text, i) ==
    LET from == SkipTo(text, i)
        end == RunEnd(text, from + 1, {text[j] : j \in DOMAIN text} \ {"\""})
    IN CASE ~At(text, from, <<"\"">>) -> NoMatch(0)
         [] end > Len(text) -> Failure(end, 0)
         [] OTHER -> Match(end + 1, Const(PyStr(SubSeq(text, from + 1, end - 1))), 1)

Constant(text, i, word, node) ==
    LET end == Behind(text, i, <<<<word>>>>)
    IN IF end = 0 THEN NoMatch(0) ELSE Match(end, node, 1)

pyliteral(text, i) ==
    pystringliteral(text, i) | pyfloatnumber(text, i) | pyinteger(text, i)
        | Constant(text, i, "True", Const(PyBool(TRUE)))
        | Constant(text, i, "False", Const(PyBool(FALSE)))
        | Constant(text, i, "None", NoneNode)

\* Mutant: a digit ends an identifier.
IdentifierEndAtDigit(text, i) ==
    IF i <= Len(text) /\ text[i] \in WordSymbols \ Digits
    THEN RunEnd(text, i, WordSymbols \ Digits) ELSE i
\* pyidentifier_raw: where the identifier that begins at i ends, i if there is none.
IdentifierEnd(text, i) ==
    IF i <= Len(text) /\ text[i] \in WordSymbols \ Digits
    THEN RunEnd(text, i, WordSymbols) ELSE i

pyidentifier(text, i) ==
    LET from == SkipTo(text, i)
        end == IdentifierEnd(text, from)
    IN IF end > from THEN Match(end, Variable(SubSeq(text, from, end - 1)), 1) ELSE NoMatch(0)

\* More identifiers of a path, each behind a point; without any, the node that
\* the first one made stays behind.
RECURSIVE PathRest(_, _)
PathRest(text, path) ==
    LET dot == Behind(text, path.at, <<<<".">>>>)
        id == pyidentifier(text, dot)
    IN CASE dot = 0 -> path
         [] id.st = "none" -> Failure(dot, path.made)
         [] OTHER -> PathRest(text, Match(id.at, Path(Append(path.node[2], id.node[2])), path.made))

\* Mutant: the path and its first identifier are two nodes.
pathOfNodes(text, i) ==
    LET id == pyidentifier(text, i)
        whole == PathRest(text, Match(id.at, Path(<<id.node[2]>>), 2))
    IN CASE id.st = "none" -> id
         [] whole.st = "match" /\ Len(whole.node[2]) = 1 -> NoMatch(whole.made)
         [] OTHER -> whole
path(text, i) ==
    LET id == pyidentifier(text, i)
        whole == PathRest(text, Match(id.at, Path(<<id.node[2]>>), 1))
    IN CASE id.st = "none" -> id
         [] whole.st = "match" /\ Len(whole.node[2]) = 1 -> NoMatch(whole.made)
         [] OTHER -> whole
-----------------------------------------------------------------------------
\* The rules of the form  operand >> *(literals >> operand | ...), from the loosest
\* operators to the tightest: the rule of the operands, and the alternatives.
OperandRule ==
    [expr |-> "logical_and_expression",
     logical_and_expression |-> "logical_not_expression",
     comparison_expr |-> "additive_expression",
     additive_expression |-> "term",
     term |-> "factor"]

Alternative(op, literals) == [op |-> op, literals |-> literals]

\* Mutant: is is tried before is not.
IdentityIsFirst ==
    <<Alternative("is", <<<<"is">>>>), Alternative("is not", <<<<"is">>, <<"not">>>>)>>
IdentityAlternatives ==
    <<Alternative("is not", <<<<"is">>, <<"not">>>>), Alternative("is", <<<<"is">>>>)>>

Alternatives ==
    [expr |-> <<Alternative("or", <<<<"or">>>>)>>,
     logical_and_expression |-> <<Alternative("and", <<<<"and">>>>)>>,
     comparison_expr |->
        <<Alternative("in", <<<<"in">>>>), Alternative("not in", <<<<"not">>, <<"in">>>>)>>
            \o IdentityAlternatives
            \o <<Alternative("<", <<<<"<">>>>), Alternative("<=", <<<<"<", "=">>>>),
                 Alternative(">", <<<<">">>>>), Alternative(">=", <<<<">", "=">>>>),
                 Alternative("!=", <<<<"!", "=">>>>), Alternative("==", <<<<"=", "=">>>>)>>,
     additive_expression |->
        <<Alternative("+", <<<<"+">>>>), Alternative("-", <<<<"-">>>>)>>,
     term |->
        <<Alternative("*", <<<<"*">>>>), Alternative("/", <<<<"/">>>>),
          Alternative("//", <<<<"/", "/">>>>), Alternative("%", <<<<"%">>>>)>>]

\* createNotNode and createNegateNode around a match.
UnaryNode(kind, r) ==
    IF r.st = "match" THEN Match(r.at, <<kind, r.node>>, r.made + 1) ELSE r

\* The error handler of expr: the failure becomes a SyntaxError, which leaves
\* every rule, with the distance from where this expr began.
Caught(rule, r, i) ==
    IF rule = "expr" /\ r.st = "failure" THEN [r EXCEPT !.st = "error", !.at = @ - i] ELSE r

RECURSIVE Parse(_, _, _), Repetition(_, _, _, _), CommaList(_, _)

\* *(alternatives) of a rule behind what it has read, from the k-th on: nodes
\* associate to the left, and an alternative whose operand fails is given up.
Repetition(p, rule, lhs, k) ==
    IF k > Len(Alternatives[rule]) THEN lhs
    ELSE LET alternative == Alternatives[rule][k]
             behind == Behind(p.text, lhs.at, alternative.literals)
             rhs == Parse(p, OperandRule[rule], behind)
         IN CASE behind = 0 -> Repetition(p, rule, lhs, k + 1)
              [] rhs.st = "none" -> Repetition(p, rule, Adding(lhs, rhs.made), k + 1)
              [] rhs.st = "match" ->
                    Repetition(p, rule,
                               Match(rhs.at, BinaryNode(alternative.op, lhs.node, rhs.node, p.strict),
                                     lhs.made + rhs.made + 1), 1)
              [] OTHER -> Adding(rhs, lhs.made)

\* *(',' >> expr) >> -char_(',') behind a list.
CommaList(p, list) ==
    LET behind == Behind(p.text, list.at, <<<<",">>>>)
        next == Parse(p, "expr", behind)
    IN CASE behind = 0 -> list
         [] next.st = "none" -> [Adding(list, next.made) EXCEPT !.at = behind]
         [] next.st = "match" ->
               CommaList(p, Match(next.at, List(Append(list.node[2], next.node)),
                                  list.made + next.made))
         [] OTHER -> Adding(next, list.made)

\* The rule of that name from place i on, in text p.text and mode p.strict.
Parse(p, rule, i) ==
    LET Opened(mark) == Behind(p.text, i, <<<<mark>>>>)
        Prefixed(mark, r) == IF Opened(mark) = 0 THEN NoMatch(0) ELSE r
        Closed(r, mark) == Behind(p.text, r.at, <<<<mark>>>>)
    IN CASE rule \in DOMAIN OperandRule ->
              LET Repeated(first) ==
                      IF first.st = "match" THEN Repetition(p, rule, first, 1) ELSE first
              IN Caught(rule, Repeated(Parse(p, OperandRule[rule], i)), i)
         [] rule = "logical_not_expression" ->
              Prefixed("not", UnaryNode("not", Parse(p, "comparison_expr", Opened("not"))))
                  | Parse(p, "comparison_expr", i)
         [] rule = "factor" ->
              Parse(p, "pyatom", i)
                  | Prefixed("-", Expected(UnaryNode("neg", Parse(p, "factor", Opened("-"))), Opened("-")))
                  | Prefixed("+", Expected(Parse(p, "factor", Opened("+")), Opened("+")))
         [] rule = "pyatom" ->
              pyliteral(p.text, i) | path(p.text, i) | pyidentifier(p.text, i)
                  | Prefixed("(", Parse(p, "pyparenth_form", i)) | Parse(p, "list_display", i)
         [] rule = "pyparenth_form" ->
              LET Enclosed(inner, end) ==
                      CASE inner.st # "match" -> inner
                        [] end = 0 -> NoMatch(inner.made)
                        [] OTHER -> [inner EXCEPT !.at = end]
                  WithEnd(inner) == Enclosed(inner, Closed(inner, ")"))
              IN WithEnd(Parse(p, "expr", Opened("(")))
         [] rule = "list_display" ->
              LET Empty(open, close) ==
                      LET end == Behind(p.text, i, <<<<open>>, <<close>>>>)
                      IN IF end = 0 THEN NoMatch(0) ELSE Match(end, List(<<>>), 1)
                  Items(open) == Parse(p, "expr_comma_list", Opened(open))
                  Ended(r, close, errorAt) ==
                      CASE r.st # "match" -> Expected(r, errorAt)
                        [] Closed(r, close) = 0 -> Failure(errorAt, r.made)
                        [] OTHER -> [r EXCEPT !.at = Closed(r, close)]
              IN Empty("[", "]") | Empty("(", ")")
                     | Prefixed("[", Ended(Items("["), "]", Opened("[")))
                     | Prefixed("(", Ended(Expected(Items("("), Opened("(")), ")", Items("(").at))
         [] rule = "expr_comma_list" ->
              LET first == Parse(p, "expr", i) IN
              IF first.st = "match"
              THEN CommaList(p, Match(first.at, List(<<first.node>>), first.made + 1)) ELSE first
-----------------------------------------------------------------------------
\* A text that is not read to its end is an error.
ReadWhole(text, r) ==
    LET end == IF r.st = "match" THEN SkipTo(text, r.at) ELSE 1
    IN CASE r.st = "error" -> r
         [] end <= Len(text) -> [r EXCEPT !.st = "error", !.at = end - 1]
         [] OTHER -> r

\* Mutant: what follows an expression is not looked at.
parsePrefixNode(text, strict) == Parse([text |-> text, strict |-> strict], "expr", 1)
\* parseExpressionNode: the tree of a text, no tree at all for the empty one, or a
\* SyntaxError with its position.
parseExpressionNode(text, strict) ==
    ReadWhole(text, Parse([text |-> text, strict |-> strict], "expr", 1))

\* parseExpression of the first text, and parseAndConcatExpression of the others.
RECURSIVE ParseAll(_, _)
ParseAll(texts, strict) ==
    LET Concat(before, last) ==
            CASE before.st # "match" -> before
              [] last.st # "match" -> last
              [] OTHER -> Match(0, Binary("and", before.node, last.node), before.made + last.made + 1)
        last == parseExpressionNode(Last(texts), strict)
    IN IF Len(texts) = 1 THEN last ELSE Concat(ParseAll(Front(texts), strict), last)
=============================================================================
