--------------------------- MODULE ExpressionText ---------------------------
(* The trees of ExpressionTree written as texts, which the grammar has to read   *)
(* back.                                                                         *)
EXTENDS ExpressionTree, Grammar

-----------------------------------------------------------------------------
(* The text of a tree, with the parentheses that it needs. *)

Level(node) ==
    CASE node[1] = "or" -> 1
      [] node[1] = "and" -> 2
      [] node[1] = "not" -> 3
      [] node[1] \in {"+", "-"} -> 5
      [] node[1] \in {"*", "/", "//", "%"} -> 6
      [] node[1] = "neg" -> 7
      [] node[1] \in {"const", "none", "var", "path", "list"} -> 8
      [] OTHER -> 4

Words(op) ==
    CASE op = "not in" -> <<"not", " ", "in">>
      [] op = "is not" -> <<"is", " ", "not">>
      [] op \in {"<=", ">=", "!="} -> <<CASE op = "<=" -> "<" [] op = ">=" -> ">" [] OTHER -> "!", "=">>
      [] op = "==" -> <<"=", "=">>
      [] op = "//" -> <<"/", "/">>
      [] OTHER -> <<op>>

Joined(texts, mark) ==
    FlattenSeq([i \in DOMAIN texts |-> IF i = 1 THEN texts[i] ELSE mark \o texts[i]])

ConstText(o) ==
    CASE Type(o) = "bool" -> <<IF o[2] THEN "True" ELSE "False">>
      [] Type(o) = "int" -> IF o[2] < 0 THEN <<"-", ToString(-o[2])>> ELSE <<ToString(o[2])>>
      [] Type(o) = "float" -> <<ToString(Numerator(o) \div Denominator(o)), ".",
                                ToString(((10 * Numerator(o)) \div Denominator(o)) % 10)>>
      [] OTHER -> <<"\"">> \o o[2] \o <<"\"">>

RECURSIVE Text(_)
Text(node) ==
    LET Within(operand, level) ==
            IF Level(operand) >= level THEN Text(operand)
            ELSE <<"(">> \o Text(operand) \o <<")">>
    IN CASE node[1] = "const" -> ConstText(node[2])
         [] node[1] = "none" -> <<"None">>
         [] node[1] = "var" -> node[2]
         [] node[1] = "path" -> Joined(node[2], <<".">>)
         [] node[1] = "list" ->
               <<"[">> \o Joined([i \in DOMAIN node[2] |-> Text(node[2][i])], <<",">>) \o <<"]">>
         [] node[1] = "not" -> <<"not", " ">> \o Within(node[2], 4)
         [] node[1] = "neg" -> <<"-", " ">> \o Within(node[2], 7)
         [] OTHER -> Within(node[2], Level(node)) \o <<" ">> \o Words(node[1]) \o <<" ">>
                        \o Within(node[3], Level(node) + 1)

\* The grammar has an expression for every tree, and reads it as that tree: each
\* operator takes its operands as tightly as in the table of levels, operators of
\* one level associate to the left, and no alternative that is tried first - < for
\* <=, / for //, is for is not - takes the place of a longer one.
ReadsBack ==
    \A i \in DOMAIN operands :
        LET IsTree(r) == r.st = "match" /\ r.node = operands[i].tree
        IN IsTree(parseExpressionNode(Text(operands[i].tree), strict))
=============================================================================
