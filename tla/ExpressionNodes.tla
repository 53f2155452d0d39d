-------------------------- MODULE ExpressionNodes ---------------------------
(* The nodes of an expression (ql/qltree.cpp) and what the eval of each makes   *)
(* of a dict of variables and of what the evals of its operands give.  A node   *)
(* is a tuple of its operator, or of its kind, and its operands; the four order *)
(* comparisons carry the mode they were made in.                                *)
EXTENDS PyObject, SequencesExt

ArithmeticOps == {"+", "-", "*", "/", "//", "%"}
OrderOps == {"<", "<=", ">", ">="}

Const(o) == <<"const", o>>
NoneNode == <<"none">>
Variable(name) == <<"var", name>>
Path(ids) == <<"path", ids>>
List(nodes) == <<"list", nodes>>
Not(node) == <<"not", node>>
Negate(node) == <<"neg", node>>
Binary(op, lhs, rhs) == <<op, lhs, rhs>>
Ordered(op, lhs, rhs, strict) == <<op, lhs, rhs, strict>>

\* The operands of a node.
Operands(node) ==
    CASE node[1] \in {"const", "none", "var", "path"} -> <<>>
      [] node[1] = "list" -> node[2]
      [] node[1] \in {"not", "neg"} -> <<node[2]>>
      [] OTHER -> <<node[2], node[3]>>

\* PlusExpression to ReminderExpression, of the values of their operands.
Arithmetic(op, a, b) ==
    IF Raised \in {a, b} THEN Raised
    ELSE CASE op = "+" -> Add(a, b)
           [] op = "-" -> Subtract(a, b)
           [] op = "*" -> Multiply(a, b)
           [] op = "/" -> TrueDivide(a, b)
           [] op = "//" -> FloorDivide(a, b)
           [] op = "%" -> Remainder(a, b)

\* OrNode and AndNode give one of their operands, and look at the second only
\* when the first does not decide.
Or(a, b) == IF a # Raised /\ ~Truth(a) THEN b ELSE a
\* Mutant: the second operand is evaluated in any case.
AndBoth(a, b) == IF Raised \in {a, b} THEN Raised ELSE IF Truth(a) THEN b ELSE a
And(a, b) == IF a # Raised /\ Truth(a) THEN b ELSE a

\* The bool of the opposite of a test, and the failure of a failed one.
Opposite(o) == IF o = Raised THEN Raised ELSE PyBool(~Truth(o))

\* InNode and NotInNode.
Membership(op, a, b) ==
    LET in == IF Raised \in {a, b} THEN Raised ELSE HasItem(b, a)
    IN IF op = "in" THEN in ELSE Opposite(in)

\* EqualNode and NotEqualNode.
Equality(op, a, b) ==
    LET equal == IF Raised \in {a, b} THEN Raised ELSE PyBool(Equal(a, b))
    IN IF op = "==" THEN equal ELSE Opposite(equal)

\* Mutant: equal objects are taken for one.
IdentityByValue(op, a, b, same) ==
    LET is == IF Raised \in {a, b} THEN Raised ELSE PyBool(Equal(a, b))
    IN IF op = "is" THEN is ELSE Opposite(is)
\* IsNode and IsNotNode compare addresses: same says that both operands are
\* one object for another reason than that there is only one of that value.
Identity(op, a, b, same) ==
    LET is == IF Raised \in {a, b} THEN Raised
              ELSE PyBool(a = b /\ (IsSingleton(a) \/ same))
    IN IF op = "is" THEN is ELSE Opposite(is)

\* StrictCmp evaluates both operands and leaves the rest to the interpreter.
StrictCmp(op, a, b) == IF Raised \in {a, b} THEN Raised ELSE Compare(op, a, b)

\* Mutant: an operand that is not true is taken for a missing one.
NonStrictCmpFalsy(op, a, b) ==
    IF a = Raised THEN Raised
    ELSE IF ~Truth(a) THEN PyBool(FALSE)
    ELSE IF b = Raised THEN Raised
    ELSE IF ~Truth(b) THEN PyBool(FALSE) ELSE Compare(op, a, b)
\* Mutant: only the left operand is looked at.
NonStrictCmpLeft(op, a, b) ==
    IF a = Raised THEN Raised
    ELSE IF a = None THEN PyBool(FALSE)
    ELSE IF b = Raised THEN Raised ELSE Compare(op, a, b)
\* NonStrictCmp answers False for a missing operand, and with a missing left
\* one it does not evaluate the right one.
NonStrictCmp(op, a, b) ==
    IF a = Raised THEN Raised
    ELSE IF a = None THEN PyBool(FALSE)
    ELSE IF b = Raised THEN Raised
    ELSE IF b = None THEN PyBool(FALSE) ELSE Compare(op, a, b)

\* ListNode: the values of the elements, unless one of them fails.
ListValue(values) ==
    IF \E i \in DOMAIN values : values[i] = Raised THEN Raised ELSE PyList(values)

\* VariableNode: None for a name that the dict does not have.
VariableValue(dict, name) == Get(dict, name)

\* PathNode goes down from dict to dict, and gives None where it cannot.
PathValue(dict, ids) ==
    FoldLeft(LAMBDA o, id : IF Type(o) = "dict" THEN Get(o[2], id) ELSE None, PyDict(dict), ids)

\* createOrNode to createReminderNode: the order comparisons are made for the mode.
BinaryNode(op, lhs, rhs, strict) ==
    IF op \in OrderOps THEN Ordered(op, lhs, rhs, strict) ELSE Binary(op, lhs, rhs)

\* What eval of a node gives: an object, or Raised, and the variable or the path
\* whose very object it is, <<>> when it is another one.
Result(value, origin) == [value |-> value, origin |-> origin]

\* ExpressionNode.eval of a node, of what the evals of its operands give.
NodeValue(node, results, dict) ==
    LET op == node[1]
        lhs == results[1].value
        rhs == results[2].value
        same == results[1].origin # <<>> /\ results[1].origin = results[2].origin
    IN CASE op = "const" -> node[2]
         [] op = "none" -> None
         [] op = "var" -> VariableValue(dict, node[2])
         [] op = "path" -> PathValue(dict, node[2])
         [] op = "list" -> ListValue([i \in DOMAIN results |-> results[i].value])
         [] op = "not" -> Opposite(lhs)
         [] op = "neg" -> IF lhs = Raised THEN Raised ELSE Negative(lhs)
         [] op = "or" -> Or(lhs, rhs)
         [] op = "and" -> And(lhs, rhs)
         [] op \in ArithmeticOps -> Arithmetic(op, lhs, rhs)
         [] op \in {"in", "not in"} -> Membership(op, lhs, rhs)
         [] op \in {"==", "!="} -> Equality(op, lhs, rhs)
         [] op \in {"is", "is not"} -> Identity(op, lhs, rhs, same)
         [] OTHER -> IF node[4] THEN StrictCmp(op, lhs, rhs) ELSE NonStrictCmp(op, lhs, rhs)

\* A text added to an empty one, or taken once, is returned as it is.
NodeOrigin(node, results, value) ==
    LET op == node[1]
        lhs == results[1]
        rhs == results[2]
    IN IF value = Raised THEN <<>>
       ELSE CASE op = "var" -> <<node[2]>>
              [] op = "path" -> node[2]
              [] op = "or" -> IF Truth(lhs.value) THEN lhs.origin ELSE rhs.origin
              [] op = "and" -> IF Truth(lhs.value) THEN rhs.origin ELSE lhs.origin
              [] op = "+" /\ lhs.value = PyStr(<<>>) -> rhs.origin
              [] op = "+" /\ lhs.value # PyStr(<<>>) /\ rhs.value = PyStr(<<>>) -> lhs.origin
              [] op = "*" /\ Type(lhs.value) = "str" /\ Numerator(rhs.value) = 1 -> lhs.origin
              [] op = "*" /\ Type(rhs.value) = "str" /\ Numerator(lhs.value) = 1 -> rhs.origin
              [] OTHER -> <<>>

EvalNode(node, results, dict) ==
    LET value == NodeValue(node, results, dict)
    IN Result(value, NodeOrigin(node, results, value))

\* ExpressionTree.evalBool: the converter to bool takes None and the integers
\* (bool is one), and refuses any other object.
ToBool(o) == IF Type(o) \in {"None", "bool", "int"} THEN PyBool(Truth(o)) ELSE Raised
=============================================================================
