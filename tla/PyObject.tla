------------------------------ MODULE PyObject ------------------------------
(* The Python objects a filter computes with, and the operations of the        *)
(* interpreter that ql/qltree.cpp reaches through boost::python: external code, *)
(* modelled from that use.  An object is a pair of its type and its value; a    *)
(* float is an exact fraction, a text a sequence of symbols, a dict a function  *)
(* from texts to objects.                                                       *)
EXTENDS Integers, Sequences, FiniteSets, FiniteSetsExt

CONSTANTS Alphabet,     \* the symbols of a text, in the order of their codes
          MaxNesting    \* bound: how deep compared lists and dicts nest in each other

ASSUME NestingAssumption == MaxNesting \in Nat

None == <<"None">>
PyBool(b) == <<"bool", b>>
PyInt(n) == <<"int", n>>
PyStr(s) == <<"str", s>>
PyList(s) == <<"list", s>>
PyDict(f) == <<"dict", f>>

\* What a call leaves behind that sets a Python exception.
Raised == <<"raised">>

Type(o) == o[1]
IsNumber(o) == Type(o) \in {"bool", "int", "float"}
IsSequence(o) == Type(o) \in {"str", "list"}
IsContainer(o) == Type(o) \in {"list", "dict"}

CommonDivisors(n, d) == {k \in 1..d : n % k = 0 /\ d % k = 0}

\* The float n / d, for d > 0.
PyFloat(n, d) ==
    LET k == Max(CommonDivisors(n, d)) IN <<"float", <<n \div k, d \div k>>>>

Numerator(o) ==
    CASE Type(o) = "bool" -> IF o[2] THEN 1 ELSE 0
      [] Type(o) = "int" -> o[2]
      [] OTHER -> o[2][1]
Denominator(o) == IF Type(o) = "float" THEN o[2][2] ELSE 1

\* The result of arithmetic on a and b: a float when one of them is.
PyNumber(a, b, n, d) ==
    IF "float" \in {Type(a), Type(b)} THEN PyFloat(n, d) ELSE PyInt(n \div d)

\* The quotient of a and b as a fraction with a positive denominator.
Quotient(a, b) ==
    LET n == Numerator(a) * Denominator(b)
        d == Denominator(a) * Numerator(b)
    IN IF d > 0 THEN <<n, d>> ELSE <<-n, -d>>

\* The truth value of an object.
Truth(o) ==
    CASE o = None -> FALSE
      [] IsNumber(o) -> Numerator(o) # 0
      [] IsSequence(o) -> o[2] # <<>>
      [] OTHER -> DOMAIN o[2] # {}

Repeat(o, n) ==
    LET len == Len(o[2]) IN
    <<Type(o), [i \in 1 .. (len * IF n > 0 THEN n ELSE 0) |-> o[2][((i - 1) % len) + 1]]>>

Add(a, b) ==
    CASE IsNumber(a) /\ IsNumber(b) ->
            PyNumber(a, b, Numerator(a) * Denominator(b) + Numerator(b) * Denominator(a),
                     Denominator(a) * Denominator(b))
      [] IsSequence(a) /\ Type(a) = Type(b) -> <<Type(a), a[2] \o b[2]>>
      [] OTHER -> Raised

Negative(o) ==
    CASE Type(o) = "float" -> PyFloat(-Numerator(o), Denominator(o))
      [] Type(o) \in {"bool", "int"} -> PyInt(-Numerator(o))
      [] OTHER -> Raised

Subtract(a, b) == IF IsNumber(a) /\ IsNumber(b) THEN Add(a, Negative(b)) ELSE Raised

Multiply(a, b) ==
    CASE IsNumber(a) /\ IsNumber(b) ->
            PyNumber(a, b, Numerator(a) * Numerator(b), Denominator(a) * Denominator(b))
      [] IsSequence(a) /\ Type(b) \in {"bool", "int"} -> Repeat(a, Numerator(b))
      [] IsSequence(b) /\ Type(a) \in {"bool", "int"} -> Repeat(b, Numerator(a))
      [] OTHER -> Raised

Divisible(a, b) == IsNumber(a) /\ IsNumber(b) /\ Numerator(b) # 0

TrueDivide(a, b) ==
    IF Divisible(a, b) THEN PyFloat(Quotient(a, b)[1], Quotient(a, b)[2]) ELSE Raised

FloorDivide(a, b) ==
    IF Divisible(a, b)
    THEN PyNumber(a, b, Quotient(a, b)[1] \div Quotient(a, b)[2], 1)
    ELSE Raised

\* On a text, % formats: one without a conversion takes a list or a dict for a
\* mapping that it does not use, and complains of any other argument.
Remainder(a, b) ==
    CASE Divisible(a, b) -> Subtract(a, Multiply(b, FloorDivide(a, b)))
      [] Type(a) = "str" /\ Type(b) \in {"list", "dict"} -> a
      [] OTHER -> Raised

\* What tells two objects apart but for their elements.
SameShape(a, b) ==
    IF IsNumber(a) /\ IsNumber(b)
    THEN Numerator(a) * Denominator(b) = Numerator(b) * Denominator(a)
    ELSE /\ Type(a) = Type(b)
         /\ IF IsContainer(a) THEN DOMAIN a[2] = DOMAIN b[2] ELSE a = b

\* The pairs of elements at the same places of two lists or of two dicts.
ElementPairs(a, b) ==
    IF IsContainer(a) /\ Type(a) = Type(b)
    THEN {<<a[2][i], b[2][i]>> : i \in DOMAIN a[2] \cap DOMAIN b[2]} ELSE {}

\* a == b: at every depth, what stands at the same places has the same shape.
Equal(a, b) ==
    LET pairs[n \in 0 .. MaxNesting] ==
            IF n = 0 THEN {<<a, b>>} ELSE UNION {ElementPairs(p[1], p[2]) : p \in pairs[n - 1]}
    IN \A n \in 0 .. MaxNesting : \A p \in pairs[n] : SameShape(p[1], p[2])

\* The order of two numbers.
Related(op, m, n) ==
    CASE op = "<" -> m < n
      [] op = "<=" -> m <= n
      [] op = ">" -> m > n
      [] op = ">=" -> m >= n

Code(symbol) == CHOOSE i \in DOMAIN Alphabet : Alphabet[i] = symbol

\* Numbers with numbers, and texts with texts by the first symbols that differ;
\* lists, like texts, by their lengths when there are none.
CompareValues(op, a, b) ==
    LET differ == {i \in DOMAIN a[2] \cap DOMAIN b[2] : a[2][i] # b[2][i]}
    IN IF IsNumber(a) /\ IsNumber(b)
       THEN PyBool(Related(op, Numerator(a) * Denominator(b), Numerator(b) * Denominator(a)))
       ELSE IF ~IsSequence(a) \/ Type(a) # Type(b) THEN Raised
       ELSE IF Type(a) = "str" /\ differ # {}
       THEN PyBool(Related(op, Code(a[2][Min(differ)]), Code(b[2][Min(differ)])))
       ELSE PyBool(Related(op, Len(a[2]), Len(b[2])))

\* The first elements that are not equal, and of two lists the first ones of these.
FirstUnequal(a, b) ==
    LET unequal[n \in 0 .. MaxNesting] ==
            LET x == unequal[n - 1][1]
                y == unequal[n - 1][2]
                differ == {i \in DOMAIN x[2] \cap DOMAIN y[2] : ~Equal(x[2][i], y[2][i])}
            IN IF n = 0 THEN <<a, b>>
               ELSE IF Type(x) = "list" /\ Type(y) = "list" /\ differ # {}
               THEN <<x[2][Min(differ)], y[2][Min(differ)]>> ELSE unequal[n - 1]
    IN unequal[MaxNesting]

\* a < b, a <= b, a > b or a >= b.
Compare(op, a, b) ==
    IF Type(a) = "list" /\ Type(b) = "list"
    THEN CompareValues(op, FirstUnequal(a, b)[1], FirstUnequal(a, b)[2])
    ELSE CompareValues(op, a, b)

IsSubstring(s, t) ==
    \E i \in 0 .. (Len(t) - Len(s)) : s = SubSeq(t, i + 1, i + Len(s))

\* o in c
HasItem(c, o) ==
    CASE Type(c) = "list" -> PyBool(\E i \in DOMAIN c[2] : Equal(c[2][i], o))
      [] Type(c) = "str" /\ Type(o) = "str" -> PyBool(IsSubstring(o[2], c[2]))
      [] Type(c) = "dict" /\ Type(o) \notin {"list", "dict"} ->
            PyBool(Type(o) = "str" /\ o[2] \in DOMAIN c[2])
      [] OTHER -> Raised

\* The objects of which the interpreter keeps one: None, the two bools, the
\* small integers, and the texts of at most one symbol.
IsSingleton(o) ==
    \/ Type(o) \in {"None", "bool"}
    \/ Type(o) = "int" /\ o[2] \in -5 .. 256
    \/ Type(o) = "str" /\ Len(o[2]) <= 1

\* dict.get(key)
Get(dict, key) == IF key \in DOMAIN dict THEN dict[key] ELSE None
=============================================================================
