------------------------- MODULE ExpressionTreeProofs -------------------------
(* What the nodes of ql/qltree.cpp make of each other, for filters of every     *)
(* size over dicts of every content: no node of the heap is shared or lost,     *)
(* the two modes disagree about missing values only, and concatenated filters   *)
(* are asked one after the other.  A tree grows node by node, so what holds of  *)
(* every node is an invariant, and needs no induction over trees.               *)
EXTENDS ExpressionTree, NaturalLemmas

-----------------------------------------------------------------------------
(* Sequences of nodes *)

IsSeq(s) == s \in Seq(ToSet(s))

\* Every sequence is one of its own elements.
LEMMA OfItsElements ==
    ASSUME NEW S, NEW s \in Seq(S)
    PROVE  IsSeq(s)
<1>1. s \in [1 .. Len(s) -> S] /\ Len(s) \in Nat /\ DOMAIN s = 1 .. Len(s)
  OBVIOUS
<1>2. \A i \in 1 .. Len(s) : s[i] \in ToSet(s)
  BY <1>1 DEF ToSet
<1>3. s \in [1 .. Len(s) -> ToSet(s)]
  BY <1>1, <1>2
<1>. QED  BY <1>1, <1>3 DEF IsSeq

\* What Append does to a sequence of any elements.
LEMMA Appending ==
    ASSUME NEW s, IsSeq(s), NEW x
    PROVE  /\ IsSeq(Append(s, x)) /\ Len(Append(s, x)) = Len(s) + 1
           /\ Append(s, x)[Len(s) + 1] = x
           /\ \A i \in 1 .. Len(s) : Append(s, x)[i] = s[i]
           /\ Len(s) \in Nat /\ DOMAIN s = 1 .. Len(s)
           /\ DOMAIN Append(s, x) = 1 .. (Len(s) + 1)
<1> DEFINE S == ToSet(s) \cup {x}
<1>1. s \in Seq(ToSet(s)) /\ Len(s) \in Nat /\ DOMAIN s = 1 .. Len(s)
  BY DEF IsSeq
<1>2. s \in [1 .. Len(s) -> ToSet(s)]
  BY <1>1
<1>3. s \in [1 .. Len(s) -> S]
  BY <1>2
<1>4. s \in Seq(S) /\ x \in S
  BY <1>1, <1>3
<1>. HIDE DEF S
<1>5. Append(s, x) \in Seq(S)
  BY <1>4
<1>6. IsSeq(Append(s, x))
  BY <1>5, OfItsElements
<1>. QED  BY <1>1, <1>4, <1>6

\* What stands in front of the last n elements, and these.
LEMMA Cutting ==
    ASSUME NEW s, IsSeq(s), NEW n \in 0 .. Len(s)
    PROVE  /\ IsSeq(SubSeq(s, 1, Len(s) - n)) /\ Len(SubSeq(s, 1, Len(s) - n)) = Len(s) - n
           /\ \A i \in 1 .. (Len(s) - n) : SubSeq(s, 1, Len(s) - n)[i] = s[i]
           /\ Len(s) \in Nat /\ DOMAIN s = 1 .. Len(s)
<1>1. s \in Seq(ToSet(s)) /\ Len(s) \in Nat /\ DOMAIN s = 1 .. Len(s)
  BY DEF IsSeq
<1> DEFINE m == Len(s) - n
<1>2. m \in 0 .. Len(s)
  BY <1>1
<1>. HIDE DEF m
<1>3. /\ SubSeq(s, 1, m) \in Seq(ToSet(s)) /\ Len(SubSeq(s, 1, m)) = m
      /\ \A i \in 1 .. m : SubSeq(s, 1, m)[i] = s[i]
  BY <1>1, <1>2
<1>4. IsSeq(SubSeq(s, 1, m))
  BY <1>3, OfItsElements
<1>. QED  BY <1>1, <1>3, <1>4 DEF m

-----------------------------------------------------------------------------
(* Counting nodes *)

Counted(s) == Len(s) \in Nat /\ \A i \in 1 .. Len(s) : s[i].nodes \in Nat

\* The function behind Nodes.
SumsOf(s, sum) ==
    /\ sum \in [0 .. Len(s) -> Nat] /\ sum[0] = 0 /\ sum[Len(s)] = Nodes(s)
    /\ \A i \in 1 .. Len(s) : sum[i] = sum[i - 1] + s[i].nodes

LEMMA NodesFunction == ASSUME NEW s, Counted(s) PROVE \E sum : SumsOf(s, sum)
<1> DEFINE N == Len(s)
           step == [x \in (1 .. N) \X Nat |-> x[2] + s[x[1]].nodes]
           sum == CHOOSE g : g = [i \in 0 .. N |-> IF i = 0 THEN 0 ELSE g[i - 1] + s[i].nodes]
<1>1. N \in Nat /\ \A i \in 1 .. N : s[i].nodes \in Nat
  BY DEF Counted
<1>2. Nodes(s) = sum[N]
  BY DEF Nodes
<1>. HIDE DEF N
<1>3. PICK f \in [0 .. N -> Nat] : Steps(f, N, 0, step)
  <2>1. step \in [(1 .. N) \X Nat -> Nat] /\ 0 \in Nat
    BY <1>1
  <2>. HIDE DEF step
  <2>. QED  BY <1>1, <2>1, RecursionHolds
<1>4. \A i \in 1 .. N : f[i] = f[i - 1] + s[i].nodes
  <2>1. \A i \in 1 .. N : i - 1 \in 0 .. N /\ f[i - 1] \in Nat
    BY <1>1
  <2>. QED  BY <1>3, <2>1 DEF Steps
<1>5. f = [i \in 0 .. N |-> IF i = 0 THEN 0 ELSE f[i - 1] + s[i].nodes]
  BY <1>1, <1>3, <1>4 DEF Steps
<1>6. sum = [i \in 0 .. N |-> IF i = 0 THEN 0 ELSE sum[i - 1] + s[i].nodes]
  BY <1>5
<1>. HIDE DEF sum
<1>7. sum[0] = 0 /\ \A i \in 1 .. N : sum[i] = sum[i - 1] + s[i].nodes
  BY <1>1, <1>6
<1>8. Alike(sum, f, N)
  <2>1. StepAlike(sum, f, N)
    BY <1>3, <1>4, <1>7 DEF StepAlike, Steps
  <2>. QED  BY <1>1, <2>1, RecursionAgrees
<1>9. sum \in [0 .. N -> Nat]
  BY <1>6, <1>8 DEF Alike
<1>. QED  BY <1>2, <1>7, <1>9 DEF SumsOf, N

\* Sequences that begin with trees of the same sizes have the same sums so far.
LEMMA SameBeginning ==
    ASSUME NEW s, NEW t, NEW f, NEW g, SumsOf(s, f), SumsOf(t, g),
           NEW k \in Nat, k <= Len(s), k <= Len(t), Counted(s), Counted(t),
           \A i \in 1 .. k : s[i].nodes = t[i].nodes
    PROVE  f[k] = g[k]
<1>1. StepAlike(f, g, k)
  <2>1. Len(s) \in Nat /\ Len(t) \in Nat /\ f[0] = 0 /\ g[0] = 0
    BY DEF Counted, SumsOf
  <2>2. ASSUME NEW i \in 1 .. k, f[i - 1] = g[i - 1] PROVE f[i] = g[i]
    <3>1. i \in 1 .. Len(s) /\ i \in 1 .. Len(t)
      BY <2>1
    <3>. QED  BY <2>2, <3>1 DEF SumsOf
  <2>. QED  BY <2>1, <2>2 DEF StepAlike
<1>. QED  BY <1>1, RecursionAgrees DEF Alike

\* The nodes of one tree, and of two.
LEMMA FewNodes ==
    /\ Nodes(<<>>) = 0
    /\ \A x : x.nodes \in Nat => Nodes(<<x>>) = x.nodes
    /\ \A x, y : x.nodes \in Nat /\ y.nodes \in Nat => Nodes(<<x, y>>) = x.nodes + y.nodes
<1>1. Nodes(<<>>) = 0
  <2>1. Len(<<>>) = 0 /\ Counted(<<>>)
    BY DEF Counted
  <2>2. PICK f : SumsOf(<<>>, f)
    BY <2>1, NodesFunction
  <2>. QED  BY <2>1, <2>2 DEF SumsOf
<1>2. ASSUME NEW x, x.nodes \in Nat PROVE Nodes(<<x>>) = x.nodes
  <2>1. Len(<<x>>) = 1 /\ <<x>>[1] = x
    OBVIOUS
  <2>2. Counted(<<x>>)
    BY <1>2, <2>1 DEF Counted
  <2>3. PICK f : SumsOf(<<x>>, f)
    BY <2>2, NodesFunction
  <2>4. f[0] = 0 /\ f[1] = f[0] + x.nodes /\ Nodes(<<x>>) = f[1]
    BY <2>1, <2>3 DEF SumsOf
  <2>. QED  BY <1>2, <2>4
<1>3. ASSUME NEW x, NEW y, x.nodes \in Nat, y.nodes \in Nat
      PROVE  Nodes(<<x, y>>) = x.nodes + y.nodes
  <2>1. Len(<<x, y>>) = 2 /\ <<x, y>>[1] = x /\ <<x, y>>[2] = y
    OBVIOUS
  <2>2. Counted(<<x, y>>)
    <3>1. ASSUME NEW i \in 1 .. 2 PROVE <<x, y>>[i].nodes \in Nat
      <4>1. i = 1 \/ i = 2
        OBVIOUS
      <4>. QED  BY <1>3, <2>1, <4>1
    <3>. QED  BY <2>1, <3>1 DEF Counted
  <2>3. PICK f : SumsOf(<<x, y>>, f)
    BY <2>2, NodesFunction
  <2>4. f[0] = 0 /\ f[1] = f[0] + x.nodes /\ f[2] = f[1] + y.nodes /\ Nodes(<<x, y>>) = f[2]
    BY <2>1, <2>3 DEF SumsOf
  <2>. QED  BY <1>3, <2>4
<1>. QED  BY <1>1, <1>2, <1>3

\* One tree in the place of the last n adds to the nodes what it has more than they.
Replaces(t, s, n) ==
    /\ Counted(s) /\ Counted(t) /\ n \in 0 .. 2 /\ n <= Len(s) /\ Len(t) = Len(s) - n + 1
    /\ \A i \in 1 .. (Len(s) - n) : t[i].nodes = s[i].nodes
LastNodes(s, n) ==
    IF n = 0 THEN 0
    ELSE IF n = 1 THEN s[Len(s)].nodes ELSE s[Len(s) - 1].nodes + s[Len(s)].nodes

LEMMA Replacing ==
    ASSUME NEW s, NEW t, NEW n, Replaces(t, s, n)
    PROVE  Nodes(t) = Nodes(s) - LastNodes(s, n) + t[Len(t)].nodes /\ Nodes(s) \in Nat
<1> DEFINE k == Len(s) - n
<1>1. Len(s) \in Nat /\ n \in 0 .. 2 /\ k \in Nat /\ k <= Len(s) /\ k <= Len(t) /\ Len(t) = k + 1
  BY DEF Replaces, Counted
<1>2. PICK f : SumsOf(s, f)
  BY NodesFunction DEF Replaces
<1>3. PICK g : SumsOf(t, g)
  BY NodesFunction DEF Replaces
<1>4. f[k] = g[k]
  <2>1. \A i \in 1 .. k : s[i].nodes = t[i].nodes
    BY DEF Replaces
  <2>. HIDE DEF k
  <2>. QED  BY <1>1, <1>2, <1>3, <2>1, SameBeginning DEF Replaces
<1>5. Nodes(t) = g[k] + t[Len(t)].nodes
  <2>1. k + 1 \in 1 .. Len(t) /\ (k + 1) - 1 = k
    BY <1>1
  <2>. HIDE DEF k
  <2>. QED  BY <1>1, <1>3, <2>1 DEF SumsOf
<1>6. f[k] \in Nat /\ Nodes(s) \in Nat /\ t[Len(t)].nodes \in Nat /\ Nodes(s) = f[Len(s)]
  <2>1. k \in 0 .. Len(s) /\ Len(s) \in 0 .. Len(s) /\ Len(t) \in 1 .. Len(t)
    BY <1>1
  <2>. HIDE DEF k
  <2>. QED  BY <1>2, <2>1 DEF SumsOf, Replaces, Counted
<1>7. Nodes(s) = f[k] + LastNodes(s, n)
  <2>0. Counted(s)
    BY DEF Replaces
  <2>1. CASE n = 0
    BY <1>1, <1>6, <2>1 DEF LastNodes
  <2>2. CASE n = 1
    <3>1. Len(s) \in 1 .. Len(s) /\ k = Len(s) - 1
      BY <1>1, <2>2
    <3>. QED  BY <1>2, <1>6, <2>2, <3>1 DEF SumsOf, LastNodes
  <2>3. CASE n = 2
    <3>1. /\ Len(s) \in 1 .. Len(s) /\ Len(s) - 1 \in 1 .. Len(s) /\ (Len(s) - 1) - 1 = k
      BY <1>1, <2>3
    <3>2. f[Len(s)] = f[Len(s) - 1] + s[Len(s)].nodes
      BY <1>2, <3>1 DEF SumsOf
    <3>3. f[Len(s) - 1] = f[k] + s[Len(s) - 1].nodes
      <4>. HIDE DEF k
      <4>. QED  BY <1>2, <3>1 DEF SumsOf
    <3>4. s[Len(s)].nodes \in Nat /\ s[Len(s) - 1].nodes \in Nat
      BY <2>0, <3>1 DEF Counted
    <3>5. LastNodes(s, n) = s[Len(s) - 1].nodes + s[Len(s)].nodes
      BY <2>3 DEF LastNodes
    <3>. HIDE DEF k
    <3>. QED  BY ONLY <1>6, <3>2, <3>3, <3>4, <3>5
  <2>. QED  BY <1>1, <2>1, <2>2, <2>3
<1>8. LastNodes(s, n) \in Nat
  <2>1. CASE n = 0
    BY <2>1 DEF LastNodes
  <2>2. CASE n = 1
    <3>1. Len(s) \in 1 .. Len(s)
      BY <1>1, <2>2
    <3>. QED  BY <2>2, <3>1 DEF LastNodes, Replaces, Counted
  <2>3. CASE n = 2
    <3>1. Len(s) \in 1 .. Len(s) /\ Len(s) - 1 \in 1 .. Len(s)
      BY <1>1, <2>3
    <3>2. s[Len(s)].nodes \in Nat /\ s[Len(s) - 1].nodes \in Nat
      BY <3>1 DEF Replaces, Counted
    <3>. QED  BY <2>3, <3>2 DEF LastNodes
  <2>. QED  BY <1>1, <2>1, <2>2, <2>3
<1>. HIDE DEF k
<1>. QED  BY ONLY <1>4, <1>5, <1>6, <1>7, <1>8
-----------------------------------------------------------------------------
(* What nodes make of the values of their operands *)

NumberOrNone(o) == o = None \/ IsNumber(o)

\* A bool is a number, and like None not a failure.
LEMMA Answers ==
    /\ \A b : PyBool(b) # Raised /\ IsNumber(PyBool(b)) /\ Type(PyBool(b)) = "bool"
    /\ None # Raised /\ Type(None) = "None" /\ ~IsNumber(Raised) /\ ~IsNumber(None)
<1>1. \A b : PyBool(b)[1] = "bool"
  BY DEF PyBool
<1>2. None[1] = "None" /\ Raised[1] = "raised"
  BY DEF None, Raised
<1>3. \A b : PyBool(b) # Raised
  BY <1>1, <1>2
<1>. QED  BY <1>1, <1>2, <1>3 DEF IsNumber, Type

\* The order of two numbers is a bool, and None has no order.
LEMMA Comparing ==
    ASSUME NEW op, NEW a, NEW b
    PROVE  /\ IsNumber(a) /\ IsNumber(b) => IsNumber(Compare(op, a, b))
           /\ Compare(op, None, b) = Raised /\ Compare(op, a, None) = Raised
<1>1. ASSUME IsNumber(a), IsNumber(b) PROVE IsNumber(Compare(op, a, b))
  <2>1. Type(a) # "list"
    BY <1>1 DEF IsNumber
  <2>2. Compare(op, a, b) = CompareValues(op, a, b)
    BY <2>1 DEF Compare
  <2>3. CompareValues(op, a, b)
          = PyBool(Related(op, Numerator(a) * Denominator(b), Numerator(b) * Denominator(a)))
    BY <1>1, Zenon DEF CompareValues
  <2>. QED  BY <2>2, <2>3, Answers, Zenon
<1>2. Compare(op, None, b) = Raised
  <2>1. Type(None) = "None" /\ ~IsNumber(None) /\ ~IsSequence(None)
    BY Answers DEF IsSequence
  <2>2. Compare(op, None, b) = CompareValues(op, None, b)
    BY <2>1 DEF Compare
  <2>. QED  BY <2>1, <2>2, Zenon DEF CompareValues
<1>3. Compare(op, a, None) = Raised
  <2>1. Type(None) = "None" /\ ~IsNumber(None)
    BY Answers
  <2>2. Compare(op, a, None) = CompareValues(op, a, None)
    BY <2>1 DEF Compare
  <2>3. ~IsSequence(a) \/ Type(a) # Type(None)
    BY <2>1 DEF IsSequence
  <2>. QED  BY <2>1, <2>2, <2>3, Zenon DEF CompareValues
<1>. QED  BY <1>1, <1>2, <1>3

\* Where the strict comparison answers, the other one gives the same answer.
LEMMA OtherMode ==
    ASSUME NEW op, NEW a, NEW b, StrictCmp(op, a, b) # Raised
    PROVE  /\ NonStrictCmp(op, a, b) = StrictCmp(op, a, b)
           /\ a # Raised /\ b # Raised
<1>1. a # Raised /\ b # Raised /\ StrictCmp(op, a, b) = Compare(op, a, b)
  BY Zenon DEF StrictCmp
<1>2. a # None /\ b # None
  BY <1>1, Comparing
<1>. QED  BY <1>1, <1>2 DEF NonStrictCmp

\* With numbers and missing values the other comparison always answers.
LEMMA OtherModeAnswers ==
    ASSUME NEW op, NEW a, NEW b, NumberOrNone(a), NumberOrNone(b)
    PROVE  IsNumber(NonStrictCmp(op, a, b))
<1>1. a # Raised /\ b # Raised
  BY Answers DEF NumberOrNone
<1>2. CASE a = None \/ b = None
  <2>1. NonStrictCmp(op, a, b) = PyBool(FALSE)
    BY <1>1, <1>2 DEF NonStrictCmp
  <2>. QED  BY <2>1, Answers
<1>3. CASE a # None /\ b # None
  <2>1. NonStrictCmp(op, a, b) = Compare(op, a, b)
    BY <1>1, <1>3 DEF NonStrictCmp
  <2>. QED  BY <1>3, <2>1, Comparing DEF NumberOrNone
<1>. QED  BY <1>2, <1>3

\* The opposite of an answer is a bool.
LEMMA Opposites ==
    ASSUME NEW o
    PROVE  /\ Opposite(Raised) = Raised
           /\ o # Raised => IsNumber(Opposite(o))
<1>1. o # Raised => Opposite(o) = PyBool(~Truth(o))
  BY Zenon DEF Opposite
<1>2. Opposite(Raised) = Raised
  BY Zenon DEF Opposite
<1>. QED  BY <1>1, <1>2, Answers, Zenon

\* Of the operators of two operands, or and and alone may do without one.
EagerOps == {"in", "not in", "is", "is not", "==", "!="} \cup ArithmeticOps

LEMMA OperandRaises ==
    ASSUME NEW node, NEW results, NEW dict, node[1] \in EagerOps,
           results[1].value = Raised \/ results[2].value = Raised
    PROVE  NodeValue(node, results, dict) = Raised
<1> DEFINE op == node[1]
           a == results[1].value
           b == results[2].value
           same == results[1].origin # <<>> /\ results[1].origin = results[2].origin
<1>1. Raised \in {a, b}
  OBVIOUS
<1>2. ASSUME op \in ArithmeticOps PROVE NodeValue(node, results, dict) = Raised
  <2>1. Arithmetic(op, a, b) = Raised
    BY <1>1, Zenon DEF Arithmetic
  <2>2. NodeValue(node, results, dict) = Arithmetic(op, a, b)
    BY <1>2 DEF NodeValue, ArithmeticOps
  <2>. QED  BY <2>1, <2>2
<1>3. ASSUME op \in {"in", "not in"} PROVE NodeValue(node, results, dict) = Raised
  <2>1. Membership(op, a, b) = Raised
    BY <1>1, Opposites, Zenon DEF Membership
  <2>2. NodeValue(node, results, dict) = Membership(op, a, b)
    BY <1>3 DEF NodeValue, ArithmeticOps
  <2>. QED  BY <2>1, <2>2
<1>4. ASSUME op \in {"==", "!="} PROVE NodeValue(node, results, dict) = Raised
  <2>1. Equality(op, a, b) = Raised
    BY <1>1, Opposites, Zenon DEF Equality
  <2>2. NodeValue(node, results, dict) = Equality(op, a, b)
    BY <1>4 DEF NodeValue, ArithmeticOps
  <2>. QED  BY <2>1, <2>2
<1>5. ASSUME op \in {"is", "is not"} PROVE NodeValue(node, results, dict) = Raised
  <2>1. Identity(op, a, b, same) = Raised
    BY <1>1, Opposites, Zenon DEF Identity
  <2>2. NodeValue(node, results, dict) = Identity(op, a, b, same)
    BY <1>5 DEF NodeValue, ArithmeticOps
  <2>. QED  BY <2>1, <2>2
<1>6. op \in ArithmeticOps \/ op \in {"in", "not in"} \/ op \in {"==", "!="} \/ op \in {"is", "is not"}
  BY DEF EagerOps
<1>. QED  BY <1>2, <1>3, <1>4, <1>5, <1>6
-----------------------------------------------------------------------------
(* A node in both modes *)

\* A result of the strict mode, and that of the other one.
Agree(strictly, loosely) == strictly.value = Raised \/ strictly = loosely

\* The nodes that are made of n operands.
Takes(node, n) ==
    \/ n = 0 /\ IsLeaf(node)
    \/ n = 1 /\ node[1] \in {"not", "neg", "list"}
    \/ n = 2 /\ node[1] \in BinaryOps

OfLength(results, n) == results = [i \in 1 .. n |-> results[i]]

\* A value and nothing else decides whether a result is a failure.
LEMMA ValueOfNode ==
    ASSUME NEW node, NEW results, NEW dict
    PROVE  EvalNode(node, results, dict).value = NodeValue(node, results, dict)
  BY DEF EvalNode, Result

\* Equal results of the operands of a node that has no mode.
LEMMA SameOperands ==
    ASSUME NEW node, NEW rs, NEW rl, NEW dict, rs = rl
    PROVE  Agree(EvalNode(node, rs, dict), EvalNode(node, rl, dict))
  BY DEF Agree

\* One operand: not, the minus, and a list with its first element.
LEMMA UnaryAgrees ==
    ASSUME NEW node, NEW rs, NEW rl, NEW dict, node[1] \in {"not", "neg", "list"},
           OfLength(rs, 1), OfLength(rl, 1), Agree(rs[1], rl[1])
    PROVE  Agree(EvalNode(node, rs, dict), EvalNode(node, rl, dict))
<1>1. CASE rs[1].value = Raised
  <2>1. CASE node[1] = "not"
    <3>1. NodeValue(node, rs, dict) = Opposite(Raised)
      BY <1>1, <2>1 DEF NodeValue, ArithmeticOps
    <3>. QED  BY <3>1, Opposites, ValueOfNode DEF Agree
  <2>2. CASE node[1] = "neg"
    <3>1. NodeValue(node, rs, dict) = Raised
      BY <1>1, <2>2 DEF NodeValue, ArithmeticOps
    <3>. QED  BY <3>1, ValueOfNode DEF Agree
  <2>3. CASE node[1] = "list"
    <3> DEFINE values == [i \in DOMAIN rs |-> rs[i].value]
    <3>1. NodeValue(node, rs, dict) = ListValue(values)
      BY <2>3 DEF NodeValue, ArithmeticOps
    <3>2. 1 \in DOMAIN values /\ values[1] = Raised
      BY <1>1 DEF OfLength
    <3>3. ListValue(values) = Raised
      <4>. HIDE DEF values
      <4>. QED  BY <3>2, Zenon DEF ListValue
    <3>. QED  BY <3>1, <3>3, ValueOfNode DEF Agree
  <2>. QED  BY <2>1, <2>2, <2>3
<1>2. CASE rs[1].value # Raised
  <2>1. rs[1] = rl[1]
    BY <1>2 DEF Agree
  <2>2. rs = rl
    BY <2>1 DEF OfLength
  <2>. QED  BY <2>2, SameOperands
<1>. QED  BY <1>1, <1>2

\* Two operands of which both are needed.
LEMMA EagerAgrees ==
    ASSUME NEW node, NEW rs, NEW rl, NEW dict, node[1] \in EagerOps,
           OfLength(rs, 2), OfLength(rl, 2),
           Agree(rs[1], rl[1]), Agree(rs[2], rl[2])
    PROVE  Agree(EvalNode(node, rs, dict), EvalNode(node, rl, dict))
<1>1. CASE rs[1].value = Raised \/ rs[2].value = Raised
  BY <1>1, OperandRaises, ValueOfNode DEF Agree
<1>2. CASE rs[1].value # Raised /\ rs[2].value # Raised
  <2>1. rs[1] = rl[1] /\ rs[2] = rl[2]
    BY <1>2 DEF Agree
  <2>2. rs = rl
    BY <2>1 DEF OfLength
  <2>. QED  BY <2>2, SameOperands
<1>. QED  BY <1>1, <1>2

\* or and and, which give the result of one of their operands.
LazyResult(op, lhs, rhs) ==
    IF lhs.value # Raised /\ (Truth(lhs.value) <=> op = "and") THEN rhs ELSE lhs

LEMMA LazyNode ==
    ASSUME NEW node, NEW results, NEW dict, node[1] \in {"or", "and"}
    PROVE  LET given == LazyResult(node[1], results[1], results[2])
           IN /\ NodeValue(node, results, dict) = given.value
              /\ given.value # Raised =>
                    EvalNode(node, results, dict) = Result(given.value, given.origin)
<1> DEFINE lhs == results[1]
           rhs == results[2]
           value == NodeValue(node, results, dict)
           given == LazyResult(node[1], lhs, rhs)
<1>1. CASE node[1] = "or"
  <2>1. value = Or(lhs.value, rhs.value)
    BY <1>1 DEF NodeValue, ArithmeticOps
  <2>2. Or(lhs.value, rhs.value) = given.value
    BY <1>1 DEF Or, LazyResult
  <2>3. value # Raised =>
          NodeOrigin(node, results, value) = IF Truth(lhs.value) THEN lhs.origin ELSE rhs.origin
    <3>. HIDE DEF value
    <3>. QED  BY <1>1 DEF NodeOrigin
  <2>4. value # Raised => NodeOrigin(node, results, value) = given.origin
    <3>1. value # Raised => lhs.value # Raised
      BY <2>1, Zenon DEF Or
    <3>. HIDE DEF value
    <3>. QED  BY <1>1, <2>3, <3>1 DEF LazyResult
  <2>. QED  BY <2>1, <2>2, <2>4 DEF EvalNode
<1>2. CASE node[1] = "and"
  <2>1. value = And(lhs.value, rhs.value)
    BY <1>2 DEF NodeValue, ArithmeticOps
  <2>2. And(lhs.value, rhs.value) = given.value
    BY <1>2 DEF And, LazyResult
  <2>3. value # Raised =>
          NodeOrigin(node, results, value) = IF Truth(lhs.value) THEN rhs.origin ELSE lhs.origin
    <3>. HIDE DEF value
    <3>. QED  BY <1>2 DEF NodeOrigin
  <2>4. value # Raised => NodeOrigin(node, results, value) = given.origin
    <3>1. value # Raised => lhs.value # Raised
      BY <2>1, Zenon DEF And
    <3>. HIDE DEF value
    <3>. QED  BY <1>2, <2>3, <3>1 DEF LazyResult
  <2>. QED  BY <2>1, <2>2, <2>4 DEF EvalNode
<1>. QED  BY <1>1, <1>2

LEMMA LazyAgrees ==
    ASSUME NEW node, NEW rs, NEW rl, NEW dict, node[1] \in {"or", "and"},
           Agree(rs[1], rl[1]), Agree(rs[2], rl[2])
    PROVE  Agree(EvalNode(node, rs, dict), EvalNode(node, rl, dict))
<1> DEFINE s == LazyResult(node[1], rs[1], rs[2])
           l == LazyResult(node[1], rl[1], rl[2])
<1>1. CASE s.value = Raised
  BY <1>1, LazyNode, ValueOfNode DEF Agree
<1>2. CASE s.value # Raised
  <2>1. rs[1].value # Raised
    BY <1>2, Zenon DEF LazyResult
  <2>2. rs[1] = rl[1]
    BY <2>1 DEF Agree
  <2>3. s = l
    <3>1. CASE Truth(rs[1].value) <=> node[1] = "and"
      <4>1. s = rs[2] /\ l = rl[2]
        BY <2>1, <2>2, <3>1, Zenon DEF LazyResult
      <4>. HIDE DEF s, l
      <4>. QED  BY <1>2, <4>1 DEF Agree
    <3>2. CASE ~(Truth(rs[1].value) <=> node[1] = "and")
      <4>1. s = rs[1] /\ l = rl[1]
        BY <2>1, <2>2, <3>2, Zenon DEF LazyResult
      <4>. HIDE DEF s, l
      <4>. QED  BY <2>2, <4>1
    <3>. QED  BY <3>1, <3>2
  <2>4. EvalNode(node, rs, dict) = Result(s.value, s.origin)
    BY <1>2, LazyNode
  <2>5. EvalNode(node, rl, dict) = Result(l.value, l.origin)
    BY <1>2, <2>3, LazyNode
  <2>. HIDE DEF s, l
  <2>. QED  BY <2>3, <2>4, <2>5 DEF Agree
<1>. QED  BY <1>1, <1>2

\* An order comparison in each of the modes.
LEMMA OrderNode ==
    ASSUME NEW op \in OrderOps, NEW x, NEW y, NEW results, NEW dict
    PROVE  /\ NodeValue(Ordered(op, x, y, TRUE), results, dict)
                = StrictCmp(op, results[1].value, results[2].value)
           /\ NodeValue(Ordered(op, x, y, FALSE), results, dict)
                = NonStrictCmp(op, results[1].value, results[2].value)
           /\ \A value : NodeOrigin(Ordered(op, x, y, TRUE), results, value) = <<>>
           /\ \A value : NodeOrigin(Ordered(op, x, y, FALSE), results, value) = <<>>
<1>1. /\ Ordered(op, x, y, TRUE)[1] = op /\ Ordered(op, x, y, TRUE)[4] = TRUE
      /\ Ordered(op, x, y, FALSE)[1] = op /\ Ordered(op, x, y, FALSE)[4] = FALSE
  BY DEF Ordered
<1>2. op \notin {"const", "none", "var", "path", "list", "not", "neg", "or", "and", "in", "not in",
                 "==", "!=", "is", "is not"} \cup ArithmeticOps
  BY DEF OrderOps, ArithmeticOps
<1>3. ASSUME NEW node, node[1] = op
      PROVE  /\ NodeValue(node, results, dict)
                    = IF node[4] THEN StrictCmp(op, results[1].value, results[2].value)
                                 ELSE NonStrictCmp(op, results[1].value, results[2].value)
             /\ \A value : NodeOrigin(node, results, value) = <<>>
  <2>1. NodeValue(node, results, dict)
                    = IF node[4] THEN StrictCmp(op, results[1].value, results[2].value)
                                 ELSE NonStrictCmp(op, results[1].value, results[2].value)
    BY <1>2, <1>3 DEF NodeValue
  <2>2. \A value : NodeOrigin(node, results, value) = <<>>
    BY <1>2, <1>3 DEF NodeOrigin, ArithmeticOps
  <2>. QED  BY <2>1, <2>2
<1>. QED  BY <1>1, <1>3

LEMMA OrderAgrees ==
    ASSUME NEW op \in OrderOps, NEW x, NEW y, NEW rs, NEW rl, NEW dict,
           Agree(rs[1], rl[1]), Agree(rs[2], rl[2])
    PROVE  Agree(EvalNode(Ordered(op, x, y, TRUE), rs, dict),
                 EvalNode(Ordered(op, x, y, FALSE), rl, dict))
<1> DEFINE s == StrictCmp(op, rs[1].value, rs[2].value)
           l == NonStrictCmp(op, rl[1].value, rl[2].value)
<1>1. EvalNode(Ordered(op, x, y, TRUE), rs, dict) = Result(s, <<>>)
  <2>1. NodeValue(Ordered(op, x, y, TRUE), rs, dict) = s
    BY OrderNode
  <2>. HIDE DEF s
  <2>2. NodeOrigin(Ordered(op, x, y, TRUE), rs, s) = <<>>
    BY OrderNode, Zenon
  <2>. QED  BY <2>1, <2>2 DEF EvalNode
<1>2. EvalNode(Ordered(op, x, y, FALSE), rl, dict) = Result(l, <<>>)
  <2>1. NodeValue(Ordered(op, x, y, FALSE), rl, dict) = l
    BY OrderNode
  <2>. HIDE DEF l
  <2>2. NodeOrigin(Ordered(op, x, y, FALSE), rl, l) = <<>>
    BY OrderNode, Zenon
  <2>. QED  BY <2>1, <2>2 DEF EvalNode
<1>3. s = Raised \/ s = l
  <2>1. CASE s # Raised
    <3>1. rs[1].value # Raised /\ rs[2].value # Raised
          /\ NonStrictCmp(op, rs[1].value, rs[2].value) = s
      BY <2>1, OtherMode
    <3>2. rs[1] = rl[1] /\ rs[2] = rl[2]
      BY <3>1 DEF Agree
    <3>. QED  BY <3>1, <3>2
  <2>. QED  BY <2>1
<1>4. Result(s, <<>>).value = s
  BY DEF Result
<1>. HIDE DEF s, l
<1>. QED  BY <1>1, <1>2, <1>3, <1>4 DEF Agree

\* What the two modes make of a node agrees if it does for its operands.
LEMMA NodeAgrees ==
    ASSUME NEW node, NEW n, Takes(node, n), NEW rs, NEW rl, NEW dict,
           OfLength(rs, n), OfLength(rl, n),
           \A i \in 1 .. n : Agree(rs[i], rl[i])
    PROVE  Agree(EvalNode(InView(node, "strict"), rs, dict),
                 EvalNode(InView(node, "non-strict"), rl, dict))
<1>1. CASE node[1] \in OrderOps
  <2>1. n = 2
    <3>1. ~IsLeaf(node)
      <4>1. List(<<>>)[1] = "list"
        BY DEF List
      <4>. QED  BY <1>1, <4>1 DEF IsLeaf, OrderOps
    <3>. QED  BY <1>1, <3>1 DEF Takes, OrderOps
  <2>2. Agree(rs[1], rl[1]) /\ Agree(rs[2], rl[2])
    BY <2>1
  <2>3. InView(node, "strict") = Ordered(node[1], node[2], node[3], TRUE)
    BY <1>1 DEF InView
  <2>4. InView(node, "non-strict") = Ordered(node[1], node[2], node[3], FALSE)
    BY <1>1 DEF InView
  <2>. QED  BY <1>1, <2>2, <2>3, <2>4, OrderAgrees
<1>2. CASE node[1] \notin OrderOps
  <2>1. InView(node, "strict") = node /\ InView(node, "non-strict") = node
    BY <1>2 DEF InView
  <2>2. CASE n = 0
    <3>1. rs = rl
      BY <2>2 DEF OfLength
    <3>. QED  BY <2>1, <3>1, SameOperands
  <2>3. CASE n = 1 /\ node[1] \in {"not", "neg", "list"}
    <3>1. Agree(rs[1], rl[1]) /\ OfLength(rs, 1) /\ OfLength(rl, 1)
      BY <2>3
    <3>. QED  BY <2>1, <2>3, <3>1, UnaryAgrees
  <2>4. CASE n = 2 /\ node[1] \in BinaryOps
    <3>1. Agree(rs[1], rl[1]) /\ Agree(rs[2], rl[2])
          /\ OfLength(rs, 2) /\ OfLength(rl, 2)
      BY <2>4
    <3>2. node[1] \in EagerOps \/ node[1] \in {"or", "and"}
      BY <1>2, <2>4 DEF EagerOps, BinaryOps
    <3>3. Agree(EvalNode(node, rs, dict), EvalNode(node, rl, dict))
      <4>1. CASE node[1] \in EagerOps
        BY <3>1, <4>1, EagerAgrees
      <4>2. CASE node[1] \in {"or", "and"}
        BY <3>1, <4>2, LazyAgrees
      <4>. QED  BY <3>2, <4>1, <4>2
    <3>. QED  BY <2>1, <3>3
  <2>. QED  BY <2>2, <2>3, <2>4 DEF Takes
<1>. QED  BY <1>1, <1>2

\* What a numeric filter is made of.
NumericOps == {"or", "and", "not", "==", "!=", "is", "is not"} \cup OrderOps

\* Of numbers and missing values, such a node makes a number or a missing value.
LEMMA NodeAnswers ==
    ASSUME NEW node, NEW n, n # 0, Takes(node, n), node[1] \in NumericOps, NEW results, NEW dict,
           \A i \in 1 .. n : NumberOrNone(results[i].value)
    PROVE  NumberOrNone(EvalNode(InView(node, "non-strict"), results, dict).value)
<1> DEFINE a == results[1].value
           b == results[2].value
           same == results[1].origin # <<>> /\ results[1].origin = results[2].origin
           value == NodeValue(InView(node, "non-strict"), results, dict)
<1>0. SUFFICES NumberOrNone(value)
  BY ValueOfNode, Zenon
<1>1. NumberOrNone(a)
  BY DEF Takes
<1>2. a # Raised
  BY <1>1, Answers DEF NumberOrNone
<1>3. CASE node[1] = "not"
  <2>1. InView(node, "non-strict") = node
    BY <1>3 DEF InView, OrderOps
  <2>2. value = Opposite(a)
    BY <1>3, <2>1 DEF NodeValue, ArithmeticOps
  <2>. QED  BY <1>2, <2>2, Opposites DEF NumberOrNone
<1>4. CASE node[1] # "not"
  <2>1. n = 2
    BY <1>4 DEF Takes, NumericOps, OrderOps
  <2>2. NumberOrNone(b) /\ b # Raised /\ Raised \notin {a, b}
    BY <1>2, <2>1, Answers DEF NumberOrNone
  <2>3. CASE node[1] \in OrderOps
    <3>1. InView(node, "non-strict") = Ordered(node[1], node[2], node[3], FALSE)
      BY <2>3 DEF InView
    <3>2. value = NonStrictCmp(node[1], a, b)
      <4>1. NodeValue(Ordered(node[1], node[2], node[3], FALSE), results, dict)
              = NonStrictCmp(node[1], results[1].value, results[2].value)
        BY <2>3, OrderNode, Zenon
      <4>. QED  BY <3>1, <4>1
    <3>. QED  BY <1>1, <2>2, <3>2, OtherModeAnswers DEF NumberOrNone
  <2>4. CASE node[1] \notin OrderOps
    <3>0. InView(node, "non-strict") = node
      BY <2>4 DEF InView
    <3>1. CASE node[1] = "or"
      <4>1. value = Or(a, b)
        BY <3>0, <3>1 DEF NodeValue, ArithmeticOps
      <4>2. value = a \/ value = b
        BY <4>1, Zenon DEF Or
      <4>. QED  BY <1>1, <2>2, <4>2
    <3>2. CASE node[1] = "and"
      <4>1. value = And(a, b)
        BY <3>0, <3>2 DEF NodeValue, ArithmeticOps
      <4>2. value = a \/ value = b
        BY <4>1, Zenon DEF And
      <4>. QED  BY <1>1, <2>2, <4>2
    <3>3. CASE node[1] \in {"==", "!="}
      <4>1. value = Equality(node[1], a, b)
        BY <3>0, <3>3 DEF NodeValue, ArithmeticOps
      <4>2. \/ value = PyBool(Equal(a, b))
            \/ value = Opposite(PyBool(Equal(a, b)))
        BY <2>2, <4>1, Zenon DEF Equality
      <4>. QED  BY <4>2, Answers, Opposites, Zenon DEF NumberOrNone
    <3>4. CASE node[1] \in {"is", "is not"}
      <4>1. value = Identity(node[1], a, b, same)
        BY <3>0, <3>4 DEF NodeValue, ArithmeticOps
      <4>2. \/ value = PyBool(a = b /\ (IsSingleton(a) \/ same))
            \/ value = Opposite(PyBool(a = b /\ (IsSingleton(a) \/ same)))
        BY <2>2, <4>1, Zenon DEF Identity
      <4>. QED  BY <4>2, Answers, Opposites, Zenon DEF NumberOrNone
    <3>. QED  BY <1>4, <2>4, <3>1, <3>2, <3>3, <3>4 DEF NumericOps
  <2>. QED  BY <2>3, <2>4
<1>. QED  BY <1>3, <1>4
-----------------------------------------------------------------------------
(* The nodes of a heap *)

\* What holds of a node that others may take for an operand.
Sound(x, dicts) ==
    /\ x.nodes \in Nat
    /\ \A d \in dicts : Agree(x.eval["strict"][d], x.eval["non-strict"][d])
    /\ \A d \in dicts : x.numeric[d] => NumberOrNone(x.eval["non-strict"][d].value)
    /\ x.tree[1] = "list" => \A d \in dicts : ~x.numeric[d]

\* What eval of a new node gives.
LEMMA MadeEval ==
    ASSUME NEW node, NEW parts, NEW view \in Views, NEW d \in kit.dicts
    PROVE  Made(node, parts).eval[view][d]
             = EvalNode(InView(node, view), Results(parts, view, d), d)
  BY DEF Made

\* A node that is made of sound operands is sound.
LEMMA MadeSound ==
    ASSUME NEW node, NEW n, Takes(node, n), NEW parts, parts = [i \in 1 .. n |-> parts[i]],
           \A i \in 1 .. n : Sound(parts[i], kit.dicts), Nodes(parts) \in Nat, parts = <<>> <=> n = 0
    PROVE  Sound(Made(node, parts), kit.dicts)
<1> DEFINE x == Made(node, parts)
<1>1. DOMAIN parts = 1 .. n
  OBVIOUS
<1>2. ASSUME NEW view \in Views, NEW d \in kit.dicts
      PROVE  /\ OfLength(Results(parts, view, d), n)
             /\ \A i \in 1 .. n : Results(parts, view, d)[i] = parts[i].eval[view][d]
  BY <1>1 DEF Results, OfLength
<1>3. ASSUME NEW d \in kit.dicts PROVE Agree(x.eval["strict"][d], x.eval["non-strict"][d])
  <2> DEFINE rs == Results(parts, "strict", d)
             rl == Results(parts, "non-strict", d)
  <2>1. /\ OfLength(rs, n) /\ \A i \in 1 .. n : rs[i] = parts[i].eval["strict"][d]
        /\ OfLength(rl, n) /\ \A i \in 1 .. n : rl[i] = parts[i].eval["non-strict"][d]
    BY <1>2, <1>3 DEF Views
  <2>2. x.eval["strict"][d] = EvalNode(InView(node, "strict"), rs, d)
        /\ x.eval["non-strict"][d] = EvalNode(InView(node, "non-strict"), rl, d)
    BY <1>3, MadeEval DEF Views
  <2>. HIDE DEF rs, rl, x
  <2>3. \A i \in 1 .. n : Agree(rs[i], rl[i])
    BY <1>3, <2>1 DEF Sound
  <2>4. Agree(EvalNode(InView(node, "strict"), rs, d), EvalNode(InView(node, "non-strict"), rl, d))
    BY <2>1, <2>3, NodeAgrees
  <2>. QED  BY <2>2, <2>4
<1>4. ASSUME NEW d \in kit.dicts, IsNumeric(node, parts, d)
      PROVE  NumberOrNone(x.eval["non-strict"][d].value)
  <2> DEFINE rl == Results(parts, "non-strict", d)
  <2>1. x.eval["non-strict"][d] = EvalNode(InView(node, "non-strict"), rl, d)
    BY <1>4, MadeEval DEF Views
  <2>2. CASE n = 0
    <3>1. IsLeaf(node) /\ parts = <<>>
      BY <2>2 DEF Takes
    <3>2. InView(node, "non-strict") = node
      <4>1. List(<<>>)[1] = "list"
        BY DEF List
      <4>. QED  BY <3>1, <4>1 DEF InView, IsLeaf, OrderOps
    <3>3. rl = <<>>
      BY <3>1 DEF Results
    <3>4. LET o == EvalNode(node, <<>>, d).value IN o = None \/ IsNumber(o)
      BY <1>4, <3>1 DEF IsNumeric
    <3>. HIDE DEF x, rl
    <3>. QED  BY <2>1, <3>2, <3>3, <3>4 DEF NumberOrNone
  <2>3. CASE n # 0
    <3>1. parts # <<>>
      BY <2>3
    <3>2. node[1] \in NumericOps /\ \A i \in 1 .. n : parts[i].numeric[d]
      BY <1>1, <1>4, <3>1 DEF IsNumeric, NumericOps
    <3>3. \A i \in 1 .. n : rl[i] = parts[i].eval["non-strict"][d]
      BY <1>2, <1>4 DEF Views
    <3>. HIDE DEF x, rl
    <3>4. \A i \in 1 .. n : NumberOrNone(rl[i].value)
      BY <1>4, <3>2, <3>3 DEF Sound
    <3>. QED  BY <2>1, <2>3, <3>2, <3>4, NodeAnswers
  <2>. QED  BY <2>2, <2>3
<1>5. x.nodes \in Nat /\ x.tree = node /\ \A d \in kit.dicts : x.numeric[d] = IsNumeric(node, parts, d)
  BY DEF Made
<1>6. ASSUME node[1] = "list", NEW d PROVE ~IsNumeric(node, parts, d)
  BY <1>6 DEF IsNumeric, OrderOps
<1>. HIDE DEF x
<1>7. \A d \in kit.dicts : x.numeric[d] => NumberOrNone(x.eval["non-strict"][d].value)
  BY <1>4, <1>5, Zenon
<1>8. x.tree[1] = "list" => \A d \in kit.dicts : ~x.numeric[d]
  BY <1>5, <1>6, Zenon
<1>9. Sound(x, kit.dicts)
  BY <1>3, <1>5, <1>7, <1>8, Zenon DEF Sound
<1>. QED  BY <1>9 DEF x

\* A list that is appended a sound element stays sound.
LEMMA AppendedSound ==
    ASSUME NEW list, NEW element, Sound(list, kit.dicts), Sound(element, kit.dicts), list.tree[1] = "list"
    PROVE  Sound(Appended(list, element), kit.dicts)
<1> DEFINE x == Appended(list, element)
<1>1. ASSUME NEW d \in kit.dicts PROVE Agree(x.eval["strict"][d], x.eval["non-strict"][d])
  <2> DEFINE rs == list.eval["strict"][d]
             rl == list.eval["non-strict"][d]
             es == element.eval["strict"][d]
             el == element.eval["non-strict"][d]
  <2>1. x.eval["strict"][d] = AppendedResult(rs, es)
        /\ x.eval["non-strict"][d] = AppendedResult(rl, el)
    BY DEF Appended, Views
  <2>2. Agree(rs, rl) /\ Agree(es, el)
    BY <1>1 DEF Sound
  <2>. HIDE DEF rs, rl, es, el
  <2>3. CASE rs.value = Raised \/ es.value = Raised
    <3>1. AppendedResult(rs, es).value = Raised
      BY <2>3 DEF AppendedResult, Result
    <3>. QED  BY <2>1, <3>1 DEF Agree
  <2>4. CASE rs.value # Raised /\ es.value # Raised
    <3>1. rs = rl /\ es = el
      BY <2>2, <2>4 DEF Agree
    <3>. QED  BY <2>1, <3>1 DEF Agree
  <2>. QED  BY <2>3, <2>4
<1>2. x.nodes \in Nat /\ x.numeric = list.numeric
  BY DEF Appended, Sound
<1>. HIDE DEF x
<1>. QED  BY <1>1, <1>2 DEF Sound, x

-----------------------------------------------------------------------------
(* The invariant *)

\* The value of a filter for a dict, and whether the filters behind it are asked.
ValueOf(filter, d) == filter.eval["as made"][d].value
Goes(filter, d) == ValueOf(filter, d) # Raised /\ Truth(ValueOf(filter, d))

\* A root has the value of the first filter behind which none is asked, or of the last.
Decides(k, top, fs, d) ==
    /\ k \in 1 .. Len(fs) /\ ValueOf(top, d) = ValueOf(fs[k], d)
    /\ \A j \in 1 .. (k - 1) : Goes(fs[j], d)
    /\ k = Len(fs) \/ ~Goes(fs[k], d)

IInv ==
    /\ TypeOK
    /\ IsSeq(operands) /\ IsSeq(root) /\ IsSeq(filters)
    /\ \A i \in 1 .. Len(operands) : Sound(operands[i], kit.dicts)
    /\ \A i \in 1 .. Len(root) : root[i].nodes \in Nat
    /\ root # <<>> => \A d \in kit.dicts : \E k \in 1 .. Len(filters) : Decides(k, root[1], filters, d)

\* Two sequences behind each other.
LEMMA Joining ==
    ASSUME NEW r, NEW s, IsSeq(r), IsSeq(s)
    PROVE  /\ Len(r \o s) = Len(r) + Len(s) /\ Len(r) \in Nat /\ Len(s) \in Nat
           /\ \A i \in 1 .. Len(r) : (r \o s)[i] = r[i]
           /\ \A i \in 1 .. Len(s) : (r \o s)[Len(r) + i] = s[i]
<1> DEFINE S == ToSet(r) \cup ToSet(s)
<1>1. r \in Seq(ToSet(r)) /\ s \in Seq(ToSet(s))
  BY DEF IsSeq
<1>2. r \in [1 .. Len(r) -> S] /\ s \in [1 .. Len(s) -> S] /\ Len(r) \in Nat /\ Len(s) \in Nat
  <2>1. r \in [1 .. Len(r) -> ToSet(r)] /\ s \in [1 .. Len(s) -> ToSet(s)]
    BY <1>1
  <2>. QED  BY <1>1, <2>1
<1>3. r \in Seq(S) /\ s \in Seq(S)
  BY <1>1, <1>2
<1>. HIDE DEF S
<1>. QED  BY <1>3

\* The nodes of the root and of the operands.
LEMMA JoinedCounted ==
    ASSUME NEW r, NEW s, IsSeq(r), IsSeq(s), \A i \in 1 .. Len(r) : r[i].nodes \in Nat,
           \A i \in 1 .. Len(s) : s[i].nodes \in Nat
    PROVE  Counted(r \o s)
<1>1. /\ Len(r \o s) = Len(r) + Len(s) /\ Len(r) \in Nat /\ Len(s) \in Nat
      /\ \A i \in 1 .. Len(r) : (r \o s)[i] = r[i]
      /\ \A i \in 1 .. Len(s) : (r \o s)[Len(r) + i] = s[i]
  BY Joining
<1> DEFINE t == r \o s
<1>. HIDE DEF t
<1>2. ASSUME NEW i \in 1 .. Len(t) PROVE t[i].nodes \in Nat
  <2>1. CASE i <= Len(r)
    BY <1>1, <1>2, <2>1 DEF t
  <2>2. CASE i > Len(r)
    <3>1. i - Len(r) \in 1 .. Len(s) /\ i = Len(r) + (i - Len(r))
      BY <1>1, <1>2, <2>2 DEF t
    <3>2. t[Len(r) + (i - Len(r))] = s[i - Len(r)]
      BY <1>1, <3>1 DEF t
    <3>. QED  BY <3>1, <3>2
  <2>. QED  BY <1>1, <1>2, <2>1, <2>2 DEF t
<1>3. Len(t) \in Nat
  BY <1>1 DEF t
<1>. QED  BY <1>2, <1>3 DEF Counted, t

\* A node in the place of the last n operands.
LEMMA InPlaceOf ==
    ASSUME IInv, NEW n \in 0 .. 2, n <= Len(operands), NEW m, m.nodes \in Nat
    PROVE  LET new == Append(Left(n), m)
           IN /\ IsSeq(new) /\ Len(new) = Len(operands) - n + 1 /\ new[Len(new)] = m
              /\ \A i \in 1 .. (Len(operands) - n) : new[i] = operands[i]
              /\ Nodes(root \o new) = Nodes(root \o operands) - LastNodes(operands, n) + m.nodes
              /\ Nodes(root \o operands) \in Nat
<1> DEFINE left == Left(n)
           new == Append(left, m)
           s == root \o operands
           t == root \o new
<1>1. IsSeq(operands) /\ IsSeq(root) /\ n \in 0 .. Len(operands) /\ Len(operands) \in Nat
  <2>1. IsSeq(operands) /\ IsSeq(root)
    BY DEF IInv
  <2>2. Len(operands) \in Nat
    BY <2>1, Joining
  <2>. QED  BY <2>1, <2>2
<1>2. /\ IsSeq(left) /\ Len(left) = Len(operands) - n
      /\ \A i \in 1 .. (Len(operands) - n) : left[i] = operands[i]
  BY <1>1, Cutting DEF Left
<1>. HIDE DEF left
<1>3. /\ IsSeq(new) /\ Len(new) = Len(left) + 1 /\ new[Len(left) + 1] = m
      /\ \A i \in 1 .. Len(left) : new[i] = left[i]
  BY <1>2, Appending
<1>. HIDE DEF new
<1>4. Len(new) = Len(operands) - n + 1 /\ new[Len(new)] = m
      /\ \A i \in 1 .. (Len(operands) - n) : new[i] = operands[i]
  BY <1>1, <1>2, <1>3
<1>5. Counted(s)
  <2>1. \A i \in 1 .. Len(operands) : operands[i].nodes \in Nat
    BY DEF IInv, Sound
  <2>2. \A i \in 1 .. Len(root) : root[i].nodes \in Nat
    BY DEF IInv
  <2>. QED  BY <1>1, <2>1, <2>2, JoinedCounted
<1>6. Counted(t)
  <2>1. ASSUME NEW i \in 1 .. Len(new) PROVE new[i].nodes \in Nat
    <3>1. CASE i = Len(new)
      BY <1>4, <3>1
    <3>2. CASE i # Len(new)
      <4>1. i \in 1 .. (Len(operands) - n) /\ i \in 1 .. Len(operands)
        BY <1>1, <1>4, <2>1, <3>2
      <4>. QED  BY <1>4, <4>1 DEF IInv, Sound
    <3>. QED  BY <3>1, <3>2
  <2>2. \A i \in 1 .. Len(root) : root[i].nodes \in Nat
    BY DEF IInv
  <2>. QED  BY <1>1, <1>3, <2>1, <2>2, JoinedCounted
<1>7. /\ Len(s) = Len(root) + Len(operands) /\ Len(t) = Len(root) + Len(new) /\ Len(root) \in Nat
      /\ \A i \in 1 .. Len(root) : s[i] = root[i] /\ t[i] = root[i]
      /\ \A i \in 1 .. Len(operands) : s[Len(root) + i] = operands[i]
      /\ \A i \in 1 .. Len(new) : t[Len(root) + i] = new[i]
  <2>1. /\ Len(s) = Len(root) + Len(operands) /\ Len(root) \in Nat
        /\ \A i \in 1 .. Len(root) : s[i] = root[i]
        /\ \A i \in 1 .. Len(operands) : s[Len(root) + i] = operands[i]
    BY <1>1, Joining
  <2>2. /\ Len(t) = Len(root) + Len(new)
        /\ \A i \in 1 .. Len(root) : t[i] = root[i]
        /\ \A i \in 1 .. Len(new) : t[Len(root) + i] = new[i]
    <3>1. IsSeq(root) /\ IsSeq(new)
      BY <1>1, <1>3
    <3>2. \A u : IsSeq(u) => /\ Len(root \o u) = Len(root) + Len(u)
                             /\ \A i \in 1 .. Len(root) : (root \o u)[i] = root[i]
                             /\ \A i \in 1 .. Len(u) : (root \o u)[Len(root) + i] = u[i]
      BY <3>1, Joining
    <3>3. /\ Len(root \o new) = Len(root) + Len(new)
          /\ \A i \in 1 .. Len(root) : (root \o new)[i] = root[i]
          /\ \A i \in 1 .. Len(new) : (root \o new)[Len(root) + i] = new[i]
      BY <3>1, <3>2, Zenon
    <3>. QED  BY <3>3 DEF t
  <2>. HIDE DEF s, t
  <2>. QED  BY <2>1, <2>2
<1>. HIDE DEF s, t
<1>8. Replaces(t, s, n)
  <2>1. ASSUME NEW i \in 1 .. (Len(s) - n) PROVE t[i] = s[i]
    <3>1. CASE i <= Len(root)
      <4>1. i \in 1 .. Len(root)
        BY <1>7, <2>1, <3>1
      <4>. QED  BY <1>7, <4>1
    <3>2. CASE i > Len(root)
      <4> DEFINE j == i - Len(root)
      <4>1. i = Len(root) + j /\ j \in 1 .. (Len(operands) - n)
            /\ j \in 1 .. Len(operands) /\ j \in 1 .. Len(new)
        BY <1>1, <1>4, <1>7, <2>1, <3>2
      <4>. HIDE DEF j
      <4>2. t[Len(root) + j] = new[j] /\ s[Len(root) + j] = operands[j] /\ new[j] = operands[j]
        BY <1>4, <1>7, <4>1
      <4>. QED  BY <4>1, <4>2
    <3>. QED  BY <1>1, <1>7, <2>1, <3>1, <3>2
  <2>2. n <= Len(s) /\ Len(t) = Len(s) - n + 1
    BY <1>1, <1>4, <1>7
  <2>. QED  BY <1>5, <1>6, <2>1, <2>2 DEF Replaces
<1>9. t[Len(t)] = m
  <2>1. Len(new) \in 1 .. Len(new) /\ Len(t) = Len(root) + Len(new)
    BY <1>1, <1>4, <1>7
  <2>2. t[Len(root) + Len(new)] = new[Len(new)]
    BY <1>7, <2>1
  <2>. QED  BY <1>4, <2>1, <2>2
<1>10. LastNodes(s, n) = LastNodes(operands, n)
  <2>1. CASE n = 0
    BY <2>1 DEF LastNodes
  <2>2. CASE n = 1
    <3>1. Len(operands) \in 1 .. Len(operands)
      BY <1>1, <2>2
    <3>2. s[Len(s)] = operands[Len(operands)]
      BY <1>7, <3>1
    <3>. QED  BY <2>2, <3>2 DEF LastNodes
  <2>3. CASE n = 2
    <3>1. Len(operands) \in 1 .. Len(operands) /\ Len(operands) - 1 \in 1 .. Len(operands)
          /\ Len(s) - 1 = Len(root) + (Len(operands) - 1)
      BY <1>1, <1>7, <2>3
    <3>2. s[Len(s)] = operands[Len(operands)]
      BY <1>7, <3>1
    <3>3. s[Len(root) + (Len(operands) - 1)] = operands[Len(operands) - 1]
      BY <1>7, <3>1
    <3>4. s[Len(s) - 1] = operands[Len(operands) - 1]
      BY <3>1, <3>3
    <3>. QED  BY <2>3, <3>2, <3>4 DEF LastNodes
  <2>. QED  BY <2>1, <2>2, <2>3
<1>11. Nodes(t) = Nodes(s) - LastNodes(operands, n) + m.nodes /\ Nodes(s) \in Nat
  BY <1>8, <1>9, <1>10, Replacing
<1>. QED  BY <1>3, <1>4, <1>11 DEF new, left, s, t

\* The last element, and the last two.
LEMMA LastElements ==
    ASSUME NEW s, IsSeq(s)
    PROVE  /\ Len(s) >= 1 => SubSeq(s, Len(s) - 1 + 1, Len(s)) = <<s[Len(s)]>>
           /\ Len(s) >= 2 => SubSeq(s, Len(s) - 2 + 1, Len(s)) = <<s[Len(s) - 1], s[Len(s)]>>
<1> DEFINE S == ToSet(s)
           N == Len(s)
<1>1. s \in Seq(S) /\ N \in Nat /\ \A i \in 1 .. N : s[i] \in S
  BY DEF IsSeq
<1>. HIDE DEF S, N
<1>2. ASSUME NEW k \in Nat, k >= 1, k <= N
      PROVE  /\ SubSeq(s, k, N) \in Seq(S) /\ Len(SubSeq(s, k, N)) = N - k + 1
             /\ \A i \in 1 .. (N - k + 1) : SubSeq(s, k, N)[i] = s[k + i - 1]
  BY <1>1, <1>2 DEF N
<1>3. ASSUME N >= 1 PROVE SubSeq(s, N - 1 + 1, N) = <<s[N]>>
  <2> DEFINE t == SubSeq(s, N, N)
  <2>1. t \in Seq(S) /\ Len(t) = 1 /\ t[1] = s[N]
    BY <1>1, <1>2, <1>3
  <2>2. N - 1 + 1 = N
    BY <1>1
  <2>. HIDE DEF t
  <2>3. t = <<s[N]>>
    BY <2>1
  <2>. QED  BY <2>2, <2>3 DEF t
<1>4. ASSUME N >= 2 PROVE SubSeq(s, N - 2 + 1, N) = <<s[N - 1], s[N]>>
  <2> DEFINE k == N - 2 + 1
             t == SubSeq(s, k, N)
  <2>1. k \in Nat /\ k >= 1 /\ k <= N /\ N - k + 1 = 2 /\ k + 1 - 1 = N - 1 /\ k + 2 - 1 = N
    BY <1>1, <1>4
  <2>. HIDE DEF k
  <2>2. t \in Seq(S) /\ Len(t) = 2 /\ t[1] = s[N - 1] /\ t[2] = s[N]
    BY <1>2, <2>1
  <2>. HIDE DEF t
  <2>3. t = <<s[N - 1], s[N]>>
    BY <2>2
  <2>. QED  BY <2>3 DEF t, k
<1>. QED  BY <1>3, <1>4 DEF N

\* The operands that a new node takes.
LEMMA TakenOperands ==
    ASSUME IInv, NEW n \in 0 .. 2, n <= Len(operands)
    PROVE  /\ Taken(n) = [i \in 1 .. n |-> Taken(n)[i]] /\ (Taken(n) = <<>> <=> n = 0)
           /\ \A i \in 1 .. n : Sound(Taken(n)[i], kit.dicts)
           /\ Nodes(Taken(n)) = LastNodes(operands, n) /\ Nodes(Taken(n)) \in Nat
<1>0. IsSeq(operands)
  BY DEF IInv
<1>1. operands \in Seq(ToSet(operands)) /\ Len(operands) \in Nat
      /\ \A i \in 1 .. Len(operands) : Sound(operands[i], kit.dicts)
  <2>1. operands \in Seq(ToSet(operands))
    BY DEF IInv, IsSeq
  <2>. QED  BY <2>1 DEF IInv
<1>2. CASE n = 0
  <2>1. Taken(n) = <<>>
    BY <1>1, <1>2 DEF Taken
  <2>. QED  BY <1>2, <2>1, FewNodes DEF LastNodes
<1>3. CASE n = 1
  <2> DEFINE x == operands[Len(operands)]
  <2>1. Taken(n) = <<x>>
    BY <1>0, <1>1, <1>3, LastElements DEF Taken
  <2>2. Sound(x, kit.dicts)
    BY <1>1, <1>3
  <2>3. x.nodes \in Nat /\ LastNodes(operands, n) = x.nodes
    BY <1>3, <2>2 DEF Sound, LastNodes
  <2>. HIDE DEF x
  <2>. QED  BY <1>3, <2>1, <2>2, <2>3, FewNodes
<1>4. CASE n = 2
  <2> DEFINE x == operands[Len(operands) - 1]
             y == operands[Len(operands)]
  <2>1. Taken(n) = <<x, y>>
    BY <1>0, <1>1, <1>4, LastElements DEF Taken
  <2>2. Sound(x, kit.dicts) /\ Sound(y, kit.dicts)
    <3>1. Len(operands) \in 1 .. Len(operands) /\ Len(operands) - 1 \in 1 .. Len(operands)
      BY <1>1, <1>4
    <3>. QED  BY <1>1, <3>1
  <2>3. x.nodes \in Nat /\ y.nodes \in Nat /\ LastNodes(operands, n) = x.nodes + y.nodes
    BY <1>4, <2>2 DEF Sound, LastNodes
  <2>. HIDE DEF x, y
  <2>4. <<x, y>> = [i \in 1 .. 2 |-> <<x, y>>[i]] /\ <<x, y>> # <<>>
        /\ \A i \in 1 .. 2 : <<x, y>>[i] = x \/ <<x, y>>[i] = y
    OBVIOUS
  <2>5. Nodes(<<x, y>>) = x.nodes + y.nodes
    BY <2>3, FewNodes
  <2>. QED  BY <1>4, <2>1, <2>2, <2>3, <2>4, <2>5
<1>. QED  BY <1>2, <1>3, <1>4

\* A step that puts a sound node in the place of the last n operands.
LEMMA OperandsChange ==
    ASSUME IInv, NEW n \in 0 .. 2, n <= Len(operands), NEW m, Sound(m, kit.dicts),
           operands' = Append(Left(n), m), size' = size - LastNodes(operands, n) + m.nodes,
           UNCHANGED <<kit, strict, root, filters>>
    PROVE  IInv'
<1>1. m.nodes \in Nat
  BY DEF Sound
<1>2. /\ IsSeq(operands') /\ Len(operands') = Len(operands) - n + 1
      /\ operands'[Len(operands')] = m
      /\ \A i \in 1 .. (Len(operands) - n) : operands'[i] = operands[i]
      /\ Nodes(root \o operands')
           = Nodes(root \o operands) - LastNodes(operands, n) + m.nodes
  BY <1>1, InPlaceOf
<1>3. Len(operands) \in Nat
  BY Joining DEF IInv
<1>4. \A i \in 1 .. Len(operands') : Sound(operands'[i], kit'.dicts)
  <2>1. ASSUME NEW i \in 1 .. Len(operands') PROVE Sound(operands'[i], kit.dicts)
    <3>1. CASE i = Len(operands')
      BY <1>2, <3>1
    <3>2. CASE i # Len(operands')
      <4>1. i \in 1 .. (Len(operands) - n) /\ i \in 1 .. Len(operands)
        BY <1>2, <1>3, <2>1, <3>2
      <4>. QED  BY <1>2, <4>1 DEF IInv
    <3>. QED  BY <3>1, <3>2
  <2>. QED  BY <2>1
<1>5. TypeOK'
  <2>1. size' = Nodes(root' \o operands')
    BY <1>2 DEF IInv, TypeOK
  <2>. QED  BY <2>1 DEF IInv, TypeOK
<1>6. (root # <<>> => \A d \in kit.dicts : \E k \in 1 .. Len(filters) : Decides(k, root[1], filters, d))'
  BY DEF IInv
<1>. QED  BY <1>2, <1>4, <1>5, <1>6 DEF IInv

\* A node that is made of the last n operands.
LEMMA CreateKeeps ==
    ASSUME IInv, NEW n \in 0 .. 2, n <= Len(operands), NEW node, Takes(node, n), Create(node, n)
    PROVE  IInv'
<1> DEFINE parts == Taken(n)
           m == Made(node, parts)
<1>1. /\ parts = [i \in 1 .. n |-> parts[i]] /\ (parts = <<>> <=> n = 0)
      /\ \A i \in 1 .. n : Sound(parts[i], kit.dicts)
      /\ Nodes(parts) = LastNodes(operands, n) /\ Nodes(parts) \in Nat
  BY TakenOperands
<1>. HIDE DEF parts
<1>2. Sound(m, kit.dicts) /\ m.nodes = LastNodes(operands, n) + 1 /\ m.nodes \in Nat
  <2>1. Sound(m, kit.dicts)
    BY <1>1, MadeSound
  <2>. QED  BY <1>1, <2>1 DEF Made
<1>3. operands' = Append(Left(n), m) /\ size' = size + 1 /\ UNCHANGED <<kit, strict, root, filters>>
  BY DEF Create, parts
<1>4. size \in Nat
  <2>1. m.nodes \in Nat
    BY <1>2
  <2>2. Nodes(root \o operands) \in Nat
    BY <2>1, InPlaceOf
  <2>. QED  BY <2>2 DEF IInv, TypeOK
<1>. HIDE DEF m
<1>5. size' = size - LastNodes(operands, n) + m.nodes
  BY <1>1, <1>2, <1>3, <1>4
<1>. QED  BY <1>2, <1>3, <1>5, OperandsChange

-----------------------------------------------------------------------------
(* The steps *)

\* Sequences of at most two elements.
LEMMA ShortSequences ==
    /\ IsSeq(<<>>) /\ Len(<<>>) = 0
    /\ \A x : IsSeq(<<x>>) /\ <<x>> \o <<>> = <<x>> /\ <<>> \o <<x>> = <<x>>
    /\ \A x : Len(<<x>>) = 1 /\ <<x>>[1] = x /\ <<x>> # <<>>
    /\ \A x, y : <<x>> \o <<y>> = <<x, y>>
<1>1. IsSeq(<<>>)
  <2>1. <<>> \in Seq({})
    OBVIOUS
  <2>. QED  BY <2>1, OfItsElements
<1>2. ASSUME NEW x PROVE IsSeq(<<x>>)
  <2>1. <<x>> \in Seq({x})
    OBVIOUS
  <2>. QED  BY <2>1, OfItsElements
<1>3. ASSUME NEW x, NEW y
      PROVE  /\ <<x>> \o <<>> = <<x>> /\ <<>> \o <<x>> = <<x>> /\ <<x>> \o <<y>> = <<x, y>>
             /\ Len(<<x>>) = 1 /\ <<x>>[1] = x /\ <<x>> # <<>>
  <2>1. Len(<<x>>) = 1 /\ <<x>>[1] = x /\ <<x>> # <<>> /\ <<x>> \in Seq({x, y})
    OBVIOUS
  <2>2. <<y>> \in Seq({x, y}) /\ Len(<<y>>) = 1 /\ <<y>>[1] = y
    OBVIOUS
  <2>3. <<x>> \o <<>> = <<x>> /\ <<>> \o <<x>> = <<x>>
    BY <2>1
  <2>4. <<x>> \o <<y>> = <<x, y>>
    <3> DEFINE a == <<x>>
               b == <<y>>
               S == {x, y}
    <3>1. a \in Seq(S) /\ b \in Seq(S) /\ Len(a) = 1 /\ Len(b) = 1 /\ a[1] = x /\ b[1] = y
      BY <2>1, <2>2
    <3>. HIDE DEF a, b, S
    <3> DEFINE t == a \o b
    <3>2. t \in Seq(S)
      BY <3>1
    <3>3. Len(t) = 2 /\ t[1] = x /\ t[2] = y
      <4>1. IsSeq(a) /\ IsSeq(b) /\ 1 \in 1 .. Len(a) /\ 1 \in 1 .. Len(b) /\ Len(a) + 1 = 2
        BY <3>1, OfItsElements
      <4>2. Len(t) = Len(a) + Len(b) /\ t[1] = a[1] /\ t[Len(a) + 1] = b[1]
        BY <4>1, Joining
      <4>. HIDE DEF t
      <4>. QED  BY <3>1, <4>1, <4>2
    <3>. HIDE DEF t
    <3>4. t = <<x, y>>
      BY <3>2, <3>3
    <3>. QED  BY <3>4 DEF t, a, b
  <2>. QED  BY <2>1, <2>3, <2>4
<1>. QED  BY <1>1, <1>2, <1>3

LEMMA OneElement == ASSUME NEW s, IsSeq(s), Len(s) = 1 PROVE s = <<s[1]>>
<1>1. s \in Seq(ToSet(s))
  BY DEF IsSeq
<1>. QED  BY <1>1

LEMMA NoElement == ASSUME NEW s, IsSeq(s) PROVE Len(s) \in Nat /\ (Len(s) = 0 <=> s = <<>>)
<1>1. s \in Seq(ToSet(s))
  BY DEF IsSeq
<1>. QED  BY <1>1

\* The invariant holds of a tree that has no node yet.
LEMMA IInit == Init => IInv
<1>. SUFFICES ASSUME Init PROVE IInv
  OBVIOUS
<1>1. root \o operands = <<>>
  BY DEF Init
<1>2. IsSeq(operands) /\ IsSeq(root) /\ IsSeq(filters)
      /\ Len(operands) = 0 /\ Len(root) = 0 /\ Len(filters) = 0
  BY ShortSequences DEF Init
<1>3. kit.filters \in Nat
  BY KitsAssumption DEF Init
<1>4. TypeOK
  BY <1>1, <1>2, <1>3, FewNodes DEF Init, TypeOK
<1>. QED  BY <1>2, <1>4 DEF IInv, Init

\* createVariableNode to createPathNode, and createEmptyList.
LEMMA LeafKeeps == ASSUME IInv, CreateLeaf PROVE IInv'
<1>1. PICK node \in kit.leaves : Create(node, 0)
  BY DEF CreateLeaf
<1>2. Takes(node, 0)
  BY KitsAssumption DEF Takes, IInv, TypeOK
<1>3. 0 <= Len(operands)
  BY NoElement DEF IInv
<1>. QED  BY <1>1, <1>2, <1>3, CreateKeeps

\* createNotNode and createNegateNode.
LEMMA UnaryKeeps == ASSUME IInv, CreateUnary PROVE IInv'
<1>1. PICK op \in kit.unary : operands # <<>> /\ Create(<<op, Top.tree>>, 1)
  BY DEF CreateUnary
<1>2. op \in {"not", "neg"}
  BY KitsAssumption DEF IInv, TypeOK
<1>3. Takes(<<op, Top.tree>>, 1)
  <2>1. <<op, Top.tree>>[1] = op
    OBVIOUS
  <2>. QED  BY <1>2, <2>1 DEF Takes
<1>4. 1 <= Len(operands)
  BY <1>1, NoElement DEF IInv
<1>. QED  BY <1>1, <1>3, <1>4, CreateKeeps

\* createOrNode to createReminderNode.
LEMMA BinaryKeeps == ASSUME IInv, CreateBinary PROVE IInv'
<1>1. PICK op \in kit.binary :
        /\ Len(operands) >= 2
        /\ Create(BinaryNode(op, operands[Len(operands) - 1].tree, Top.tree, strict), 2)
  BY DEF CreateBinary
<1> DEFINE node == BinaryNode(op, operands[Len(operands) - 1].tree, Top.tree, strict)
<1>2. op \in BinaryOps
  BY KitsAssumption DEF IInv, TypeOK
<1>3. node[1] = op
  BY DEF BinaryNode, Ordered, Binary
<1>. HIDE DEF node
<1>4. Takes(node, 2)
  BY <1>2, <1>3 DEF Takes
<1>5. 2 <= Len(operands)
  BY <1>1, NoElement DEF IInv
<1>6. Create(node, 2)
  BY <1>1 DEF node
<1>. QED  BY <1>4, <1>5, <1>6, CreateKeeps

\* createListNode.
LEMMA ListKeeps == ASSUME IInv, CreateList PROVE IInv'
<1>1. operands # <<>> /\ Create(List(<<Top.tree>>), 1)
  BY DEF CreateList
<1>2. Takes(List(<<Top.tree>>), 1)
  <2>1. List(<<Top.tree>>)[1] = "list"
    BY DEF List
  <2>. QED  BY <2>1 DEF Takes
<1>3. 1 <= Len(operands)
  BY <1>1, NoElement DEF IInv
<1>. QED  BY <1>1, <1>2, <1>3, CreateKeeps

\* appendListNode: the element is one of the list's nodes now.
LEMMA AppendKeeps == ASSUME IInv, AppendListNode PROVE IInv'
<1> DEFINE list == operands[Len(operands) - 1]
           m == Appended(list, Top)
<1>1. /\ Len(operands) >= 2 /\ list.tree[1] = "list"
      /\ operands' = Append(Left(2), m)
      /\ UNCHANGED <<kit, strict, size, root, filters>>
  BY DEF AppendListNode
<1>2. Len(operands) \in Nat
  BY NoElement DEF IInv
<1>3. Len(operands) \in 1 .. Len(operands) /\ Len(operands) - 1 \in 1 .. Len(operands)
  BY <1>1, <1>2
<1>4. Sound(list, kit.dicts) /\ Sound(Top, kit.dicts)
  BY <1>3 DEF IInv, Top
<1>5. m.nodes = LastNodes(operands, 2)
  BY DEF Appended, LastNodes, Top
<1>6. Sound(m, kit.dicts)
  <2>. HIDE DEF list
  <2>. QED  BY <1>1, <1>4, AppendedSound
<1>. HIDE DEF m
<1>7. m.nodes \in Nat
  BY <1>6 DEF Sound
<1>8. size \in Nat
  <2>1. Nodes(root \o operands) \in Nat
    <3>1. 2 \in 0 .. 2 /\ 2 <= Len(operands)
      BY <1>1, <1>2
    <3>. QED  BY <1>7, <3>1, InPlaceOf
  <2>. QED  BY <2>1 DEF IInv, TypeOK
<1>9. size' = size - LastNodes(operands, 2) + m.nodes
  BY <1>1, <1>5, <1>7, <1>8
<1>10. 2 <= Len(operands)
  BY <1>1, <1>2
<1>. QED  BY <1>1, <1>6, <1>9, <1>10, OperandsChange

\* The value of the and-node that concatRoot makes.
LEMMA ValueOfConcat ==
    ASSUME NEW filter, NEW old, NEW d \in kit.dicts
    PROVE  ValueOf(Made(Binary("and", old.tree, filter.tree), <<old, filter>>), d)
             = IF Goes(old, d) THEN ValueOf(filter, d) ELSE ValueOf(old, d)
<1> DEFINE node == Binary("and", old.tree, filter.tree)
           parts == <<old, filter>>
           results == Results(parts, "as made", d)
<1>1. node[1] = "and" /\ InView(node, "as made") = node
  BY DEF Binary, InView
<1>2. results[1] = old.eval["as made"][d] /\ results[2] = filter.eval["as made"][d]
  <2>1. parts[1] = old /\ parts[2] = filter /\ DOMAIN parts = 1 .. 2
    OBVIOUS
  <2>. HIDE DEF parts
  <2>2. \A i \in DOMAIN parts : results[i] = parts[i].eval["as made"][d]
    BY DEF Results
  <2>3. 1 \in DOMAIN parts /\ 2 \in DOMAIN parts
    BY <2>1
  <2>. HIDE DEF results
  <2>. QED  BY <2>1, <2>2, <2>3
<1>3. Made(node, parts).eval["as made"][d] = EvalNode(node, results, d)
  <2>. HIDE DEF node, parts
  <2>. QED  BY <1>1, MadeEval DEF Views
<1>. HIDE DEF node, parts, results
<1>4. EvalNode(node, results, d).value = LazyResult("and", results[1], results[2]).value
  <2>1. node[1] \in {"or", "and"}
    BY <1>1
  <2>2. NodeValue(node, results, d) = LazyResult(node[1], results[1], results[2]).value
    BY <2>1, LazyNode
  <2>. QED  BY <1>1, <2>2, ValueOfNode
<1>5. LazyResult("and", results[1], results[2])
        = IF Goes(old, d) THEN results[2] ELSE results[1]
  BY <1>2, Zenon DEF LazyResult, Goes, ValueOf
<1>6. ValueOf(Made(node, parts), d)
        = IF Goes(old, d) THEN ValueOf(filter, d) ELSE ValueOf(old, d)
  BY <1>2, <1>3, <1>4, <1>5 DEF ValueOf
<1>. QED  BY <1>6 DEF node, parts

\* assignRoot and concatRoot: the root asks the new filter when all others agree.
LEMMA FilterKeeps == ASSUME IInv, EndOfFilter PROVE IInv'
<1> DEFINE concat == Made(ConcatRoot(Top.tree), <<root[1], Top>>)
<1>1. /\ Len(operands) = 1 /\ Len(filters) < kit.filters /\ operands' = <<>>
      /\ filters' = Append(filters, Top) /\ strict' \in BOOLEAN /\ kit' = kit
      /\ root = <<>> => root' = <<Top>> /\ size' = size
      /\ root # <<>> => root' = <<concat>> /\ size' = size + 1
  BY DEF EndOfFilter
<1>. HIDE DEF concat
<1>2. IsSeq(operands) /\ IsSeq(root) /\ IsSeq(filters) /\ kit \in Kits /\ kit.filters \in Nat
  BY KitsAssumption DEF IInv, TypeOK
<1>3. operands = <<Top>> /\ Top.nodes \in Nat
  <2>1. Sound(Top, kit.dicts)
    BY <1>1 DEF IInv, Top
  <2>. QED  BY <1>1, <1>2, <2>1, OneElement DEF Top, Sound
<1>4. /\ IsSeq(filters') /\ Len(filters') = Len(filters) + 1 /\ filters'[Len(filters) + 1] = Top
      /\ Len(filters) \in Nat /\ \A i \in 1 .. Len(filters) : filters'[i] = filters[i]
  BY <1>1, <1>2, Appending
<1>5. filters' # <<>>
  BY <1>4, ShortSequences
<1>6. IsSeq(operands') /\ Len(operands') = 0
  BY <1>1, ShortSequences
<1>7. PICK x : root' = <<x>>
  BY <1>1
<1>8. IsSeq(root') /\ Len(root') = 1 /\ root' # <<>> /\ root'[1] = x /\ root' \o operands' = <<x>>
  BY <1>1, <1>7, ShortSequences
<1>9. x.nodes \in Nat /\ size' = x.nodes
  <2>1. CASE root = <<>>
    <3>1. x = Top
      BY <1>1, <1>8, <2>1, ShortSequences
    <3>2. size = Nodes(<<Top>>)
      BY <1>3, <2>1, ShortSequences DEF IInv, TypeOK
    <3>. QED  BY <1>1, <1>3, <2>1, <3>1, <3>2, FewNodes
  <2>2. CASE root # <<>>
    <3>1. root = <<root[1]>> /\ root[1].nodes \in Nat
      <4>1. Len(root) = 1
        <5>1. Len(root) <= 1
          BY DEF IInv, TypeOK
        <5>2. Len(root) \in Nat /\ Len(root) # 0
          BY <1>2, <2>2, NoElement
        <5>3. \A n \in Nat : n <= 1 /\ n # 0 => n = 1
          OBVIOUS
        <5>. QED  BY <5>1, <5>2, <5>3, Zenon
      <4>. QED  BY <1>2, <4>1, OneElement DEF IInv
    <3>2. size = root[1].nodes + Top.nodes
      <4>1. root \o operands = <<root[1], Top>>
        BY <1>3, <3>1, ShortSequences
      <4>. QED  BY <1>3, <3>1, <4>1, FewNodes DEF IInv, TypeOK
    <3>3. x = concat
      BY <1>1, <1>8, <2>2, ShortSequences
    <3>4. concat.nodes = root[1].nodes + Top.nodes + 1
      BY <1>3, <3>1, FewNodes DEF concat, Made
    <3>. QED  BY <1>1, <1>3, <2>2, <3>1, <3>2, <3>3, <3>4
  <2>. QED  BY <2>1, <2>2
<1>10. TypeOK'
  <2>1. size' = Nodes(root' \o operands')
    BY <1>8, <1>9, FewNodes
  <2>2. Len(filters') <= kit'.filters
    BY <1>1, <1>2, <1>4
  <2>. QED  BY <1>1, <1>2, <1>5, <1>8, <2>1, <2>2 DEF TypeOK
<1>11. ASSUME NEW d \in kit.dicts PROVE \E k \in 1 .. Len(filters') : Decides(k, root'[1], filters', d)
  <2>0. PICK last : last = Len(filters) + 1
    OBVIOUS
  <2>1. last \in 1 .. Len(filters') /\ filters'[last] = Top
    BY <1>4, <2>0
  <2>2. CASE root = <<>>
    <3>1. filters = <<>> /\ Len(filters) = 0
      BY <1>2, <2>2, NoElement DEF IInv, TypeOK
    <3>2. root'[1] = Top
      BY <1>1, <2>2, ShortSequences
    <3>3. Decides(1, root'[1], filters', d)
      <4>1. filters'[1] = Top /\ Len(filters') = 1 /\ 1 .. (1 - 1) = {}
        BY <1>4, <3>1
      <4>. QED  BY <3>2, <4>1 DEF Decides
    <3>. QED  BY <1>4, <3>1, <3>3
  <2>3. CASE root # <<>>
    <3>1. PICK k \in 1 .. Len(filters) : Decides(k, root[1], filters, d)
      BY <1>11, <2>3 DEF IInv
    <3>2. root'[1] = concat
      BY <1>1, <2>3, ShortSequences
    <3>3. ValueOf(root'[1], d) = IF Goes(root[1], d) THEN ValueOf(Top, d) ELSE ValueOf(root[1], d)
      BY <1>11, <3>2, ValueOfConcat DEF concat, ConcatRoot
    <3>4. Goes(root[1], d) <=> Goes(filters[k], d)
      BY <3>1 DEF Decides, Goes
    <3>5. ASSUME Goes(filters[k], d) PROVE Decides(last, root'[1], filters', d)
      <4>1. k = Len(filters)
        BY <3>1, <3>5 DEF Decides
      <4>2. \A j \in 1 .. (last - 1) : Goes(filters[j], d) /\ filters'[j] = filters[j]
        <5>1. ASSUME NEW j \in 1 .. (last - 1) PROVE Goes(filters[j], d) /\ filters'[j] = filters[j]
          <6>1. j \in 1 .. Len(filters)
            BY <1>4, <2>0
          <6>2. j = k \/ j \in 1 .. (k - 1)
            BY <1>4, <4>1, <6>1
          <6>. QED  BY <1>4, <3>1, <3>5, <6>1, <6>2 DEF Decides
        <5>. QED  BY <5>1
      <4>3. ValueOf(root'[1], d) = ValueOf(filters'[last], d)
        BY <2>1, <3>3, <3>4, <3>5
      <4>4. last = Len(filters')
        BY <1>4, <2>0
      <4>. QED  BY <2>1, <4>2, <4>3, <4>4 DEF Decides
    <3>6. ASSUME ~Goes(filters[k], d) PROVE Decides(k, root'[1], filters', d)
      <4>1. k \in 1 .. Len(filters') /\ filters'[k] = filters[k]
        BY <1>4, <3>1
      <4>2. \A j \in 1 .. (k - 1) : Goes(filters[j], d) /\ filters'[j] = filters[j]
        <5>1. \A j \in 1 .. (k - 1) : j \in 1 .. Len(filters)
          BY <1>4, <3>1
        <5>. QED  BY <1>4, <3>1, <5>1 DEF Decides
      <4>3. ValueOf(root'[1], d) = ValueOf(filters'[k], d)
        <5>1. ValueOf(root'[1], d) = ValueOf(root[1], d)
          BY <3>3, <3>4, <3>6
        <5>. QED  BY <3>1, <4>1, <5>1 DEF Decides
      <4>. QED  BY <3>6, <4>1, <4>2, <4>3 DEF Decides
    <3>7. k \in 1 .. Len(filters')
      BY <1>4, <3>1
    <3>. QED  BY <2>1, <3>5, <3>6, <3>7, Zenon
  <2>. QED  BY <2>2, <2>3
<1>12. \A i \in 1 .. Len(operands') : Sound(operands'[i], kit'.dicts)
  BY <1>6
<1>13. \A i \in 1 .. Len(root') : root'[i].nodes \in Nat
  BY <1>8, <1>9
<1>. QED  BY <1>1, <1>4, <1>6, <1>8, <1>10, <1>11, <1>12, <1>13 DEF IInv

LEMMA Inductive == ASSUME IInv, [Next]_vars PROVE IInv'
<1>1. CASE CreateLeaf
  BY <1>1, LeafKeeps
<1>2. CASE CreateUnary
  BY <1>2, UnaryKeeps
<1>3. CASE CreateBinary
  BY <1>3, BinaryKeeps
<1>4. CASE CreateList
  BY <1>4, ListKeeps
<1>5. CASE AppendListNode
  BY <1>5, AppendKeeps
<1>6. CASE EndOfFilter
  BY <1>6, FilterKeeps
<1>7. CASE UNCHANGED vars
  <2>1. (root # <<>> => \A d \in kit.dicts : \E k \in 1 .. Len(filters) : Decides(k, root[1], filters, d))'
    BY <1>7 DEF vars, IInv
  <2>. QED  BY <1>7, <2>1 DEF vars, IInv, TypeOK
<1>. QED  BY <1>1, <1>2, <1>3, <1>4, <1>5, <1>6, <1>7 DEF Next

\* Of every tree: the invariant, on which the theorems rest.
LEMMA Invariance == Spec => []IInv
<1>1. Init => IInv
  BY IInit
<1>2. IInv /\ [Next]_vars => IInv'
  BY Inductive
<1>. QED  BY <1>1, <1>2, PTL DEF Spec

-----------------------------------------------------------------------------
(* The theorems *)

\* createListNode, appendListNode and the other factories put every node of the heap
\* into one tree: none is shared, which two destructors would come to, and none lost.
THEOREM EveryNodeHasOneOwner == Spec => []TypeOK
<1>1. IInv => TypeOK
  BY DEF IInv
<1>. QED  BY <1>1, Invariance, PTL

\* StrictCmp and NonStrictCmp, as deep as they may be in a filter, make no difference
\* but that one answers where the other raises.
THEOREM ModesDifferInMissingOnly == Spec => []ModesAgree
<1>1. ASSUME IInv PROVE ModesAgree
  <2>1. DOMAIN operands = 1 .. Len(operands)
    BY <1>1 DEF IInv, IsSeq
  <2>. QED  BY <1>1, <2>1 DEF IInv, Sound, Agree, ModesAgree
<1>. QED  BY <1>1, Invariance, PTL

\* NonStrictCmp keeps a missing value from every operator that would raise: a filter
\* of numbers, variables and what compares and combines them always has a value.
THEOREM NumericFiltersAnswer == Spec => []NonStrictAnswers
<1>1. ASSUME IInv PROVE NonStrictAnswers
  <2>1. DOMAIN operands = 1 .. Len(operands)
    BY <1>1 DEF IInv, IsSeq
  <2>2. ASSUME NEW i \in DOMAIN operands, NEW d \in kit.dicts, operands[i].numeric[d]
        PROVE  operands[i].eval["non-strict"][d].value # Raised
    <3>1. NumberOrNone(operands[i].eval["non-strict"][d].value)
      BY <1>1, <2>1, <2>2 DEF IInv, Sound
    <3>. QED  BY <3>1, Answers DEF NumberOrNone
  <2>. QED  BY <2>2 DEF NonStrictAnswers
<1>. QED  BY <1>1, Invariance, PTL

LEMMA TruthIsTold == \A o : Truth(o) \in BOOLEAN
<1>. QED  BY DEF Truth

LEMMA TwoBools == PyBool(TRUE) # PyBool(FALSE)
  BY DEF PyBool

\* What evalBool answers of a filter, and whether the filters behind it are asked.
LEMMA AnswerOf ==
    ASSUME NEW filter, NEW d
    PROVE  EvalBool(filter, d) # Raised =>
              EvalBool(filter, d) = IF Goes(filter, d) THEN PyBool(TRUE) ELSE PyBool(FALSE)
<1> DEFINE o == ValueOf(filter, d)
<1>. SUFFICES ASSUME EvalBool(filter, d) # Raised
              PROVE  EvalBool(filter, d) = IF Goes(filter, d) THEN PyBool(TRUE) ELSE PyBool(FALSE)
  OBVIOUS
<1>1. EvalBool(filter, d) = ToBool(o)
  BY DEF EvalBool, ValueOf
<1>. HIDE DEF o
<1>2. Type(o) \in {"None", "bool", "int"} /\ EvalBool(filter, d) = PyBool(Truth(o))
  BY <1>1, Zenon DEF ToBool
<1>3. o # Raised
  <2>1. Type(Raised) = "raised"
    BY DEF Type, Raised
  <2>. QED  BY <1>2, <2>1
<1>4. Goes(filter, d) <=> Truth(o)
  BY <1>3, Zenon DEF Goes, o
<1>5. CASE Truth(o)
  <2>1. Truth(o) = TRUE
    BY <1>5, TruthIsTold
  <2>. QED  BY <1>2, <1>4, <2>1, Zenon
<1>6. CASE ~Truth(o)
  <2>1. Truth(o) = FALSE
    BY <1>6, TruthIsTold
  <2>. QED  BY <1>2, <1>4, <2>1, Zenon
<1>. QED  BY <1>5, <1>6

\* A root answers as the filter does that decides.
LEMMA RootAnswers ==
    ASSUME IInv, root # <<>>, NEW d \in kit.dicts
    PROVE  \E k \in 1 .. Len(filters) :
              Decides(k, root[1], filters, d) /\ EvalBool(root[1], d) = EvalBool(filters[k], d)
<1>1. PICK k \in 1 .. Len(filters) : Decides(k, root[1], filters, d)
  BY DEF IInv
<1>. QED  BY <1>1, Zenon DEF Decides, EvalBool, ValueOf

\* concatRoot makes the conjunction of its filters, whatever the objects are that they
\* give and evalBool converts, of every number of filters that all answer.
THEOREM RootIsConjunction == Spec => []ConcatIsConjunction
<1>1. ASSUME IInv, NEW d \in kit.dicts, root # <<>>,
             \A i \in DOMAIN filters : EvalBool(filters[i], d) # Raised
      PROVE  EvalBool(root[1], d)
               = PyBool(\A i \in DOMAIN filters : EvalBool(filters[i], d) = PyBool(TRUE))
  <2>1. DOMAIN filters = 1 .. Len(filters)
    BY <1>1 DEF IInv, IsSeq
  <2>2. PICK k \in DOMAIN filters :
           Decides(k, root[1], filters, d) /\ EvalBool(root[1], d) = EvalBool(filters[k], d)
    BY <1>1, <2>1, RootAnswers
  <2>3. \A i \in DOMAIN filters : EvalBool(filters[i], d)
                                    = IF Goes(filters[i], d) THEN PyBool(TRUE) ELSE PyBool(FALSE)
    BY <1>1, AnswerOf
  <2>4. CASE Goes(filters[k], d)
    <3>1. \A i \in DOMAIN filters : Goes(filters[i], d)
      <4>1. k = Len(filters)
        BY <2>2, <2>4 DEF Decides
      <4>2. \A i \in DOMAIN filters : i = k \/ i \in 1 .. (k - 1)
        BY <2>1, <4>1
      <4>. QED  BY <2>2, <2>4, <4>2 DEF Decides
    <3>2. (\A i \in DOMAIN filters : EvalBool(filters[i], d) = PyBool(TRUE)) = TRUE
      BY <2>3, <3>1
    <3>. QED  BY <2>2, <2>3, <2>4, <3>2, Zenon
  <2>5. CASE ~Goes(filters[k], d)
    <3>1. EvalBool(filters[k], d) = PyBool(FALSE)
      BY <2>2, <2>3, <2>5
    <3>2. (\A i \in DOMAIN filters : EvalBool(filters[i], d) = PyBool(TRUE)) = FALSE
      BY <2>2, <3>1, TwoBools, Zenon
    <3>. QED  BY <2>2, <3>1, <3>2, Zenon
  <2>. QED  BY <2>4, <2>5
<1>2. ASSUME IInv PROVE ConcatIsConjunction
  BY <1>1, <1>2, Zenon DEF ConcatIsConjunction
<1>. QED  BY <1>2, Invariance, PTL

\* A filter turns a dict down for all that are concatenated behind it, those included
\* that would raise or give what evalBool does not convert.
THEOREM RefusalsAreFinal == Spec => []FirstRefusalDecides
<1>1. ASSUME IInv, NEW d \in kit.dicts, NEW i \in DOMAIN filters,
             EvalBool(filters[i], d) = PyBool(FALSE),
             \A j \in 1 .. (i - 1) : EvalBool(filters[j], d) = PyBool(TRUE)
      PROVE  EvalBool(root[1], d) = PyBool(FALSE)
  <2>1. DOMAIN filters = 1 .. Len(filters) /\ Len(filters) \in Nat
    BY <1>1 DEF IInv, IsSeq
  <2>2. root # <<>>
    <3>1. filters # <<>>
      BY <1>1
    <3>. QED  BY <1>1, <3>1 DEF IInv, TypeOK
  <2>3. PICK k \in 1 .. Len(filters) :
           Decides(k, root[1], filters, d) /\ EvalBool(root[1], d) = EvalBool(filters[k], d)
    BY <1>1, <2>2, RootAnswers
  <2>4. ~Goes(filters[i], d)
    BY <1>1, AnswerOf, Answers, TwoBools, Zenon
  <2>5. \A j \in 1 .. (i - 1) : Goes(filters[j], d)
    BY <1>1, AnswerOf, Answers, TwoBools, Zenon
  <2>6. k = i
    <3>1. CASE k < i
      <4>1. Goes(filters[k], d)
        BY <2>1, <2>5, <3>1
      <4>2. k = Len(filters)
        BY <2>3, <4>1 DEF Decides
      <4>. QED  BY <1>1, <2>1, <3>1, <4>2
    <3>2. CASE k > i
      <4>1. i \in 1 .. (k - 1)
        BY <1>1, <2>1, <3>2
      <4>. QED  BY <2>3, <2>4, <4>1 DEF Decides
    <3>. QED  BY <1>1, <2>1, <3>1, <3>2
  <2>. QED  BY <1>1, <2>3, <2>6
<1>2. ASSUME IInv PROVE FirstRefusalDecides
  BY <1>1, <1>2, Zenon DEF FirstRefusalDecides
<1>. QED  BY <1>2, Invariance, PTL
=============================================================================
