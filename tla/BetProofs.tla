------------------------------ MODULE BetProofs ------------------------------
(* For every set of threads, dicts and filters, and a heap of every size: a    *)
(* match only comes to nodes of the heap, and the destructor comes to no node  *)
(* twice; the bet of ql/qlpython.cpp behaves as the list of filters that        *)
(* Conjunction promises; and only an empty text, or none, leaves a null it      *)
(* could die of.                                                               *)
(*                                                                             *)
(* FiltersOf and Under descend a tree, so what they return is shown by         *)
(* induction on the index of the node: operands are older than their node.     *)
EXTENDS Bet, NaturalLemmas

\* A node that concatRoot appends keeps the nodes that were there.
LEMMA Appended ==
    ASSUME NEW h \in Seq(Node), NEW node \in Node
    PROVE  /\ Append(h, node) \in Seq(Node)
           /\ Len(Append(h, node)) = Len(h) + 1
           /\ DOMAIN Append(h, node) = 1..(Len(h) + 1)
           /\ Append(h, node)[Len(h) + 1] = node
           /\ \A n \in DOMAIN h : Append(h, node)[n] = h[n]
           /\ DOMAIN h = 1..Len(h) /\ Len(h) \in Nat
  OBVIOUS

\* The node parsing makes for a filter is a node.
LEMMA FilterNodes == \A f \in Filter : FilterNode(f) \in Node /\ FilterNode(f).kind = "filter"
  BY DEF Node, FilterNode

\* The node concatRoot makes is a node with the two operands it is given.
LEMMA AndNodes ==
    \A lhs, rhs \in Nat : /\ AndNode(lhs, rhs) \in Node
                          /\ AndNode(lhs, rhs).kind = "and"
                          /\ AndNode(lhs, rhs).lhs = lhs /\ AndNode(lhs, rhs).rhs = rhs
  BY DEF Node, AndNode

-----------------------------------------------------------------------------
(* The conjunct of TypeOK about the heap, for a heap that is not the variable. *)

Ordered(h) ==
    /\ h \in Seq(Node)
    /\ \A n \in DOMAIN h : h[n].kind = "and" => h[n].lhs < n /\ h[n].rhs < n

Extends(h) == Len(h) >= Len(heap) /\ \A n \in DOMAIN heap : h[n] = heap[n]

\* What parsing appends: a filter, nothing, or what is left of a syntax error.
LEMMA ParsedOrdered ==
    ASSUME TypeOK, NEW f \in Filter
    PROVE  LET h == Append(heap, FilterNode(f))
           IN  Ordered(h) /\ Extends(h) /\ Len(h) = Len(heap) + 1
  BY Appended, FilterNodes DEF TypeOK, Ordered, Extends, IsAnd

\* In every typed state operands are older than their nodes.
LEMMA HeapOrdered == TypeOK => Ordered(heap) /\ Extends(heap)
  BY DEF TypeOK, Ordered, Extends, IsAnd

\* What is left of TypeOK when a call appends to the heap.
LEMMA GrownTyped ==
    ASSUME TypeOK, Ordered(heap'), Len(heap') >= Len(heap),
           root' \in 0..Len(heap'), UNCHANGED <<call, answer, status, debug>>,
           empty' \in BOOLEAN
    PROVE  TypeOK'
  <1>1. Len(heap) \in Nat /\ Len(heap') \in Nat
    BY DEF TypeOK, Ordered
  <1>2. \A n \in 0..Len(heap) : n \in 0..Len(heap')
    BY <1>1
  <1>3. \A n \in 1..Len(heap) : n \in 1..Len(heap')
    BY <1>1
  <1>4. QED
    BY <1>2, <1>3 DEF TypeOK, Ordered, Running, Todo, IsAnd

\* concatRoot keeps the heap ordered, and every running match inside it.
LEMMA ConcatTyped ==
    ASSUME TypeOK, NEW h, NEW node \in 0..Len(h), Ordered(h), Extends(h),
           ConcatRoot(h, node), UNCHANGED <<call, answer, status, debug>>,
           empty' \in BOOLEAN
    PROVE  TypeOK'
  <1> DEFINE new == AndNode(root, node)
  <1>1. Len(h) \in Nat /\ Len(heap) \in Nat /\ Len(h) >= Len(heap)
    BY DEF Ordered, Extends, TypeOK
  <1>2. root \in Nat /\ node \in Nat /\ root < Len(h) + 1 /\ node < Len(h) + 1
    BY <1>1 DEF TypeOK
  <1>3. new \in Node /\ new.lhs = root /\ new.rhs = node
    BY <1>2, AndNodes
  <1>4. h \in Seq(Node)
    BY DEF Ordered
  <1>5. /\ heap' \in Seq(Node) /\ Len(heap') = Len(h) + 1
        /\ DOMAIN heap' = 1..(Len(h) + 1) /\ heap'[Len(h) + 1] = new
        /\ \A n \in DOMAIN h : heap'[n] = h[n]
        /\ DOMAIN h = 1..Len(h)
    BY <1>3, <1>4, Appended DEF ConcatRoot
  <1>6. Ordered(heap')
    <2> SUFFICES ASSUME NEW n \in DOMAIN heap', heap'[n].kind = "and"
                 PROVE  heap'[n].lhs < n /\ heap'[n].rhs < n
      BY <1>5 DEF Ordered
    <2>1. CASE n = Len(h) + 1
      BY <2>1, <1>2, <1>3, <1>5
    <2>2. CASE n # Len(h) + 1
      <3>1. n \in DOMAIN h
        BY <2>2, <1>1, <1>5
      <3>2. QED
        BY <3>1, <1>5 DEF Ordered
    <2>3. QED
      BY <2>1, <2>2
  <1>7. root' \in 0..Len(heap')
    BY <1>1, <1>5 DEF ConcatRoot
  <1>8. QED
    BY <1>1, <1>5, <1>6, <1>7, GrownTyped

\* A match takes its next steps on operands of nodes it has come to.
LEMMA EvalTyped ==
    ASSUME TypeOK, NEW t \in Thread, EvalAnd(t)
    PROVE  TypeOK'
  <1> DEFINE top == Head(Todo(t))
             node == heap[top]
             rest == Tail(Todo(t))
             next == <<node.lhs, node.rhs>> \o rest
  <1>1. call[t] \in Call /\ Todo(t) \in Seq(Nat) /\ Todo(t) # <<>>
    BY DEF TypeOK, EvalAnd, Running, Todo, Call
  <1>2. top \in 1..Len(heap) /\ heap \in Seq(Node)
    BY <1>1 DEF TypeOK, EvalAnd, Running, Null
  <1>3. node \in Node /\ node.kind = "and"
    BY <1>2 DEF EvalAnd, IsAnd
  <1>4. node.lhs \in Nat /\ node.rhs \in Nat /\ node.lhs < top /\ node.rhs < top
    <2>1. node.lhs \in Nat /\ node.rhs \in Nat
      BY <1>3 DEF Node
    <2>2. top \in DOMAIN heap
      BY <1>2
    <2>3. QED
      BY <2>1, <2>2, <1>3 DEF TypeOK, IsAnd
  <1>5. node.lhs \in 0..Len(heap) /\ node.rhs \in 0..Len(heap)
    BY <1>2, <1>4
  <1>6. /\ rest \in Seq(Nat)
        /\ \A i \in DOMAIN rest : rest[i] = Todo(t)[i + 1] /\ i + 1 \in DOMAIN Todo(t)
    BY <1>1
  <1>7. /\ next \in Seq(Nat) /\ next # <<>>
        /\ \A i \in DOMAIN next : next[i] = node.lhs \/ next[i] = node.rhs
                                  \/ \E j \in DOMAIN rest : next[i] = rest[j]
    BY <1>4, <1>6
  <1>8. \A i \in DOMAIN next : next[i] \in 0..Len(heap)
    <2>1. \A j \in DOMAIN rest : rest[j] \in 0..Len(heap)
      BY <1>6 DEF TypeOK, Running, EvalAnd
    <2>2. QED
      BY <1>5, <1>7, <2>1
  <1>9. call' = [call EXCEPT ![t].todo = next]
    BY DEF EvalAnd, Todo
  <1>10. [call[t] EXCEPT !.todo = next] \in Call
    BY <1>1, <1>7 DEF Call
  <1>11. call' \in [Thread -> Call \cup {NoCall}] /\ call'[t] = [call[t] EXCEPT !.todo = next]
    BY <1>9, <1>10 DEF TypeOK
  <1>12. \A u \in Thread : u # t => call'[u] = call[u]
    BY <1>9 DEF TypeOK
  <1>13. call'[t].root = call[t].root /\ call'[t].todo = next
    BY <1>1, <1>11 DEF Call
  <1>14. UNCHANGED <<heap, root, answer, status, debug, empty>>
    BY DEF EvalAnd
  <1>15. ASSUME NEW u \in Thread, Running(u)'
         PROVE  /\ call'[u].root \in 1..Len(heap')
                /\ Todo(u)' # <<>>
                /\ \A i \in DOMAIN Todo(u)' : Todo(u)'[i] \in 0..Len(heap')
    <2>1. CASE u = t
      BY <2>1, <1>7, <1>8, <1>13, <1>14 DEF TypeOK, Running, Todo, EvalAnd
    <2>2. CASE u # t
      BY <2>2, <1>12, <1>14, <1>15 DEF TypeOK, Running, Todo
    <2>3. QED
      BY <2>1, <2>2
  <1>16. QED
    BY <1>11, <1>14, <1>15 DEF TypeOK, IsAnd

\* What is left of several operands when the first one is done.
LEMMA RestOfMany ==
    ASSUME NEW s \in Seq(Nat), Len(s) > 1
    PROVE  /\ Tail(s) \in Seq(Nat) /\ Tail(s) # <<>>
           /\ \A i \in DOMAIN Tail(s) : Tail(s)[i] = s[i + 1] /\ i + 1 \in DOMAIN s
  <1>1. s # <<>>
    OBVIOUS
  <1>2. Tail(s) \in Seq(Nat) /\ Len(Tail(s)) = Len(s) - 1
    BY <1>1
  <1>3. \A i \in 1..(Len(s) - 1) : Tail(s)[i] = s[i + 1] /\ i + 1 \in 1..Len(s)
    BY <1>1
  <1>4. Tail(s) # <<>>
    <2>1. \A x \in Seq(Nat) : Len(x) > 0 => x # <<>>
      OBVIOUS
    <2>2. Len(s) - 1 > 0
      OBVIOUS
    <2>3. QED
      BY <1>2, <2>1, <2>2
  <1>5. DOMAIN Tail(s) = 1..(Len(s) - 1) /\ DOMAIN s = 1..Len(s)
    BY <1>2
  <1>6. QED
    BY <1>2, <1>3, <1>4, <1>5

\* A match that evaluates a filter goes on with the rest of its operands or
\* answers (AndNode::eval, evalBool).
LEMMA FilterTyped ==
    ASSUME TypeOK, NEW t \in Thread, EvalFilter(t)
    PROVE  TypeOK'
  <1> DEFINE value == heap[Head(Todo(t))].filter[call[t].dict]
  <1>1. call[t] \in Call /\ Todo(t) \in Seq(Nat) /\ Todo(t) # <<>>
    BY DEF TypeOK, EvalFilter, Running, Todo, Call
  <1>2. UNCHANGED <<heap, root, status, debug, empty>>
    BY DEF EvalFilter
  <1>3. CASE value \in Truthy /\ Len(Todo(t)) > 1
    <2> DEFINE rest == Tail(Todo(t))
    <2>1. call' = [call EXCEPT ![t].todo = rest] /\ UNCHANGED answer
      BY <1>3 DEF EvalFilter, Todo
    <2>2. /\ rest \in Seq(Nat) /\ rest # <<>>
          /\ \A i \in DOMAIN rest : rest[i] = Todo(t)[i + 1] /\ i + 1 \in DOMAIN Todo(t)
      BY <1>1, <1>3, RestOfMany
    <2>3. \A i \in DOMAIN rest : rest[i] \in 0..Len(heap)
      BY <2>2 DEF TypeOK, EvalFilter
    <2>4. [call[t] EXCEPT !.todo = rest] \in Call
      BY <1>1, <2>2 DEF Call
    <2>5. /\ call' \in [Thread -> Call \cup {NoCall}]
          /\ call'[t] = [call[t] EXCEPT !.todo = rest]
          /\ \A u \in Thread : u # t => call'[u] = call[u]
      BY <2>1, <2>4 DEF TypeOK
    <2>6. call'[t].root = call[t].root /\ call'[t].todo = rest
      BY <1>1, <2>5 DEF Call
    <2>7. ASSUME NEW u \in Thread, Running(u)'
          PROVE  /\ call'[u].root \in 1..Len(heap')
                 /\ Todo(u)' # <<>>
                 /\ \A i \in DOMAIN Todo(u)' : Todo(u)'[i] \in 0..Len(heap')
      <3>1. CASE u = t
        BY <3>1, <1>2, <2>2, <2>3, <2>6 DEF TypeOK, Running, Todo, EvalFilter
      <3>2. CASE u # t
        BY <3>2, <1>2, <2>5, <2>7 DEF TypeOK, Running, Todo
      <3>3. QED
        BY <3>1, <3>2
    <2>8. QED
      BY <1>2, <2>1, <2>5, <2>7 DEF TypeOK, IsAnd
  <1>4. CASE ~(value \in Truthy /\ Len(Todo(t)) > 1)
    <2>1. call' = [call EXCEPT ![t] = NoCall]
          /\ answer' = [answer EXCEPT ![t] = Extract(value)]
      BY <1>4 DEF EvalFilter
    <2>2. value \in Value
      <3>1. Head(Todo(t)) \in 1..Len(heap) /\ heap \in Seq(Node)
        BY <1>1 DEF TypeOK, EvalFilter, Running, Null
      <3>2. heap[Head(Todo(t))] \in Node /\ heap[Head(Todo(t))].kind # "and"
        BY <3>1 DEF EvalFilter, IsAnd
      <3>3. heap[Head(Todo(t))].filter \in Filter
        BY <3>2 DEF Node
      <3>4. call[t].dict \in Dict
        BY <1>1 DEF Call
      <3>5. QED
        BY <3>3, <3>4, FilterAssumption
    <2>3. Extract(value) \in {"True", "False", "raises"}
      BY <2>2 DEF Value, Truthy, Extract
    <2>4. answer' \in [Thread -> {"none", "True", "False", "raises"}]
      BY <2>1, <2>3 DEF TypeOK
    <2>5. /\ call' \in [Thread -> Call \cup {NoCall}]
          /\ \A u \in Thread : Running(u)' => Running(u) /\ call'[u] = call[u]
      BY <2>1 DEF TypeOK, Running
    <2>6. QED
      BY <1>2, <2>4, <2>5 DEF TypeOK, IsAnd, Todo
  <1>5. QED
    BY <1>3, <1>4

\* Init, and each step, for TypeOK.
LEMMA TypedInit == Init => TypeOK
  <1> SUFFICES ASSUME Init PROVE TypeOK
    OBVIOUS
  <1>1. \A t \in Thread : ~Running(t)
    BY DEF Init, Running
  <1>2. call \in [Thread -> Call \cup {NoCall}]
        /\ answer \in [Thread -> {"none", "True", "False", "raises"}]
    BY DEF Init
  <1>3. CASE heap = <<>> /\ root = Null /\ empty = TRUE
    BY <1>1, <1>2, <1>3 DEF Init, TypeOK, Null
  <1>4. ASSUME NEW f \in Filter, heap = <<FilterNode(f)>>, root = 1, empty = FALSE
        PROVE  TypeOK
    <2>1. /\ heap \in Seq(Node) /\ Len(heap) = 1
          /\ \A n \in DOMAIN heap : heap[n] = FilterNode(f)
      BY <1>4, FilterNodes
    <2>2. \A n \in DOMAIN heap : ~IsAnd(n)
      BY <2>1, FilterNodes DEF IsAnd
    <2>3. root \in 0..Len(heap)
      BY <1>4, <2>1
    <2>4. status = "alive" /\ debug \in BOOLEAN /\ empty \in BOOLEAN
      BY <1>4 DEF Init
    <2>5. QED
      BY <1>1, <1>2, <2>1, <2>2, <2>3, <2>4 DEF TypeOK
  <1>5. QED
    BY <1>3, <1>4 DEF Init

\* Every action keeps TypeOK.
LEMMA TypedNext == TypeOK /\ [Next]_vars => TypeOK'
  <1> SUFFICES ASSUME TypeOK, [Next]_vars PROVE TypeOK'
    OBVIOUS
  <1>1. ASSUME NEW f \in Filter, Concat(f) PROVE TypeOK'
    <2> DEFINE h == Append(heap, FilterNode(f))
    <2>1. Ordered(h) /\ Extends(h) /\ Len(h) = Len(heap) + 1
      BY ParsedOrdered
    <2>2. Len(heap) + 1 \in 0..Len(h)
      BY <2>1 DEF TypeOK
    <2>3. ConcatRoot(h, Len(heap) + 1) /\ UNCHANGED <<call, answer, status, debug, empty>>
      BY <1>1 DEF Concat
    <2>4. empty' \in BOOLEAN
      BY <2>3 DEF TypeOK
    <2> HIDE DEF h
    <2>5. QED
      BY <2>1, <2>2, <2>3, <2>4, ConcatTyped
  <1>2. CASE ConcatEmpty
    <2>1. Null \in 0..Len(heap)
      BY DEF TypeOK, Null
    <2>2. QED
      BY <1>2, <2>1, HeapOrdered, ConcatTyped DEF ConcatEmpty
  <1>3. CASE ConcatRaises
    <2> DEFINE f == CHOOSE g \in Filter : TRUE
    <2>1. f \in Filter
      BY FilterAssumption
    <2>2. heap' = Append(heap, FilterNode(f)) /\ UNCHANGED <<root, call, answer, status, debug, empty>>
      BY <1>3 DEF ConcatRaises
    <2>3. Ordered(heap') /\ Len(heap') = Len(heap) + 1
      BY <2>1, <2>2, ParsedOrdered
    <2>4. root' \in 0..Len(heap') /\ Len(heap') >= Len(heap) /\ empty' \in BOOLEAN
      BY <2>2, <2>3 DEF TypeOK
    <2>5. QED
      BY <2>2, <2>3, <2>4, GrownTyped
  <1>4. ASSUME NEW t \in Thread, NEW d \in Dict, Match(t, d) PROVE TypeOK'
    <2>1. root \in 1..Len(heap) /\ root \in Nat
      BY <1>4 DEF Match, TypeOK, Null
    <2> DEFINE new == [root |-> root, dict |-> d, todo |-> <<root>>]
    <2>2. new \in Call
      BY <2>1 DEF Call
    <2>3. /\ call' = [call EXCEPT ![t] = new] /\ answer' = [answer EXCEPT ![t] = "none"]
          /\ UNCHANGED <<heap, root, status, debug, empty>>
      BY <1>4 DEF Match
    <2>4. /\ call' \in [Thread -> Call \cup {NoCall}] /\ call'[t] = new
          /\ \A u \in Thread : u # t => call'[u] = call[u]
      BY <2>2, <2>3 DEF TypeOK
    <2>5. ASSUME NEW u \in Thread, Running(u)'
          PROVE  /\ call'[u].root \in 1..Len(heap')
                 /\ Todo(u)' # <<>>
                 /\ \A i \in DOMAIN Todo(u)' : Todo(u)'[i] \in 0..Len(heap')
      <3>1. CASE u = t
        BY <3>1, <2>1, <2>3, <2>4 DEF Todo
      <3>2. CASE u # t
        BY <3>2, <2>3, <2>4, <2>5 DEF TypeOK, Running, Todo
      <3>3. QED
        BY <3>1, <3>2
    <2>6. answer' \in [Thread -> {"none", "True", "False", "raises"}]
      BY <2>3 DEF TypeOK
    <2>7. QED
      BY <2>3, <2>4, <2>5, <2>6 DEF TypeOK, IsAnd
  <1>5. ASSUME UNCHANGED <<heap, root, call, answer, debug, empty>>,
               status' \in {"alive", "dropped", "dead"}
        PROVE  TypeOK'
    BY <1>5 DEF TypeOK, Running, Todo, IsAnd
  <1>6. CASE ConcatAborts
    BY <1>5, <1>6 DEF ConcatAborts
  <1>7. ASSUME NEW t \in Thread, MatchNull(t) PROVE TypeOK'
    BY <1>5, <1>7 DEF MatchNull
  <1>8. CASE Drop
    BY <1>5, <1>8 DEF Drop
  <1>9. CASE UNCHANGED vars
    BY <1>5, <1>9 DEF vars, TypeOK
  <1>10. QED
    BY <1>1, <1>2, <1>3, <1>4, <1>6, <1>7, <1>8, <1>9, EvalTyped, FilterTyped DEF Next

\* A match comes to nodes of the heap only, however it and the concats of
\* other threads interleave (ExpressionTree::evalBool, concatRoot).
THEOREM Typed == Spec => []TypeOK
  <1>1. QED
    BY TypedInit, TypedNext, PTL DEF Spec

-----------------------------------------------------------------------------
(* Every operand is older than its node, so the node that concatRoot appends   *)
(* is nobody's operand, and neither of its own operands had a parent.          *)

\* concatRoot gives parents only to the old root and to what was parsed, which
\* had none (ExpressionTree::concatRoot).
LEMMA GrownDestroyedOnce ==
    ASSUME TypeOK, DestroyedOnce, NEW h, NEW node \in 0..Len(h),
           Ordered(h),
           \/ h = heap /\ node = Null
           \/ \E f \in Filter :
                 h = Append(heap, FilterNode(f)) /\ node = Len(heap) + 1,
           ConcatRoot(h, node)
    PROVE  DestroyedOnce'
  <1> DEFINE top == Len(h) + 1
             sides == {"lhs", "rhs"}
  <1>1. heap \in Seq(Node) /\ h \in Seq(Node) /\ Len(heap) \in Nat /\ Len(h) \in Nat
    BY DEF TypeOK, Ordered
  <1>2. Len(heap) <= Len(h) /\ DOMAIN heap = 1..Len(heap) /\ DOMAIN h = 1..Len(h)
    BY <1>1, Appended, FilterNodes
  <1>3. \A n \in 1..Len(heap) : h[n] = heap[n]
    BY <1>1, Appended, FilterNodes
  <1>4. \A n \in 1..Len(h) : n > Len(heap) => h[n].kind # "and"
    <2>1. CASE h = heap
      BY <2>1, <1>1
    <2>2. ASSUME NEW f \in Filter, h = Append(heap, FilterNode(f)),
                 NEW n \in 1..Len(h), n > Len(heap)
          PROVE  h[n].kind # "and"
      <3>1. Len(h) = Len(heap) + 1 /\ h[Len(heap) + 1] = FilterNode(f)
        BY <1>1, <2>2, Appended, FilterNodes
      <3>2. n = Len(heap) + 1
        BY <1>1, <2>2, <3>1
      <3>3. QED
        BY <3>1, <3>2, FilterNodes
    <2>3. QED
      BY <2>1, <2>2
  <1>5. node = Null \/ node = Len(heap) + 1
    OBVIOUS
  <1>6. AndNode(root, node) \in Node /\ AndNode(root, node).kind = "and"
        /\ AndNode(root, node).lhs = root /\ AndNode(root, node).rhs = node
    <2>1. root \in Nat /\ node \in Nat
      BY <1>1 DEF TypeOK
    <2>2. QED
      BY <2>1, AndNodes
  <1>7. /\ DOMAIN heap' = 1..top /\ heap'[top] = AndNode(root, node) /\ root' = top
        /\ \A n \in 1..Len(h) : heap'[n] = h[n]
    <2> DEFINE new == AndNode(root, node)
    <2>1. new \in Node
      BY <1>6
    <2>2. h \in Seq(Node)
      BY <1>1
    <2>3. /\ DOMAIN heap' = 1..top /\ heap'[top] = new /\ root' = top
          /\ \A n \in DOMAIN h : heap'[n] = h[n]
      BY <2>1, <2>2, Appended DEF ConcatRoot
    <2>4. QED
      BY <1>2, <2>3
  <1>8. ASSUME NEW n \in 1..top, NEW p \in Parents(n)'
        PROVE  \/ p[1] = top /\ p \in (1..top) \X sides /\ n = IF p[2] = "lhs" THEN root ELSE node
               \/ n \in 1..Len(heap) /\ p \in Parents(n)
    <2>1. p \in (1..top) \X sides /\ heap'[p[1]].kind = "and" /\ Operand(p[1], p[2])' = n
      BY <1>7, <1>8 DEF Parents, IsAnd
    <2>2. CASE p[1] = top
      BY <2>1, <2>2, <1>6, <1>7 DEF Operand
    <2>3. CASE p[1] # top
      <3>1. p[1] \in 1..Len(h)
        BY <2>1, <2>3, <1>1
      <3>2. p[1] \in 1..Len(heap) /\ heap'[p[1]] = heap[p[1]]
        BY <2>1, <3>1, <1>1, <1>3, <1>4, <1>7
      <3>3. p \in (DOMAIN heap) \X sides /\ IsAnd(p[1]) /\ Operand(p[1], p[2]) = n
        BY <2>1, <3>2, <1>2 DEF IsAnd, Operand
      <3>4. n < p[1]
        BY <3>2, <3>3, <1>2 DEF TypeOK, Operand
      <3>5. n \in 1..Len(heap)
        BY <3>2, <3>4, <1>1
      <3>6. QED
        BY <3>3, <3>5 DEF Parents
    <2>4. QED
      BY <2>2, <2>3
  <1>9. root # node \/ root = Null
    BY <1>1, <1>5 DEF TypeOK
  <1>10. ASSUME NEW n \in 1..top, NEW p \in Parents(n)', NEW q \in Parents(n)'
         PROVE  p = q
    <2>1. CASE n \in 1..Len(heap) /\ p \in Parents(n)
      <3>1. n # root
        BY <2>1, <1>2 DEF DestroyedOnce
      <3>2. n # node
        BY <2>1, <1>1, <1>5 DEF Null
      <3>3. q \in Parents(n)
        BY <3>1, <3>2, <1>8
      <3>4. QED
        BY <2>1, <3>3, <1>2 DEF DestroyedOnce
    <2>2. CASE /\ p[1] = top /\ p \in (1..top) \X sides
               /\ n = IF p[2] = "lhs" THEN root ELSE node
      <3>1. CASE n \in 1..Len(heap) /\ q \in Parents(n)
        <4>1. n # root
          BY <3>1, <1>2 DEF DestroyedOnce
        <4>2. n # node
          BY <3>1, <1>1, <1>5 DEF Null
        <4>3. QED
          BY <2>2, <4>1, <4>2
      <3>2. CASE /\ q[1] = top /\ q \in (1..top) \X sides
                 /\ n = IF q[2] = "lhs" THEN root ELSE node
        <4>1. n # Null
          BY <1>1 DEF Null
        <4>2. p[2] = q[2]
          BY <2>2, <3>2, <4>1, <1>9
        <4>3. QED
          BY <2>2, <3>2, <4>2
      <3>3. QED
        BY <1>8, <3>1, <3>2
    <2>3. QED
      BY <1>8, <2>1, <2>2
  <1>11. Parents(top)' = {}
    <2>1. root <= Len(h) /\ root \in Nat /\ node <= Len(h) /\ node \in Nat
      <3>1. root \in 0..Len(heap)
        BY DEF TypeOK
      <3>2. node \in 0..Len(h)
        OBVIOUS
      <3>3. Len(heap) \in Nat /\ Len(h) \in Nat /\ Len(heap) <= Len(h)
        BY <1>1, <1>2
      <3>4. \A i, j, r, k \in Nat : i <= j /\ r \in 0..i /\ k \in 0..j => r <= j /\ k <= j
        OBVIOUS
      <3>5. root \in Nat /\ node \in Nat
        BY <3>1, <3>2, <3>3
      <3>6. QED
        BY <3>1, <3>2, <3>3, <3>4, <3>5
    <2>2. top # root /\ top # node /\ top \notin 1..Len(heap) /\ top \in 1..top
      <3>1. Len(heap) \in Nat /\ Len(h) \in Nat /\ Len(heap) <= Len(h)
        BY <1>1, <1>2
      <3>2. QED
        BY <2>1, <3>1
    <2>3. QED
      BY <2>2, <1>8
  <1>12. QED
    BY <1>7, <1>10, <1>11 DEF DestroyedOnce

\* A match changes neither the heap nor the root, so no node gains a parent.
LEMMA SameHeapDestroyedOnce ==
    DestroyedOnce /\ UNCHANGED <<heap, root>> => DestroyedOnce'
  BY DEF DestroyedOnce, Parents, Operand, IsAnd

\* What syntax errors leave in the heap has no operand and is nobody's.
LEMMA LeftOverDestroyedOnce ==
    ASSUME TypeOK, DestroyedOnce, NEW f \in Filter,
           heap' = Append(heap, FilterNode(f)), UNCHANGED root
    PROVE  DestroyedOnce'
  <1>1. heap \in Seq(Node) /\ FilterNode(f) \in Node /\ FilterNode(f).kind # "and"
    BY FilterNodes DEF TypeOK
  <1>2. /\ Len(heap) \in Nat /\ DOMAIN heap = 1..Len(heap)
        /\ DOMAIN heap' = 1..(Len(heap) + 1) /\ heap'[Len(heap) + 1] = FilterNode(f)
        /\ \A n \in DOMAIN heap : heap'[n] = heap[n]
    BY <1>1, Appended
  <1>3. ASSUME NEW n \in DOMAIN heap', NEW p \in Parents(n)'
        PROVE  p \in Parents(n) /\ n \in DOMAIN heap
    <2>1. /\ p \in (DOMAIN heap') \X {"lhs", "rhs"}
          /\ heap'[p[1]].kind = "and" /\ Operand(p[1], p[2])' = n
      BY <1>3 DEF Parents, IsAnd
    <2>2. p[1] \in DOMAIN heap'
      BY <2>1
    <2>3. p[1] # Len(heap) + 1
      BY <2>1, <1>1, <1>2
    <2>4. p[1] \in DOMAIN heap
      BY <2>2, <2>3, <1>2
    <2>5. p \in (DOMAIN heap) \X {"lhs", "rhs"} /\ IsAnd(p[1]) /\ Operand(p[1], p[2]) = n
      BY <2>1, <2>4, <1>2 DEF IsAnd, Operand
    <2>6. n < p[1]
      BY <2>4, <2>5 DEF TypeOK, Operand
    <2>7. n \in DOMAIN heap
      BY <2>4, <2>6, <1>2
    <2>8. QED
      BY <2>5, <2>7 DEF Parents
  <1>4. QED
    BY <1>3 DEF DestroyedOnce

\* Every action keeps DestroyedOnce.
LEMMA DestroyedOnceNext == TypeOK /\ DestroyedOnce /\ [Next]_vars => DestroyedOnce'
  <1> SUFFICES ASSUME TypeOK, DestroyedOnce, [Next]_vars PROVE DestroyedOnce'
    OBVIOUS
  <1>1. ASSUME NEW f \in Filter, Concat(f) PROVE DestroyedOnce'
    <2> DEFINE h == Append(heap, FilterNode(f))
    <2>1. Ordered(h) /\ Len(h) = Len(heap) + 1
      BY ParsedOrdered
    <2>2. Len(heap) + 1 \in 0..Len(h)
      BY <2>1 DEF TypeOK
    <2>3. ConcatRoot(h, Len(heap) + 1)
      BY <1>1 DEF Concat
    <2>4. \E g \in Filter : h = Append(heap, FilterNode(g))
      OBVIOUS
    <2> HIDE DEF h
    <2>5. QED
      BY <2>1, <2>2, <2>3, <2>4, GrownDestroyedOnce
  <1>2. CASE ConcatEmpty
    <2>1. Null \in 0..Len(heap)
      BY DEF TypeOK, Null
    <2>2. QED
      BY <1>2, <2>1, HeapOrdered, GrownDestroyedOnce DEF ConcatEmpty
  <1>3. CASE ConcatRaises
    <2>1. (CHOOSE f \in Filter : TRUE) \in Filter
      BY FilterAssumption
    <2>2. QED
      BY <1>3, <2>1, LeftOverDestroyedOnce DEF ConcatRaises
  <1>4. CASE UNCHANGED <<heap, root>>
    BY <1>4, SameHeapDestroyedOnce
  <1>5. CASE ConcatAborts \/ Drop \/ UNCHANGED vars
    BY <1>4, <1>5 DEF ConcatAborts, Drop, vars
  <1>6. ASSUME NEW t \in Thread,
               MatchNull(t) \/ EvalAnd(t) \/ EvalFilter(t) \/ \E d \in Dict : Match(t, d)
        PROVE  DestroyedOnce'
    BY <1>4, <1>6 DEF MatchNull, EvalAnd, EvalFilter, Match
  <1>7. QED
    BY <1>1, <1>2, <1>3, <1>5, <1>6 DEF Next

\* The destructor comes to no node twice, for every sequence of concats and
\* whatever was parsed (concatRoot, ~BinOpExpression).
THEOREM TreeIsDestroyedOnce == Spec => []DestroyedOnce
  <1>1. Init => DestroyedOnce
    <2> SUFFICES ASSUME Init PROVE DestroyedOnce
      OBVIOUS
    <2>1. \A n \in DOMAIN heap : ~IsAnd(n)
      <3>1. CASE heap = <<>>
        BY <3>1
      <3>2. ASSUME NEW f \in Filter, heap = <<FilterNode(f)>> PROVE \A n \in DOMAIN heap : ~IsAnd(n)
        BY <3>2, FilterNodes DEF IsAnd
      <3>3. QED
        BY <3>1, <3>2 DEF Init
    <2>2. QED
      BY <2>1 DEF DestroyedOnce, Parents
  <1>2. QED
    BY <1>1, TypedInit, TypedNext, DestroyedOnceNext, PTL DEF Spec

-----------------------------------------------------------------------------
(* The trees of an ordered heap *)

\* The two operands of an AndNode are older nodes, or null.
LEMMA Operands ==
    ASSUME TypeOK, NEW n \in 1..Len(heap), IsAnd(n)
    PROVE  heap[n].lhs \in 0..(n - 1) /\ heap[n].rhs \in 0..(n - 1)
<1>1. heap[n] \in Node /\ heap[n].kind = "and" /\ n \in DOMAIN heap
  BY DEF TypeOK, IsAnd
<1>2. heap[n].lhs \in Nat /\ heap[n].rhs \in Nat
  BY <1>1 DEF Node
<1>3. heap[n].lhs < n /\ heap[n].rhs < n
  BY <1>1 DEF TypeOK
<1>. QED  BY <1>2, <1>3

\* The other nodes are filters.
LEMMA Leaves ==
    ASSUME TypeOK, NEW n \in 1..Len(heap), ~IsAnd(n)
    PROVE  heap[n].filter \in Filter
<1>1. heap[n] \in Node /\ heap[n].kind # "and"
  BY DEF TypeOK, IsAnd
<1>. QED  BY <1>1 DEF Node

\* FiltersOf is defined on every node of an ordered heap.
LEMMA FiltersOfDefined ==
    ASSUME TypeOK
    PROVE  FiltersOf = [n \in 0..Len(heap) |->
                          IF n = Null THEN <<NoFilter>>
                          ELSE IF IsAnd(n) THEN FiltersOf[heap[n].lhs] \o FiltersOf[heap[n].rhs]
                          ELSE <<heap[n].filter>>]
<1> DEFINE Body(g, n) == IF n = Null THEN <<NoFilter>>
                         ELSE IF IsAnd(n) THEN g[heap[n].lhs] \o g[heap[n].rhs]
                         ELSE <<heap[n].filter>>
           Defined(k) == \E g : g = [n \in 0..k |-> Body(g, n)]
           Upto == {k \in Nat : k <= Len(heap) => Defined(k)}
<1>1. Len(heap) \in Nat
  BY DEF TypeOK
<1>2. 0 \in Upto
  <2> DEFINE g0 == [n \in 0..0 |-> <<NoFilter>>]
  <2>1. g0 = [n \in 0..0 |-> Body(g0, n)]
    BY DEF Null
  <2>. QED  BY <2>1
<1>3. ASSUME NEW k \in Upto PROVE k + 1 \in Upto
  <2>. SUFFICES ASSUME k + 1 <= Len(heap) PROVE Defined(k + 1)
    <3>. HIDE DEF Defined
    <3>. QED  BY <1>3
  <2>1. PICK g : g = [n \in 0..k |-> Body(g, n)]
    <3>1. Defined(k)
      <4>. HIDE DEF Defined
      <4>. QED  BY <1>1, <1>3
    <3>. QED  BY <3>1
  <2> DEFINE h == [n \in 0..(k + 1) |-> IF n = k + 1 THEN Body(g, n) ELSE g[n]]
  <2>2. ASSUME NEW n \in 0..(k + 1) PROVE Body(h, n) = Body(g, n)
    <3>1. CASE n # Null /\ IsAnd(n)
      <4>1. n \in 1..Len(heap) /\ n - 1 <= k /\ k \in Nat
        BY <1>1, <3>1 DEF Null
      <4>2. heap[n].lhs \in 0..k /\ heap[n].rhs \in 0..k
        BY <3>1, <4>1, Operands
      <4>3. \A m \in 0..k : h[m] = g[m]
        OBVIOUS
      <4>. HIDE DEF h
      <4>4. h[heap[n].lhs] = g[heap[n].lhs] /\ h[heap[n].rhs] = g[heap[n].rhs]
        BY <4>2, <4>3
      <4>. QED  BY <3>1, <4>4
    <3>2. CASE ~(n # Null /\ IsAnd(n))
      BY <3>2
    <3>. QED  BY <3>1, <3>2
  <2>3. ASSUME NEW n \in 0..(k + 1) PROVE h[n] = Body(g, n)
    <3>1. CASE n = k + 1
      BY <3>1
    <3>2. CASE n # k + 1
      <4>1. n \in 0..k
        BY <3>2
      <4>. QED  BY <2>1, <3>2, <4>1
    <3>. QED  BY <3>1, <3>2
  <2>4. h = [n \in 0..(k + 1) |-> Body(h, n)]
    <3>. HIDE DEF Body
    <3>1. \A n \in 0..(k + 1) : h[n] = Body(h, n)
      BY <2>2, <2>3
    <3>2. h = [n \in 0..(k + 1) |-> h[n]]
      OBVIOUS
    <3>. HIDE DEF h
    <3>. QED  BY <3>1, <3>2
  <2>. QED  BY <2>4
<1>4. Upto = Nat
  <2>. HIDE DEF Upto
  <2>1. Upto \in SUBSET Nat
    BY DEF Upto
  <2>. QED  BY <1>2, <1>3, <2>1, AllNaturals
<1>5. Defined(Len(heap))
  <2>. HIDE DEF Defined
  <2>. QED  BY <1>1, <1>4
<1>. QED  BY <1>5 DEF FiltersOf

\* So is Under.
LEMMA UnderDefined ==
    ASSUME TypeOK
    PROVE  Under = [n \in 0..Len(heap) |->
                      IF n = Null \/ ~IsAnd(n) THEN {n}
                      ELSE {n} \cup Under[heap[n].lhs] \cup Under[heap[n].rhs]]
<1> DEFINE Body(g, n) == IF n = Null \/ ~IsAnd(n) THEN {n}
                         ELSE {n} \cup g[heap[n].lhs] \cup g[heap[n].rhs]
           Defined(k) == \E g : g = [n \in 0..k |-> Body(g, n)]
           Upto == {k \in Nat : k <= Len(heap) => Defined(k)}
<1>1. Len(heap) \in Nat
  BY DEF TypeOK
<1>2. 0 \in Upto
  <2> DEFINE g0 == [n \in 0..0 |-> {n}]
  <2>1. g0 = [n \in 0..0 |-> Body(g0, n)]
    BY DEF Null
  <2>. QED  BY <2>1
<1>3. ASSUME NEW k \in Upto PROVE k + 1 \in Upto
  <2>. SUFFICES ASSUME k + 1 <= Len(heap) PROVE Defined(k + 1)
    <3>. HIDE DEF Defined
    <3>. QED  BY <1>3
  <2>1. PICK g : g = [n \in 0..k |-> Body(g, n)]
    <3>1. Defined(k)
      <4>. HIDE DEF Defined
      <4>. QED  BY <1>1, <1>3
    <3>. QED  BY <3>1
  <2> DEFINE h == [n \in 0..(k + 1) |-> IF n = k + 1 THEN Body(g, n) ELSE g[n]]
  <2>2. ASSUME NEW n \in 0..(k + 1) PROVE Body(h, n) = Body(g, n)
    <3>1. CASE n # Null /\ IsAnd(n)
      <4>1. n \in 1..Len(heap) /\ n - 1 <= k /\ k \in Nat
        BY <1>1, <3>1 DEF Null
      <4>2. heap[n].lhs \in 0..k /\ heap[n].rhs \in 0..k
        BY <3>1, <4>1, Operands
      <4>3. \A m \in 0..k : h[m] = g[m]
        OBVIOUS
      <4>. HIDE DEF h
      <4>4. h[heap[n].lhs] = g[heap[n].lhs] /\ h[heap[n].rhs] = g[heap[n].rhs]
        BY <4>2, <4>3
      <4>. QED  BY <3>1, <4>4
    <3>2. CASE ~(n # Null /\ IsAnd(n))
      BY <3>2
    <3>. QED  BY <3>1, <3>2
  <2>3. ASSUME NEW n \in 0..(k + 1) PROVE h[n] = Body(g, n)
    <3>1. CASE n = k + 1
      BY <3>1
    <3>2. CASE n # k + 1
      <4>1. n \in 0..k
        BY <3>2
      <4>. QED  BY <2>1, <3>2, <4>1
    <3>. QED  BY <3>1, <3>2
  <2>4. h = [n \in 0..(k + 1) |-> Body(h, n)]
    <3>. HIDE DEF Body
    <3>1. \A n \in 0..(k + 1) : h[n] = Body(h, n)
      BY <2>2, <2>3
    <3>2. h = [n \in 0..(k + 1) |-> h[n]]
      OBVIOUS
    <3>. HIDE DEF h
    <3>. QED  BY <3>1, <3>2
  <2>. QED  BY <2>4
<1>4. Upto = Nat
  <2>. HIDE DEF Upto
  <2>1. Upto \in SUBSET Nat
    BY DEF Upto
  <2>. QED  BY <1>2, <1>3, <2>1, AllNaturals
<1>5. Defined(Len(heap))
  <2>. HIDE DEF Defined
  <2>. QED  BY <1>1, <1>4
<1>. QED  BY <1>5 DEF Under

\* The filters under a node: a list of at least one.
FilterLists ==
    /\ FiltersOf[Null] = <<NoFilter>>
    /\ \A n \in 1..Len(heap) : ~IsAnd(n) => FiltersOf[n] = <<heap[n].filter>>
    /\ \A n \in 1..Len(heap) : IsAnd(n) =>
          FiltersOf[n] = FiltersOf[heap[n].lhs] \o FiltersOf[heap[n].rhs]
    /\ \A n \in 0..Len(heap) : /\ FiltersOf[n] \in Seq(Filter \cup {NoFilter})
                               /\ FiltersOf[n] # <<>>

LEMMA FiltersOfTypes == TypeOK => FilterLists
<1>. SUFFICES ASSUME TypeOK PROVE FilterLists
  OBVIOUS
<1> DEFINE Lists == {s \in Seq(Filter \cup {NoFilter}) : s # <<>>}
           Good == {n \in Nat : n <= Len(heap) => FiltersOf[n] \in Lists}
<1>1. Len(heap) \in Nat
  BY DEF TypeOK
<1>2. FiltersOf[Null] = <<NoFilter>>
  BY <1>1, FiltersOfDefined DEF Null
<1>3. ASSUME NEW n \in 1..Len(heap), ~IsAnd(n) PROVE FiltersOf[n] = <<heap[n].filter>>
  <2>1. n \in 0..Len(heap) /\ n # Null
    BY <1>1 DEF Null
  <2>. QED  BY <1>3, <2>1, FiltersOfDefined
<1>4. ASSUME NEW n \in 1..Len(heap), IsAnd(n)
      PROVE  FiltersOf[n] = FiltersOf[heap[n].lhs] \o FiltersOf[heap[n].rhs]
  <2>1. n \in 0..Len(heap) /\ n # Null
    BY <1>1 DEF Null
  <2>. QED  BY <1>4, <2>1, FiltersOfDefined
<1>5. ASSUME NEW n \in Nat, \A m \in 0..(n - 1) : m \in Good PROVE n \in Good
  <2>. SUFFICES ASSUME n <= Len(heap) PROVE FiltersOf[n] \in Lists
    OBVIOUS
  <2>1. CASE n = Null
    <3>1. <<NoFilter>> \in Lists
      OBVIOUS
    <3>. QED  BY <1>2, <2>1, <3>1
  <2>2. CASE n # Null /\ ~IsAnd(n)
    <3>1. n \in 1..Len(heap)
      BY <1>1, <2>2 DEF Null
    <3>2. FiltersOf[n] = <<heap[n].filter>> /\ heap[n].filter \in Filter
      BY <1>3, <2>2, <3>1, Leaves
    <3>. QED  BY <3>2
  <2>3. CASE n # Null /\ IsAnd(n)
    <3>1. n \in 1..Len(heap)
      BY <1>1, <2>3 DEF Null
    <3>2. heap[n].lhs \in 0..(n - 1) /\ heap[n].rhs \in 0..(n - 1)
      BY <2>3, <3>1, Operands
    <3>3. FiltersOf[heap[n].lhs] \in Lists /\ FiltersOf[heap[n].rhs] \in Lists
      <4>1. heap[n].lhs \in Good /\ heap[n].rhs \in Good
        BY <1>5, <3>2
      <4>2. heap[n].lhs <= Len(heap) /\ heap[n].rhs <= Len(heap)
        BY <1>1, <3>1, <3>2
      <4>. HIDE DEF Lists
      <4>. QED  BY <4>1, <4>2
    <3>4. FiltersOf[n] = FiltersOf[heap[n].lhs] \o FiltersOf[heap[n].rhs]
      BY <1>4, <2>3, <3>1
    <3>5. ASSUME NEW a \in Lists, NEW b \in Lists PROVE a \o b \in Lists
      OBVIOUS
    <3>. HIDE DEF Lists
    <3>. QED  BY <3>3, <3>4, <3>5
  <2>. QED  BY <2>1, <2>2, <2>3
<1>6. Good = Nat
  <2>. HIDE DEF Good
  <2>1. Good \in SUBSET Nat
    BY DEF Good
  <2>. QED  BY <1>5, <2>1, AllFromSmaller
<1>7. \A n \in 0..Len(heap) : FiltersOf[n] \in Lists
  BY <1>1, <1>6
<1>. QED  BY <1>2, <1>3, <1>4, <1>7 DEF FilterLists

\* Where the destructor would come to a null, NoFilter is among the filters.
LEMMA NullIsNoFilter ==
    ASSUME TypeOK, NEW n \in 0..Len(heap), Null \in Under[n]
    PROVE  \E i \in 1..Len(FiltersOf[n]) : FiltersOf[n][i] = NoFilter
<1> DEFINE Has(m) == \E i \in 1..Len(FiltersOf[m]) : FiltersOf[m][i] = NoFilter
           Right == {m \in Nat : m <= Len(heap) /\ Null \in Under[m] => Has(m)}
<1>1. Len(heap) \in Nat
  BY DEF TypeOK
<1>2. ASSUME NEW m \in Nat, \A k \in 0..(m - 1) : k \in Right PROVE m \in Right
  <2>. SUFFICES ASSUME m <= Len(heap), Null \in Under[m] PROVE Has(m)
    OBVIOUS
  <2>1. CASE m = Null
    <3>1. FiltersOf[m] = <<NoFilter>>
      BY <2>1, FiltersOfTypes DEF FilterLists
    <3>. QED  BY <3>1
  <2>2. CASE m # Null
    <3>1. m \in 1..Len(heap) /\ m \in 0..Len(heap)
      BY <1>1, <2>2 DEF Null
    <3>2. IsAnd(m) /\ (Null \in Under[heap[m].lhs] \/ Null \in Under[heap[m].rhs])
      BY <2>2, <3>1, UnderDefined
    <3>3. heap[m].lhs \in 0..(m - 1) /\ heap[m].rhs \in 0..(m - 1)
      BY <3>1, <3>2, Operands
    <3>4. /\ heap[m].lhs \in Right /\ heap[m].rhs \in Right
          /\ heap[m].lhs \in 0..Len(heap) /\ heap[m].rhs \in 0..Len(heap)
      <4>1. \A k \in 0..(m - 1) : k \in 0..Len(heap)
        BY <1>1, <3>1
      <4>. HIDE DEF Right
      <4>. QED  BY <1>2, <3>3, <4>1
    <3>5. Has(heap[m].lhs) \/ Has(heap[m].rhs)
      <4>. HIDE DEF Has
      <4>. QED  BY <3>2, <3>4
    <3>6. FiltersOf[m] = FiltersOf[heap[m].lhs] \o FiltersOf[heap[m].rhs]
      BY <3>1, <3>2, FiltersOfTypes DEF FilterLists
    <3>7. /\ FiltersOf[heap[m].lhs] \in Seq(Filter \cup {NoFilter})
          /\ FiltersOf[heap[m].rhs] \in Seq(Filter \cup {NoFilter})
      BY <3>4, FiltersOfTypes DEF FilterLists
    <3>8. ASSUME NEW a \in Seq(Filter \cup {NoFilter}), NEW b \in Seq(Filter \cup {NoFilter}),
                 \/ \E i \in 1..Len(a) : a[i] = NoFilter
                 \/ \E i \in 1..Len(b) : b[i] = NoFilter
          PROVE  \E i \in 1..Len(a \o b) : (a \o b)[i] = NoFilter
      <4>1. ASSUME NEW i \in 1..Len(a), a[i] = NoFilter PROVE \E k \in 1..Len(a \o b) : (a \o b)[k] = NoFilter
        BY <4>1
      <4>2. ASSUME NEW i \in 1..Len(b), b[i] = NoFilter PROVE \E k \in 1..Len(a \o b) : (a \o b)[k] = NoFilter
        <5>1. Len(a) + i \in 1..Len(a \o b) /\ (a \o b)[Len(a) + i] = b[i]
          BY <4>2
        <5>. QED  BY <4>2, <5>1
      <4>. QED  BY <3>8, <4>1, <4>2
    <3>. QED  BY <3>5, <3>6, <3>7, <3>8
  <2>. QED  BY <2>1, <2>2
<1>3. Right = Nat
  <2>. HIDE DEF Right
  <2>1. Right \in SUBSET Nat
    BY DEF Right
  <2>. QED  BY <1>2, <2>1, AllFromSmaller
<1>4. n \in Right /\ n <= Len(heap)
  BY <1>1, <1>3
<1>. QED  BY <1>4

\* Nodes keep their filters while the heap grows.
LEMMA FiltersStay ==
    ASSUME TypeOK, TypeOK', Len(heap) <= Len(heap'), \A n \in DOMAIN heap : heap'[n] = heap[n]
    PROVE  \A n \in 0..Len(heap) : FiltersOf'[n] = FiltersOf[n]
<1> DEFINE Same == {n \in Nat : n <= Len(heap) => FiltersOf'[n] = FiltersOf[n]}
<1>1. Len(heap) \in Nat /\ Len(heap') \in Nat /\ DOMAIN heap = 1..Len(heap)
  BY DEF TypeOK
<1>2. FilterLists /\ FilterLists'
  <2>1. TypeOK' => FilterLists'
    BY FiltersOfTypes, PTL
  <2>. QED  BY <2>1, FiltersOfTypes
<1>3. ASSUME NEW n \in Nat, \A m \in 0..(n - 1) : m \in Same PROVE n \in Same
  <2>. SUFFICES ASSUME n <= Len(heap) PROVE FiltersOf'[n] = FiltersOf[n]
    OBVIOUS
  <2>1. CASE n = Null
    BY <1>2, <2>1 DEF FilterLists, Null
  <2>2. CASE n # Null
    <3>1. n \in 1..Len(heap) /\ n \in 1..Len(heap') /\ heap'[n] = heap[n]
      BY <1>1, <2>2 DEF Null
    <3>2. CASE ~IsAnd(n)
      BY <1>2, <3>1, <3>2 DEF FilterLists, IsAnd
    <3>3. CASE IsAnd(n)
      <4>1. heap[n].lhs \in 0..(n - 1) /\ heap[n].rhs \in 0..(n - 1)
        BY <3>1, <3>3, Operands
      <4>2. /\ heap[n].lhs \in Same /\ heap[n].lhs <= Len(heap)
            /\ heap[n].rhs \in Same /\ heap[n].rhs <= Len(heap)
        BY <1>1, <1>3, <3>1, <4>1
      <4>3. FiltersOf'[heap[n].lhs] = FiltersOf[heap[n].lhs] /\ FiltersOf'[heap[n].rhs] = FiltersOf[heap[n].rhs]
        BY <4>2
      <4>4. FiltersOf[n] = FiltersOf[heap[n].lhs] \o FiltersOf[heap[n].rhs]
        BY <1>2, <3>1, <3>3 DEF FilterLists
      <4>5. FiltersOf'[n] = FiltersOf'[heap[n].lhs] \o FiltersOf'[heap[n].rhs]
        BY <1>2, <3>1, <3>3 DEF FilterLists, IsAnd
      <4>. QED  BY <4>3, <4>4, <4>5
    <3>. QED  BY <3>2, <3>3
  <2>. QED  BY <2>1, <2>2
<1>4. Same = Nat
  <2>. HIDE DEF Same
  <2>1. Same \in SUBSET Nat
    BY DEF Same
  <2>. QED  BY <1>3, <2>1, AllFromSmaller
<1>. QED  BY <1>1, <1>4
-----------------------------------------------------------------------------
(* A bet that was only given filters has no null to die of. *)

NoNulls ==
    ~empty => /\ root # Null
              /\ \A n \in DOMAIN heap : IsAnd(n) => heap[n].lhs # Null /\ heap[n].rhs # Null
              /\ \A t \in Thread : Running(t) => \A i \in DOMAIN Todo(t) : Todo(t)[i] # Null

\* Then the destructor comes to none.
LEMMA NothingUnderIsNull ==
    ASSUME TypeOK, NoNulls, ~empty
    PROVE  \A n \in 1..Len(heap) : Null \notin Under[n]
<1> DEFINE Right == {n \in Nat : n \in 1..Len(heap) => Null \notin Under[n]}
<1>1. Len(heap) \in Nat /\ DOMAIN heap = 1..Len(heap)
  BY DEF TypeOK
<1>2. ASSUME NEW n \in Nat, \A m \in 0..(n - 1) : m \in Right PROVE n \in Right
  <2>. SUFFICES ASSUME n \in 1..Len(heap) PROVE Null \notin Under[n]
    OBVIOUS
  <2>1. n # Null /\ n \in 0..Len(heap) /\ n \in DOMAIN heap
    BY <1>1 DEF Null
  <2>2. CASE ~IsAnd(n)
    <3>1. Under[n] = {n}
      BY <2>1, <2>2, UnderDefined
    <3>. QED  BY <2>1, <3>1
  <2>3. CASE IsAnd(n)
    <3>1. heap[n].lhs \in 0..(n - 1) /\ heap[n].rhs \in 0..(n - 1)
      BY <2>3, Operands
    <3>2. heap[n].lhs # Null /\ heap[n].rhs # Null
      BY <2>1, <2>3 DEF NoNulls
    <3>3. heap[n].lhs \in 1..Len(heap) /\ heap[n].rhs \in 1..Len(heap)
      BY <1>1, <3>1, <3>2 DEF Null
    <3>4. heap[n].lhs \in Right /\ heap[n].rhs \in Right
      BY <1>2, <3>1
    <3>5. Null \notin Under[heap[n].lhs] /\ Null \notin Under[heap[n].rhs]
      BY <3>3, <3>4
    <3>6. Under[n] = {n} \cup Under[heap[n].lhs] \cup Under[heap[n].rhs]
      BY <2>1, <2>3, UnderDefined
    <3>. QED  BY <2>1, <3>5, <3>6
  <2>. QED  BY <2>2, <2>3
<1>3. Right = Nat
  <2>. HIDE DEF Right
  <2>1. Right \in SUBSET Nat
    BY DEF Right
  <2>. QED  BY <1>2, <2>1, AllFromSmaller
<1>. QED  BY <1>1, <1>3

\* Only concatRoot makes a node with operands: the root, which is no null, and
\* what was parsed.
LEMMA ConcatNoNulls ==
    ASSUME TypeOK, NoNulls, NEW f \in Filter, Concat(f)
    PROVE  NoNulls'
<1> DEFINE h == Append(heap, FilterNode(f))
           new == AndNode(root, Len(heap) + 1)
<1>1. /\ heap \in Seq(Node) /\ Len(heap) \in Nat /\ DOMAIN heap = 1..Len(heap)
      /\ root \in Nat
  BY DEF TypeOK
<1>2. /\ h \in Seq(Node) /\ Len(h) = Len(heap) + 1 /\ DOMAIN h = 1..(Len(heap) + 1)
      /\ h[Len(heap) + 1] = FilterNode(f) /\ \A n \in DOMAIN heap : h[n] = heap[n]
      /\ FilterNode(f).kind # "and"
  BY <1>1, Appended, FilterNodes
<1>3. new \in Node /\ new.kind = "and" /\ new.lhs = root /\ new.rhs = Len(heap) + 1
  BY <1>1, AndNodes
<1>4. heap' = Append(h, new) /\ root' = Len(h) + 1 /\ UNCHANGED <<call, empty>>
  BY DEF Concat, ConcatRoot
<1>. HIDE DEF h, new
<1>5. /\ DOMAIN heap' = 1..(Len(heap) + 2) /\ heap'[Len(heap) + 2] = new
      /\ \A n \in 1..(Len(heap) + 1) : heap'[n] = h[n]
  BY <1>1, <1>2, <1>3, <1>4, Appended
<1>6. ASSUME ~empty, NEW n \in DOMAIN heap', IsAnd(n)'
      PROVE  heap'[n].lhs # Null /\ heap'[n].rhs # Null
  <2>1. CASE n = Len(heap) + 2
    BY <1>1, <1>3, <1>5, <1>6, <2>1 DEF NoNulls, Null
  <2>2. CASE n = Len(heap) + 1
    BY <1>1, <1>2, <1>5, <1>6, <2>2 DEF IsAnd
  <2>3. CASE n \in 1..Len(heap)
    BY <1>1, <1>2, <1>5, <1>6, <2>3 DEF IsAnd, NoNulls
  <2>. QED  BY <1>1, <1>5, <2>1, <2>2, <2>3
<1>7. root' # Null
  BY <1>1, <1>2, <1>4 DEF Null
<1>. QED  BY <1>4, <1>6, <1>7 DEF NoNulls, Running, Todo

\* The operands that a match goes on to are those of a node.
LEMMA EvalNoNulls ==
    ASSUME TypeOK, NoNulls, NEW t \in Thread, EvalAnd(t) \/ EvalFilter(t)
    PROVE  NoNulls'
<1> DEFINE top == Head(Todo(t))
           rest == Tail(Todo(t))
<1>1. UNCHANGED <<heap, root, empty>> /\ Running(t) /\ call[t] \in Call /\ call \in [Thread -> Call \cup {NoCall}]
  BY DEF TypeOK, EvalAnd, EvalFilter, Running
<1>2. Todo(t) \in Seq(Nat) /\ Todo(t) # <<>> /\ Todo(t) = call[t].todo
  BY <1>1 DEF TypeOK, Todo, Call
<1>3. /\ rest \in Seq(Nat) /\ top = Todo(t)[1] /\ 1 \in DOMAIN Todo(t)
      /\ \A i \in DOMAIN rest : rest[i] = Todo(t)[i + 1] /\ i + 1 \in DOMAIN Todo(t)
  BY <1>2
<1>4. SUFFICES ASSUME ~empty, NEW u \in Thread, Running(u)', NEW i \in DOMAIN Todo(u)'
               PROVE  Todo(u)'[i] # Null
  BY <1>1 DEF NoNulls, IsAnd
<1>5. CASE u # t
  <2>1. call'[u] = call[u]
    BY <1>1, <1>5 DEF EvalAnd, EvalFilter
  <2>. QED  BY <1>1, <1>4, <2>1 DEF NoNulls, Running, Todo
<1>6. CASE u = t /\ EvalAnd(t)
  <2>1. top \in 1..Len(heap) /\ IsAnd(top) /\ top \in DOMAIN heap
    BY <1>1, <1>2, <1>3, <1>6 DEF EvalAnd, TypeOK, Null
  <2>2. /\ heap[top].lhs \in Nat /\ heap[top].rhs \in Nat
        /\ heap[top].lhs # Null /\ heap[top].rhs # Null
    <3>1. heap[top].lhs \in 0..(top - 1) /\ heap[top].rhs \in 0..(top - 1)
      BY <2>1, Operands
    <3>2. heap[top].lhs \in Nat /\ heap[top].rhs \in Nat
      BY <2>1, <3>1
    <3>. QED  BY <1>4, <2>1, <3>2 DEF NoNulls
  <2>3. call'[t].todo = <<heap[top].lhs, heap[top].rhs>> \o rest
    <3>1. call' = [call EXCEPT ![t].todo = <<heap[top].lhs, heap[top].rhs>> \o Tail(@)]
      BY <1>6 DEF EvalAnd
    <3>. QED  BY <1>1, <1>2, <3>1 DEF Call
  <2>4. \/ Todo(u)'[i] = heap[top].lhs
        \/ Todo(u)'[i] = heap[top].rhs
        \/ \E k \in DOMAIN rest : Todo(u)'[i] = rest[k]
    <3>1. Todo(u)' = <<heap[top].lhs, heap[top].rhs>> \o rest
      BY <1>6, <2>3 DEF Todo
    <3>2. ASSUME NEW s \in Seq(Nat), NEW l \in Nat, NEW r \in Nat, NEW j \in DOMAIN (<<l, r>> \o s)
          PROVE  \/ (<<l, r>> \o s)[j] = l
                 \/ (<<l, r>> \o s)[j] = r
                 \/ \E k \in DOMAIN s : (<<l, r>> \o s)[j] = s[k]
      <4>1. /\ DOMAIN (<<l, r>> \o s) = 1..(Len(s) + 2)
            /\ (<<l, r>> \o s)[1] = l /\ (<<l, r>> \o s)[2] = r
            /\ \A k \in 1..Len(s) : (<<l, r>> \o s)[k + 2] = s[k]
        OBVIOUS
      <4>2. Len(s) \in Nat /\ DOMAIN s = 1..Len(s)
        OBVIOUS
      <4>3. j = 1 \/ j = 2 \/ (j - 2 \in 1..Len(s) /\ (j - 2) + 2 = j)
        BY <4>1, <4>2
      <4>. QED  BY <4>1, <4>2, <4>3
    <3>. HIDE DEF rest
    <3>. QED  BY <1>3, <1>4, <2>2, <3>1, <3>2
  <2>5. \A k \in DOMAIN rest : rest[k] # Null
    BY <1>1, <1>3, <1>4 DEF NoNulls
  <2>. QED  BY <2>2, <2>4, <2>5
<1>7. CASE u = t /\ EvalFilter(t)
  <2>1. CASE call' = [call EXCEPT ![t].todo = Tail(@)]
    <3>1. Todo(u)' = rest
      BY <1>1, <1>2, <1>7, <2>1 DEF Call, Todo
    <3>. QED  BY <1>1, <1>3, <1>4, <3>1 DEF NoNulls
  <2>2. CASE call' = [call EXCEPT ![t] = NoCall]
    BY <1>1, <1>4, <1>7, <2>2 DEF Running
  <2>. QED  BY <1>7, <2>1, <2>2 DEF EvalFilter
<1>. QED  BY <1>5, <1>6, <1>7

\* Every action, also those that end the process.
LEMMA DiesNext ==
    ASSUME TypeOK, NoNulls, DiesOnlyWithoutFilter, [Next]_vars
    PROVE  NoNulls' /\ DiesOnlyWithoutFilter'
<1> USE DEF DiesOnlyWithoutFilter
<1>1. ASSUME NEW f \in Filter, Concat(f) PROVE NoNulls' /\ DiesOnlyWithoutFilter'
  BY <1>1, ConcatNoNulls DEF Concat
<1>2. CASE ConcatEmpty
  BY <1>2 DEF ConcatEmpty, NoNulls
<1>3. CASE ConcatAborts
  BY <1>3 DEF ConcatAborts, HasRoot, NoNulls, Running, Todo, IsAnd
<1>4. CASE ConcatRaises
  <2> DEFINE f == CHOOSE g \in Filter : TRUE
  <2>1. heap' = Append(heap, FilterNode(f)) /\ UNCHANGED <<root, call, answer, status, debug, empty>>
    BY <1>4 DEF ConcatRaises
  <2>2. f \in Filter
    BY FilterAssumption
  <2>. HIDE DEF f
  <2>3. /\ Len(heap) \in Nat /\ DOMAIN heap = 1..Len(heap)
        /\ DOMAIN heap' = 1..(Len(heap) + 1) /\ heap'[Len(heap) + 1] = FilterNode(f)
        /\ \A n \in DOMAIN heap : heap'[n] = heap[n]
        /\ FilterNode(f).kind # "and"
    BY <2>1, <2>2, Appended, FilterNodes DEF TypeOK
  <2>4. \A n \in DOMAIN heap' : IsAnd(n)' => n \in DOMAIN heap /\ IsAnd(n) /\ heap'[n] = heap[n]
    BY <2>3 DEF IsAnd
  <2>. QED  BY <2>1, <2>4 DEF NoNulls, Running, Todo
<1>5. ASSUME NEW t \in Thread, NEW d \in Dict, Match(t, d) PROVE NoNulls' /\ DiesOnlyWithoutFilter'
  <2> DEFINE new == [root |-> root, dict |-> d, todo |-> <<root>>]
  <2>1. /\ call' = [call EXCEPT ![t] = new] /\ UNCHANGED <<heap, root, status, debug, empty>>
        /\ root # Null /\ call \in [Thread -> Call \cup {NoCall}]
    BY <1>5 DEF Match, TypeOK
  <2>2. ASSUME NEW u \in Thread, Running(u)', ~empty, NEW i \in DOMAIN Todo(u)' PROVE Todo(u)'[i] # Null
    <3>1. CASE u = t
      <4>1. Todo(u)' = <<root>>
        BY <2>1, <3>1 DEF Todo
      <4>. QED  BY <2>1, <2>2, <4>1
    <3>2. CASE u # t
      BY <2>1, <2>2, <3>2 DEF NoNulls, Running, Todo
    <3>. QED  BY <3>1, <3>2
  <2>. QED  BY <2>1, <2>2 DEF NoNulls, IsAnd
<1>6. ASSUME NEW t \in Thread, MatchNull(t) PROVE NoNulls' /\ DiesOnlyWithoutFilter'
  <2>1. UNCHANGED <<heap, root, call, empty>>
    BY <1>6 DEF MatchNull
  <2>2. NoNulls'
    BY <2>1 DEF NoNulls, Running, Todo, IsAnd
  <2>3. empty
    <3>1. CASE Running(t)
      <4>1. Todo(t) \in Seq(Nat) /\ Todo(t) # <<>> /\ Head(Todo(t)) = Null
        BY <1>6, <3>1 DEF MatchNull, TypeOK, Running, Todo, Call
      <4>2. 1 \in DOMAIN Todo(t) /\ Todo(t)[1] = Null
        BY <4>1
      <4>. QED  BY <3>1, <4>2 DEF NoNulls
    <3>2. CASE ~Running(t)
      BY <1>6, <3>2 DEF MatchNull, NoNulls
    <3>. QED  BY <3>1, <3>2
  <2>. QED  BY <2>1, <2>2, <2>3
<1>7. ASSUME NEW t \in Thread, EvalAnd(t) \/ EvalFilter(t) PROVE NoNulls' /\ DiesOnlyWithoutFilter'
  BY <1>7, EvalNoNulls DEF EvalAnd, EvalFilter
<1>8. CASE Drop
  <2>1. UNCHANGED <<heap, root, call, empty>>
    BY <1>8 DEF Drop
  <2>2. NoNulls'
    BY <2>1 DEF NoNulls, Running, Todo, IsAnd
  <2>3. status' = "dead" => root \in 1..Len(heap) /\ Null \in Under[root]
    BY <1>8 DEF Drop, TypeOK, Null
  <2>. QED  BY <2>1, <2>2, <2>3, NothingUnderIsNull
<1>9. CASE UNCHANGED vars
  BY <1>9 DEF vars, NoNulls, Running, Todo, IsAnd
<1>. QED  BY <1>1, <1>2, <1>3, <1>4, <1>5, <1>6, <1>7, <1>8, <1>9 DEF Next

\* A bet made with a filter and given only filters never ends the process, however
\* matches and concats interleave and however often syntax errors come in between.
THEOREM DiesOfEmptyTextsOnly == Spec => []DiesOnlyWithoutFilter
<1>1. Init => NoNulls /\ DiesOnlyWithoutFilter
  <2>. SUFFICES ASSUME Init PROVE NoNulls
    BY DEF Init, DiesOnlyWithoutFilter
  <2>1. \A t \in Thread : ~Running(t)
    BY DEF Init, Running
  <2>2. ASSUME NEW f \in Filter, heap = <<FilterNode(f)>>, root = 1
        PROVE  NoNulls
    <3>1. \A n \in DOMAIN heap : ~IsAnd(n)
      BY <2>2, FilterNodes DEF IsAnd
    <3>. QED  BY <2>1, <2>2, <3>1 DEF NoNulls, Null
  <2>3. CASE empty
    BY <2>3 DEF NoNulls
  <2>. QED  BY <2>2, <2>3 DEF Init
<1>2. TypeOK /\ NoNulls /\ DiesOnlyWithoutFilter /\ [Next]_vars => NoNulls' /\ DiesOnlyWithoutFilter'
  BY DiesNext
<1>. QED  BY <1>1, <1>2, Typed, PTL DEF Spec
-----------------------------------------------------------------------------
(* The filters F that a match answers for are cut into those it has evaluated,  *)
(* all true, and those under each operand it still has to evaluate.             *)

Held == Filter \cup {NoFilter}

\* pos[i] filters of F are before those of the i-th operand; filtersOf gives the
\* filters under a node.
Ahead(filtersOf, F, todo, pos) ==
    /\ pos \in [1..(Len(todo) + 1) -> Nat]
    /\ pos[Len(todo) + 1] = Len(F)
    /\ \A i \in 1..Len(todo) :
          /\ pos[i + 1] = pos[i] + Len(filtersOf[todo[i]])
          /\ pos[i + 1] <= Len(F)
          /\ \A k \in 1..Len(filtersOf[todo[i]]) : F[pos[i] + k] = filtersOf[todo[i]][k]

Behind(F, d, n) == \A k \in 1..n : Abstract!ValueOf(F[k], d) \in Truthy

OnTheWay(t) ==
    Running(t) =>
        \E pos : /\ Ahead(FiltersOf, FiltersOf[call[t].root], Todo(t), pos)
                 /\ Behind(FiltersOf[call[t].root], call[t].dict, pos[1])

\* Every filter of the bet but the first takes a node of its own, or a null one.
FewFilters == Len(FiltersOf[root]) <= Len(heap) + 1

WayInv == FewFilters /\ \A t \in Thread : OnTheWay(t)

\* The operands l and r of the node at the head of todo are to be evaluated.
WithOperands(todo, l, r) == <<l, r>> \o Tail(todo)
OperandsOf(G, n, l, r) ==
    G[l] \in Seq(Held) /\ G[r] \in Seq(Held) /\ G[n] = G[l] \o G[r]

\* An AndNode is replaced by its operands.
LEMMA AheadOfAnd ==
    ASSUME NEW G, NEW F, NEW todo \in Seq(Nat), todo # <<>>, NEW pos, Ahead(G, F, todo, pos),
           NEW l \in Nat, NEW r \in Nat, Len(F) \in Nat, OperandsOf(G, Head(todo), l, r)
    PROVE  \E new : Ahead(G, F, WithOperands(todo, l, r), new) /\ new[1] = pos[1]
<1> DEFINE next == <<l, r>> \o Tail(todo)
           new == [i \in 1..(Len(todo) + 2) |->
                     IF i = 1 THEN pos[1]
                     ELSE IF i = 2 THEN pos[1] + Len(G[l])
                     ELSE pos[i - 1]]
           a == G[l]
           b == G[r]
<1>1. /\ Len(todo) \in Nat /\ Len(todo) >= 1 /\ Head(todo) = todo[1]
      /\ Tail(todo) \in Seq(Nat) /\ Len(Tail(todo)) = Len(todo) - 1
      /\ \A i \in 1..(Len(todo) - 1) : Tail(todo)[i] = todo[i + 1]
  OBVIOUS
<1>2. /\ next \in Seq(Nat) /\ Len(next) = Len(todo) + 1 /\ next[1] = l /\ next[2] = r
      /\ \A i \in 3..(Len(todo) + 1) : next[i] = todo[i - 1]
  BY <1>1
<1>3. /\ Len(a) \in Nat /\ Len(b) \in Nat /\ Len(G[todo[1]]) = Len(a) + Len(b)
      /\ \A k \in 1..Len(a) : G[todo[1]][k] = a[k]
      /\ \A k \in 1..Len(b) : G[todo[1]][Len(a) + k] = b[k]
  <2>1. G[todo[1]] = a \o b /\ a \in Seq(Held) /\ b \in Seq(Held)
    BY <1>1 DEF OperandsOf
  <2>. HIDE DEF a, b
  <2>. QED  BY <2>1
<1>. HIDE DEF next, a, b
<1>4. /\ \A i \in 1..(Len(todo) + 1) : pos[i] \in Nat
      /\ pos[2] = pos[1] + Len(a) + Len(b) /\ pos[2] <= Len(F)
      /\ \A k \in 1..Len(a) : F[pos[1] + k] = a[k]
      /\ \A k \in 1..Len(b) : F[(pos[1] + Len(a)) + k] = b[k]
  <2>1. /\ \A i \in 1..(Len(todo) + 1) : pos[i] \in Nat
        /\ 1 \in 1..Len(todo) /\ pos[1 + 1] = pos[1] + Len(G[todo[1]]) /\ pos[1 + 1] <= Len(F)
        /\ \A k \in 1..Len(G[todo[1]]) : F[pos[1] + k] = G[todo[1]][k]
    <3>1. 1 \in 1..Len(todo)
      BY <1>1
    <3>. QED  BY <3>1 DEF Ahead
  <2>2. pos[1] \in Nat /\ 1 + 1 = 2
    BY <1>1, <2>1
  <2>3. ASSUME NEW k \in 1..Len(a) PROVE F[pos[1] + k] = a[k]
    <3>1. k \in 1..Len(G[todo[1]])
      BY <1>3
    <3>. QED  BY <1>3, <2>1, <3>1
  <2>4. ASSUME NEW k \in 1..Len(b) PROVE F[(pos[1] + Len(a)) + k] = b[k]
    <3>1. Len(a) + k \in 1..Len(G[todo[1]]) /\ (pos[1] + Len(a)) + k = pos[1] + (Len(a) + k)
      BY <1>3, <2>2
    <3>. QED  BY <1>3, <2>1, <3>1
  <2>. QED  BY <1>3, <2>1, <2>2, <2>3, <2>4
<1>5. /\ new \in [1..(Len(next) + 1) -> Nat] /\ new[1] = pos[1]
      /\ new[2] = pos[1] + Len(a)
      /\ \A i \in 3..(Len(todo) + 2) : new[i] = pos[i - 1]
  <2>1. ASSUME NEW i \in 1..(Len(todo) + 2) PROVE new[i] \in Nat
    <3>1. 1 \in 1..(Len(todo) + 1)
      BY <1>1
    <3>3. pos[1] \in Nat /\ pos[1] + Len(a) \in Nat
      <4>1. pos[1] \in Nat /\ Len(a) \in Nat
        BY <1>3, <1>4, <3>1
      <4>. QED  BY ONLY <4>1
    <3>2. i # 1 => pos[i - 1] \in Nat
      <4>1. i # 1 => i - 1 \in 1..(Len(todo) + 1)
        BY <1>1
      <4>. QED  BY <1>4, <4>1
    <3>. QED  BY <3>2, <3>3 DEF a
  <2>2. new[1] = pos[1] /\ new[2] = pos[1] + Len(a)
    BY <1>1 DEF a
  <2>3. \A i \in 3..(Len(todo) + 2) : new[i] = pos[i - 1]
    BY <1>1
  <2>4. Len(next) + 1 = Len(todo) + 2
    BY <1>1, <1>2
  <2>. QED  BY <2>1, <2>2, <2>3, <2>4
<1>. HIDE DEF new
<1>6. new[Len(next) + 1] = Len(F)
  <2>1. Len(next) + 1 \in 3..(Len(todo) + 2) /\ (Len(next) + 1) - 1 = Len(todo) + 1
    BY <1>1, <1>2
  <2>. QED  BY <1>5, <2>1 DEF Ahead
<1>7. ASSUME NEW i \in 1..Len(next)
      PROVE  /\ new[i + 1] = new[i] + Len(G[next[i]]) /\ new[i + 1] <= Len(F)
             /\ \A k \in 1..Len(G[next[i]]) : F[new[i] + k] = G[next[i]][k]
  <2>1. CASE i = 1
    <3>1. G[next[i]] = a /\ new[i] = pos[1] /\ new[i + 1] = pos[1] + Len(a)
      BY <1>2, <1>5, <2>1 DEF a
    <3>2. pos[1] + Len(a) <= Len(F)
      <4>1. 1 \in 1..(Len(todo) + 1)
        BY <1>1
      <4>2. pos[1] \in Nat /\ Len(a) \in Nat /\ Len(b) \in Nat
        BY <1>3, <1>4, <4>1
      <4>. QED  BY <1>4, <4>2
    <3>. QED  BY <1>4, <3>1, <3>2
  <2>2. CASE i = 2
    <3>1. G[next[i]] = b /\ new[i] = pos[1] + Len(a)
      BY <1>2, <1>5, <2>2 DEF b
    <3>2. i + 1 \in 3..(Len(todo) + 2) /\ (i + 1) - 1 = 2
      BY <1>1, <2>2
    <3>3. new[i + 1] = pos[2]
      BY <1>5, <3>2
    <3>. QED  BY <1>4, <3>1, <3>3
  <2>3. CASE i > 2
    <3>1. /\ i \in 3..(Len(todo) + 1) /\ i \in 3..(Len(todo) + 2) /\ i + 1 \in 3..(Len(todo) + 2)
          /\ (i + 1) - 1 = i /\ i - 1 \in 1..Len(todo) /\ (i - 1) + 1 = i
      <4>1. Len(todo) \in Nat /\ i \in 1..(Len(todo) + 1)
        BY <1>1, <1>2
      <4>. QED  BY ONLY <2>3, <4>1
    <3>2. next[i] = todo[i - 1] /\ new[i] = pos[i - 1] /\ new[i + 1] = pos[i]
      BY <1>2, <1>5, <3>1
    <3>. QED  BY <3>1, <3>2 DEF Ahead
  <2>. QED  BY <1>2, <2>1, <2>2, <2>3
<1>. QED  BY <1>5, <1>6, <1>7 DEF Ahead, next, WithOperands

\* A filter that is evaluated is behind.
LEMMA AheadOfFilter ==
    ASSUME NEW G, NEW F, NEW todo \in Seq(Nat), Len(todo) > 1, NEW pos, Ahead(G, F, todo, pos),
           Len(G[Head(todo)]) = 1
    PROVE  \E new : Ahead(G, F, Tail(todo), new) /\ new[1] = pos[1] + 1
<1> DEFINE new == [i \in 1..Len(todo) |-> pos[i + 1]]
<1>1. /\ Len(todo) \in Nat /\ todo # <<>> /\ Head(todo) = todo[1]
      /\ Tail(todo) \in Seq(Nat) /\ Len(Tail(todo)) = Len(todo) - 1
      /\ \A i \in 1..(Len(todo) - 1) : Tail(todo)[i] = todo[i + 1]
  BY RestOfMany
<1>2. new \in [1..(Len(Tail(todo)) + 1) -> Nat] /\ \A i \in 1..Len(todo) : new[i] = pos[i + 1]
  BY <1>1 DEF Ahead
<1>. HIDE DEF new
<1>3. new[1] = pos[1] + 1
  <2>1. 1 \in 1..Len(todo) /\ 1 + 1 = 2
    BY <1>1
  <2>2. Len(G[todo[1]]) = 1
    BY <1>1
  <2>3. pos[1 + 1] = pos[1] + Len(G[todo[1]])
    BY <2>1 DEF Ahead
  <2>. QED  BY <1>2, <2>1, <2>2, <2>3
<1>4. new[Len(Tail(todo)) + 1] = Len(F)
  BY <1>1, <1>2 DEF Ahead
<1>5. ASSUME NEW i \in 1..Len(Tail(todo))
      PROVE  /\ new[i + 1] = new[i] + Len(G[Tail(todo)[i]]) /\ new[i + 1] <= Len(F)
             /\ \A k \in 1..Len(G[Tail(todo)[i]]) : F[new[i] + k] = G[Tail(todo)[i]][k]
  <2>1. i + 1 \in 1..Len(todo) /\ i \in 1..Len(todo) /\ Tail(todo)[i] = todo[i + 1]
    BY <1>1
  <2>2. new[i] = pos[i + 1] /\ new[i + 1] = pos[(i + 1) + 1]
    BY <1>2, <2>1
  <2>. QED  BY <2>1, <2>2 DEF Ahead
<1>. QED  BY <1>2, <1>3, <1>4, <1>5 DEF Ahead

\* At most one place is the first that is not in T, or the last.
LEMMA OneDecides ==
    ASSUME NEW N \in Nat, NEW T, NEW n \in 1..N, NEW i \in 1..N,
           n = N \/ n \notin T, \A k \in 1..(n - 1) : k \in T,
           i = N \/ i \notin T, \A k \in 1..(i - 1) : k \in T
    PROVE  i = n
<1>1. ~(i < n)
  <2>. SUFFICES ASSUME i < n PROVE FALSE
    OBVIOUS
  <2>1. i \in 1..(n - 1) /\ i # N
    OBVIOUS
  <2>. QED  BY <2>1
<1>2. ~(n < i)
  <2>. SUFFICES ASSUME n < i PROVE FALSE
    OBVIOUS
  <2>1. n \in 1..(i - 1) /\ n # N
    OBVIOUS
  <2>. QED  BY <2>1
<1>. QED  BY <1>1, <1>2

\* The first filter that is not true decides, or the last.
LEMMA FirstDecides ==
    ASSUME NEW F \in Seq(Held), NEW d, NEW n \in 1..Len(F), Behind(F, d, n - 1),
           n = Len(F) \/ Abstract!ValueOf(F[n], d) \notin Truthy
    PROVE  Abstract!AnswerOf(F, d) = Extract(Abstract!ValueOf(F[n], d))
<1> DEFINE T == {k \in Nat : Abstract!ValueOf(F[k], d) \in Truthy}
           decides(i) ==
              /\ i = Len(F) \/ Abstract!ValueOf(F[i], d) \notin Truthy
              /\ \A k \in 1..(i - 1) : Abstract!ValueOf(F[k], d) \in Truthy
<1>1. DOMAIN F = 1..Len(F) /\ Len(F) \in Nat
  <2>1. \A s \in Seq(Held) : DOMAIN s = 1..Len(s) /\ Len(s) \in Nat
    OBVIOUS
  <2>. QED  BY <2>1
<1>2. decides(n)
  BY DEF Behind
<1>3. ASSUME NEW i \in 1..Len(F), decides(i)
      PROVE  (i = Len(F) \/ i \notin T) /\ \A k \in 1..(i - 1) : k \in T
  BY <1>3
<1>4. ASSUME NEW i \in DOMAIN F, decides(i) PROVE i = n
  <2>1. i \in 1..Len(F) /\ n \in 1..Len(F)
    BY <1>1
  <2>. HIDE DEF decides, T
  <2>2. (n = Len(F) \/ n \notin T) /\ \A k \in 1..(n - 1) : k \in T
    BY <1>2, <1>3
  <2>3. (i = Len(F) \/ i \notin T) /\ \A k \in 1..(i - 1) : k \in T
    BY <1>3, <1>4, <2>1
  <2>. QED  BY <1>1, <2>1, <2>2, <2>3, OneDecides
<1>5. (CHOOSE i \in DOMAIN F : decides(i)) = n
  <2>. HIDE DEF decides
  <2>. QED  BY <1>1, <1>2, <1>4
<1>6. Abstract!Truthy = Truthy /\ \A v : Abstract!Extract(v) = Extract(v)
  BY DEF Abstract!Truthy, Truthy, Abstract!Extract, Extract
<1>. QED  BY <1>5, <1>6 DEF Abstract!AnswerOf

\* A match is where it was when the nodes it has to come to keep their filters.
LEMMA AheadAgrees ==
    ASSUME NEW G, NEW H, NEW F, NEW todo, NEW pos, Ahead(G, F, todo, pos),
           \A i \in 1..Len(todo) : H[todo[i]] = G[todo[i]]
    PROVE  Ahead(H, F, todo, pos)
  BY DEF Ahead

\* concat never changes a node (the heap only grows).
LEMMA HeapGrows == TypeOK /\ [Next]_vars => Extends(heap')
<1>. SUFFICES ASSUME TypeOK, [Next]_vars PROVE Extends(heap')
  OBVIOUS
<1>1. /\ heap \in Seq(Node) /\ Len(heap) \in Nat /\ DOMAIN heap = 1..Len(heap)
      /\ root \in Nat /\ Null \in Nat /\ Len(heap) + 1 \in Nat
  BY DEF TypeOK, Null
<1>2. CASE UNCHANGED heap
  BY <1>1, <1>2 DEF Extends
<1>3. ASSUME NEW node \in Node, heap' = Append(heap, node) PROVE Extends(heap')
  BY <1>1, <1>3, Appended DEF Extends
<1>4. ASSUME NEW f \in Filter, Concat(f) PROVE Extends(heap')
  <2> DEFINE h == Append(heap, FilterNode(f))
             new == AndNode(root, Len(heap) + 1)
  <2>1. /\ h \in Seq(Node) /\ Len(h) = Len(heap) + 1 /\ DOMAIN h = 1..(Len(heap) + 1)
        /\ \A n \in DOMAIN heap : h[n] = heap[n]
    BY <1>1, Appended, FilterNodes
  <2>2. new \in Node /\ heap' = Append(h, new)
    BY <1>1, <1>4, AndNodes DEF Concat, ConcatRoot
  <2>. HIDE DEF h, new
  <2>3. Len(heap') = Len(heap) + 2 /\ \A n \in DOMAIN h : heap'[n] = h[n]
    BY <1>1, <2>1, <2>2, Appended
  <2>4. \A n \in DOMAIN heap : n \in DOMAIN h
    BY <1>1, <2>1
  <2>. QED  BY <1>1, <2>1, <2>3, <2>4 DEF Extends
<1>5. CASE ConcatEmpty
  <2>1. heap' = Append(heap, AndNode(root, Null)) /\ AndNode(root, Null) \in Node
    BY <1>1, <1>5, AndNodes DEF ConcatEmpty, ConcatRoot
  <2>. QED  BY <1>3, <2>1
<1>6. CASE ConcatRaises
  <2>1. FilterNode(CHOOSE f \in Filter : TRUE) \in Node
    BY FilterNodes, FilterAssumption
  <2>. QED  BY <1>3, <1>6, <2>1 DEF ConcatRaises
<1>. QED
  BY <1>2, <1>4, <1>5, <1>6
  DEF Next, vars, ConcatAborts, Match, MatchNull, EvalAnd, EvalFilter, Drop

\* What concat adds to the list of the bet's filters.
LEMMA ConcatAppends ==
    ASSUME TypeOK, TypeOK', Extends(heap')
    PROVE  /\ \A f \in Filter : Concat(f) => FiltersOf'[root'] = Append(FiltersOf[root], f)
           /\ ConcatEmpty => FiltersOf'[root'] = Append(FiltersOf[root], NoFilter)
<1>1. /\ heap \in Seq(Node) /\ Len(heap) \in Nat /\ DOMAIN heap = 1..Len(heap)
      /\ root \in Nat /\ root \in 0..Len(heap) /\ Null \in Nat /\ Len(heap) + 1 \in Nat
  BY DEF TypeOK, Null
<1>2. FilterLists /\ FilterLists'
  <2>1. TypeOK' => FilterLists'
    BY FiltersOfTypes, PTL
  <2>. QED  BY <2>1, FiltersOfTypes
<1>3. FiltersOf'[root] = FiltersOf[root] /\ FiltersOf[root] \in Seq(Held)
  <2>1. \A n \in 0..Len(heap) : FiltersOf'[n] = FiltersOf[n]
    BY FiltersStay DEF Extends
  <2>. QED  BY <1>1, <1>2, <2>1 DEF FilterLists, Held
<1>4. ASSUME NEW node \in Nat, NEW f \in Held, root' \in 1..Len(heap'),
             heap'[root'] = AndNode(root, node), FiltersOf'[node] = <<f>>
      PROVE  FiltersOf'[root'] = Append(FiltersOf[root], f)
  <2>1. IsAnd(root)' /\ heap'[root'].lhs = root /\ heap'[root'].rhs = node
    BY <1>1, <1>4, AndNodes DEF IsAnd
  <2>2. FiltersOf'[root'] = FiltersOf'[root] \o <<f>>
    BY <1>2, <1>4, <2>1 DEF FilterLists
  <2>3. ASSUME NEW a \in Seq(Held) PROVE a \o <<f>> = Append(a, f)
    OBVIOUS
  <2>. QED  BY <1>3, <2>2, <2>3
<1>5. ASSUME NEW f \in Filter, Concat(f)
      PROVE  FiltersOf'[root'] = Append(FiltersOf[root], f)
  <2> DEFINE h == Append(heap, FilterNode(f))
             new == AndNode(root, Len(heap) + 1)
  <2>1. /\ h \in Seq(Node) /\ Len(h) = Len(heap) + 1 /\ DOMAIN h = 1..(Len(heap) + 1)
        /\ h[Len(heap) + 1] = FilterNode(f)
    BY <1>1, Appended, FilterNodes
  <2>2. new \in Node /\ heap' = Append(h, new) /\ root' = Len(h) + 1
    BY <1>1, <1>5, AndNodes DEF Concat, ConcatRoot
  <2>. HIDE DEF h
  <2>3. /\ Len(heap') = Len(heap) + 2 /\ heap'[Len(heap) + 2] = new /\ root' = Len(heap) + 2
        /\ heap'[Len(heap) + 1] = FilterNode(f)
    <3>. HIDE DEF new
    <3>1. /\ Len(heap') = Len(h) + 1 /\ heap'[Len(h) + 1] = new
          /\ \A n \in DOMAIN h : heap'[n] = h[n]
      BY <2>1, <2>2, Appended
    <3>2. Len(heap) + 1 \in DOMAIN h
      BY <1>1, <2>1
    <3>. QED  BY <1>1, <2>1, <2>2, <3>1, <3>2
  <2>4. root' \in 1..Len(heap') /\ Len(heap) + 1 \in 1..Len(heap')
    BY <1>1, <2>3
  <2>5. FiltersOf'[Len(heap) + 1] = <<f>>
    <3>1. heap'[Len(heap) + 1].kind # "and" /\ heap'[Len(heap) + 1].filter = f
      BY <2>3, FilterNodes DEF FilterNode
    <3>. QED  BY <1>2, <2>4, <3>1 DEF FilterLists, IsAnd
  <2>. QED  BY <1>1, <1>4, <2>3, <2>4, <2>5 DEF Held
<1>6. ASSUME ConcatEmpty PROVE FiltersOf'[root'] = Append(FiltersOf[root], NoFilter)
  <2>1. AndNode(root, Null) \in Node /\ heap' = Append(heap, AndNode(root, Null)) /\ root' = Len(heap) + 1
    BY <1>1, <1>6, AndNodes DEF ConcatEmpty, ConcatRoot
  <2>2. root' \in 1..Len(heap') /\ heap'[root'] = AndNode(root, Null)
    BY <1>1, <2>1, Appended
  <2>3. FiltersOf'[Null] = <<NoFilter>>
    BY <1>2 DEF FilterLists, Null
  <2>. QED  BY <1>1, <1>4, <2>2, <2>3 DEF Held
<1>. QED  BY <1>5, <1>6

\* A match that takes no step stays on its way, whatever is added to the bet.
LEMMA WayStays ==
    ASSUME TypeOK, TypeOK', Extends(heap'), NEW t \in Thread, OnTheWay(t), call'[t] = call[t]
    PROVE  OnTheWay(t)'
<1>. SUFFICES ASSUME Running(t) PROVE OnTheWay(t)'
  BY DEF OnTheWay, Running
<1>1. /\ call[t].root \in 0..Len(heap) /\ Len(heap) \in Nat
      /\ \A i \in DOMAIN Todo(t) : Todo(t)[i] \in 0..Len(heap)
  BY DEF TypeOK
<1>2. DOMAIN Todo(t) = 1..Len(Todo(t))
  <2>1. Todo(t) \in Seq(Nat)
    BY DEF TypeOK, Running, Todo, Call
  <2>. QED  BY <2>1
<1>3. \A n \in 0..Len(heap) : FiltersOf'[n] = FiltersOf[n]
  BY FiltersStay DEF Extends
<1>4. PICK pos : /\ Ahead(FiltersOf, FiltersOf[call[t].root], Todo(t), pos)
                 /\ Behind(FiltersOf[call[t].root], call[t].dict, pos[1])
  BY DEF OnTheWay
<1>5. Ahead(FiltersOf', FiltersOf[call[t].root], Todo(t), pos)
  BY <1>1, <1>2, <1>3, <1>4, AheadAgrees
<1>6. Todo(t)' = Todo(t) /\ FiltersOf'[call'[t].root] = FiltersOf[call[t].root]
  BY <1>1, <1>3 DEF Todo
<1>7. /\ Ahead(FiltersOf', FiltersOf'[call'[t].root], Todo(t)', pos)
      /\ Behind(FiltersOf'[call'[t].root], call'[t].dict, pos[1])
  BY <1>4, <1>5, <1>6
<1>. QED  BY <1>7 DEF OnTheWay

\* A match that begins has all the filters of the root ahead.
LEMMA WayBegins ==
    ASSUME TypeOK, TypeOK', NEW t \in Thread, NEW d \in Dict, Match(t, d)
    PROVE  OnTheWay(t)'
<1> DEFINE F == FiltersOf[root]
           pos == [i \in 1..2 |-> IF i = 1 THEN 0 ELSE Len(F)]
<1>1. /\ root \in 0..Len(heap) /\ root \in Nat /\ call \in [Thread -> Call \cup {NoCall}]
      /\ UNCHANGED heap
  BY DEF TypeOK, Match
<1>2. F \in Seq(Held) /\ Len(F) \in Nat
  <2>1. F \in Seq(Held)
    BY <1>1, FiltersOfTypes DEF FilterLists, Held
  <2>2. \A s \in Seq(Held) : Len(s) \in Nat
    OBVIOUS
  <2>. QED  BY <2>1, <2>2
<1>3. call'[t] = [root |-> root, dict |-> d, todo |-> <<root>>]
  BY <1>1 DEF Match
<1>4. call'[t].root = root /\ Todo(t)' = <<root>>
  BY <1>3 DEF Todo
<1>5. FiltersOf' = FiltersOf
  BY <1>1 DEF FiltersOf, IsAnd
<1>. HIDE DEF F
<1>6. Ahead(FiltersOf, F, <<root>>, pos)
  <2>1. Len(<<root>>) = 1 /\ <<root>>[1] = root /\ 1 + 1 = 2
    OBVIOUS
  <2>2. pos \in [1..2 -> Nat] /\ pos[1] = 0 /\ pos[2] = Len(F)
    BY <1>2
  <2>3. Len(F) = 0 + Len(F) /\ Len(F) <= Len(F) /\ \A k \in 1..Len(F) : 0 + k = k
    BY <1>2
  <2>. HIDE DEF pos
  <2>4. \A i \in 1..1 : i = 1
    OBVIOUS
  <2>5. FiltersOf[root] = F
    BY DEF F
  <2>. QED  BY <2>1, <2>2, <2>3, <2>4, <2>5 DEF Ahead
<1>7. Behind(F, d, pos[1])
  BY DEF Behind
<1>8. /\ Ahead(FiltersOf', FiltersOf'[call'[t].root], Todo(t)', pos)
      /\ Behind(FiltersOf'[call'[t].root], call'[t].dict, pos[1])
  BY <1>3, <1>4, <1>5, <1>6, <1>7 DEF F
<1>. QED  BY <1>8 DEF OnTheWay

\* The next operand of a running match, and where its filters are.
LEMMA TopOperand ==
    ASSUME TypeOK, NEW t \in Thread, Running(t)
    PROVE  /\ call[t] \in Call /\ call \in [Thread -> Call \cup {NoCall}]
           /\ Todo(t) \in Seq(Nat) /\ Todo(t) # <<>> /\ Todo(t) = call[t].todo
           /\ Head(Todo(t)) \in 0..Len(heap) /\ call[t].root \in 0..Len(heap)
           /\ FiltersOf[call[t].root] \in Seq(Held) /\ Len(FiltersOf[call[t].root]) \in Nat
<1>1. call[t] \in Call /\ call \in [Thread -> Call \cup {NoCall}] /\ Todo(t) # <<>>
  BY DEF TypeOK, Running
<1>2. Todo(t) \in Seq(Nat) /\ Todo(t) = call[t].todo
  BY <1>1 DEF Todo, Call
<1>3. Head(Todo(t)) = Todo(t)[1] /\ 1 \in DOMAIN Todo(t)
  BY <1>1, <1>2
<1>4. Head(Todo(t)) \in 0..Len(heap) /\ call[t].root \in 0..Len(heap)
  BY <1>3 DEF TypeOK
<1>5. FiltersOf[call[t].root] \in Seq(Held)
  BY <1>4, FiltersOfTypes DEF FilterLists, Held
<1>6. \A s \in Seq(Held) : Len(s) \in Nat
  OBVIOUS
<1>. QED  BY <1>1, <1>2, <1>4, <1>5, <1>6

\* AndNode::eval goes on with its operands.
LEMMA WayAnd ==
    ASSUME TypeOK, NEW t \in Thread, OnTheWay(t), EvalAnd(t)
    PROVE  OnTheWay(t)'
<1> DEFINE top == Head(Todo(t))
           node == heap[top]
           F == FiltersOf[call[t].root]
<1>1. Running(t) /\ top # Null /\ IsAnd(top) /\ UNCHANGED heap
  BY DEF EvalAnd
<1>2. /\ call[t] \in Call /\ call \in [Thread -> Call \cup {NoCall}]
      /\ Todo(t) \in Seq(Nat) /\ Todo(t) # <<>> /\ Todo(t) = call[t].todo
      /\ top \in 0..Len(heap) /\ Len(F) \in Nat
  BY <1>1, TopOperand
<1>3. top \in 1..Len(heap) /\ Len(heap) \in Nat
  BY <1>1, <1>2 DEF Null, TypeOK
<1>4. /\ node.lhs \in 0..Len(heap) /\ node.rhs \in 0..Len(heap)
      /\ node.lhs \in Nat /\ node.rhs \in Nat
  <2>1. node.lhs \in 0..(top - 1) /\ node.rhs \in 0..(top - 1)
    BY <1>1, <1>3, Operands
  <2>. QED  BY <1>3, <2>1
<1>5. /\ FiltersOf[top] = FiltersOf[node.lhs] \o FiltersOf[node.rhs]
      /\ FiltersOf[node.lhs] \in Seq(Held) /\ FiltersOf[node.rhs] \in Seq(Held)
  BY <1>1, <1>3, <1>4, FiltersOfTypes DEF FilterLists, Held
<1>6. PICK pos : Ahead(FiltersOf, F, Todo(t), pos) /\ Behind(F, call[t].dict, pos[1])
  BY <1>1 DEF OnTheWay
<1>7. PICK new : /\ Ahead(FiltersOf, F, WithOperands(Todo(t), node.lhs, node.rhs), new)
                 /\ new[1] = pos[1]
  <2>1. OperandsOf(FiltersOf, Head(Todo(t)), node.lhs, node.rhs)
    BY <1>5 DEF OperandsOf
  <2>. HIDE DEF node, F
  <2>. QED  BY <1>2, <1>4, <1>6, <2>1, AheadOfAnd DEF top
<1>8. /\ call'[t].todo = <<node.lhs, node.rhs>> \o Tail(Todo(t))
      /\ call'[t].root = call[t].root /\ call'[t].dict = call[t].dict
  <2>1. call' = [call EXCEPT ![t].todo = <<node.lhs, node.rhs>> \o Tail(@)]
    BY DEF EvalAnd
  <2>. QED  BY <1>2, <2>1 DEF Call
<1>9. FiltersOf' = FiltersOf
  BY <1>1 DEF FiltersOf, IsAnd
<1>10. /\ Ahead(FiltersOf', FiltersOf'[call'[t].root], Todo(t)', new)
       /\ Behind(FiltersOf'[call'[t].root], call'[t].dict, new[1])
  BY <1>6, <1>7, <1>8, <1>9 DEF Todo, WithOperands
<1>. QED  BY <1>10 DEF OnTheWay

\* A filter is the next of those the match answers for.
LEMMA WayFilter ==
    ASSUME TypeOK, NEW t \in Thread, Running(t), NEW pos, NEW f,
           Ahead(FiltersOf, FiltersOf[call[t].root], Todo(t), pos),
           FiltersOf[Head(Todo(t))] = <<f>>
    PROVE  LET F == FiltersOf[call[t].root]
           IN  /\ pos[1] \in Nat /\ pos[1] + 1 \in 1..Len(F) /\ F[pos[1] + 1] = f
               /\ Len(Todo(t)) = 1 => pos[1] + 1 = Len(F)
<1> DEFINE F == FiltersOf[call[t].root]
<1>1. /\ Todo(t) \in Seq(Nat) /\ Todo(t) # <<>> /\ Len(F) \in Nat
  BY TopOperand
<1>2. 1 \in 1..Len(Todo(t)) /\ 1 \in 1..(Len(Todo(t)) + 1) /\ Head(Todo(t)) = Todo(t)[1] /\ 1 + 1 = 2
  BY <1>1
<1>3. /\ pos[1] \in Nat /\ pos[2] = pos[1] + Len(FiltersOf[Head(Todo(t))]) /\ pos[2] <= Len(F)
      /\ \A k \in 1..Len(FiltersOf[Head(Todo(t))]) :
            F[pos[1] + k] = FiltersOf[Head(Todo(t))][k]
      /\ pos[Len(Todo(t)) + 1] = Len(F)
  BY <1>2 DEF Ahead
<1>4. Len(<<f>>) = 1 /\ <<f>>[1] = f /\ 1 \in 1..1
  OBVIOUS
<1>5. pos[2] = pos[1] + 1 /\ F[pos[1] + 1] = f
  BY <1>3, <1>4
<1>6. pos[1] + 1 \in 1..Len(F)
  BY <1>1, <1>3, <1>5
<1>. QED  BY <1>2, <1>3, <1>5, <1>6

\* What a filter of the heap evaluates to.
LEMMA FilterValue ==
    ASSUME TypeOK, NEW t \in Thread, Running(t), Head(Todo(t)) # Null, ~IsAnd(Head(Todo(t)))
    PROVE  LET f == heap[Head(Todo(t))].filter
           IN  /\ f \in Filter /\ FiltersOf[Head(Todo(t))] = <<f>>
               /\ Abstract!ValueOf(f, call[t].dict) = f[call[t].dict]
               /\ f[call[t].dict] \in Value
<1>1. Head(Todo(t)) \in 0..Len(heap) /\ Len(heap) \in Nat /\ call[t] \in Call
  BY TopOperand DEF TypeOK
<1>2. Head(Todo(t)) \in 1..Len(heap)
  BY <1>1 DEF Null
<1>3. heap[Head(Todo(t))].filter \in Filter
  BY <1>2, Leaves
<1>4. FiltersOf[Head(Todo(t))] = <<heap[Head(Todo(t))].filter>>
  BY <1>2, FiltersOfTypes DEF FilterLists
<1>5. call[t].dict \in Dict
  BY <1>1 DEF Call
<1>. QED  BY <1>3, <1>4, <1>5, FilterAssumption DEF Abstract!ValueOf

\* A filter that is true, and not the last, leaves the others ahead.
LEMMA WayOn ==
    ASSUME TypeOK, NEW t \in Thread, OnTheWay(t), EvalFilter(t)
    PROVE  OnTheWay(t)'
<1> DEFINE top == Head(Todo(t))
           f == heap[top].filter
           F == FiltersOf[call[t].root]
<1>1. Running(t) /\ top # Null /\ ~IsAnd(top) /\ UNCHANGED heap
  BY DEF EvalFilter
<1>2. /\ call[t] \in Call /\ call \in [Thread -> Call \cup {NoCall}]
      /\ Todo(t) \in Seq(Nat) /\ Todo(t) = call[t].todo
  BY <1>1, TopOperand
<1>3. /\ FiltersOf[top] = <<f>> /\ Abstract!ValueOf(f, call[t].dict) = f[call[t].dict]
  BY <1>1, FilterValue
<1>4. CASE call' = [call EXCEPT ![t] = NoCall]
  BY <1>2, <1>4 DEF OnTheWay, Running
<1>5. CASE call' = [call EXCEPT ![t].todo = Tail(@)] /\ f[call[t].dict] \in Truthy /\ Len(Todo(t)) > 1
  <2>1. PICK pos : Ahead(FiltersOf, F, Todo(t), pos) /\ Behind(F, call[t].dict, pos[1])
    BY <1>1 DEF OnTheWay
  <2>2. pos[1] \in Nat /\ F[pos[1] + 1] = f
    BY <1>1, <1>3, <2>1, WayFilter
  <2>3. PICK new : Ahead(FiltersOf, F, Tail(Todo(t)), new) /\ new[1] = pos[1] + 1
    <3>1. Len(FiltersOf[Head(Todo(t))]) = 1
      <4>1. \A g : Len(<<g>>) = 1
        OBVIOUS
      <4>. QED  BY <1>3, <4>1
    <3>2. Todo(t) \in Seq(Nat) /\ Len(Todo(t)) > 1
      BY <1>2, <1>5
    <3>. HIDE DEF F, f
    <3>. QED  BY <2>1, <3>1, <3>2, AheadOfFilter
  <2>4. Behind(F, call[t].dict, new[1])
    <3>1. ASSUME NEW k \in 1..(pos[1] + 1) PROVE Abstract!ValueOf(F[k], call[t].dict) \in Truthy
      <4>1. CASE k = pos[1] + 1
        BY <1>3, <1>5, <2>2, <4>1
      <4>2. CASE k # pos[1] + 1
        <5>1. k \in 1..pos[1]
          BY <2>2, <4>2
        <5>. QED  BY <2>1, <5>1 DEF Behind
      <4>. QED  BY <4>1, <4>2
    <3>. QED  BY <2>3, <3>1 DEF Behind
  <2>5. /\ call'[t].todo = Tail(Todo(t)) /\ call'[t].root = call[t].root
        /\ call'[t].dict = call[t].dict
    BY <1>2, <1>5 DEF Call
  <2>6. FiltersOf' = FiltersOf
    BY <1>1 DEF FiltersOf, IsAnd
  <2>7. /\ Ahead(FiltersOf', FiltersOf'[call'[t].root], Todo(t)', new)
        /\ Behind(FiltersOf'[call'[t].root], call'[t].dict, new[1])
    BY <2>3, <2>4, <2>5, <2>6 DEF Todo
  <2>. QED  BY <2>7 DEF OnTheWay
<1>. QED  BY <1>4, <1>5 DEF EvalFilter

LEMMA WayInit == Init => WayInv
<1>. SUFFICES ASSUME Init PROVE WayInv
  OBVIOUS
<1>1. \A t \in Thread : OnTheWay(t)
  BY DEF Init, OnTheWay, Running
<1>2. TypeOK
  BY TypedInit
<1>3. \A f \in Held : Len(<<f>>) = 1
  OBVIOUS
<1>4. ASSUME NEW f \in Filter, heap = <<FilterNode(f)>>, root = 1 PROVE FewFilters
  <2>1. ~IsAnd(1) /\ 1 \in 1..Len(heap) /\ heap[1].filter = f /\ Len(heap) = 1
    BY <1>4, FilterNodes DEF IsAnd, FilterNode
  <2>2. FiltersOf[root] = <<f>>
    BY <1>2, <1>4, <2>1, FiltersOfTypes DEF FilterLists
  <2>. QED  BY <1>3, <2>1, <2>2 DEF FewFilters, Held
<1>5. ASSUME heap = <<>>, root = Null PROVE FewFilters
  <2>1. FiltersOf[root] = <<NoFilter>> /\ Len(heap) = 0
    BY <1>2, <1>5, FiltersOfTypes DEF FilterLists
  <2>. QED  BY <1>3, <2>1 DEF FewFilters, Held
<1>. QED  BY <1>1, <1>4, <1>5 DEF Init, WayInv

\* Every action keeps every match on its way, and the filters few.
LEMMA WayNext == TypeOK /\ TypeOK' /\ WayInv /\ [Next]_vars => WayInv'
<1>. SUFFICES ASSUME TypeOK, TypeOK', WayInv, [Next]_vars PROVE WayInv'
  OBVIOUS
<1>1. Extends(heap')
  BY HeapGrows
<1>2. ASSUME NEW t \in Thread PROVE OnTheWay(t)'
  <2>1. CASE call'[t] = call[t]
    BY <1>1, <2>1, WayStays DEF WayInv
  <2>2. CASE call'[t] # call[t]
    <3>1. PICK u \in Thread : EvalAnd(u) \/ EvalFilter(u) \/ \E d \in Dict : Match(u, d)
      BY <2>2 DEF Next, vars, Concat, ConcatEmpty, ConcatAborts, ConcatRaises, MatchNull, Drop
    <3>2. u = t
      BY <2>2, <3>1 DEF EvalAnd, EvalFilter, Match, TypeOK
    <3>. QED  BY <3>1, <3>2, WayAnd, WayOn, WayBegins DEF WayInv
  <2>. QED  BY <2>1, <2>2
<1>3. FewFilters'
  <2>1. /\ root \in 0..Len(heap) /\ heap \in Seq(Node) /\ Len(heap) \in Nat /\ Len(heap') \in Nat
        /\ Len(heap) <= Len(heap')
    BY <1>1 DEF TypeOK, Extends
  <2>2. FiltersOf[root] \in Seq(Held) /\ Len(FiltersOf[root]) <= Len(heap) + 1
    BY <2>1, FiltersOfTypes DEF FilterLists, Held, WayInv, FewFilters
  <2>3. \A s \in Seq(Held), f \in Held : Len(s) \in Nat /\ Len(Append(s, f)) = Len(s) + 1
    OBVIOUS
  <2>4. ASSUME NEW f \in Held, FiltersOf'[root'] = Append(FiltersOf[root], f), Len(heap') > Len(heap)
        PROVE  FewFilters'
    <3>1. Len(FiltersOf'[root']) = Len(FiltersOf[root]) + 1 /\ Len(FiltersOf[root]) \in Nat
      BY <2>2, <2>3, <2>4
    <3>2. /\ Len(heap) \in Nat /\ Len(heap') \in Nat /\ Len(heap') > Len(heap)
          /\ Len(FiltersOf[root]) <= Len(heap) + 1
      BY <2>1, <2>2, <2>4
    <3>3. Len(FiltersOf'[root']) <= Len(heap') + 1
      BY ONLY <3>1, <3>2
    <3>. QED  BY <3>3 DEF FewFilters
  <2>5. CASE \E f \in Filter : Concat(f)
    <3>1. PICK f \in Filter : Concat(f)
      BY <2>5
    <3>2. FiltersOf'[root'] = Append(FiltersOf[root], f) /\ f \in Held
      BY <1>1, <3>1, ConcatAppends DEF Held
    <3>3. Len(heap') > Len(heap)
      <4>1. root' \in 0..Len(heap') /\ root' = Len(Append(heap, FilterNode(f))) + 1
        BY <3>1 DEF TypeOK, Concat, ConcatRoot
      <4>2. Len(Append(heap, FilterNode(f))) = Len(heap) + 1
        BY <2>1
      <4>. QED  BY <2>1, <4>1, <4>2
    <3>. QED  BY <2>4, <3>2, <3>3
  <2>6. CASE ConcatEmpty
    <3>1. FiltersOf'[root'] = Append(FiltersOf[root], NoFilter) /\ NoFilter \in Held
      BY <1>1, <2>6, ConcatAppends DEF Held
    <3>2. Len(heap') > Len(heap)
      <4>1. root' \in 0..Len(heap') /\ root' = Len(heap) + 1
        BY <2>6 DEF TypeOK, ConcatEmpty, ConcatRoot
      <4>. QED  BY <2>1, <4>1
    <3>. QED  BY <2>4, <3>1, <3>2
  <2>7. CASE root' = root
    <3>1. FiltersOf'[root'] = FiltersOf[root]
      BY <1>1, <2>1, <2>7, FiltersStay DEF Extends
    <3>2. Len(FiltersOf[root]) \in Nat
      BY <2>2, <2>3
    <3>. QED  BY <2>1, <2>2, <3>1, <3>2 DEF FewFilters
  <2>. QED
    BY <2>5, <2>6, <2>7
    DEF Next, vars, ConcatAborts, ConcatRaises, Match, MatchNull, EvalAnd, EvalFilter, Drop
<1>. QED  BY <1>2, <1>3 DEF WayInv

-----------------------------------------------------------------------------
(* Every step of the bet is one of Conjunction, or changes nothing there. *)

\* What Abstract takes for asked.
Asked == [t \in Thread |-> IF Running(t) THEN [filters |-> FiltersOf[call[t].root],
                                               dict |-> call[t].dict]
                           ELSE NoCall]

\* A thread has asked exactly when its match runs.
LEMMA AskedRunning == ASSUME TypeOK, NEW t \in Thread
                      PROVE  Asked[t] # NoCall <=> Running(t)
<1>1. CASE Running(t)
  <2>1. FiltersOf[call[t].root] \in Seq(Held) /\ call[t].dict \in Dict
    BY <1>1, TopOperand DEF Call
  <2>2. [filters |-> FiltersOf[call[t].root], dict |-> call[t].dict]
            \in [filters : Seq(Filter \cup {NoFilter}), dict : Dict]
    BY <2>1 DEF Held
  <2>. QED  BY <1>1, <2>2, CallAssumption DEF Asked
<1>2. CASE ~Running(t)
  BY <1>2 DEF Asked
<1>. QED  BY <1>1, <1>2

\* What was asked stays, whatever is added to the bet.
LEMMA AskedStays ==
    ASSUME TypeOK, TypeOK', Extends(heap'), NEW t \in Thread,
           call'[t].root = call[t].root, call'[t].dict = call[t].dict, Running(t)' <=> Running(t)
    PROVE  Asked'[t] = Asked[t]
<1>1. CASE Running(t)
  <2>1. FiltersOf'[call[t].root] = FiltersOf[call[t].root]
    BY <1>1, TopOperand, FiltersStay DEF Extends
  <2>. QED  BY <1>1, <2>1 DEF Asked
<1>2. CASE ~Running(t)
  BY <1>2 DEF Asked
<1>. QED  BY <1>1, <1>2

\* The same for all threads, when none takes a step of a match.
LEMMA AskedUnchanged ==
    ASSUME TypeOK, TypeOK', Extends(heap'), UNCHANGED call
    PROVE  Asked' = Asked
<1>1. \A t \in Thread : Asked'[t] = Asked[t]
  BY AskedStays DEF Running
<1>2. Asked = [t \in Thread |-> Asked[t]] /\ Asked' = [t \in Thread |-> Asked'[t]]
  BY DEF Asked
<1>. QED  BY <1>1, <1>2

\* The filters of the bet stay unless concat appends to them.
LEMMA FiltersUnchanged ==
    ASSUME TypeOK, TypeOK', Extends(heap'), UNCHANGED root
    PROVE  FiltersOf'[root'] = FiltersOf[root]
  BY FiltersStay DEF Extends, TypeOK

\* concat adds one filter, or NoFilter for an empty text.
LEMMA StepAdd ==
    ASSUME TypeOK, TypeOK', Extends(heap'), FewFilters, NEW f \in Held,
           (f \in Filter /\ Concat(f)) \/ (f = NoFilter /\ ConcatEmpty)
    PROVE  Abstract!Add(f)
<1>1. FiltersOf'[root'] = Append(FiltersOf[root], f)
  BY ConcatAppends
<1>2. status = "alive" /\ UNCHANGED <<call, answer, status>> /\ Len(heap) + 1 <= MaxNodes
  <2>1. Len(heap) \in Nat
    BY DEF TypeOK
  <2>. QED  BY <2>1, NodesAssumption DEF Concat, ConcatEmpty
<1>3. Len(FiltersOf[root]) < MaxNodes + 1
  <2>1. Len(heap) \in Nat
    BY DEF TypeOK
  <2>2. Len(FiltersOf[root]) \in Nat
    <3>1. FiltersOf[root] \in Seq(Held)
      BY FiltersOfTypes DEF TypeOK, FilterLists, Held
    <3>2. \A s \in Seq(Held) : Len(s) \in Nat
      OBVIOUS
    <3>. QED  BY <3>1, <3>2
  <2>. QED  BY <2>1, <2>2, <1>2, NodesAssumption DEF FewFilters
<1>4. Asked' = Asked
  BY <1>2, AskedUnchanged
<1>. QED  BY <1>1, <1>2, <1>3, <1>4 DEF Abstract!Add, Asked

\* match asks for the filters of the root.
LEMMA StepAsk ==
    ASSUME TypeOK, TypeOK', Extends(heap'), NEW t \in Thread, NEW d \in Dict, Match(t, d)
    PROVE  Abstract!Ask(t, d)
<1>1. /\ UNCHANGED <<heap, root, status>> /\ status = "alive"
      /\ call \in [Thread -> Call \cup {NoCall}] /\ answer' = [answer EXCEPT ![t] = "none"]
  BY DEF Match, TypeOK
<1>2. Asked[t] = NoCall
  BY AskedRunning DEF Match
<1>3. FiltersOf'[root'] = FiltersOf[root]
  BY <1>1, FiltersUnchanged
<1>4. Asked' = [Asked EXCEPT ![t] = [filters |-> FiltersOf[root], dict |-> d]]
  <2>1. ASSUME NEW u \in Thread, u # t PROVE Asked'[u] = Asked[u]
    <3>1. call'[u] = call[u]
      BY <1>1, <2>1 DEF Match
    <3>. QED  BY <3>1, AskedStays DEF Running
  <2>2. Asked'[t] = [filters |-> FiltersOf[root], dict |-> d]
    <3>1. call'[t] = [root |-> root, dict |-> d, todo |-> <<root>>]
      BY <1>1 DEF Match
    <3>2. call'[t].root = root /\ call'[t].dict = d
      BY <3>1
    <3>3. Running(t)'
      <4>1. call'[t] \in Call
        <5>1. root \in Nat /\ <<root>> \in Seq(Nat)
          BY DEF TypeOK
        <5>. QED  BY <3>1, <5>1 DEF Call
      <4>. QED  BY <4>1, CallAssumption DEF Running
    <3>. QED  BY <1>1, <1>3, <3>2, <3>3 DEF Asked
  <2>3. Asked = [u \in Thread |-> Asked[u]] /\ Asked' = [u \in Thread |-> Asked'[u]]
    BY DEF Asked
  <2>4. Asked' = [u \in Thread |-> IF u = t THEN [filters |-> FiltersOf[root], dict |-> d]
                                    ELSE Asked[u]]
    BY <2>1, <2>2, <2>3
  <2>. HIDE DEF Asked
  <2>. QED  BY <2>3, <2>4
<1>. QED  BY <1>1, <1>2, <1>3, <1>4 DEF Abstract!Ask, Asked

\* The step of a match that is not its last changes nothing.
LEMMA StepOn ==
    ASSUME TypeOK, TypeOK', Extends(heap'), NEW t \in Thread,
           UNCHANGED <<heap, root, answer, status>>, Running(t), NEW todo \in Seq(Nat),
           call' = [call EXCEPT ![t].todo = todo]
    PROVE  UNCHANGED Abstract!vars
<1>1. FiltersOf'[root'] = FiltersOf[root]
  BY FiltersUnchanged
<1>2. Asked' = Asked
  <2>0. call[t] \in Call /\ call \in [Thread -> Call \cup {NoCall}]
    BY TopOperand
  <2>1. ASSUME NEW u \in Thread PROVE Asked'[u] = Asked[u]
    <3>1. CASE u # t
      <4>1. call'[u] = call[u]
        BY <2>0, <3>1
      <4>. QED  BY <4>1, AskedStays DEF Running
    <3>2. CASE u = t
      <4>1. /\ call'[t] = [call[t] EXCEPT !.todo = todo] /\ call'[t] \in Call
            /\ call'[t].root = call[t].root /\ call'[t].dict = call[t].dict
        BY <2>0 DEF Call
      <4>2. Running(t)'
        BY <4>1, CallAssumption DEF Running
      <4>. QED  BY <3>2, <4>1, <4>2, AskedStays
    <3>. QED  BY <3>1, <3>2
  <2>2. Asked = [u \in Thread |-> Asked[u]] /\ Asked' = [u \in Thread |-> Asked'[u]]
    BY DEF Asked
  <2>. QED  BY <2>1, <2>2
<1>. QED  BY <1>1, <1>2 DEF Abstract!vars, Asked

\* A match answers for the filters it has asked for: the one it evaluates decides.
LEMMA StepAnswer ==
    ASSUME TypeOK, TypeOK', Extends(heap'), NEW t \in Thread, OnTheWay(t), EvalFilter(t),
           call' = [call EXCEPT ![t] = NoCall]
    PROVE  Abstract!Answer(t)
<1> DEFINE top == Head(Todo(t))
           f == heap[top].filter
           d == call[t].dict
           F == FiltersOf[call[t].root]
<1>1. /\ Running(t) /\ top # Null /\ ~IsAnd(top) /\ status = "alive"
      /\ UNCHANGED <<heap, root, status>>
  BY DEF EvalFilter
<1>2. /\ Todo(t) \in Seq(Nat) /\ Todo(t) # <<>> /\ F \in Seq(Held)
      /\ call[t] \in Call /\ call \in [Thread -> Call \cup {NoCall}]
  BY <1>1, TopOperand
<1>3. /\ FiltersOf[top] = <<f>> /\ Abstract!ValueOf(f, d) = f[d] /\ f[d] \in Value
  BY <1>1, FilterValue
<1>4. /\ ~(f[d] \in Truthy /\ Len(Todo(t)) > 1)
      /\ answer' = [answer EXCEPT ![t] = Extract(f[d])]
  <2>1. CASE f[d] \in Truthy /\ Len(Todo(t)) > 1
    <3>1. call' = [call EXCEPT ![t].todo = Tail(@)]
      BY <2>1 DEF EvalFilter
    <3>2. call'[t] = [call[t] EXCEPT !.todo = Tail(@)] /\ call'[t] = NoCall
      BY <1>2, <3>1
    <3>3. call'[t] \in Call
      <4>1. call[t].todo \in Seq(Nat) /\ Len(call[t].todo) > 1
        BY <1>2, <2>1 DEF Todo
      <4>2. Tail(call[t].todo) \in Seq(Nat)
        BY <4>1
      <4>. QED  BY <1>2, <3>2, <4>2 DEF Call
    <3>. QED  BY <3>2, <3>3, CallAssumption
  <2>2. CASE ~(f[d] \in Truthy /\ Len(Todo(t)) > 1)
    BY <2>2 DEF EvalFilter
  <2>. QED  BY <2>1, <2>2
<1>5. PICK pos : Ahead(FiltersOf, F, Todo(t), pos) /\ Behind(F, d, pos[1])
  BY <1>1 DEF OnTheWay
<1>6. /\ pos[1] \in Nat /\ pos[1] + 1 \in 1..Len(F) /\ F[pos[1] + 1] = f
      /\ Len(Todo(t)) = 1 => pos[1] + 1 = Len(F)
  BY <1>1, <1>3, <1>5, WayFilter
<1>7. Abstract!AnswerOf(F, d) = Extract(f[d])
  <2> DEFINE n == pos[1] + 1
  <2>1. n - 1 = pos[1]
    BY <1>6
  <2>2. f[d] \in Truthy => n = Len(F)
    <3>1. Len(Todo(t)) \in Nat /\ Len(Todo(t)) # 0
      BY <1>2
    <3>2. f[d] \in Truthy => ~(Len(Todo(t)) > 1)
      BY <1>4
    <3>3. ~(Len(Todo(t)) > 1) => Len(Todo(t)) = 1
      <4>1. \A k \in Nat : k # 0 /\ ~(k > 1) => k = 1
        OBVIOUS
      <4>. QED  BY ONLY <3>1, <4>1
    <3>. QED  BY <1>6, <3>2, <3>3
  <2>3. n \in 1..Len(F) /\ F[n] = f /\ Behind(F, d, n - 1)
    BY <1>5, <1>6, <2>1
  <2>. HIDE DEF n, F, f, d
  <2>4. n = Len(F) \/ Abstract!ValueOf(F[n], d) \notin Truthy
    BY <1>3, <2>2, <2>3
  <2>5. Abstract!AnswerOf(F, d) = Extract(Abstract!ValueOf(F[n], d))
    BY <1>2, <2>3, <2>4, FirstDecides
  <2>. QED  BY <1>3, <2>3, <2>5
<1>8. Extract(f[d]) # "dies"
  BY <1>3 DEF Value, Truthy, Extract
<1>9. FiltersOf'[root'] = FiltersOf[root]
  BY <1>1, FiltersUnchanged
<1>10. Asked' = [Asked EXCEPT ![t] = NoCall]
  <2>1. ASSUME NEW u \in Thread, u # t PROVE Asked'[u] = Asked[u]
    <3>1. call'[u] = call[u]
      BY <1>2, <2>1
    <3>. QED  BY <3>1, AskedStays DEF Running
  <2>2. Asked'[t] = NoCall
    BY <1>2 DEF Asked, Running
  <2>3. Asked = [u \in Thread |-> Asked[u]] /\ Asked' = [u \in Thread |-> Asked'[u]]
    BY DEF Asked
  <2>4. Asked' = [u \in Thread |-> IF u = t THEN NoCall ELSE Asked[u]]
    BY <2>1, <2>2, <2>3
  <2>. HIDE DEF Asked
  <2>. QED  BY <2>3, <2>4
<1>11. Asked[t] # NoCall /\ Asked[t].filters = F /\ Asked[t].dict = d
  BY <1>1, AskedRunning DEF Asked
<1>. HIDE DEF F, f, d
<1>. QED  BY <1>1, <1>4, <1>7, <1>8, <1>9, <1>10, <1>11 DEF Abstract!Answer, Asked

\* Whatever ends the process comes upon a null: NoFilter is among the filters of
\* the bet, or it decides what a match asked for.
LEMMA StepDie ==
    ASSUME TypeOK, status = "alive", status' = "dead", UNCHANGED <<heap, root, call, answer>>,
           \/ \E i \in 1..Len(FiltersOf[root]) : FiltersOf[root][i] = NoFilter
           \/ \E t \in Thread : Running(t) /\ Head(Todo(t)) = Null /\ OnTheWay(t)
    PROVE  Abstract!Die
<1>1. UNCHANGED <<FiltersOf[root], Asked>>
  BY DEF FiltersOf, Asked, Running, IsAnd
<1>2. CASE \E i \in 1..Len(FiltersOf[root]) : FiltersOf[root][i] = NoFilter
  <2>1. Abstract!Contains(FiltersOf[root], NoFilter)
    BY <1>2 DEF Abstract!Contains
  <2>. QED  BY <1>1, <2>1 DEF Abstract!Die, Asked
<1>3. ASSUME NEW t \in Thread, Running(t), Head(Todo(t)) = Null, OnTheWay(t) PROVE Abstract!Die
  <2> DEFINE F == FiltersOf[call[t].root]
             d == call[t].dict
  <2>1. PICK pos : Ahead(FiltersOf, F, Todo(t), pos) /\ Behind(F, d, pos[1])
    BY <1>3 DEF OnTheWay
  <2>2. FiltersOf[Head(Todo(t))] = <<NoFilter>>
    BY <1>3, FiltersOfTypes DEF FilterLists
  <2>3. pos[1] \in Nat /\ pos[1] + 1 \in 1..Len(F) /\ F[pos[1] + 1] = NoFilter
    BY <1>3, <2>1, <2>2, WayFilter
  <2>4. Abstract!AnswerOf(F, d) = "dies"
    <3> DEFINE n == pos[1] + 1
    <3>1. n - 1 = pos[1]
      BY <2>3
    <3>2. n \in 1..Len(F) /\ F[n] = NoFilter /\ Behind(F, d, n - 1) /\ F \in Seq(Held)
      BY <1>3, <2>1, <2>3, <3>1, TopOperand
    <3>3. Abstract!ValueOf(NoFilter, d) = "dies" /\ "dies" \notin Truthy
      BY DEF Abstract!ValueOf, Truthy
    <3>. HIDE DEF n, F, d
    <3>4. Abstract!AnswerOf(F, d) = Extract(Abstract!ValueOf(F[n], d))
      BY <3>2, <3>3, FirstDecides
    <3>. QED  BY <3>2, <3>3, <3>4 DEF Extract
  <2>5. Asked[t] # NoCall /\ Asked[t].filters = F /\ Asked[t].dict = d
    BY <1>3, AskedRunning DEF Asked
  <2>. HIDE DEF F, d
  <2>. QED  BY <1>1, <2>4, <2>5 DEF Abstract!Die, Asked
<1>. QED  BY <1>2, <1>3

\* Every action of the bet.
LEMMA StepConjunction ==
    ASSUME TypeOK, TypeOK', WayInv, Next
    PROVE  Abstract!Next \/ UNCHANGED Abstract!vars
<1>1. Extends(heap')
  BY HeapGrows
<1>2. ASSUME NEW f \in Filter, Concat(f) PROVE Abstract!Next
  <2>1. Abstract!Add(f)
    BY <1>1, <1>2, StepAdd DEF WayInv, Held
  <2>. QED  BY <2>1 DEF Abstract!Next
<1>3. ASSUME ConcatEmpty PROVE Abstract!Next
  <2>1. Abstract!Add(NoFilter)
    BY <1>1, <1>3, StepAdd DEF WayInv, Held
  <2>. QED  BY <2>1 DEF Abstract!Next
<1>4. root = Null => \E i \in 1..Len(FiltersOf[root]) : FiltersOf[root][i] = NoFilter
  <2>1. FiltersOf[Null] = <<NoFilter>>
    BY FiltersOfTypes DEF FilterLists
  <2>2. 1 \in 1..Len(<<NoFilter>>) /\ <<NoFilter>>[1] = NoFilter
    OBVIOUS
  <2>. QED  BY <2>1, <2>2
<1>5. ASSUME ConcatAborts PROVE Abstract!Next
  <2>1. Abstract!Die
    BY <1>4, <1>5, StepDie DEF ConcatAborts, HasRoot
  <2>. QED  BY <2>1 DEF Abstract!Next
<1>6. ASSUME ConcatRaises PROVE UNCHANGED Abstract!vars
  <2>1. Asked' = Asked /\ FiltersOf'[root'] = FiltersOf[root]
    BY <1>1, <1>6, AskedUnchanged, FiltersUnchanged DEF ConcatRaises
  <2>. QED  BY <1>6, <2>1 DEF Abstract!vars, Asked, ConcatRaises
<1>7. ASSUME NEW t \in Thread, NEW d \in Dict, Match(t, d) PROVE Abstract!Next
  <2>1. Abstract!Ask(t, d)
    BY <1>1, <1>7, StepAsk
  <2>. QED  BY <2>1 DEF Abstract!Next
<1>8. ASSUME NEW t \in Thread, MatchNull(t) PROVE Abstract!Next
  <2>1. Abstract!Die
    BY <1>4, <1>8, StepDie DEF MatchNull, WayInv
  <2>. QED  BY <2>1 DEF Abstract!Next
<1>9. ASSUME NEW t \in Thread, EvalAnd(t) PROVE UNCHANGED Abstract!vars
  <2> DEFINE top == Head(Todo(t))
             todo == <<heap[top].lhs, heap[top].rhs>> \o Tail(Todo(t))
  <2>1. Running(t) /\ top # Null /\ IsAnd(top) /\ UNCHANGED <<heap, root, answer, status>>
    BY <1>9 DEF EvalAnd
  <2>2. /\ Todo(t) \in Seq(Nat) /\ Todo(t) # <<>> /\ top \in 0..Len(heap) /\ Todo(t) = call[t].todo
        /\ call[t] \in Call /\ call \in [Thread -> Call \cup {NoCall}]
    BY <2>1, TopOperand
  <2>3. todo \in Seq(Nat)
    <3>1. top \in 1..Len(heap) /\ Len(heap) \in Nat
      BY <2>1, <2>2 DEF Null, TypeOK
    <3>2. heap[top].lhs \in 0..(top - 1) /\ heap[top].rhs \in 0..(top - 1)
      BY <2>1, <3>1, Operands
    <3>3. heap[top].lhs \in Nat /\ heap[top].rhs \in Nat
      BY <3>1, <3>2
    <3>4. Tail(Todo(t)) \in Seq(Nat)
      BY <2>2
    <3>. QED  BY <3>3, <3>4
  <2>4. call' = [call EXCEPT ![t].todo = todo]
    BY <1>9, <2>2 DEF EvalAnd
  <2>. HIDE DEF todo
  <2>. QED  BY <1>1, <2>1, <2>3, <2>4, StepOn
<1>10. ASSUME NEW t \in Thread, EvalFilter(t) PROVE Abstract!Next \/ UNCHANGED Abstract!vars
  <2>1. Running(t) /\ UNCHANGED <<heap, root, status>>
    BY <1>10 DEF EvalFilter
  <2>2. /\ Todo(t) \in Seq(Nat) /\ Todo(t) # <<>> /\ Todo(t) = call[t].todo
        /\ call[t] \in Call /\ call \in [Thread -> Call \cup {NoCall}]
    BY <2>1, TopOperand
  <2>3. CASE call' = [call EXCEPT ![t] = NoCall]
    <3>1. Abstract!Answer(t)
      BY <1>1, <1>10, <2>3, StepAnswer DEF WayInv
    <3>. QED  BY <3>1 DEF Abstract!Next
  <2>4. CASE call' = [call EXCEPT ![t].todo = Tail(@)] /\ UNCHANGED answer
    <3> DEFINE todo == Tail(Todo(t))
    <3>1. todo \in Seq(Nat)
      BY <2>2
    <3>2. call' = [call EXCEPT ![t].todo = todo]
      BY <2>2, <2>4
    <3>. HIDE DEF todo
    <3>. QED  BY <1>1, <2>1, <2>4, <3>1, <3>2, StepOn
  <2>. QED  BY <1>10, <2>3, <2>4 DEF EvalFilter
<1>11. ASSUME Drop PROVE Abstract!Next
  <2>1. UNCHANGED <<heap, root, call, answer>> /\ status = "alive" /\ \A t \in Thread : ~Running(t)
    BY <1>11 DEF Drop
  <2>2. CASE status' = "dropped"
    <3>1. \A t \in Thread : Asked[t] = NoCall
      BY <2>1, AskedRunning
    <3>2. FiltersOf'[root'] = FiltersOf[root] /\ Asked' = Asked
      BY <1>1, <2>1, FiltersUnchanged, AskedUnchanged
    <3>3. Abstract!Drop
      BY <2>1, <2>2, <3>1, <3>2 DEF Abstract!Drop, Asked
    <3>. QED  BY <3>3 DEF Abstract!Next
  <2>3. CASE status' = "dead" /\ Null \in Under[root]
    <3>1. \E i \in 1..Len(FiltersOf[root]) : FiltersOf[root][i] = NoFilter
      BY <2>3, NullIsNoFilter DEF TypeOK
    <3>2. Abstract!Die
      BY <2>1, <2>3, <3>1, StepDie
    <3>. QED  BY <3>2 DEF Abstract!Next
  <2>. QED  BY <1>11, <2>2, <2>3 DEF Drop
<1>. QED  BY <1>2, <1>3, <1>5, <1>6, <1>7, <1>8, <1>9, <1>10, <1>11 DEF Next

\* The heap of nodes, with matches that stop in the middle of a tree while concat
\* makes new roots over it, behaves as the list of filters that Conjunction is:
\* every match answers for the filters the bet held when it began.
THEOREM Implements == Spec => ImplementsConjunction
<1>1. Init => Abstract!Init
  <2>. SUFFICES ASSUME Init PROVE Abstract!Init
    OBVIOUS
  <2>1. FilterLists
    BY TypedInit, FiltersOfTypes
  <2>2. FiltersOf[root] \in {<<f>> : f \in Filter \cup {NoFilter}}
    <3>1. ASSUME NEW f \in Filter, heap = <<FilterNode(f)>>, root = 1 PROVE FiltersOf[root] = <<f>>
      <4>1. ~IsAnd(1) /\ 1 \in 1..Len(heap) /\ heap[1].filter = f
        BY <3>1, FilterNodes DEF IsAnd, FilterNode
      <4>. QED  BY <2>1, <3>1, <4>1 DEF FilterLists
    <3>2. root = Null => FiltersOf[root] = <<NoFilter>>
      BY <2>1 DEF FilterLists
    <3>. QED  BY <3>1, <3>2 DEF Init
  <2>3. Asked = [t \in Thread |-> NoCall]
    BY DEF Init, Asked, Running
  <2>. QED  BY <2>2, <2>3 DEF Init, Abstract!Init, Asked
<1>2. TypeOK /\ TypeOK' /\ WayInv /\ [Next]_vars => [Abstract!Next]_(Abstract!vars)
  <2>. SUFFICES ASSUME TypeOK, TypeOK', WayInv, [Next]_vars PROVE [Abstract!Next]_(Abstract!vars)
    OBVIOUS
  <2>1. CASE UNCHANGED vars
    BY <2>1 DEF vars, Abstract!vars, FiltersOf, IsAnd, Running
  <2>. QED  BY <2>1, StepConjunction
<1>. QED  BY <1>1, <1>2, WayInit, WayNext, Typed, PTL DEF Spec, ImplementsConjunction, Abstract!Spec
=============================================================================
