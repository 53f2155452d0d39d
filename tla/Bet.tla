-------------------------------- MODULE Bet --------------------------------
(* A bet of ql/qlpython.cpp: an expression tree of ql/qltree.cpp whose nodes   *)
(* live in a heap that only grows.  Python threads call concat, which parses a *)
(* filter and makes a new root out of the old one and the filter, and match,   *)
(* which evaluates the tree for a dict.  A call that evaluates a filter runs   *)
(* Python code (comparisons of the objects in the dict), so other calls of the *)
(* same bet happen in between; parsing does not.                               *)
(*                                                                             *)
(* The tree of one parsed text is one node here: it is never changed and only  *)
(* its result matters.  What alternatives of the grammar that fail leave in    *)
(* the heap is left out.                                                       *)
EXTENDS Naturals, Sequences, FilterValues

CONSTANTS Thread, NoCall,
          MaxNodes      \* bound: nodes in the heap

Null == 0

VARIABLES
    heap,       \* m_nodeHeap: a node never moves
    root,       \* m_root
    call,       \* for every thread, its match
    answer,     \* for every thread, what its match returned
    status,     \* of the bet, or of the process that died of it
    debug,      \* the build: assertions are on
    empty       \* history: the bet was made without a filter or given none

vars == <<heap, root, call, answer, status, debug, empty>>

FilterNode(f) == [kind |-> "filter", filter |-> f]
AndNode(lhs, rhs) == [kind |-> "and", lhs |-> lhs, rhs |-> rhs]
IsAnd(n) == heap[n].kind = "and"

Node == [kind : {"filter"}, filter : Filter]
            \cup [kind : {"and"}, lhs : Nat, rhs : Nat]
Call == [root : Nat, dict : Dict, todo : Seq(Nat)]

ASSUME CallAssumption ==
    NoCall \notin Call /\ NoCall \notin [filters : Seq(Filter \cup {NoFilter}), dict : Dict]
ASSUME NodesAssumption == MaxNodes \in Nat

Running(t) == call[t] # NoCall
Todo(t) == call[t].todo

-----------------------------------------------------------------------------
\* A node's operands are older than the node, so evaluation ends; a match
\* comes to nodes of this heap only.
TypeOK ==
    /\ heap \in Seq(Node)
    /\ \A n \in DOMAIN heap : IsAnd(n) => heap[n].lhs < n /\ heap[n].rhs < n
    /\ root \in 0..Len(heap)
    /\ call \in [Thread -> Call \cup {NoCall}]
    /\ \A t \in Thread : Running(t) =>
          /\ call[t].root \in 1..Len(heap)
          /\ Todo(t) # <<>>
          /\ \A i \in DOMAIN Todo(t) : Todo(t)[i] \in 0..Len(heap)
    /\ answer \in [Thread -> {"none", "True", "False", "raises"}]
    /\ status \in {"alive", "dropped", "dead"}
    /\ debug \in BOOLEAN /\ empty \in BOOLEAN

\* Made with a filter, with an empty text, or without a text.
Init ==
    /\ \/ \E f \in Filter : heap = <<FilterNode(f)>> /\ root = 1 /\ empty = FALSE
       \/ heap = <<>> /\ root = Null /\ empty = TRUE
    /\ call = [t \in Thread |-> NoCall]
    /\ answer = [t \in Thread |-> "none"]
    /\ status = "alive"
    /\ debug \in BOOLEAN

-----------------------------------------------------------------------------
(* concat *)

\* Mutant: the old root becomes the new one in place and is moved to the end.
ConcatInPlace(h, node) ==
    /\ heap' = IF root = Null THEN Append(h, AndNode(Null, node))
               ELSE Append([h EXCEPT ![root] = AndNode(Len(h) + 1, node)], h[root])
    /\ root' = IF root = Null THEN Len(h) + 1 ELSE root
\* Mutant: what was parsed is not kept in the heap.
ConcatOther(h, node) ==
    /\ heap' = Append(heap, AndNode(root, node))
    /\ root' = Len(heap) + 1
\* Mutant: the old root is taken for both operands.
ConcatTwice(h, node) ==
    /\ heap' = Append(h, AndNode(root, root))
    /\ root' = Len(h) + 1
\* The new root of a heap h in which node is what was parsed.
ConcatRoot(h, node) ==
    /\ heap' = Append(h, AndNode(root, node))
    /\ root' = Len(h) + 1

HasRoot == root # Null

Concat(f) ==
    /\ status = "alive" /\ Len(heap) + 2 <= MaxNodes
    /\ HasRoot \/ ~debug
    /\ ConcatRoot(Append(heap, FilterNode(f)), Len(heap) + 1)
    /\ UNCHANGED <<call, answer, status, debug, empty>>

\* The grammar does not match an empty text, and there is nothing left of it to
\* complain about: the root parsed is null.
ConcatEmpty ==
    /\ status = "alive" /\ Len(heap) + 1 <= MaxNodes
    /\ HasRoot \/ ~debug
    /\ ConcatRoot(heap, Null)
    /\ empty' = TRUE
    /\ UNCHANGED <<call, answer, status, debug>>

ConcatAborts ==
    /\ status = "alive"
    /\ ~HasRoot /\ debug
    /\ status' = "dead"
    /\ UNCHANGED <<heap, root, call, answer, debug, empty>>

\* Mutant: a text with a syntax error is added all the same.
ConcatAnyway ==
    /\ status = "alive" /\ Len(heap) + 1 <= MaxNodes
    /\ ConcatRoot(heap, Null)
    /\ UNCHANGED <<call, answer, status, debug, empty>>
\* A text with a syntax error: the nodes made before it was found stay.
ConcatRaises ==
    /\ status = "alive"
    /\ Len(heap) + 1 <= MaxNodes
    /\ heap' = Append(heap, FilterNode(CHOOSE f \in Filter : TRUE))
    /\ UNCHANGED <<root, call, answer, status, debug, empty>>

-----------------------------------------------------------------------------
(* match: an AndNode evaluates its left operand, and its right operand only if *)
(* the left one is true.  Todo holds the operands still to be evaluated, the   *)
(* next one first.                                                             *)

\* A null root, or an operand that is null, is called all the same.
MatchNull(t) ==
    /\ status = "alive"
    /\ IF Running(t) THEN Head(Todo(t)) = Null ELSE root = Null
    /\ status' = "dead"
    /\ UNCHANGED <<heap, root, call, answer, debug, empty>>

Match(t, d) ==
    /\ status = "alive"
    /\ ~Running(t) /\ root # Null
    /\ call' = [call EXCEPT ![t] = [root |-> root, dict |-> d, todo |-> <<root>>]]
    /\ answer' = [answer EXCEPT ![t] = "none"]
    /\ UNCHANGED <<heap, root, status, debug, empty>>

EvalAnd(t) ==
    /\ status = "alive"
    /\ Running(t) /\ Head(Todo(t)) # Null /\ IsAnd(Head(Todo(t)))
    /\ LET node == heap[Head(Todo(t))]
       IN  call' = [call EXCEPT ![t].todo = <<node.lhs, node.rhs>> \o Tail(@)]
    /\ UNCHANGED <<heap, root, answer, status, debug, empty>>

EvalFilter(t) ==
    /\ status = "alive"
    /\ Running(t) /\ Head(Todo(t)) # Null /\ ~IsAnd(Head(Todo(t)))
    /\ LET value == heap[Head(Todo(t))].filter[call[t].dict]
       IN  IF value \in Truthy /\ Len(Todo(t)) > 1
           THEN /\ call' = [call EXCEPT ![t].todo = Tail(@)]
                /\ UNCHANGED answer
           ELSE /\ call' = [call EXCEPT ![t] = NoCall]
                /\ answer' = [answer EXCEPT ![t] = Extract(value)]
    /\ UNCHANGED <<heap, root, status, debug, empty>>

-----------------------------------------------------------------------------
(* The destructor, once no call holds the bet: each node destroys its operands *)

Under[n \in 0..Len(heap)] ==
    IF n = Null \/ ~IsAnd(n) THEN {n}
    ELSE {n} \cup Under[heap[n].lhs] \cup Under[heap[n].rhs]

Drop ==
    /\ status = "alive" /\ \A t \in Thread : ~Running(t)
    /\ status' = IF root # Null /\ Null \in Under[root] THEN "dead" ELSE "dropped"
    /\ UNCHANGED <<heap, root, call, answer, debug, empty>>

Next ==
    \/ \E f \in Filter : Concat(f)
    \/ ConcatEmpty
    \/ ConcatAborts
    \/ ConcatRaises
    \/ \E t \in Thread :
          \/ \E d \in Dict : Match(t, d)
          \/ MatchNull(t)
          \/ EvalAnd(t)
          \/ EvalFilter(t)
    \/ Drop

Spec == Init /\ [][Next]_vars

-----------------------------------------------------------------------------
(* Properties *)

\* The destructor comes to no node twice: no node is the operand of two nodes,
\* or both operands of one, and the root is the operand of none (~BinOpExpression
\* destroys both its operands, ~ExpressionTree the root).
Operand(a, side) == IF side = "lhs" THEN heap[a].lhs ELSE heap[a].rhs
Parents(n) == {p \in (DOMAIN heap) \X {"lhs", "rhs"} :
                  IsAnd(p[1]) /\ Operand(p[1], p[2]) = n}
DestroyedOnce ==
    \A n \in DOMAIN heap :
        /\ \A p, q \in Parents(n) : p = q
        /\ n = root => Parents(n) = {}

\* A bet made with a filter and given filters, or texts that are none, never
\* ends the process: only an empty text, or no text at all, leaves a null in
\* the tree (evalBool, AndNode::eval and destroy do not look for one).
DiesOnlyWithoutFilter == status = "dead" => empty

\* The filters of the tree under a node, from left to right.
FiltersOf[n \in 0..Len(heap)] ==
    IF n = Null THEN <<NoFilter>>
    ELSE IF IsAnd(n) THEN FiltersOf[heap[n].lhs] \o FiltersOf[heap[n].rhs]
    ELSE <<heap[n].filter>>

\* The bet is the list of its filters, and every match answers for the filters
\* the bet held when the match began, whatever is added while it runs
\* (concatRoot does not change the nodes that evalBool may be visiting).
Abstract == INSTANCE Conjunction WITH
    MaxFilters <- MaxNodes + 1,
    filters <- FiltersOf[root],
    asked <- [t \in Thread |->
                IF Running(t) THEN [filters |-> FiltersOf[call[t].root],
                                    dict |-> call[t].dict]
                ELSE NoCall]
ImplementsConjunction == Abstract!Spec
=============================================================================
