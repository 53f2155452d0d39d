--------------------------- MODULE ExpressionTree ---------------------------
(* An expression tree of ql/qltree.cpp as the grammar builds it: the nodes of   *)
(* a filter one after the other, operands before their operators, then its root *)
(* assigned or concatenated to the root there is.  A node is an object with an  *)
(* eval of its own, which calls the evals of its operands: what it gives for    *)
(* every dict is kept with the node, in both modes.                             *)
EXTENDS ExpressionNodes

CONSTANT Kits   \* what trees are made of: leaves and operators (leaves, unary, binary,
                \* lists), the dicts they are evaluated for, and the bounds, nodes
                \* of the heap and filters of a tree

BinaryOps == {"or", "and", "in", "not in", "is", "is not", "==", "!="}
                \cup OrderOps \cup ArithmeticOps
IsLeaf(node) == node[1] \in {"const", "none", "var", "path"} \/ node = List(<<>>)

ASSUME KitsAssumption ==
    \A k \in Kits :
        /\ \A node \in k.leaves : IsLeaf(node)
        /\ k.unary \subseteq {"not", "neg"} /\ k.binary \subseteq BinaryOps
        /\ k.lists \in BOOLEAN /\ k.nodes \in Nat /\ k.filters \in Nat

VARIABLES
    kit,        \* the kit of this tree
    strict,     \* the mode of the filter that is parsed
    operands,   \* the nodes that no other node has taken yet
    size,       \* nodes in m_nodeHeap
    root,       \* m_root, a sequence of at most one node
    filters     \* history: the roots of the filters, in their order

vars == <<kit, strict, operands, size, root, filters>>

Init ==
    /\ kit \in Kits
    /\ strict \in BOOLEAN
    /\ operands = <<>> /\ size = 0
    /\ root = <<>> /\ filters = <<>>

Top == operands[Len(operands)]
-----------------------------------------------------------------------------
\* A filter is evaluated as it was made, and as it would be in each of the modes.
Views == {"as made", "strict", "non-strict"}
InView(node, view) ==
    IF node[1] \in OrderOps /\ view # "as made"
    THEN Ordered(node[1], node[2], node[3], view = "strict") ELSE node

Results(parts, view, dict) == [i \in DOMAIN parts |-> parts[i].eval[view][dict]]

\* Nodes of the trees below a sequence of nodes, themselves included.
Nodes(trees) ==
    LET sum[i \in 0 .. Len(trees)] == IF i = 0 THEN 0 ELSE sum[i - 1] + trees[i].nodes
    IN sum[Len(trees)]

\* A filter that compares and combines numbers, and variables that are numbers or
\* missing: of what it finds in the dict nothing else is asked.
IsNumeric(node, parts, dict) ==
    IF parts = <<>>
    THEN LET o == EvalNode(node, <<>>, dict).value
         IN node[1] # "list" /\ (o = None \/ IsNumber(o))
    ELSE /\ node[1] \in {"or", "and", "not", "==", "!=", "is", "is not"} \cup OrderOps
         /\ \A i \in DOMAIN parts : parts[i].numeric[dict]

\* A node that takes parts for its operands: its tree, how many nodes that has,
\* what its eval gives, and for which dicts it is numeric (history).
Made(node, parts) ==
    [tree |-> node,
     nodes |-> Nodes(parts) + 1,
     eval |-> [view \in Views |-> [dict \in kit.dicts |->
                  EvalNode(InView(node, view), Results(parts, view, dict), dict)]],
     numeric |-> [dict \in kit.dicts |-> IsNumeric(node, parts, dict)]]

\* The last n operands, and the ones before them.
Taken(n) == SubSeq(operands, Len(operands) - n + 1, Len(operands))
Left(n) == SubSeq(operands, 1, Len(operands) - n)

\* Mutant: the operands stay where other nodes can take them.
CreateSharing(node, n) ==
    /\ operands' = Append(operands, Made(node, Taken(n)))
    /\ size' = size + 1
    /\ size' + Len(operands') - 1 <= kit.nodes
    /\ UNCHANGED <<kit, strict, root, filters>>
\* A new node that takes the last n operands; there is room left to join the rest.
Create(node, n) ==
    /\ operands' = Append(Left(n), Made(node, Taken(n)))
    /\ size' = size + 1
    /\ size' + Len(operands') - 1 <= kit.nodes
    /\ UNCHANGED <<kit, strict, root, filters>>

\* createVariableNode to createPathNode, and createEmptyList.
CreateLeaf == \E node \in kit.leaves : Create(node, 0)

\* createNotNode and createNegateNode.
CreateUnary == \E op \in kit.unary : operands # <<>> /\ Create(<<op, Top.tree>>, 1)

\* createOrNode to createReminderNode.
CreateBinary ==
    \E op \in kit.binary :
        /\ Len(operands) >= 2
        /\ Create(BinaryNode(op, operands[Len(operands) - 1].tree, Top.tree, strict), 2)

\* createListNode, and appendListNode to a list that has a first element.
CreateList == kit.lists /\ operands # <<>> /\ Create(List(<<Top.tree>>), 1)

\* A list node evaluates its elements one after the other and appends their values.
AppendedResult(list, element) ==
    Result(IF Raised \in {list.value, element.value} THEN Raised
           ELSE PyList(Append(list.value[2], element.value)), <<>>)
Appended(list, element) ==
    [tree |-> List(Append(list.tree[2], element.tree)),
     nodes |-> list.nodes + element.nodes,
     eval |-> [view \in Views |-> [dict \in kit.dicts |->
                  AppendedResult(list.eval[view][dict], element.eval[view][dict])]],
     numeric |-> list.numeric]
AppendListNode ==
    /\ Len(operands) >= 2
    /\ LET list == operands[Len(operands) - 1] IN
       /\ list.tree[1] = "list" /\ list.tree[2] # <<>>
       /\ operands' = Append(Left(2), Appended(list, Top))
    /\ UNCHANGED <<kit, strict, size, root, filters>>

\* Mutant: the new filter is an alternative.
ConcatOr(node) == Binary("or", root[1].tree, node)
\* concatRoot: an and-node of the root there is and the new one.
ConcatRoot(node) == Binary("and", root[1].tree, node)

\* assignRoot of the first filter, concatRoot of a later one; the mode of the next.
EndOfFilter ==
    /\ Len(operands) = 1 /\ Len(filters) < kit.filters
    /\ operands' = <<>>
    /\ IF root = <<>> THEN root' = <<Top>> /\ size' = size
       ELSE root' = <<Made(ConcatRoot(Top.tree), <<root[1], Top>>)>> /\ size' = size + 1
    /\ filters' = Append(filters, Top)
    /\ strict' \in BOOLEAN
    /\ UNCHANGED kit

Next ==
    \/ CreateLeaf \/ CreateUnary \/ CreateBinary \/ CreateList \/ AppendListNode
    \/ EndOfFilter

Spec == Init /\ [][Next]_vars
-----------------------------------------------------------------------------
\* Every node of the heap is in one tree: no operand is shared and none is lost.
TypeOK ==
    /\ kit \in Kits /\ strict \in BOOLEAN
    /\ Len(root) <= 1 /\ size = Nodes(root \o operands)
    /\ Len(filters) <= kit.filters /\ (root = <<>>) = (filters = <<>>)

\* Leaving the strict mode never changes an answer, it only gives one where the
\* strict mode raised: what StrictCmp and NonStrictCmp evaluate, and in which order,
\* can be told apart by a missing variable only, however deep it is in the filter.
ModesAgree ==
    \A i \in DOMAIN operands : \A d \in kit.dicts :
        LET strictly == operands[i].eval["strict"][d].value IN
        strictly = Raised \/ strictly = operands[i].eval["non-strict"][d].value

\* What the other mode is for: a numeric filter answers whichever variables are missing.
NonStrictAnswers ==
    \A i \in DOMAIN operands : \A d \in kit.dicts :
        operands[i].numeric[d] => operands[i].eval["non-strict"][d].value # Raised

\* evalBool of a tree.
EvalBool(node, dict) == ToBool(node.eval["as made"][dict].value)

\* A match of concatenated filters is true when each of them matches, if each of
\* them answers: the and-nodes of concatRoot and the conversion of evalBool agree.
ConcatIsConjunction ==
    \A d \in kit.dicts :
        root # <<>> /\ (\A i \in DOMAIN filters : EvalBool(filters[i], d) # Raised)
            => EvalBool(root[1], d)
                 = PyBool(\A i \in DOMAIN filters : EvalBool(filters[i], d) = PyBool(TRUE))

\* A later filter is not asked about a dict that an earlier one turns down: what
\* decides is the first filter whose value is not true.
FirstRefusalDecides ==
    \A d \in kit.dicts : \A i \in DOMAIN filters :
        /\ EvalBool(filters[i], d) = PyBool(FALSE)
        /\ \A j \in 1 .. (i - 1) : EvalBool(filters[j], d) = PyBool(TRUE)
        => EvalBool(root[1], d) = PyBool(FALSE)
=============================================================================
