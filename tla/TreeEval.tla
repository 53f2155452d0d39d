------------------------------ MODULE TreeEval ------------------------------
(* The eval of whole trees of ExpressionNodes.                                   *)
EXTENDS ExpressionNodes

\* ExpressionTree.eval: the eval of the root, which calls those of its operands.
RECURSIVE Eval(_, _)
Eval(node, dict) ==
    EvalNode(node, [i \in DOMAIN Operands(node) |-> Eval(Operands(node)[i], dict)], dict)
=============================================================================
