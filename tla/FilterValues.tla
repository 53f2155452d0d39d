---------------------------- MODULE FilterValues ----------------------------
(* What the code distinguishes in the object that a filter evaluates to: bool, *)
(* int and None convert to the bool that match returns, other objects have a   *)
(* truth value only.  A filter is what it evaluates to, for every dict.        *)
CONSTANTS Dict, Filter, NoFilter

Truthy == {"yes", "true-object"}
Value == Truthy \cup {"no", "false-object", "raises"}

ASSUME FilterAssumption ==
    /\ Filter # {} /\ Filter \subseteq [Dict -> Value]
    /\ NoFilter \notin Filter

\* extract<bool>, and the call of a null node that it does not get to see.
Extract(value) ==
    CASE value = "yes" -> "True"
      [] value = "no" -> "False"
      [] value = "dies" -> "dies"
      [] OTHER -> "raises"
=============================================================================
