---------------------------- MODULE MCHandleTable ----------------------------
(* The instance of HandleTable: two runs, so that whole, half and missing pairs  *)
(* occur side by side, and one name of another program.                          *)
EXTENDS HandleTable, TLC

CONSTANTS r1, r2, x

MCForeign == {<<x, "log">>}
Symmetry == Permutations(Run)
=============================================================================
