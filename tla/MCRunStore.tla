----------------------------- MODULE MCRunStore -----------------------------
(* Small instances of RunStore for TLC. *)
EXTENDS RunStore, TLC

CONSTANTS k1, k2, v1, v2

\* Nothing to write, two items, and the first key again with another value.
MCBatches == {<<>>, <<<<k1, v1>>, <<k2, v1>>>>, <<<<k1, v2>>>>}

Symmetry == Permutations(Client) \cup Permutations(Run)
=============================================================================
