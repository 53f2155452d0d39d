------------------------------- MODULE MCBet -------------------------------
(* Small instances of Bet for TLC. *)
EXTENDS Bet, TLC

CONSTANTS d1, d2

MCFilter ==
    {d1 :> "yes" @@ d2 :> "no",
     d1 :> "true-object" @@ d2 :> "yes",
     d1 :> "raises" @@ d2 :> "false-object"}
=============================================================================
