---------------------------- MODULE RunCatalogue ----------------------------
(***************************************************************************)
(* What the run database promises at the level of whole runs: at most one  *)
(* client owns the catalogue at a time; until it starts to close, its      *)
(* owner adds runs, each of them whole and empty, and writes to runs that  *)
(* are there; once closing, it only removes runs; it may let go at any     *)
(* moment, and between owners nothing changes.                             *)
(***************************************************************************)
CONSTANTS Client, Run, MetaKey, MetaVal, NoClient, NoVal

VARIABLES owner,      \* the client that has the database open, or NoClient
          closing,    \* its owner is in closeDatabase
          catalogue,  \* runs with both their column families
          contents    \* the metadata of each run of the catalogue

vars == <<owner, closing, catalogue, contents>>

Empty == [k \in MetaKey |-> NoVal]

Init == /\ owner = NoClient
        /\ closing = FALSE
        /\ catalogue = {}
        /\ contents = [r \in Run |-> Empty]

Open(p) == /\ owner = NoClient
           /\ owner' = p
           /\ UNCHANGED <<closing, catalogue, contents>>

Add(r) == /\ owner # NoClient
          /\ ~closing
          /\ r \notin catalogue
          /\ catalogue' = catalogue \cup {r}
          /\ UNCHANGED <<owner, closing, contents>>

Write(r, k, v) == /\ owner # NoClient
                  /\ ~closing
                  /\ r \in catalogue
                  /\ contents' = [contents EXCEPT ![r][k] = v]
                  /\ UNCHANGED <<owner, closing, catalogue>>

StartClosing == /\ owner # NoClient
                /\ closing' = TRUE
                /\ UNCHANGED <<owner, catalogue, contents>>

Remove(r) == /\ closing
             /\ catalogue' = catalogue \ {r}
             /\ contents' = [contents EXCEPT ![r] = Empty]
             /\ UNCHANGED <<owner, closing>>

LetGo == /\ owner # NoClient
         /\ owner' = NoClient
         /\ closing' = FALSE
         /\ UNCHANGED <<catalogue, contents>>

Next == \/ \E p \in Client : Open(p)
        \/ \E r \in Run : \/ Add(r)
                          \/ Remove(r)
                          \/ \E k \in MetaKey, v \in MetaVal : Write(r, k, v)
        \/ StartClosing
        \/ LetGo

Spec == Init /\ [][Next]_vars
=============================================================================
