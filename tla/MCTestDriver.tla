---------------------------- MODULE MCTestDriver -----------------------------
(* The instance of TestDriver: every case of the tests, and keyboards with the   *)
(* words that are parts of each other's rules, the signs, the brackets, and the  *)
(* marks of operators that begin alike.                                          *)
EXTENDS TestDriver

\* The symbols of the texts that are compared, in the order of their codes.
MCAlphabet == <<"0", "1", "2", "e", "q", "r", "s", "t">>

MCPieces == {"or", "and", "not", "in", "is", "True", "False", "None", "f", "nan",
             "foo", "bar", "r", "a", "b"}

MCKeyboards ==
    {{"not", "in", "is", "foo", " "}, {"or", "and", "not", "True", "None", " "},
     {"1", "*", "-", "+", "foo"}, {"(", ")", "[", "]", ",", "foo"},
     {"(", ")", "not", "-", "foo", "."}, {"<", "=", "!", "/", "foo"},
     {"foo", "in", "True", "1", "f"}}
=============================================================================
