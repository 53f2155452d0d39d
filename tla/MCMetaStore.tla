----------------------------- MODULE MCMetaStore ----------------------------
(* A small instance of MetaStore for TLC. *)
EXTENDS MetaStore

\* Keys written as a type alone, keys that are a prefix of one another, equal
\* in length, of several widths, and pickled.
MCKeyObject ==
    {NoneObj, IntObj(-1), IntObj(2 ^ 17), OtherObj(1, 3)}
        \cup {StrObj(s) : s \in {<<>>, <<97>>, <<97, 97>>, <<1082>>}}

MCValueObject == {NoneObj, StrObj(<<1082, 97>>)}
=============================================================================
