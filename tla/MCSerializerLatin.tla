-------------------------- MODULE MCSerializerLatin --------------------------
(* A small instance of SerializerStream for TLC, with texts in Latin-1. *)
EXTENDS SerializerStream

AsciiChar == 97
LatinLead == 195        \* as a byte, the lead byte of a character in UTF-8
LatinContinuation == 169
WideChar == 1082

Texts == {<<>>, <<AsciiChar>>, <<0>>, <<WideChar, LatinLead>>, <<AsciiChar, LatinLead>>,
          <<LatinLead, LatinContinuation>>, <<LatinLead, 0, LatinContinuation>>}

MCLatinObject ==
    {NoneObj, TrueObj, FalseObj, FloatObj(1)}
        \cup {StrObj(s) : s \in Texts} \cup {IntObj(v) : v \in -2..2}
=============================================================================
