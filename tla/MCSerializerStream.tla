------------------------- MODULE MCSerializerStream -------------------------
(* Small instances of SerializerStream for TLC. *)
EXTENDS SerializerStreamInv

\* Around the limits of every width, with bytes of two bits.
Limits == UNION {{2 ^ (2 * n - 1) - 1, 2 ^ (2 * n - 1), -(2 ^ (2 * n - 1)),
                  -(2 ^ (2 * n - 1)) - 1} : n \in 1..9}

\* Code points: 0, two of ASCII, two of Latin-1, one beyond.
NulChar == 0
AsciiChar == 97
LatinLead == 195        \* as a byte, the lead byte of a character in UTF-8
LatinContinuation == 169
WideChar == 1082

Texts == {<<>>, <<AsciiChar>>, <<AsciiChar, NulChar, AsciiChar>>, <<NulChar>>,
          <<WideChar, NulChar>>, <<LatinLead, NulChar, LatinContinuation>>,
          <<WideChar, LatinLead>>}

Scalars == {NoneObj, TrueObj, FalseObj, FloatObj(1)}
Pickles(lens) == {OtherObj(1, n) : n \in lens}

MCObject ==
    Scalars \cup {IntObj(v) : v \in Limits \cup {-1, 0, 1}}
            \cup {StrObj(s) : s \in Texts} \cup Pickles({2, 3, 4, 14, 15, 16, 17})

\* With bytes of one bit: every size a pickle may have, and an integer whose
\* length the 4 bytes of a size cannot hold.
MCWideObject ==
    Scalars \cup {IntObj(v) : v \in {-1, 0, 1, 127, -129, 2 ^ 14 - 1, 2 ^ 14, 2 ^ 15}}
            \cup {StrObj(<<AsciiChar>>), StrObj(<<WideChar>>)}
            \cup Pickles(2..17)
=============================================================================
