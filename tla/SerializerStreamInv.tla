------------------------- MODULE SerializerStreamInv -------------------------
(* The inductive invariant of SerializerStream, for objects whose text is read *)
(* as it was written.                                                          *)
EXTENDS SerializerStream

\* A text that Python keeps in one byte a character is written as these bytes
\* and read as UTF-8, which is the same for ASCII only (see ReadsSingleObject).
ASSUME TextAssumption ==
    \A o \in Object :
        o.type = "str" /\ OneByteKind(o.str) /\ ~HasNul(o.str) => Ascii(o.str)

\* The buffer, had it not been cut.
Full == BytesOf(written) \o (IF torn THEN <<Tag.IntLarge>> ELSE <<>>)

\* The writer: the buffer begins like Full and is Full, unless it was cut; and
\* then its end is not within a pickle, behind its size.
BufferInv ==
    /\ written \in Seq({o \in Object : ~TooLarge(o)}) /\ Len(written) <= MaxObjects
    /\ cut \in BOOLEAN /\ torn \in BOOLEAN
    /\ buffer \in Seq(Byte) /\ Len(buffer) <= Len(Full)
    /\ \A i \in DOMAIN buffer : buffer[i] = Full[i]
    /\ ~cut => Len(buffer) = Len(Full)
    /\ cut => \A k \in DOMAIN written :
                written[k].type = "other" =>
                    \/ Len(buffer) <= Offset(k - 1) + SizeLen(written[k].len)
                    \/ Len(buffer) >= Offset(k)

\* The reader: it has the first of the objects, and its pointer is behind them.
ReaderInv ==
    /\ Len(read) \in 0..Len(written) /\ read = SubSeq(written, 1, Len(read))
    /\ data \in 0..Len(buffer) /\ failed \in BOOLEAN /\ whole.ok \in BOOLEAN
    /\ ~failed => data = Offset(Len(read))
    /\ ErrorOnlyAtTheCut /\ WholeIsOneObject

StreamInv == BufferInv /\ ReaderInv
=============================================================================
