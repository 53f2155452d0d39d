----------------------------- MODULE Serializer -----------------------------
(* SerializerV1 of db/serializer.cpp: how a Python object becomes bytes and    *)
(* how bytes become a Python object.  The WSize form keeps the length of an    *)
(* object whose type does not tell it, so that objects can follow each other;  *)
(* the WType form relies on a length kept elsewhere, as RocksDB keeps that of  *)
(* a key or a value.                                                           *)
(*                                                                             *)
(* A buffer is a sequence of naturals.  A byte has W bits where numbers are    *)
(* written, 8 in the code, so that every width of the code (1 to 8 bytes,      *)
(* longer, and the limits of the 1, 2, 4 and 8 byte sizes) is met by small     *)
(* numbers.  The bytes of type tags and of strings keep their real values.     *)
EXTENDS Integers, Sequences, FiniteSets

CONSTANTS W,        \* bits in a byte of a number
          MaxBits   \* bound: bits in an integer, but for its sign

ASSUME WidthAssumption == W \in 1..8
ASSUME BitsAssumption == MaxBits \in Nat

Byte == {b \in Nat : b < 256}
\* The basic multilingual plane, without the surrogates.
CodePoint == {c \in Nat : c < 65536 /\ ~(c >= 55296 /\ c < 57344)}

\* b to the power of n, as a function that proofs can unfold.
Power(b, n) ==
    LET power[k \in 0..n] == IF k = 0 THEN 1 ELSE b * power[k - 1]
    IN  power[n]

Base == Power(2, W)

-----------------------------------------------------------------------------
(* Python objects, by the type that findSerializeProcs looks up *)

NoneObj == [type |-> "NoneType"]
TrueObj == [type |-> "bool", truth |-> "True"]
FalseObj == [type |-> "bool", truth |-> "False"]
IntObj(v) == [type |-> "int", int |-> v]
FloatObj(x) == [type |-> "float", float |-> x]       \* x stands for 8 bytes
StrObj(s) == [type |-> "str", str |-> s]             \* s: code points
OtherObj(i, n) == [type |-> "other", id |-> i, len |-> n] \* n: length pickled

-----------------------------------------------------------------------------
(* Numbers: big endian, two's complement *)

Abs(v) == IF v < 0 THEN -v ELSE v
BitLength(v) == Cardinality({b \in 0..MaxBits : Power(2, b) <= Abs(v)})
ByteLen(v) == (BitLength(v) + (W - 1) + 1) \div W

\* The n lowest bytes of v, as int.to_bytes and the endian buffers write them.
BigEndian(v, n) == [i \in 1..n |-> (v \div Power(Base, n - i)) % Base]

Unsigned(bytes) ==
    LET value[i \in 0..Len(bytes)] == IF i = 0 THEN 0 ELSE value[i - 1] * Base + bytes[i]
    IN  value[Len(bytes)]

Negative(bytes) == bytes # <<>> /\ bytes[1] >= Base \div 2
Signed(bytes) ==
    Unsigned(bytes) - (IF Negative(bytes) THEN Power(Base, Len(bytes)) ELSE 0)

\* The word that an integer of n bytes is decoded in.
WordLen(n) == CHOOSE w \in {1, 2, 4, 8} :
                 /\ n <= w
                 /\ \A u \in {1, 2, 4, 8} : n <= u => w <= u

\* Mutant: the sign is not looked at.
FillWordWithZeros(bytes) ==
    [i \in 1..(WordLen(Len(bytes)) - Len(bytes)) |-> 0] \o bytes

\* Odd widths are filled up to a word, with the sign.
FillWord(bytes) ==
    [i \in 1..(WordLen(Len(bytes)) - Len(bytes)) |->
        IF Negative(bytes) THEN Base - 1 ELSE 0] \o bytes

-----------------------------------------------------------------------------
(* Text: UTF-8, of which code points up to 2^16 are enough *)

Utf8Char(c) ==
    CASE c < 128 -> <<c>>
      [] c >= 128 /\ c < 2048 -> <<192 + (c \div 64), 128 + (c % 64)>>
      [] c >= 2048 -> <<224 + (c \div 4096), 128 + ((c \div 64) % 64), 128 + (c % 64)>>
Utf8Add(bytes, c) == bytes \o Utf8Char(c)
Utf8(s) ==
    LET bytes[i \in 0..Len(s)] == IF i = 0 THEN <<>> ELSE Utf8Add(bytes[i - 1], s[i])
    IN  bytes[Len(s)]

\* The decoder goes from byte to byte with the text so far, the bytes that the
\* next character still needs, and what it has of its code point.  From bytes
\* that are no text it never comes back.
Utf8At(text, need, point) == [text |-> text, need |-> need, point |-> point]
NoText == 3
Leads2(b) == b >= 194 /\ b < 224
Leads3(b) == b >= 224 /\ b < 240
Continues(b) == b >= 128 /\ b < 192
\* The second of three bytes: the form is the shortest one, of no surrogate.
Follows3(point, b) ==
    Continues(b) /\ (point = 0 => b >= 160) /\ (point = 13 => b < 160)
Utf8Step(d, b) ==
    CASE d.need = 0 /\ b < 128 -> Utf8At(Append(d.text, b), 0, 0)
      [] d.need = 0 /\ Leads2(b) -> Utf8At(d.text, 1, b % 32)
      [] d.need = 0 /\ Leads3(b) -> Utf8At(d.text, 2, b % 16)
      [] d.need = 1 /\ Continues(b) ->
            Utf8At(Append(d.text, d.point * 64 + (b % 64)), 0, 0)
      [] d.need = 2 /\ Follows3(d.point, b) -> Utf8At(d.text, 1, d.point * 64 + (b % 64))
      [] OTHER -> Utf8At(d.text, NoText, 0)
Utf8Decode(bytes) ==
    LET decoded[i \in 0..Len(bytes)] ==
            IF i = 0 THEN Utf8At(<<>>, 0, 0) ELSE Utf8Step(decoded[i - 1], bytes[i])
    IN  decoded[Len(bytes)]
IsUtf8(bytes) == Utf8Decode(bytes).need = 0
FromUtf8(bytes) == Utf8Decode(bytes).text

\* Bytes that CPython makes the text s of.
IsTextOf(bytes, s) == IsUtf8(bytes) /\ FromUtf8(bytes) = s

\* PyUnicode_1BYTE_KIND: CPython keeps such a string as its Latin-1 bytes.
OneByteKind(s) == \A i \in DOMAIN s : s[i] < 256
HasNul(s) == \E i \in DOMAIN s : s[i] = 0
Ascii(s) == \A i \in DOMAIN s : s[i] < 128

-----------------------------------------------------------------------------
(* Pickles: opaque bytes up to the one that tells pickle.loads to stop *)

Stop == 46
Dumps(o) == [i \in 1..o.len |-> IF i = o.len THEN Stop ELSE IF i = 1 THEN o.id ELSE 0]
IsPickle(bytes) == \E i \in DOMAIN bytes : bytes[i] = Stop
Loads(bytes) ==
    OtherObj(bytes[1], CHOOSE i \in DOMAIN bytes :
        bytes[i] = Stop /\ \A j \in 1..(i - 1) : bytes[j] # Stop)

-----------------------------------------------------------------------------
(* The objects that are serialized: sizes fit the bytes that are kept for them, *)
(* 4 for the size of a text and at most 8 for that of a pickle.                 *)
IsObject(o) ==
    \/ o \in {NoneObj, TrueObj, FalseObj}
    \/ o \in [type : {"float"}, float : Byte]
    \/ o \in [type : {"int"}, int : Int] /\ Abs(o.int) < Power(2, MaxBits)
    \/ o \in [type : {"str"}, str : Seq(CodePoint)] /\ Len(Utf8(o.str)) < Power(Base, 4)
    \/ o \in [type : {"other"}, id : Byte \ {Stop}, len : Nat \ {0, 1}]
          /\ o.len < Power(Base, 8) - 1

-----------------------------------------------------------------------------
(* The tags, and what is written after them *)

Tag == [None |-> 1, IntLarge |-> 10, True |-> 11, False |-> 12, Float |-> 13,
        Str |-> 14, UStr |-> 15, Pickle |-> 16]
IntTag(n) == n + 1                   \* Int8 to Int64, by bytes
PickleTag == [w \in {1, 2, 4, 8} |-> CASE w = 1 -> 16 [] w = 2 -> 17
                                       [] w = 4 -> 18 [] w = 8 -> 19]
IsIntTag(t) == t \in IntTag(1)..IntTag(8)
IsPickleTag(t) == t \in 16..19

\* Mutant: a size one above the largest number still counts as held.
SizeLenWithin(n) == CASE n <= Base -> 1
                      [] n > Base /\ n <= Power(Base, 2) -> 2
                      [] n > Power(Base, 2) /\ n <= Power(Base, 4) -> 4
                      [] OTHER -> 8

\* The bytes in which the size of a pickle is kept: a size is below the
\* largest number they hold, not up to it.
SizeLen(n) == CASE n < Base - 1 -> 1
                [] n >= Base - 1 /\ n < Power(Base, 2) - 1 -> 2
                [] n >= Power(Base, 2) - 1 /\ n < Power(Base, 4) - 1 -> 4
                [] OTHER -> 8

\* Mutant: a length one above what the 4 bytes hold is let through.
TooLargeLate(o) == o.type = "int" /\ ByteLen(o.int) > Power(Base, 4)

\* An integer whose length does not fit the 4 bytes kept for it is refused.
TooLarge(o) == o.type = "int" /\ ByteLen(o.int) >= Power(Base, 4)

EncodeInt(v, wSize) ==
    LET n == ByteLen(v)
    IN  IF n <= 8
        THEN <<IntTag(n)>> \o BigEndian(v, n)
        ELSE <<Tag.IntLarge>> \o (IF wSize THEN BigEndian(n, 4) ELSE <<>>)
             \o BigEndian(v, n)

\* Mutant: a string is ended by a 0 although it has one.
EncodeStrAlwaysStr(s) ==
    IF OneByteKind(s)
    THEN <<Tag.Str>> \o s \o <<0>>
    ELSE <<Tag.UStr>> \o BigEndian(Len(Utf8(s)), 4) \o Utf8(s)

\* The terminating 0 delimits a string that has no 0 of its own.
EncodeStr(s) ==
    IF OneByteKind(s) /\ ~HasNul(s)
    THEN <<Tag.Str>> \o s \o <<0>>
    ELSE <<Tag.UStr>> \o BigEndian(Len(Utf8(s)), 4) \o Utf8(s)

\* Without sizes, a string is taken as it is or in UTF-8, whatever it holds.
EncodeStrWType(s) ==
    IF OneByteKind(s) THEN <<Tag.Str>> \o s ELSE <<Tag.UStr>> \o Utf8(s)

EncodePickle(o) ==
    LET w == SizeLen(o.len)
    IN  <<PickleTag[w]>> \o BigEndian(o.len, w) \o Dumps(o)

EncodeScalar(o) ==
    CASE o = NoneObj -> <<Tag.None>>
      [] o = TrueObj -> <<Tag.True>>
      [] o = FalseObj -> <<Tag.False>>
      [] o.type = "float" -> <<Tag.Float>> \o [i \in 1..8 |-> IF i = 8 THEN o.float ELSE 0]

SerializeWTypeWSize(o) ==
    CASE o.type = "int" -> EncodeInt(o.int, TRUE)
      [] o.type = "str" -> EncodeStr(o.str)
      [] o.type = "other" -> EncodePickle(o)
      [] OTHER -> EncodeScalar(o)

SerializeWType(o) ==
    CASE o.type = "int" -> EncodeInt(o.int, FALSE)
      [] o.type = "str" -> EncodeStrWType(o.str)
      [] o.type = "other" -> <<Tag.Pickle>> \o Dumps(o)
      [] OTHER -> EncodeScalar(o)

-----------------------------------------------------------------------------
(* Reading.  A result is an object and the number of bytes consumed, or an     *)
(* error: "Corrupted database", or what Python raises for bytes that are not   *)
(* UTF-8 or no pickle.                                                         *)

Got(o, data) == [ok |-> TRUE, object |-> o, data |-> data]
Error(data) == [ok |-> FALSE, object |-> NoneObj, data |-> data]

Take(buffer, data, n) == SubSeq(buffer, data + 1, data + n)
Rest(buffer, data) == SubSeq(buffer, data + 1, Len(buffer))
Left(buffer, data) == Len(buffer) - data

DecodeScalar(tag, buffer, data) ==
    CASE tag = Tag.None -> Got(NoneObj, data)
      [] tag = Tag.True -> Got(TrueObj, data)
      [] tag = Tag.False -> Got(FalseObj, data)
      [] tag = Tag.Float ->
            IF Left(buffer, data) < 8 THEN Error(data)
            ELSE Got(FloatObj(buffer[data + 8]), data + 8)

DecodeIntN(n, buffer, data) ==
    IF Left(buffer, data) < n THEN Error(data)
    ELSE Got(IntObj(Signed(FillWord(Take(buffer, data, n)))), data + n)

DecodeIntLarge(buffer, data) ==
    LET size == Unsigned(Take(buffer, data, 4))
    IN  CASE Left(buffer, data) < 5 -> Error(data)
          [] Left(buffer, data) >= 5 /\ Left(buffer, data + 4) < size -> Error(data + 4)
          [] OTHER -> Got(IntObj(Signed(Take(buffer, data + 4, size))), data + 4 + size)

DecodeText(bytes, data) ==
    IF IsUtf8(bytes) THEN Got(StrObj(FromUtf8(bytes)), data) ELSE Error(data)

\* Up to the first 0, which is consumed too.
FirstZero(buffer, data) ==
    CHOOSE i \in (data + 1)..Len(buffer) :
        buffer[i] = 0 /\ \A j \in (data + 1)..(i - 1) : buffer[j] # 0
NoZero(buffer, data) == \A i \in (data + 1)..Len(buffer) : buffer[i] # 0

\* Mutant: the pointer is one too far.
DecodeStrPastZero(buffer, data) ==
    LET z == FirstZero(buffer, data)
    IN  IF NoZero(buffer, data) THEN Error(Len(buffer))
        ELSE DecodeText(SubSeq(buffer, data + 1, z - 1), z + 1)

\* Up to the first 0, which has to be there.
DecodeStr(buffer, data) ==
    LET z == FirstZero(buffer, data)
    IN  IF NoZero(buffer, data) THEN Error(Len(buffer))
        ELSE DecodeText(SubSeq(buffer, data + 1, z - 1), z)

\* The text is made before the size is checked: a size that is too large is
\* an error either way.
DecodeUStr(buffer, data) ==
    LET size == Unsigned(Take(buffer, data, 4))
    IN  CASE Left(buffer, data) < 4 -> Error(data)
          [] Left(buffer, data) >= 4 /\ Left(buffer, data + 4) < size -> Error(data + 4)
          [] OTHER -> DecodeText(Take(buffer, data + 4, size), data + 4 + size)

DecodePickleBytes(bytes, data) ==
    IF IsPickle(bytes) THEN Got(Loads(bytes), data) ELSE Error(data)

\* The size is not checked against the end: no caller reads a pickle that was
\* cut (see SerializerStream).
DecodePickle(w, buffer, data) ==
    LET size == Unsigned(Take(buffer, data, w))
    IN  IF Left(buffer, data) < w THEN Error(data)
        ELSE DecodePickleBytes(Take(buffer, data + w, size), data + w + size)

DeserializeWTypeWSize(buffer, data) ==
    LET tag == buffer[data + 1]
    IN  CASE tag \in {Tag.None, Tag.True, Tag.False, Tag.Float} ->
                DecodeScalar(tag, buffer, data + 1)
          [] IsIntTag(tag) -> DecodeIntN(tag - 1, buffer, data + 1)
          [] tag = Tag.IntLarge -> DecodeIntLarge(buffer, data + 1)
          [] tag = Tag.Str -> DecodeStr(buffer, data + 1)
          [] tag = Tag.UStr -> DecodeUStr(buffer, data + 1)
          [] IsPickleTag(tag) ->
                DecodePickle(CHOOSE w \in DOMAIN PickleTag : PickleTag[w] = tag,
                             buffer, data + 1)
          [] OTHER -> Error(data + 1)

\* The whole buffer is one object; bytes an integer leaves over are ignored.
DeserializeWType(buffer) ==
    LET tag == buffer[1]
    IN  CASE tag \in {Tag.None, Tag.True, Tag.False, Tag.Float} ->
                DecodeScalar(tag, buffer, 1)
          [] IsIntTag(tag) -> DecodeIntN(tag - 1, buffer, 1)
          [] tag = Tag.IntLarge -> Got(IntObj(Signed(Rest(buffer, 1))), Len(buffer))
          [] tag \in {Tag.Str, Tag.UStr} -> DecodeText(Rest(buffer, 1), Len(buffer))
          [] tag = Tag.Pickle -> DecodePickleBytes(Rest(buffer, 1), Len(buffer))
          [] OTHER -> Error(1)
=============================================================================
