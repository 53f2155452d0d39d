-------------------------- MODULE SerializerStream --------------------------
(* A db::Buffer that a writer fills with serializeWTypeWSize, object after     *)
(* object, and a reader that takes the objects back with                       *)
(* deserializeWTypeWSize, moving its data pointer, or with the overload that   *)
(* expects a single object in the whole buffer.  In between, the end of the    *)
(* buffer may be lost.                                                         *)
EXTENDS Serializer

CONSTANTS Object,       \* the Python objects that are written
          MaxObjects    \* bound: objects in a buffer

ASSUME ObjectAssumption == \A o \in Object : IsObject(o)
ASSUME CountAssumption == MaxObjects \in Nat

VARIABLES
    buffer,     \* m_buf
    data,       \* bytes the reader has consumed
    read,       \* the objects it got
    failed,     \* it got an error
    whole,      \* result of the overload that reads the whole buffer
    written,    \* history: the objects serialized
    cut,        \* history: the end of the buffer is lost
    torn        \* history: a serialize call raised half way

vars == <<buffer, data, read, failed, whole, written, cut, torn>>

NotRead == Error(0)

\* An object is written behind what is in the buffer.
Serialized(bytes, o) == bytes \o SerializeWTypeWSize(o)

\* What the writer has put into the buffer for the given objects.
BytesOf(objects) ==
    LET bytes[k \in 0..Len(objects)] ==
            IF k = 0 THEN <<>> ELSE Serialized(bytes[k - 1], objects[k])
    IN  bytes[Len(objects)]
Offset(k) == Len(BytesOf(SubSeq(written, 1, k)))

\* How many of the objects written the buffer still holds whole.
WholeObjects ==
    Cardinality({k \in DOMAIN written : Offset(k) <= Len(buffer)})

Reading == data > 0 \/ failed \/ whole # NotRead

-----------------------------------------------------------------------------
TypeOK ==
    /\ \A i \in DOMAIN buffer : buffer[i] \in Byte
    /\ data \in 0..Len(buffer)
    /\ Len(read) <= Len(written)
    /\ failed \in BOOLEAN
    /\ whole.ok \in BOOLEAN
    /\ written \in UNION {[1..n -> Object] : n \in 0..MaxObjects}
    /\ cut \in BOOLEAN
    /\ torn \in BOOLEAN

Init ==
    /\ buffer = <<>> /\ written = <<>>
    /\ data = 0 /\ read = <<>> /\ failed = FALSE /\ whole = NotRead
    /\ cut = FALSE /\ torn = FALSE

-----------------------------------------------------------------------------
(* The writer *)

Serialize(o) ==
    /\ ~Reading /\ ~cut /\ ~torn
    /\ Len(written) < MaxObjects
    /\ ~TooLarge(o)
    /\ buffer' = Serialized(buffer, o)
    /\ written' = Append(written, o)
    /\ UNCHANGED <<data, read, failed, whole, cut, torn>>

\* The type is in the buffer by the time the size turns out too large.  A
\* writer that gets the error writes no more into this buffer.
SerializeRaises(o) ==
    /\ ~Reading /\ ~cut /\ ~torn
    /\ TooLarge(o)
    /\ buffer' = Append(buffer, Tag.IntLarge)
    /\ torn' = TRUE
    /\ UNCHANGED <<data, read, failed, whole, written, cut>>

Clear ==
    /\ buffer' = <<>> /\ written' = <<>>
    /\ data' = 0 /\ read' = <<>> /\ failed' = FALSE /\ whole' = NotRead
    /\ cut' = FALSE /\ torn' = FALSE

\* Only the first n bytes come back.  They do not end within a pickle: the code
\* does not check a pickle's size against the end of the buffer, and what lies
\* behind it is not modelled.
Cut(n) ==
    /\ ~Reading /\ ~cut
    /\ n < Len(buffer)
    /\ \A k \in DOMAIN written :
          written[k].type = "other" =>
              n \notin (Offset(k - 1) + 1 + SizeLen(written[k].len))..(Offset(k) - 1)
    /\ buffer' = SubSeq(buffer, 1, n)
    /\ cut' = TRUE
    /\ UNCHANGED <<data, read, failed, whole, written, torn>>

-----------------------------------------------------------------------------
(* The reader: both calls assert that there is something left to read *)

Deserialize ==
    /\ ~failed /\ whole = NotRead
    /\ data < Len(buffer)
    /\ LET result == DeserializeWTypeWSize(buffer, data)
       IN  /\ data' = result.data
           /\ read' = IF result.ok THEN Append(read, result.object) ELSE read
           /\ failed' = ~result.ok
    /\ UNCHANGED <<buffer, whole, written, cut, torn>>

\* Mutant: what follows the object is not looked at.
ReadWholeAnyEnd(result) == result

\* An object that does not reach the end of the buffer is an error too.
ReadWhole(result) ==
    IF result.ok /\ result.data # Len(buffer) THEN Error(result.data) ELSE result

DeserializeBuffer ==
    /\ ~Reading
    /\ buffer # <<>>
    /\ LET result == ReadWhole(DeserializeWTypeWSize(buffer, 0))
       IN  whole' = [result EXCEPT !.data = Len(buffer)]
    /\ UNCHANGED <<buffer, data, read, failed, written, cut, torn>>

Next ==
    \/ \E o \in Object : Serialize(o) \/ SerializeRaises(o)
    \/ Clear
    \/ \E n \in 0..(Len(buffer) - 1) : Cut(n)
    \/ Deserialize
    \/ DeserializeBuffer

Spec == Init /\ [][Next]_vars

-----------------------------------------------------------------------------
(* Properties *)

\* The reader gets the objects that were written, in the order they were
\* written, even from a buffer whose end is lost; and its pointer is where the
\* next object begins (deserializeWTypeWSize in serializer.cpp).
ReadsInOrder ==
    /\ read = SubSeq(written, 1, Len(read))
    /\ ~failed => data = Offset(Len(read))

\* An error is raised only where the buffer was cut or a serialize call had
\* raised, and not before every object the buffer still holds was read.
ErrorOnlyAtTheCut ==
    failed => (cut \/ torn) /\ Len(read) = WholeObjects

\* The overload that reads a whole buffer accepts exactly the buffers that
\* hold one object and nothing else, and returns that object.
WholeIsOneObject ==
    whole # NotRead =>
        /\ whole.ok = (written # <<>> /\ Len(buffer) = Offset(1))
        /\ whole.ok => whole.object = written[1]

\* What the comment in serializer.h says of deserializeWTypeWSize: as long as
\* the buffer is what the writer made, every read returns an object, the one
\* that was written, and moves the pointer to the next object or to the end.
ReadsSingleObject ==
    ~cut /\ ~torn => ~failed /\ ReadsInOrder
=============================================================================
