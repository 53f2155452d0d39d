------------------------ MODULE SerializerStreamProofs ------------------------
(* For every set of objects whose text is not Latin-1, every width of a byte   *)
(* and buffers of every length: what is read from a buffer is what was written *)
(* into it, in that order, up to where its end was lost.                       *)
EXTENDS SerializerStreamInv, SerializerProofs

\* The objects that serialize does not refuse, and what it writes of them.
Fine == {o \in Object : ~TooLarge(o)}
Bytes(o) == SerializeWTypeWSize(o)

LEMMA FineCoded ==
    ASSUME NEW o \in Fine
    PROVE  Coded(o, Bytes(o)) /\ Bytes(o) \in Seq(Byte) /\ Len(Bytes(o)) \in Nat \ {0}
<1>1. IsObject(o) /\ ~TooLarge(o)
  BY ObjectAssumption DEF Fine
<1>2. o.type = "str" /\ OneByteKind(o.str) /\ ~HasNul(o.str) => Ascii(o.str)
  BY TextAssumption DEF Fine
<1>3. Coded(o, Bytes(o))
  BY <1>1, <1>2, ObjectCoded DEF Bytes
<1>4. \A s \in Seq(Byte) : Len(s) # 0 => Len(s) \in Nat \ {0}
  OBVIOUS
<1>. QED  BY <1>3, <1>4 DEF Coded

LEMMA SerializedType ==
    ASSUME NEW bytes \in Seq(Byte), NEW o \in Fine
    PROVE  Serialized(bytes, o) \in Seq(Byte) /\ Joins(bytes, Bytes(o), Serialized(bytes, o))
<1>1. Bytes(o) \in Seq(Byte)
  BY FineCoded
<1>2. Serialized(bytes, o) = bytes \o Bytes(o)
  BY DEF Serialized, Bytes
<1>. QED  BY <1>1, <1>2, Joined

-----------------------------------------------------------------------------
(* The bytes of objects, the last object at a time *)

\* The function behind BytesOf.
WrittenAs(objects, bytes) ==
    /\ bytes \in [0..Len(objects) -> Seq(Byte)]
    /\ bytes[0] = <<>> /\ bytes[Len(objects)] = BytesOf(objects)
    /\ \A k \in 1..Len(objects) : bytes[k] = Serialized(bytes[k - 1], objects[k])

LEMMA WritesFunction == \A objects \in Seq(Fine) : \E bytes : WrittenAs(objects, bytes)
<1>. TAKE s \in Seq(Fine)
<1> DEFINE n == Len(s)
           step == [x \in (1..n) \X Seq(Byte) |-> Serialized(x[2], s[x[1]])]
           p == CHOOSE g : g = [i \in 0..n |-> IF i = 0 THEN <<>> ELSE Serialized(g[i - 1], s[i])]
<1>0. n \in Nat /\ \A i \in 1..n : s[i] \in Fine
  OBVIOUS
<1>1. PICK f \in [0..n -> Seq(Byte)] : Steps(f, n, <<>>, step)
  <2>1. step \in [(1..n) \X Seq(Byte) -> Seq(Byte)] /\ <<>> \in Seq(Byte)
    <3>1. ASSUME NEW x \in (1..n) \X Seq(Byte) PROVE Serialized(x[2], s[x[1]]) \in Seq(Byte)
      <4>1. x[2] \in Seq(Byte) /\ s[x[1]] \in Fine
        BY <1>0
      <4>. QED  BY <4>1, SerializedType
    <3>. QED  BY <3>1
  <2>. HIDE DEF step, n
  <2>. QED  BY <1>0, <2>1, RecursionHolds
<1>. HIDE DEF n
<1>2. \A i \in 1..n : f[i] = Serialized(f[i - 1], s[i])
  <2>1. \A i \in 1..n : i - 1 \in 0..n /\ f[i - 1] \in Seq(Byte)
    BY <1>0
  <2>. QED  BY <1>1, <2>1 DEF Steps
<1>3. f = [i \in 0..n |-> IF i = 0 THEN <<>> ELSE Serialized(f[i - 1], s[i])]
  BY <1>0, <1>1, <1>2 DEF Steps
<1>4. p = [i \in 0..n |-> IF i = 0 THEN <<>> ELSE Serialized(p[i - 1], s[i])]
  BY <1>3
<1>5. BytesOf(s) = p[n]
  BY DEF BytesOf, n
<1>. HIDE DEF p
<1>6. p[0] = <<>> /\ \A i \in 1..n : p[i] = Serialized(p[i - 1], s[i])
  BY <1>0, <1>4
<1>7. Alike(p, f, n)
  <2>1. StepAlike(p, f, n)
    BY <1>1, <1>2, <1>6 DEF StepAlike, Steps
  <2>. QED  BY <1>0, <2>1, RecursionAgrees
<1>8. p \in [0..n -> Seq(Byte)]
  BY <1>4, <1>7 DEF Alike
<1>. QED  BY <1>5, <1>6, <1>8 DEF WrittenAs, n

LEMMA BytesAppend ==
    /\ BytesOf(<<>>) = <<>>
    /\ \A objects \in Seq(Fine) :
          /\ BytesOf(objects) \in Seq(Byte)
          /\ \A o \in Fine : BytesOf(Append(objects, o)) = Serialized(BytesOf(objects), o)
<1>1. BytesOf(<<>>) = <<>>
  <2>1. PICK p : WrittenAs(<<>>, p)
    <3>1. <<>> \in Seq(Fine)
      OBVIOUS
    <3>. QED  BY <3>1, WritesFunction
  <2>. QED  BY <2>1 DEF WrittenAs
<1>2. ASSUME NEW s \in Seq(Fine) PROVE BytesOf(s) \in Seq(Byte)
  <2>1. PICK p : WrittenAs(s, p)
    BY WritesFunction
  <2>2. Len(s) \in 0..Len(s)
    OBVIOUS
  <2>. QED  BY <2>1, <2>2 DEF WrittenAs
<1>3. ASSUME NEW s \in Seq(Fine), NEW o \in Fine
      PROVE  BytesOf(Append(s, o)) = Serialized(BytesOf(s), o)
  <2> DEFINE t == Append(s, o)
             n == Len(s)
  <2>1. /\ t \in Seq(Fine) /\ Len(t) = n + 1 /\ n \in Nat /\ t[n + 1] = o
        /\ \A i \in 1..n : t[i] = s[i]
    OBVIOUS
  <2>. HIDE DEF t
  <2>2. PICK p : WrittenAs(s, p)
    BY WritesFunction
  <2>3. PICK q : WrittenAs(t, q)
    BY <2>1, WritesFunction
  <2>. HIDE DEF n
  <2>4. p[0] = <<>> /\ p[n] = BytesOf(s) /\ \A i \in 1..n : p[i] = Serialized(p[i - 1], s[i])
    BY <2>2 DEF WrittenAs, n
  <2>5. /\ q[0] = <<>> /\ q[n + 1] = BytesOf(t)
        /\ \A i \in 1..(n + 1) : q[i] = Serialized(q[i - 1], t[i])
    BY <2>1, <2>3 DEF WrittenAs
  <2>6. Alike(p, q, n)
    <3>1. StepAlike(p, q, n)
      BY <2>1, <2>4, <2>5 DEF StepAlike
    <3>. QED  BY <2>1, <3>1, RecursionAgrees
  <2>7. n + 1 \in 1..(n + 1) /\ (n + 1) - 1 = n /\ n \in 0..n
    BY <2>1
  <2>8. q[n + 1] = Serialized(q[n], o) /\ p[n] = q[n]
    BY <2>1, <2>5, <2>6, <2>7 DEF Alike
  <2>. QED  BY <2>4, <2>5, <2>8 DEF t
<1>. QED  BY <1>1, <1>2, <1>3

-----------------------------------------------------------------------------
(* Where the bytes of an object are *)

First(s, k) == SubSeq(s, 1, k)
Place(s, k) == Len(BytesOf(First(s, k)))
StartsWith(a, b) == Len(b) <= Len(a) /\ \A i \in 1..Len(b) : a[i] = b[i]

LEMMA Firsts ==
    ASSUME NEW S, NEW s \in Seq(S), NEW k \in 0..Len(s)
    PROVE  /\ First(s, k) \in Seq(S) /\ Len(First(s, k)) = k
           /\ \A i \in 1..k : First(s, k)[i] = s[i]
           /\ k = 0 => First(s, k) = <<>>
           /\ k = Len(s) => First(s, k) = s
           /\ \A e \in S : First(Append(s, e), k) = First(s, k)
           /\ k < Len(s) => First(s, k + 1) = Append(First(s, k), s[k + 1])
<1> DEFINE n == Len(s)
           f(j) == SubSeq(s, 1, j)
<1>1. n \in Nat /\ k \in Nat
  OBVIOUS
<1>2. ASSUME NEW j \in 0..n PROVE f(j) \in Seq(S) /\ Len(f(j)) = j /\ \A i \in 1..j : f(j)[i] = s[i]
  OBVIOUS
<1>3. k = 0 => f(k) = <<>>
  BY <1>2
<1>4. ASSUME k = n PROVE f(k) = s
  <2>1. f(k) \in Seq(S) /\ Len(f(k)) = n /\ \A i \in 1..n : f(k)[i] = s[i]
    BY <1>2, <1>4
  <2>. HIDE DEF f
  <2>. QED  BY <2>1, SameElements
<1>5. ASSUME NEW e \in S PROVE SubSeq(Append(s, e), 1, k) = f(k)
  <2> DEFINE t == Append(s, e)
             g == SubSeq(t, 1, k)
  <2>1. t \in Seq(S) /\ Len(t) = n + 1 /\ \A i \in 1..n : t[i] = s[i]
    OBVIOUS
  <2>. HIDE DEF t
  <2>2. g \in Seq(S) /\ Len(g) = k /\ \A i \in 1..k : g[i] = t[i]
    BY <2>1
  <2>3. f(k) \in Seq(S) /\ Len(f(k)) = k /\ \A i \in 1..k : f(k)[i] = s[i]
    BY <1>2
  <2>. HIDE DEF g, f
  <2>4. \A i \in 1..Len(g) : g[i] = f(k)[i]
    BY <2>1, <2>2, <2>3
  <2>5. g = f(k)
    BY <2>2, <2>3, <2>4, SameElements
  <2>. QED  BY <2>5 DEF g, t
<1>6. ASSUME k < n PROVE f(k + 1) = Append(f(k), s[k + 1])
  <2> DEFINE g == Append(f(k), s[k + 1])
  <2>1. k + 1 \in 0..n /\ s[k + 1] \in S
    BY <1>6
  <2>2. f(k) \in Seq(S) /\ Len(f(k)) = k /\ \A i \in 1..k : f(k)[i] = s[i]
    BY <1>2
  <2>3. f(k + 1) \in Seq(S) /\ Len(f(k + 1)) = k + 1 /\ \A i \in 1..(k + 1) : f(k + 1)[i] = s[i]
    BY <1>2, <2>1
  <2>. HIDE DEF f
  <2>4. /\ g \in Seq(S) /\ Len(g) = k + 1 /\ g[k + 1] = s[k + 1]
        /\ \A i \in 1..k : g[i] = s[i]
    BY <1>1, <2>1, <2>2
  <2>. HIDE DEF g
  <2>5. \A i \in 1..(k + 1) : g[i] = s[i]
    BY <1>1, <2>4
  <2>6. \A i \in 1..Len(f(k + 1)) : f(k + 1)[i] = g[i]
    BY <2>3, <2>4, <2>5
  <2>7. f(k + 1) = g
    BY <2>3, <2>4, <2>6, SameElements
  <2>. QED  BY <2>7 DEF g
<1>7. f(k) \in Seq(S) /\ Len(f(k)) = k /\ \A i \in 1..k : f(k)[i] = s[i]
  BY <1>2
<1>8. \A e \in S : First(Append(s, e), k) = First(s, k)
  BY <1>5 DEF First
<1>. HIDE DEF f
<1>. QED  BY <1>3, <1>4, <1>6, <1>7, <1>8 DEF First, f

LEMMA BytesBegin ==
    \A s \in Seq(Fine) : \A k \in 0..Len(s) : StartsWith(BytesOf(s), BytesOf(First(s, k)))
<1> DEFINE Good(s) == \A k \in 0..Len(s) : StartsWith(BytesOf(s), BytesOf(First(s, k)))
           T == {n \in Nat : \A s \in Seq(Fine) : Len(s) = n => Good(s)}
<1>0. \A s \in Seq(Fine) : StartsWith(BytesOf(s), BytesOf(s))
  BY BytesAppend DEF StartsWith
<1>1. ASSUME NEW s \in Seq(Fine), NEW k \in 0..Len(s), k = Len(s)
      PROVE  StartsWith(BytesOf(s), BytesOf(First(s, k)))
  BY <1>0, <1>1, Firsts
<1>2. 0 \in T
  BY <1>1
<1>3. ASSUME NEW n \in T PROVE n + 1 \in T
  <2>0. n \in Nat /\ \A s \in Seq(Fine) : Len(s) = n => Good(s)
    OBVIOUS
  <2>. HIDE DEF T
  <2>1. ASSUME NEW s \in Seq(Fine), Len(s) = n + 1, NEW k \in 0..n
        PROVE  StartsWith(BytesOf(s), BytesOf(First(s, k)))
    <3>1. PICK t \in Seq(Fine), o \in Fine : Ends(s, t, o) /\ Len(t) = Len(s) - 1
      BY <2>0, <2>1, FrontAndLast
    <3>2. Len(t) = n /\ s = Append(t, o) /\ k \in 0..Len(t)
      BY <2>0, <2>1, <3>1 DEF Ends
    <3> DEFINE a == BytesOf(t)
               b == BytesOf(First(t, k))
               c == BytesOf(s)
    <3>3. First(s, k) = First(t, k)
      BY <3>2, Firsts
    <3>4. a \in Seq(Byte) /\ Joins(a, Bytes(o), c) /\ Len(Bytes(o)) \in Nat
      BY <3>2, BytesAppend, SerializedType, FineCoded
    <3>5. StartsWith(a, b)
      BY <2>0, <3>2
    <3>6. Len(b) \in Nat
      <4>1. First(t, k) \in Seq(Fine)
        BY <3>2, Firsts
      <4>2. b \in Seq(Byte)
        BY <4>1, BytesAppend
      <4>. QED  BY <4>2
    <3>. HIDE DEF a, b, c
    <3>7. StartsWith(c, b)
      BY <3>4, <3>5, <3>6 DEF StartsWith, Joins
    <3>. QED  BY <3>3, <3>7 DEF b, c
  <2>2. ASSUME NEW s \in Seq(Fine), Len(s) = n + 1 PROVE Good(s)
    <3>1. \A k \in 0..Len(s) : k \in 0..n \/ k = Len(s)
      BY <2>0, <2>2
    <3>. QED  BY <1>1, <2>1, <2>2, <3>1
  <2>3. n + 1 \in Nat
    BY <2>0
  <2>. HIDE DEF Good
  <2>. QED  BY <2>2, <2>3 DEF T
<1>4. T = Nat
  <2>1. T \in SUBSET Nat
    OBVIOUS
  <2>. HIDE DEF T
  <2>. QED  BY <1>2, <1>3, <2>1, AllNaturals
<1>5. \A s \in Seq(Fine) : Len(s) \in Nat
  OBVIOUS
<1>. HIDE DEF Good
<1>6. \A s \in Seq(Fine) : Good(s)
  BY <1>4, <1>5
<1>. QED  BY <1>6 DEF Good

LEMMA PlaceType ==
    ASSUME NEW s \in Seq(Fine), NEW k \in 0..Len(s)
    PROVE  /\ Place(s, k) \in Nat /\ Place(s, k) <= Len(BytesOf(s)) /\ Len(BytesOf(s)) \in Nat
           /\ k = 0 => Place(s, k) = 0
           /\ k = Len(s) => Place(s, k) = Len(BytesOf(s))
<1>1. First(s, k) \in Seq(Fine)
  BY Firsts
<1>2. \A t \in Seq(Fine) : Len(BytesOf(t)) \in Nat
  <2>1. \A b \in Seq(Byte) : Len(b) \in Nat
    OBVIOUS
  <2>. QED  BY <2>1, BytesAppend
<1>3. Place(s, k) \in Nat /\ Len(BytesOf(s)) \in Nat
  BY <1>1, <1>2 DEF Place
<1>4. Place(s, k) <= Len(BytesOf(s))
  BY BytesBegin DEF Place, StartsWith
<1>5. Len(BytesOf(<<>>)) = 0
  BY BytesAppend
<1>6. k = 0 => Place(s, k) = 0
  BY <1>5, Firsts DEF Place
<1>7. k = Len(s) => Place(s, k) = Len(BytesOf(s))
  BY Firsts DEF Place
<1>. QED  BY <1>3, <1>4, <1>6, <1>7

LEMMA NextPlace ==
    ASSUME NEW s \in Seq(Fine), NEW k \in 0..Len(s), k < Len(s)
    PROVE  /\ s[k + 1] \in Fine
           /\ Place(s, k + 1) = Place(s, k) + Len(Bytes(s[k + 1]))
           /\ At(BytesOf(s), Place(s, k), Bytes(s[k + 1]))
<1> DEFINE o == s[k + 1]
           a == BytesOf(First(s, k))
           b == Bytes(o)
           c == BytesOf(First(s, k + 1))
           d == BytesOf(s)
<1>1. k + 1 \in 0..Len(s) /\ o \in Fine
  OBVIOUS
<1>2. /\ First(s, k) \in Seq(Fine)
      /\ First(s, k + 1) = Append(First(s, k), o)
  BY Firsts
<1>. HIDE DEF o
<1>3. a \in Seq(Byte) /\ c = Serialized(a, o)
  BY <1>1, <1>2, BytesAppend
<1>4. Joins(a, b, c) /\ Len(a) \in Nat /\ Len(b) \in Nat
  <2>1. \A x \in Seq(Byte) : Len(x) \in Nat
    OBVIOUS
  <2>. QED  BY <1>1, <1>3, <2>1, SerializedType, FineCoded
<1>5. StartsWith(d, c)
  BY <1>1, BytesBegin
<1>6. Place(s, k) = Len(a) /\ Place(s, k + 1) = Len(c)
  BY DEF Place
<1>7. Len(d) \in Nat
  BY PlaceType
<1>. HIDE DEF a, b, c, d
<1>8. Len(c) = Len(a) + Len(b) /\ Len(c) <= Len(d)
  BY <1>4, <1>5 DEF Joins, StartsWith
<1>9. \A i \in 1..Len(b) : d[Len(a) + i] = b[i]
  <2>1. \A i \in 1..Len(b) : Len(a) + i \in 1..Len(c)
    BY <1>4, <1>8
  <2>. QED  BY <1>4, <1>5, <2>1 DEF Joins, StartsWith
<1>10. At(d, Len(a), b)
  BY <1>8, <1>9 DEF At
<1>. QED  BY <1>1, <1>6, <1>8, <1>10 DEF o, b, d

LEMMA PlacesGrow ==
    ASSUME NEW s \in Seq(Fine), NEW k \in 0..Len(s), NEW j \in 0..Len(s), j < k
    PROVE  Place(s, j) < Place(s, k)
<1> DEFINE t == First(s, k)
<1>1. t \in Seq(Fine) /\ Len(t) = k /\ k \in 0..Len(t)
  BY Firsts
<1>2. First(t, j + 1) = First(s, j + 1) /\ First(t, k) = t
  <2> DEFINE x == First(t, j + 1)
             y == First(s, j + 1)
  <2>1. j + 1 \in 0..Len(t) /\ j + 1 \in 0..Len(s)
    BY <1>1
  <2>2. x \in Seq(Fine) /\ Len(x) = j + 1 /\ \A i \in 1..(j + 1) : x[i] = t[i]
    BY <1>1, <2>1, Firsts
  <2>3. y \in Seq(Fine) /\ Len(y) = j + 1 /\ \A i \in 1..(j + 1) : y[i] = s[i]
    BY <2>1, Firsts
  <2>4. \A i \in 1..k : t[i] = s[i]
    BY Firsts
  <2>. HIDE DEF x, y, t
  <2>5. \A i \in 1..Len(x) : x[i] = y[i]
    BY <2>1, <2>2, <2>3, <2>4
  <2>6. x = y
    BY <2>2, <2>3, <2>5, SameElements
  <2>7. First(t, k) = t
    BY <1>1, Firsts
  <2>. QED  BY <2>6, <2>7 DEF x, y
<1>. HIDE DEF t
<1>3. j + 1 \in 0..Len(t) /\ j \in 0..Len(s) /\ j < Len(s)
  BY <1>1
<1>4. Place(s, j + 1) <= Place(s, k)
  <2>1. StartsWith(BytesOf(t), BytesOf(First(t, j + 1)))
    BY <1>1, <1>3, BytesBegin
  <2>. QED  BY <1>2, <2>1 DEF StartsWith, Place, t
<1>5. Place(s, j + 1) = Place(s, j) + Len(Bytes(s[j + 1])) /\ Len(Bytes(s[j + 1])) \in Nat \ {0}
  BY <1>3, NextPlace, FineCoded
<1>6. Place(s, j) \in Nat /\ Place(s, k) \in Nat
  BY PlaceType
<1>. QED  BY <1>4, <1>5, <1>6

-----------------------------------------------------------------------------
(* What the next read returns, in every state of the buffer *)

\* Nothing but a tag is left.
LEMMA TornTag ==
    ASSUME NEW s \in Seq(Byte), NEW d \in Nat, Len(s) = d + 1, s[d + 1] = Tag.IntLarge
    PROVE  Fails(s, d)
<1>1. DeserializeWTypeWSize(s, d) = DecodeIntLarge(s, d + 1)
  BY TagValues, Dispatch
<1>2. Left(s, d + 1) = 0
  BY DEF Left
<1>3. DecodeIntLarge(s, d + 1) = Error(d + 1)
  BY <1>2 DEF DecodeIntLarge
<1>4. d + 1 \in Nat /\ d + 1 <= Len(s)
  OBVIOUS
<1>. QED  BY <1>1, <1>3, <1>4, FailsAt

\* How many objects are whole, when those up to m are and the next is not.
LEMMA WholeCount ==
    ASSUME written \in Seq(Fine), Len(buffer) \in Nat, NEW m \in 0..Len(written),
           Offset(m) <= Len(buffer), m < Len(written) => Len(buffer) < Offset(m + 1)
    PROVE  WholeObjects = m
<1> DEFINE P(k) == Place(written, k)
           n == Len(buffer)
<1>1. \A k : Offset(k) = P(k)
  BY DEF Offset, Place, First
<1>2. \A k \in 0..Len(written) : P(k) \in Nat
  BY PlaceType
<1>3. \A j, k \in 0..Len(written) : j < k => P(j) < P(k)
  BY PlacesGrow
<1>4. DOMAIN written = 1..Len(written) /\ Len(written) \in Nat /\ m \in Nat
  OBVIOUS
<1>. HIDE DEF P, n
<1>5. ASSUME NEW k \in 1..Len(written) PROVE P(k) <= n <=> k <= m
  <2>1. CASE k <= m
    <3>1. k \in 0..Len(written) /\ (k = m \/ k < m)
      BY <1>4, <2>1
    <3>2. P(k) <= P(m)
      BY <1>2, <1>3, <3>1
    <3>. QED  BY <1>1, <1>2, <2>1, <3>1, <3>2 DEF n
  <2>2. CASE k > m
    <3>1. m + 1 \in 0..Len(written) /\ k \in 0..Len(written) /\ (k = m + 1 \/ m + 1 < k) /\ m < Len(written)
      BY <1>4, <2>2
    <3>2. P(m + 1) <= P(k)
      BY <1>2, <1>3, <3>1
    <3>3. n < P(m + 1)
      BY <1>1, <3>1 DEF n
    <3>. QED  BY <1>2, <2>2, <3>1, <3>2, <3>3 DEF n
  <2>. QED  BY <1>4, <2>1, <2>2
<1>6. {k \in DOMAIN written : Offset(k) <= n} = 1..m
  <2>1. \A k \in 1..Len(written) : Offset(k) <= n <=> k \in 1..m
    BY <1>1, <1>4, <1>5
  <2>2. \A k \in 1..m : k \in 1..Len(written)
    BY <1>4
  <2>. QED  BY <1>4, <2>1, <2>2
<1>7. Cardinality(1..m) = m
  BY <1>4, FS_Interval
<1>. QED  BY <1>6, <1>7 DEF WholeObjects, n

\* The next read, behind m objects, returns the next one if it is there whole, and else
\* an error, which needs a lost end or a serialize call that raised.
ReadsNext(m) ==
    /\ m < Len(written) /\ Offset(m + 1) <= Len(buffer)
    /\ DeserializeWTypeWSize(buffer, Offset(m)) = Got(written[m + 1], Offset(m + 1))
FailsNext(m) ==
    /\ m < Len(written) => Len(buffer) < Offset(m + 1)
    /\ (cut \/ torn) /\ WholeObjects = m
    /\ Fails(buffer, Offset(m))

LEMMA NextRead ==
    ASSUME BufferInv, NEW m \in 0..Len(written), Offset(m) < Len(buffer)
    PROVE  ReadsNext(m) \/ FailsNext(m)
<1> DEFINE d == Offset(m)
           n == Len(buffer)
           tag == IF torn THEN <<Tag.IntLarge>> ELSE <<>>
<1>1. written \in Seq(Fine) /\ buffer \in Seq(Byte) /\ n \in Nat /\ n <= Len(Full)
  BY DEF BufferInv, Fine
<1>2. \A i \in 1..n : buffer[i] = Full[i]
  BY <1>1 DEF BufferInv
<1>3. \A k : Offset(k) = Place(written, k)
  BY DEF Offset, Place, First
<1>4. /\ d \in Nat /\ d < n /\ d <= Len(BytesOf(written)) /\ Len(BytesOf(written)) \in Nat
      /\ m = Len(written) => d = Len(BytesOf(written))
  BY <1>1, <1>3, PlaceType
<1>5. Joins(BytesOf(written), tag, Full) /\ Len(tag) = IF torn THEN 1 ELSE 0
  <2>1. tag \in Seq(Byte) /\ Len(tag) = IF torn THEN 1 ELSE 0
    <3>1. <<Tag.IntLarge>> \in Seq(Byte) /\ Len(<<Tag.IntLarge>>) = 1
      BY TagValues DEF Byte
    <3>2. <<>> \in Seq(Byte) /\ Len(<<>>) = 0
      OBVIOUS
    <3>. QED  BY <3>1, <3>2
  <2>2. BytesOf(written) \in Seq(Byte)
    BY <1>1, BytesAppend
  <2>3. Full = BytesOf(written) \o tag
    BY DEF Full
  <2>. HIDE DEF tag
  <2>. QED  BY <2>1, <2>2, <2>3, Joined
<1>. HIDE DEF d, n
<1>6. CASE m < Len(written)
  <2> DEFINE o == written[m + 1]
             s == Bytes(o)
             e == Offset(m + 1)
  <2>1. /\ o \in Fine /\ e = d + Len(s) /\ At(BytesOf(written), d, s)
    BY <1>1, <1>3, <1>6, NextPlace DEF d
  <2>2. Coded(o, s) /\ s \in Seq(Byte) /\ Len(s) \in Nat \ {0}
    BY <2>1, FineCoded
  <2>3. m + 1 \in 1..Len(written) /\ (m + 1) - 1 = m
    BY <1>1, <1>6
  <2>. HIDE DEF o, s, e
  <2>4. d + Len(s) <= Len(Full) /\ \A i \in 1..Len(s) : Full[d + i] = s[i]
    <3>1. d + Len(s) <= Len(BytesOf(written)) /\ \A i \in 1..Len(s) : BytesOf(written)[d + i] = s[i]
      BY <2>1 DEF At
    <3>2. \A i \in 1..Len(s) : d + i \in 1..Len(BytesOf(written))
      BY <1>4, <2>2, <3>1
    <3>3. Len(Full) = Len(BytesOf(written)) + Len(tag)
      BY <1>5 DEF Joins
    <3>. HIDE DEF tag
    <3>4. d + Len(s) <= Len(Full)
      BY <1>4, <1>5, <2>2, <3>1, <3>3
    <3>. QED  BY <1>5, <3>1, <3>2, <3>4 DEF Joins
  <2>5. CASE e <= n
    <3>1. At(buffer, d, s)
      <4>1. \A i \in 1..Len(s) : d + i \in 1..n
        BY <1>1, <1>4, <2>1, <2>2, <2>5
      <4>. QED  BY <1>2, <2>1, <2>4, <2>5, <4>1 DEF At, n
    <3>2. DeserializeWTypeWSize(buffer, d) = Got(o, e)
      BY <1>1, <1>4, <2>1, <2>2, <3>1 DEF Coded, ReadsBack, Reads
    <3>3. ReadsNext(m)
      BY <1>6, <2>5, <3>2 DEF ReadsNext, o, e, d, n
    <3>. QED  BY <3>3
  <2>6. CASE n < e
    <3>1. Begun(buffer, d, s)
      <4>1. \A i \in 1..(n - d) : i \in 1..Len(s) /\ d + i \in 1..n
        BY <1>1, <1>4, <2>1, <2>2, <2>6
      <4>. QED  BY <1>2, <1>4, <2>1, <2>4, <2>6, <4>1 DEF Begun, n
    <3>2. cut
      <4>1. n < Len(Full)
        BY <1>1, <1>4, <2>1, <2>2, <2>4, <2>6
      <4>. QED  BY <1>1, <4>1 DEF BufferInv, n
    <3>3. EndChecked(buffer, d, o)
      <4>. SUFFICES ASSUME o.type = "other" PROVE n < d + 1 + SizeLen(o.len)
        BY DEF EndChecked, n
      <4>1. n <= d + SizeLen(o.len)
        <5>1. m + 1 \in DOMAIN written
          BY <1>1, <2>3
        <5>2. \/ Len(buffer) <= Offset((m + 1) - 1) + SizeLen(written[m + 1].len)
              \/ Len(buffer) >= Offset(m + 1)
          BY <3>2, <5>1, Zenon DEF BufferInv, o
        <5>3. n <= d + SizeLen(o.len) \/ n >= e
          BY <2>3, <5>2 DEF n, d, e, o
        <5>4. e \in Nat
          BY <1>4, <2>1, <2>2
        <5>. QED  BY <1>1, <2>6, <5>3, <5>4
      <4>2. SizeLen(o.len) \in Nat
        BY DEF SizeLen
      <4>. QED  BY <1>1, <1>4, <4>1, <4>2
    <3>4. Fails(buffer, d)
      BY <1>1, <1>4, <2>2, <3>1, <3>3 DEF Coded, FailsBegun, n
    <3>5. WholeObjects = m
      BY <1>1, <1>4, <2>6, WholeCount DEF e, d, n
    <3>6. FailsNext(m)
      BY <2>6, <3>2, <3>4, <3>5 DEF FailsNext, e, d, n
    <3>. QED  BY <3>6
  <2>7. e \in Nat
    BY <1>4, <2>1, <2>2
  <2>. QED  BY <1>1, <2>5, <2>6, <2>7
<1>7. CASE ~(m < Len(written))
  <2>1. m = Len(written) /\ d = Len(BytesOf(written))
    BY <1>1, <1>4, <1>7
  <2>2. torn /\ n = d + 1 /\ Len(tag) = 1
    <3>1. Len(Full) = d + Len(tag)
      BY <1>5, <2>1 DEF Joins
    <3>. HIDE DEF tag
    <3>. QED  BY <1>1, <1>4, <1>5, <3>1
  <2>3. buffer[d + 1] = Tag.IntLarge
    <3>1. d + 1 \in 1..n /\ 1 \in 1..Len(tag)
      BY <1>1, <1>4, <2>2
    <3>2. Full[d + 1] = tag[1]
      BY <1>5, <2>1, <3>1 DEF Joins
    <3>3. tag[1] = Tag.IntLarge
      BY <2>2
    <3>. QED  BY <1>2, <3>1, <3>2, <3>3
  <2>4. Fails(buffer, d)
    BY <1>1, <1>4, <2>2, <2>3, TornTag DEF n
  <2>5. WholeObjects = m
    BY <1>1, <1>4, <1>7, WholeCount DEF d, n
  <2>6. FailsNext(m)
    BY <1>7, <2>2, <2>4, <2>5 DEF FailsNext, d
  <2>. QED  BY <2>6
<1>. QED  BY <1>6, <1>7
-----------------------------------------------------------------------------
(* The invariant *)

\* Before it is cut, the buffer is what was written.
LEMMA Uncut ==
    ASSUME BufferInv, ~cut
    PROVE  buffer = Full /\ (~torn => buffer = BytesOf(written))
<1> DEFINE tag == IF torn THEN <<Tag.IntLarge>> ELSE <<>>
<1>1. written \in Seq(Fine) /\ buffer \in Seq(Byte) /\ Len(buffer) = Len(Full)
  BY DEF BufferInv, Fine
<1>2. BytesOf(written) \in Seq(Byte)
  BY <1>1, BytesAppend
<1>3. tag \in Seq(Byte)
  <2>1. <<Tag.IntLarge>> \in Seq(Byte) /\ <<>> \in Seq(Byte)
    BY TagValues DEF Byte
  <2>. QED  BY <2>1
<1>4. Full = BytesOf(written) \o tag
  BY DEF Full
<1>5. Full \in Seq(Byte) /\ (~torn => Full = BytesOf(written))
  <2>1. \A a \in Seq(Byte) : a \o <<>> = a
    OBVIOUS
  <2>2. ~torn => tag = <<>>
    OBVIOUS
  <2>. HIDE DEF tag
  <2>3. \A a, b \in Seq(Byte) : a \o b \in Seq(Byte)
    OBVIOUS
  <2>. QED  BY <1>2, <1>3, <1>4, <2>1, <2>2, <2>3
<1>6. \A i \in 1..Len(buffer) : buffer[i] = Full[i]
  BY <1>1 DEF BufferInv
<1>7. buffer = Full
  BY <1>1, <1>5, <1>6, SameElements
<1>. QED  BY <1>5, <1>7

LEMMA NotReading ==
    ASSUME BufferInv, ReaderInv, ~Reading
    PROVE  data = 0 /\ ~failed /\ whole = NotRead
<1>1. data \in Nat /\ failed \in BOOLEAN
  BY DEF ReaderInv, BufferInv
<1>. QED  BY <1>1 DEF Reading

LEMMA InitInv == Init => StreamInv
<1>. SUFFICES ASSUME Init PROVE BufferInv /\ ReaderInv
  BY DEF StreamInv
<1>1. /\ buffer = <<>> /\ written = <<>> /\ data = 0 /\ read = <<>> /\ failed = FALSE
      /\ whole = NotRead /\ cut = FALSE /\ torn = FALSE
  BY DEF Init
<1>2. <<>> \in Seq(Fine) /\ <<>> \in Seq(Byte) /\ Len(<<>>) = 0 /\ DOMAIN <<>> = {}
  OBVIOUS
<1>3. Full = <<>>
  <2>1. Full = <<>> \o <<>>
    BY <1>1, BytesAppend DEF Full
  <2>. QED  BY <2>1
<1>4. BufferInv
  <2>1. written \in Seq({o \in Object : ~TooLarge(o)}) /\ Len(written) <= MaxObjects
    BY <1>1, <1>2, CountAssumption DEF Fine
  <2>2. buffer \in Seq(Byte) /\ Len(buffer) <= Len(Full) /\ Len(buffer) = Len(Full)
    BY <1>1, <1>2, <1>3
  <2>3. \A i \in DOMAIN buffer : buffer[i] = Full[i]
    BY <1>1, <1>3
  <2>. QED  BY <1>1, <2>1, <2>2, <2>3, Zenon DEF BufferInv
<1>5. Offset(0) = 0
  <2>1. 0 \in 0..Len(<<>>)
    BY <1>2
  <2>2. Place(<<>>, 0) = 0
    BY <1>2, <2>1, PlaceType
  <2>. QED  BY <1>1, <2>2 DEF Offset, Place, First
<1>6. SubSeq(<<>>, 1, 0) = <<>>
  OBVIOUS
<1>7. whole.ok = FALSE
  BY <1>1 DEF NotRead, Error
<1>8. ErrorOnlyAtTheCut /\ WholeIsOneObject
  BY <1>1 DEF ErrorOnlyAtTheCut, WholeIsOneObject
<1>9. /\ Len(read) \in 0..Len(written) /\ read = SubSeq(written, 1, Len(read))
      /\ data \in 0..Len(buffer) /\ failed \in BOOLEAN /\ data = Offset(Len(read))
  <2>1. Len(read) = 0 /\ Len(written) = 0 /\ Len(buffer) = 0
    BY <1>1, <1>2
  <2>2. 0 \in 0..0
    OBVIOUS
  <2>3. read = SubSeq(written, 1, 0)
    BY <1>1, <1>6
  <2>. QED  BY <1>1, <1>5, <2>1, <2>2, <2>3
<1>. QED  BY <1>4, <1>7, <1>8, <1>9 DEF ReaderInv

\* A writer fills the buffer; nobody has read from it.
LEMMA SerializeKeeps ==
    ASSUME StreamInv, NEW o \in Object, Serialize(o)
    PROVE  StreamInv'
<1>1. /\ ~Reading /\ ~cut /\ ~torn /\ Len(written) < MaxObjects /\ o \in Fine
      /\ buffer' = Serialized(buffer, o) /\ written' = Append(written, o)
      /\ UNCHANGED <<data, read, failed, whole, cut, torn>>
  BY DEF Serialize, Fine
<1>2. BufferInv /\ ReaderInv /\ data = 0 /\ ~failed /\ whole = NotRead
  BY <1>1, NotReading DEF StreamInv
<1>3. buffer = BytesOf(written) /\ buffer \in Seq(Byte) /\ written \in Seq(Fine)
  BY <1>1, <1>2, Uncut DEF BufferInv, Fine
<1>4. /\ buffer' = BytesOf(written') /\ buffer' \in Seq(Byte) /\ written' \in Seq(Fine)
      /\ Len(written') = Len(written) + 1 /\ Len(written) \in Nat
  <2>1. buffer' = BytesOf(written') /\ buffer' \in Seq(Byte)
    BY <1>1, <1>3, BytesAppend, SerializedType
  <2>2. \A s \in Seq(Fine), e \in Fine :
            Append(s, e) \in Seq(Fine) /\ Len(Append(s, e)) = Len(s) + 1 /\ Len(s) \in Nat
    OBVIOUS
  <2>. QED  BY <1>1, <1>3, <2>1, <2>2
<1>5. Full' = buffer'
  <2>1. Full' = buffer' \o <<>>
    BY <1>1, <1>4 DEF Full
  <2>2. \A a \in Seq(Byte) : a \o <<>> = a
    OBVIOUS
  <2>. QED  BY <1>4, <2>1, <2>2
<1>6. BufferInv'
  <2>1. Len(written') <= MaxObjects
    BY <1>1, <1>4, CountAssumption
  <2>2. Len(buffer') <= Len(Full') /\ Len(buffer') = Len(Full')
    <3>1. \A s \in Seq(Byte) : Len(s) <= Len(s)
      OBVIOUS
    <3>. QED  BY <1>4, <1>5, <3>1
  <2>3. cut' \in BOOLEAN /\ torn' \in BOOLEAN /\ ~cut'
    BY <1>1, <1>2 DEF BufferInv
  <2>4. \A i \in DOMAIN buffer' : buffer'[i] = Full'[i]
    BY <1>5
  <2>5. written' \in Seq({x \in Object : ~TooLarge(x)})
    BY <1>4 DEF Fine
  <2>. QED  BY <1>4, <2>1, <2>2, <2>3, <2>4, <2>5, Zenon DEF BufferInv
<1>7. ReaderInv'
  <2> DEFINE k == Len(read)
  <2>1. k \in 0..Len(written) /\ read = First(written, k) /\ data = Place(written, k)
    BY <1>2 DEF ReaderInv, First, Offset, Place
  <2>. HIDE DEF k
  <2>2. First(written', k) = First(written, k) /\ k \in 0..Len(written')
    BY <1>1, <1>3, <1>4, <2>1, Firsts
  <2>3. (Offset(Len(read)))' = data
    BY <1>1, <2>1, <2>2 DEF Offset, Place, First, k
  <2>4. read' = SubSeq(written', 1, Len(read')) /\ Len(read') \in 0..Len(written')
    BY <1>1, <2>1, <2>2 DEF First, k
  <2>5. data' \in 0..Len(buffer')
    <3>1. \A s \in Seq(Byte) : 0 \in 0..Len(s)
      OBVIOUS
    <3>. QED  BY <1>1, <1>2, <1>4, <3>1
  <2>6. whole'.ok \in BOOLEAN /\ failed' \in BOOLEAN /\ whole' = NotRead /\ ~failed'
    BY <1>1, <1>2 DEF ReaderInv
  <2>7. ErrorOnlyAtTheCut' /\ WholeIsOneObject'
    BY <2>6 DEF ErrorOnlyAtTheCut, WholeIsOneObject, NotRead
  <2>. QED  BY <1>1, <2>3, <2>4, <2>5, <2>6, <2>7 DEF ReaderInv
<1>. QED  BY <1>6, <1>7 DEF StreamInv

\* What a reader knows does not change with the buffer before it has begun.
LEMMA ReaderStays ==
    ASSUME BufferInv, ReaderInv, ~Reading, written' = written, Len(buffer') \in Nat,
           UNCHANGED <<data, read, failed, whole>>
    PROVE  ReaderInv'
<1>1. data = 0 /\ ~failed /\ whole = NotRead
  BY NotReading
<1>2. /\ Len(read) \in 0..Len(written) /\ read = SubSeq(written, 1, Len(read))
      /\ data = Offset(Len(read)) /\ whole.ok \in BOOLEAN
  BY <1>1 DEF ReaderInv
<1>3. (Offset(Len(read)))' = Offset(Len(read))
  BY DEF Offset
<1>4. data' \in 0..Len(buffer')
  BY <1>1
<1>5. ErrorOnlyAtTheCut' /\ WholeIsOneObject'
  BY <1>1 DEF ErrorOnlyAtTheCut, WholeIsOneObject, NotRead
<1>. QED  BY <1>1, <1>2, <1>3, <1>4, <1>5 DEF ReaderInv

\* A serialize call that raises leaves its tag behind.
LEMMA SerializeRaisesKeeps ==
    ASSUME StreamInv, NEW o \in Object, SerializeRaises(o)
    PROVE  StreamInv'
<1>1. /\ ~Reading /\ ~cut /\ ~torn /\ buffer' = Append(buffer, Tag.IntLarge)
      /\ torn' = TRUE /\ UNCHANGED <<data, read, failed, whole, written, cut>>
  BY DEF SerializeRaises
<1>2. BufferInv /\ ReaderInv
  BY DEF StreamInv
<1>3. buffer = BytesOf(written) /\ buffer \in Seq(Byte)
  BY <1>1, <1>2, Uncut DEF BufferInv
<1>4. buffer' = Full' /\ buffer' \in Seq(Byte)
  <2>1. Full' = buffer \o <<Tag.IntLarge>>
    BY <1>1, <1>3 DEF Full
  <2>2. Tag.IntLarge \in Byte
    BY TagValues DEF Byte
  <2>3. \A s \in Seq(Byte), b \in Byte : Append(s, b) = s \o <<b>> /\ Append(s, b) \in Seq(Byte)
    OBVIOUS
  <2>. QED  BY <1>1, <1>3, <2>1, <2>2, <2>3
<1>5. BufferInv'
  <2>1. \A s \in Seq(Byte) : Len(s) <= Len(s)
    OBVIOUS
  <2>2. /\ written \in Seq({x \in Object : ~TooLarge(x)}) /\ Len(written) <= MaxObjects
        /\ cut \in BOOLEAN
    BY <1>2 DEF BufferInv
  <2>. QED  BY <1>1, <1>4, <2>1, <2>2 DEF BufferInv
<1>6. Len(buffer') \in Nat
  BY <1>4
<1>. QED  BY <1>1, <1>2, <1>5, <1>6, ReaderStays DEF StreamInv

LEMMA CutKeeps ==
    ASSUME StreamInv, NEW n \in 0..(Len(buffer) - 1), Cut(n)
    PROVE  StreamInv'
<1>1. /\ ~Reading /\ ~cut /\ buffer' = First(buffer, n) /\ cut' = TRUE
      /\ UNCHANGED <<data, read, failed, whole, written, torn>>
  BY DEF Cut, First
<1>2. BufferInv /\ ReaderInv /\ buffer \in Seq(Byte) /\ Len(buffer) \in Nat /\ n \in 0..Len(buffer)
  BY DEF StreamInv, BufferInv
<1>3. buffer' \in Seq(Byte) /\ Len(buffer') = n /\ \A i \in 1..n : buffer'[i] = buffer[i]
  BY <1>1, <1>2, Firsts
<1>4. Full' = Full /\ buffer = Full
  BY <1>1, <1>2, Uncut DEF Full
<1>5. ASSUME NEW k \in DOMAIN written, written[k].type = "other"
      PROVE  n <= Offset(k - 1) + SizeLen(written[k].len) \/ n >= Offset(k)
  <2> DEFINE a == Offset(k - 1)
             b == Offset(k)
             w == SizeLen(written[k].len)
  <2>1. n \notin (a + 1 + w)..(b - 1)
    BY <1>5 DEF Cut
  <2>2. a \in Nat /\ b \in Nat /\ w \in Nat
    <3>1. written \in Seq(Fine)
      BY <1>2 DEF BufferInv, Fine
    <3>2. k - 1 \in 0..Len(written) /\ k \in 0..Len(written)
      BY <3>1
    <3>3. w \in Nat
      BY DEF SizeLen
    <3>. QED  BY <3>1, <3>2, <3>3, PlaceType DEF Offset, Place, First
  <2>. HIDE DEF a, b, w
  <2>3. n <= a + w \/ n >= b
    BY <1>2, <2>1, <2>2
  <2>. QED  BY <2>3 DEF a, b, w
<1>6. BufferInv'
  <2>1. /\ written \in Seq({x \in Object : ~TooLarge(x)}) /\ Len(written) <= MaxObjects
        /\ torn \in BOOLEAN
    BY <1>2 DEF BufferInv
  <2>2. DOMAIN buffer' = 1..n /\ Len(buffer') <= Len(Full)
    BY <1>2, <1>3, <1>4
  <2>3. \A k : (Offset(k))' = Offset(k)
    BY <1>1 DEF Offset
  <2>4. \A k \in DOMAIN written' : written'[k].type = "other" =>
             \/ Len(buffer') <= (Offset(k - 1))' + SizeLen(written'[k].len)
             \/ Len(buffer') >= (Offset(k))'
    BY <1>1, <1>3, <1>5, <2>3
  <2>. QED  BY <1>1, <1>3, <1>4, <2>1, <2>2, <2>4 DEF BufferInv
<1>7. ReaderInv'
  <2>1. Len(buffer') \in Nat
    BY <1>2, <1>3
  <2>. QED  BY <1>1, <1>2, <2>1, ReaderStays
<1>. QED  BY <1>6, <1>7 DEF StreamInv

\* A reader takes the next object, or gets an error that ends its reading.
LEMMA DeserializeKeeps ==
    ASSUME StreamInv, Deserialize
    PROVE  StreamInv'
<1> DEFINE m == Len(read)
           result == DeserializeWTypeWSize(buffer, data)
<1>1. /\ ~failed /\ whole = NotRead /\ data < Len(buffer)
      /\ data' = result.data /\ failed' = ~result.ok
      /\ read' = IF result.ok THEN Append(read, result.object) ELSE read
      /\ UNCHANGED <<buffer, whole, written, cut, torn>>
  BY DEF Deserialize
<1>2. BufferInv /\ ReaderInv /\ written \in Seq(Fine) /\ Len(buffer) \in Nat /\ Len(written) \in Nat
  BY DEF StreamInv, BufferInv, Fine
<1>3. m \in 0..Len(written) /\ read = First(written, m) /\ data = Offset(m) /\ data \in Nat
  BY <1>1, <1>2 DEF ReaderInv, First
<1>. HIDE DEF m, result
<1>4. BufferInv'
  <2>1. Full' = Full /\ \A k : (Offset(k))' = Offset(k)
    BY <1>1 DEF Full, Offset
  <2>. QED  BY <1>1, <1>2, <2>1 DEF BufferInv
<1>5. ErrorOnlyAtTheCut' <=> (failed' => (cut \/ torn) /\ Len(read') = WholeObjects)
  <2>1. WholeObjects' = WholeObjects
    BY <1>1 DEF WholeObjects, Offset
  <2>. QED  BY <1>1, <2>1 DEF ErrorOnlyAtTheCut
<1>6. WholeIsOneObject' /\ whole'.ok \in BOOLEAN
  BY <1>1, <1>2 DEF WholeIsOneObject, ReaderInv
<1>7. \A k : (Offset(k))' = Offset(k)
  BY <1>1 DEF Offset
<1>8. ReadsNext(m) \/ FailsNext(m)
  BY <1>1, <1>2, <1>3, NextRead
<1>9. CASE ReadsNext(m)
  <2>1. /\ m < Len(written) /\ Offset(m + 1) <= Len(buffer)
        /\ result = Got(written[m + 1], Offset(m + 1))
    BY <1>3, <1>9 DEF ReadsNext, result
  <2>2. result.ok = TRUE /\ result.object = written[m + 1] /\ result.data = Offset(m + 1)
    BY <2>1 DEF Got
  <2>3. m + 1 \in 0..Len(written) /\ First(written, m + 1) = Append(First(written, m), written[m + 1])
    BY <1>2, <1>3, <2>1, Firsts
  <2>4. read' = First(written, m + 1) /\ Len(read') = m + 1
    <3>1. read' = Append(read, written[m + 1])
      BY <1>1, <2>2
    <3>2. First(written, m + 1) = Append(read, written[m + 1])
      BY <1>3, <2>3
    <3>3. Len(First(written, m + 1)) = m + 1
      BY <1>2, <2>3, Firsts
    <3>. QED  BY <3>1, <3>2, <3>3
  <2>5. data' = Offset(m + 1) /\ failed' = FALSE
    BY <1>1, <2>2
  <2>6. Offset(m + 1) \in Nat
    BY <1>2, <2>3, PlaceType DEF Offset, Place, First
  <2>7. /\ Len(read') \in 0..Len(written') /\ read' = SubSeq(written', 1, Len(read'))
        /\ data' \in 0..Len(buffer') /\ failed' \in BOOLEAN
        /\ data' = (Offset(Len(read)))'
    <3>1. (Offset(Len(read)))' = Offset(m + 1)
      BY <1>1, <2>4 DEF Offset
    <3>2. Len(read') \in 0..Len(written')
      BY <1>1, <2>3, <2>4
    <3>3. read' = SubSeq(written', 1, Len(read'))
      BY <1>1, <2>4 DEF First
    <3>4. data' \in 0..Len(buffer')
      <4>1. Offset(m + 1) \in 0..Len(buffer)
        BY <1>2, <2>1, <2>6
      <4>. QED  BY <1>1, <2>5, <4>1
    <3>. QED  BY <2>5, <3>1, <3>2, <3>3, <3>4
  <2>8. ErrorOnlyAtTheCut'
    BY <1>5, <2>5
  <2>9. ReaderInv'
    BY <1>6, <2>7, <2>8 DEF ReaderInv
  <2>. QED  BY <1>4, <2>9 DEF StreamInv
<1>10. CASE FailsNext(m)
  <2>1. PICK d \in 0..Len(buffer) : result = Error(d)
    BY <1>3, <1>10 DEF FailsNext, Fails, result
  <2>2. result.ok = FALSE /\ result.data = d
    BY <2>1 DEF Error
  <2>3. data' = d /\ failed' = TRUE /\ read' = read
    BY <1>1, <2>2
  <2>4. ErrorOnlyAtTheCut'
    BY <1>5, <1>10, <2>3 DEF FailsNext, m
  <2>5. /\ Len(read') \in 0..Len(written') /\ read' = SubSeq(written', 1, Len(read'))
        /\ data' \in 0..Len(buffer') /\ failed' \in BOOLEAN
    BY <1>1, <1>3, <2>3 DEF First, m
  <2>6. ReaderInv'
    BY <1>6, <2>3, <2>4, <2>5 DEF ReaderInv
  <2>. QED  BY <1>4, <2>6 DEF StreamInv
<1>. QED  BY <1>8, <1>9, <1>10

\* The overload that reads a whole buffer, when nothing was read yet.
LEMMA DeserializeBufferKeeps ==
    ASSUME StreamInv, DeserializeBuffer
    PROVE  StreamInv'
<1> DEFINE result == DeserializeWTypeWSize(buffer, 0)
           kept == ReadWhole(result)
<1>1. /\ ~Reading /\ buffer # <<>> /\ whole' = [kept EXCEPT !.data = Len(buffer)]
      /\ UNCHANGED <<buffer, data, read, failed, written, cut, torn>>
  BY DEF DeserializeBuffer
<1>2. BufferInv /\ ReaderInv /\ written \in Seq(Fine) /\ Len(written) \in Nat
      /\ buffer \in Seq(Byte)
  BY DEF StreamInv, BufferInv, Fine
<1>3. Offset(0) = 0 /\ 0 < Len(buffer) /\ 0 \in 0..Len(written)
  <2>1. 0 \in 0..Len(written)
    BY <1>2
  <2>2. Offset(0) = 0
    BY <1>2, <2>1, PlaceType DEF Offset, Place, First
  <2>3. \A s \in Seq(Byte) : s # <<>> => 0 < Len(s)
    OBVIOUS
  <2>. QED  BY <1>1, <1>2, <2>1, <2>2, <2>3
<1>. HIDE DEF result, kept
<1>4. /\ kept.ok = (written # <<>> /\ Len(buffer) = Offset(1))
      /\ kept.ok => kept.object = written[1]
      /\ whole'.ok = kept.ok /\ whole'.object = kept.object
  <2>1. ReadsNext(0) \/ FailsNext(0)
    BY <1>2, <1>3, NextRead
  <2> DEFINE Ended(x) == [x EXCEPT !.data = Len(buffer)]
  <2>2. ASSUME NEW x, NEW o, NEW d, x = Got(o, d) \/ x = Error(d)
        PROVE  Ended(x).ok = x.ok /\ Ended(x).object = x.object
    <3>1. \A e : Ended(Error(e)).ok = Error(e).ok /\ Ended(Error(e)).object = Error(e).object
      BY DEF Error
    <3>2. \A y, e : Ended(Got(y, e)).ok = Got(y, e).ok /\ Ended(Got(y, e)).object = Got(y, e).object
      BY DEF Got
    <3>. HIDE DEF Ended
    <3>3. Ended(Got(o, d)).ok = Got(o, d).ok /\ Ended(Got(o, d)).object = Got(o, d).object
      BY <3>2
    <3>4. Ended(Error(d)).ok = Error(d).ok /\ Ended(Error(d)).object = Error(d).object
      BY <3>1
    <3>. QED  BY <2>2, <3>3, <3>4
  <2>3. whole' = Ended(kept)
    BY <1>1
  <2>. HIDE DEF Ended
  <2>4. ASSUME ReadsNext(0)
        PROVE  /\ kept.ok = (written # <<>> /\ Len(buffer) = Offset(1))
               /\ kept.ok => kept.object = written[1]
               /\ kept = Got(written[1], Offset(1)) \/ kept = Error(Offset(1))
    <3>1. 0 < Len(written) /\ result = Got(written[1], Offset(1))
      BY <1>3, <2>4 DEF ReadsNext, result
    <3>2. written # <<>>
      BY <3>1
    <3>3. result.ok = TRUE /\ result.data = Offset(1) /\ result.object = written[1]
      BY <3>1 DEF Got
    <3>4. kept = IF Offset(1) # Len(buffer) THEN Error(Offset(1)) ELSE result
      BY <3>3 DEF kept, ReadWhole
    <3>5. Error(Offset(1)).ok = FALSE
      BY DEF Error
    <3>. QED  BY <3>1, <3>2, <3>3, <3>4, <3>5
  <2>5. ASSUME FailsNext(0)
        PROVE  /\ kept.ok = FALSE /\ ~(written # <<>> /\ Len(buffer) = Offset(1))
               /\ \E d : kept = Error(d)
    <3>1. PICK d \in 0..Len(buffer) : result = Error(d)
      BY <1>3, <2>5 DEF FailsNext, Fails, result
    <3>2. result.ok = FALSE
      BY <3>1 DEF Error
    <3>3. kept = Error(d) /\ kept.ok = FALSE
      BY <3>1, <3>2 DEF kept, ReadWhole
    <3>4. ASSUME written # <<>> PROVE Len(buffer) # Offset(1)
      <4>1. \A s \in Seq(Fine) : s # <<>> => 0 < Len(s) /\ 1 \in 0..Len(s)
        OBVIOUS
      <4>2. Len(buffer) < Offset(1)
        BY <1>2, <2>5, <3>4, <4>1 DEF FailsNext
      <4>3. Len(buffer) \in Nat
        BY <1>2
      <4>. QED  BY <4>2, <4>3
    <3>. QED  BY <3>3, <3>4
  <2>6. CASE ReadsNext(0)
    BY <2>2, <2>4, <2>6, <2>3
  <2>7. CASE FailsNext(0)
    BY <2>2, <2>5, <2>7, <2>3
  <2>. QED  BY <2>1, <2>6, <2>7
<1>5. BufferInv'
  <2>1. Full' = Full /\ \A k : (Offset(k))' = Offset(k)
    BY <1>1 DEF Full, Offset
  <2>. QED  BY <1>1, <1>2, <2>1 DEF BufferInv
<1>6. WholeIsOneObject' /\ whole'.ok \in BOOLEAN
  <2>1. (Offset(1))' = Offset(1)
    BY <1>1 DEF Offset
  <2>. QED  BY <1>1, <1>4, <2>1 DEF WholeIsOneObject
<1>7. ReaderInv'
  <2>1. WholeObjects' = WholeObjects /\ (Offset(Len(read)))' = Offset(Len(read))
    BY <1>1 DEF WholeObjects, Offset
  <2>2. ErrorOnlyAtTheCut'
    BY <1>1, <1>2, <2>1 DEF ErrorOnlyAtTheCut, ReaderInv
  <2>. QED  BY <1>1, <1>2, <1>6, <2>1, <2>2 DEF ReaderInv
<1>. QED  BY <1>5, <1>7 DEF StreamInv

LEMMA Invariance == Spec => []StreamInv
<1>1. Init => StreamInv
  BY InitInv
<1>2. StreamInv /\ [Next]_vars => StreamInv'
  <2>0. Init' => StreamInv'
    BY InitInv, PTL
  <2>. SUFFICES ASSUME StreamInv, [Next]_vars PROVE StreamInv'
    OBVIOUS
  <2>1. ASSUME NEW o \in Object, Serialize(o) PROVE StreamInv'
    BY <2>1, SerializeKeeps
  <2>2. ASSUME NEW o \in Object, SerializeRaises(o) PROVE StreamInv'
    BY <2>2, SerializeRaisesKeeps
  <2>3. CASE Clear
    BY <2>0, <2>3 DEF Clear, Init, NotRead
  <2>4. ASSUME NEW n \in 0..(Len(buffer) - 1), Cut(n) PROVE StreamInv'
    BY <2>4, CutKeeps
  <2>5. CASE Deserialize
    BY <2>5, DeserializeKeeps
  <2>6. CASE DeserializeBuffer
    BY <2>6, DeserializeBufferKeeps
  <2>7. CASE UNCHANGED vars
    <3>1. UNCHANGED <<buffer, data, read, failed, whole, written, cut, torn>>
      BY <2>7 DEF vars
    <3>2. Full' = Full /\ WholeObjects' = WholeObjects /\ \A k : (Offset(k))' = Offset(k)
      BY <3>1 DEF Full, Offset, WholeObjects
    <3>3. (Offset(Len(read)))' = Offset(Len(read)) /\ (Offset(1))' = Offset(1)
      BY <3>1 DEF Offset
    <3>4. BufferInv'
      BY <3>1, <3>2 DEF StreamInv, BufferInv
    <3>5. ReaderInv'
      BY <3>1, <3>2, <3>3 DEF StreamInv, ReaderInv, ErrorOnlyAtTheCut, WholeIsOneObject
    <3>. QED  BY <3>4, <3>5 DEF StreamInv
  <2>. QED  BY <2>1, <2>2, <2>3, <2>4, <2>5, <2>6, <2>7 DEF Next
<1>. QED  BY <1>1, <1>2, PTL DEF Spec

-----------------------------------------------------------------------------
\* The bytes of the buffer are bytes, the reader's pointer stays in it, and it has no
\* more objects than were written.
THEOREM Typed == Spec => []TypeOK
<1>1. StreamInv => TypeOK
  <2>. SUFFICES ASSUME StreamInv PROVE TypeOK
    OBVIOUS
  <2>1. BufferInv /\ ReaderInv
    BY DEF StreamInv
  <2>2. written \in Seq(Object) /\ Len(written) \in 0..MaxObjects
    <3>1. written \in Seq(Fine) /\ Len(written) <= MaxObjects
      BY <2>1 DEF BufferInv, Fine
    <3>2. \A o \in Fine : o \in Object
      BY DEF Fine
    <3>3. written \in Seq(Object)
      BY <3>1, <3>2, SeqOfMore
    <3>. QED  BY <3>1, <3>3, CountAssumption
  <2>3. written \in [1..Len(written) -> Object]
    BY <2>2
  <2>4. written \in UNION {[1..n -> Object] : n \in 0..MaxObjects}
    BY <2>2, <2>3, Zenon
  <2>5. \A i \in DOMAIN buffer : buffer[i] \in Byte
    <3>1. \A s \in Seq(Byte) : \A i \in DOMAIN s : s[i] \in Byte
      OBVIOUS
    <3>. QED  BY <2>1, <3>1 DEF BufferInv
  <2>6. Len(read) <= Len(written)
    BY <2>1, <2>2 DEF ReaderInv
  <2>. QED  BY <2>1, <2>4, <2>5, <2>6 DEF TypeOK, BufferInv, ReaderInv
<1>. QED  BY Invariance, <1>1, PTL

\* Whatever is written and wherever the buffer is cut, the reader gets the objects
\* that were written, in their order, and its pointer is at the next one.
THEOREM ReadInOrder == Spec => []ReadsInOrder
<1>1. StreamInv => ReadsInOrder
  BY DEF StreamInv, ReaderInv, ReadsInOrder
<1>. QED  BY Invariance, <1>1, PTL

\* There is an error only at the lost end of a buffer, or behind a serialize call that
\* raised, and every whole object was read by then.
THEOREM ErrorsAtTheCut == Spec => []ErrorOnlyAtTheCut
<1>1. StreamInv => ErrorOnlyAtTheCut
  BY DEF StreamInv, ReaderInv
<1>. QED  BY Invariance, <1>1, PTL

\* The overload for a single object accepts a buffer if it holds one object and
\* nothing else, and returns that object.
THEOREM OneObjectReadWhole == Spec => []WholeIsOneObject
<1>1. StreamInv => WholeIsOneObject
  BY DEF StreamInv, ReaderInv
<1>. QED  BY Invariance, <1>1, PTL
=============================================================================
