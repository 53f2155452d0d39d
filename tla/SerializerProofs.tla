--------------------------- MODULE SerializerProofs ---------------------------
(* What SerializerV1 of db/serializer.cpp writes for an object, it reads back,  *)
(* for every width of a byte and integers of every length.                      *)
EXTENDS Serializer, NaturalLemmas

-----------------------------------------------------------------------------
(* Powers *)

\* The function behind Power.
PowersOf(b, n, p) ==
    /\ p \in [0..n -> Nat] /\ p[0] = 1 /\ p[n] = Power(b, n)
    /\ \A k \in 1..n : p[k] = b * p[k - 1]

LEMMA PowerFunction == \A b \in Nat, n \in Nat : \E p : PowersOf(b, n, p)
<1>. TAKE b \in Nat, n \in Nat
<1> DEFINE step == [x \in (1..n) \X Nat |-> b * x[2]]
           p == CHOOSE g : g = [k \in 0..n |-> IF k = 0 THEN 1 ELSE b * g[k - 1]]
<1>1. PICK f \in [0..n -> Nat] : Steps(f, n, 1, step)
  <2>1. step \in [(1..n) \X Nat -> Nat] /\ 1 \in Nat
    OBVIOUS
  <2>. HIDE DEF step
  <2>. QED  BY <2>1, RecursionHolds
<1>2. \A k \in 1..n : f[k] = b * f[k - 1]
  <2>1. \A k \in 1..n : k - 1 \in 0..n /\ f[k - 1] \in Nat
    OBVIOUS
  <2>. QED  BY <1>1, <2>1 DEF Steps
<1>3. f = [k \in 0..n |-> IF k = 0 THEN 1 ELSE b * f[k - 1]]
  BY <1>1, <1>2 DEF Steps
<1>4. p = [k \in 0..n |-> IF k = 0 THEN 1 ELSE b * p[k - 1]]
  BY <1>3
<1>5. Power(b, n) = p[n]
  BY DEF Power
<1>. HIDE DEF p
<1>6. p[0] = 1 /\ \A k \in 1..n : p[k] = b * p[k - 1]
  BY <1>4
<1>7. Alike(p, f, n)
  <2>1. StepAlike(p, f, n)
    BY <1>1, <1>2, <1>6 DEF StepAlike, Steps
  <2>. QED  BY <2>1, RecursionAgrees
<1>8. p \in [0..n -> Nat]
  BY <1>4, <1>7 DEF Alike
<1>. QED  BY <1>5, <1>6, <1>8 DEF PowersOf

\* What a power is.
LEMMA PowerStep ==
    ASSUME NEW b \in Nat
    PROVE  /\ Power(b, 0) = 1
           /\ \A n \in Nat : Power(b, n) \in Nat /\ Power(b, n + 1) = b * Power(b, n)
<1>1. Power(b, 0) = 1
  BY PowerFunction DEF PowersOf
<1>2. ASSUME NEW n \in Nat PROVE Power(b, n) \in Nat /\ Power(b, n + 1) = b * Power(b, n)
  <2>1. PICK p : PowersOf(b, n, p)
    BY PowerFunction
  <2>2. PICK q : PowersOf(b, n + 1, q)
    <3>1. n + 1 \in Nat
      OBVIOUS
    <3>. QED  BY <3>1, PowerFunction
  <2>3. Alike(p, q, n)
    <3>1. StepAlike(p, q, n)
      BY <2>1, <2>2 DEF StepAlike, PowersOf
    <3>. QED  BY <3>1, RecursionAgrees
  <2>4. n + 1 \in 1..(n + 1) /\ (n + 1) - 1 = n /\ n \in 0..n
    OBVIOUS
  <2>. QED  BY <2>1, <2>2, <2>3, <2>4 DEF PowersOf, Alike
<1>. QED  BY <1>1, <1>2

\* Powers of a positive number are positive.
LEMMA PowerPositive ==
    ASSUME NEW b \in Nat \ {0}, NEW n \in Nat
    PROVE  Power(b, n) \in Nat \ {0}
<1> DEFINE T == {k \in Nat : Power(b, k) \in Nat \ {0}}
<1>1. 0 \in T
  BY PowerStep
<1>2. ASSUME NEW k \in T PROVE k + 1 \in T
  <2>1. Power(b, k) \in Nat /\ Power(b, k) # 0 /\ Power(b, k + 1) = b * Power(b, k)
    BY PowerStep
  <2>2. ASSUME NEW x \in Nat, x # 0 PROVE b * x \in Nat \ {0}
    BY <2>2
  <2>. QED  BY <2>1, <2>2
<1>3. T = Nat
  <2>. HIDE DEF T
  <2>1. T \in SUBSET Nat
    BY DEF T
  <2>. QED  BY <1>1, <1>2, <2>1, AllNaturals
<1>. QED  BY <1>3

\* The product of two powers.
LEMMA PowerSum ==
    ASSUME NEW b \in Nat, NEW m \in Nat, NEW n \in Nat
    PROVE  Power(b, m + n) = Power(b, m) * Power(b, n)
<1> DEFINE T == {k \in Nat : Power(b, m + k) = Power(b, m) * Power(b, k)}
<1>1. 0 \in T
  <2>1. Power(b, 0) = 1 /\ Power(b, m) \in Nat /\ m + 0 = m
    BY PowerStep
  <2>. QED  BY <2>1
<1>2. ASSUME NEW k \in T PROVE k + 1 \in T
  <2>1. /\ Power(b, k) \in Nat /\ Power(b, k + 1) = b * Power(b, k)
        /\ Power(b, m) \in Nat /\ Power(b, (m + k) + 1) = b * Power(b, m + k)
    BY PowerStep
  <2>2. ASSUME NEW x \in Nat, NEW y \in Nat PROVE b * (x * y) = x * (b * y)
    OBVIOUS
  <2>3. m + (k + 1) = (m + k) + 1
    OBVIOUS
  <2>4. Power(b, m + k) = Power(b, m) * Power(b, k)
    OBVIOUS
  <2>5. Power(b, m + (k + 1)) = Power(b, m) * Power(b, k + 1)
    BY <2>1, <2>2, <2>3, <2>4
  <2>. QED  BY <2>5
<1>3. T = Nat
  <2>. HIDE DEF T
  <2>1. T \in SUBSET Nat
    BY DEF T
  <2>. QED  BY <1>1, <1>2, <2>1, AllNaturals
<1>. QED  BY <1>3

\* A power of a power.
LEMMA PowerProduct ==
    ASSUME NEW b \in Nat, NEW m \in Nat, NEW n \in Nat
    PROVE  Power(Power(b, m), n) = Power(b, m * n)
<1> DEFINE T == {k \in Nat : Power(Power(b, m), k) = Power(b, m * k)}
<1>0. Power(b, m) \in Nat
  BY PowerStep
<1>1. 0 \in T
  <2>1. Power(b, 0) = 1 /\ Power(Power(b, m), 0) = 1 /\ m * 0 = 0
    BY <1>0, PowerStep
  <2>. QED  BY <2>1
<1>2. ASSUME NEW k \in T PROVE k + 1 \in T
  <2>1. Power(Power(b, m), k + 1) = Power(b, m) * Power(Power(b, m), k)
    BY <1>0, PowerStep
  <2>2. m * (k + 1) = m + m * k /\ m * k \in Nat
    OBVIOUS
  <2>3. Power(b, m + m * k) = Power(b, m) * Power(b, m * k)
    BY <2>2, PowerSum
  <2>. QED  BY <2>1, <2>2, <2>3
<1>3. T = Nat
  <2>. HIDE DEF T
  <2>1. T \in SUBSET Nat
    BY DEF T
  <2>. QED  BY <1>1, <1>2, <2>1, AllNaturals
<1>. QED  BY <1>3

-----------------------------------------------------------------------------
(* Quotients and remainders *)

LEMMA Monotone ==
    ASSUME NEW a \in Int, NEW b \in Int, NEW c \in Nat, a <= b
    PROVE  c * a <= c * b /\ c * a \in Int /\ c * b \in Int
  OBVIOUS

LEMMA DivMod ==
    ASSUME NEW a \in Int, NEW b \in Nat \ {0}
    PROVE  /\ a \div b \in Int /\ a % b \in 0..(b - 1)
           /\ a = b * (a \div b) + (a % b)
  OBVIOUS

LEMMA DivUnique ==
    ASSUME NEW a \in Int, NEW b \in Nat \ {0}, NEW q \in Int, NEW r \in 0..(b - 1), a = b * q + r
    PROVE  a \div b = q /\ (a % b) = r
<1> DEFINE d == a \div b
           s == a % b
<1>1. d \in Int /\ s \in 0..(b - 1) /\ a = b * d + s
  BY DivMod
<1>. HIDE DEF d, s
<1>2. ~(q < d)
  <2>. SUFFICES ASSUME q < d PROVE FALSE
    OBVIOUS
  <2>1. q + 1 <= d
    BY <1>1
  <2>2. b * (q + 1) <= b * d
    BY <1>1, <2>1, Monotone
  <2>3. b * (q + 1) = b * q + b
    OBVIOUS
  <2>4. b * q \in Int /\ b * d \in Int
    BY <1>1
  <2>. QED  BY <1>1, <2>2, <2>3, <2>4
<1>3. ~(d < q)
  <2>. SUFFICES ASSUME d < q PROVE FALSE
    OBVIOUS
  <2>1. d + 1 <= q
    BY <1>1
  <2>2. b * (d + 1) <= b * q
    BY <1>1, <2>1, Monotone
  <2>3. b * (d + 1) = b * d + b
    BY <1>1
  <2>4. b * q \in Int /\ b * d \in Int
    BY <1>1
  <2>. QED  BY <1>1, <2>2, <2>3, <2>4
<1>4. q = d
  BY <1>1, <1>2, <1>3
<1>5. r = s
  <2>1. b * q \in Int /\ b * q + r = b * q + s
    BY <1>1, <1>4
  <2>. QED  BY <1>1, <2>1
<1>. QED  BY <1>4, <1>5 DEF d, s

\* Division by a product, one factor after the other.
DividesTwice(a, b, c) ==
    /\ a \div (b * c) = (a \div b) \div c
    /\ a % (b * c) = ((a \div b) % c) * b + (a % b)

LEMMA DivTwice ==
    ASSUME NEW a \in Int, NEW b \in Nat \ {0}, NEW c \in Nat \ {0}
    PROVE  DividesTwice(a, b, c)
<1> DEFINE q == a \div b
           r == a % b
           d == q \div c
           s == q % c
<1>1. q \in Int /\ r \in 0..(b - 1) /\ a = b * q + r
  BY DivMod
<1>2. d \in Int /\ s \in 0..(c - 1) /\ q = c * d + s
  <2>. HIDE DEF q
  <2>. QED  BY <1>1, DivMod
<1>. HIDE DEF q, r, d, s
<1>3. b * c \in Nat \ {0}
  OBVIOUS
<1>4. a = (b * c) * d + (s * b + r)
  <2>1. b * (c * d + s) = (b * c) * d + s * b
    BY <1>2
  <2>2. (b * c) * d \in Int /\ s * b \in Int
    BY <1>2
  <2>. QED  BY <1>1, <1>2, <2>1, <2>2
<1>5. s * b + r \in 0..(b * c - 1)
  <2>1. b * s <= b * (c - 1) /\ b * s \in Int
    BY <1>2, Monotone
  <2>2. b * (c - 1) = b * c - b /\ s * b = b * s
    BY <1>2
  <2>3. 0 <= b * s
    BY <1>2, Monotone
  <2>. QED  BY <1>1, <1>3, <2>1, <2>2, <2>3
<1>6. a \div (b * c) = d /\ a % (b * c) = s * b + r
  <2>. DEFINE m == b * c
              t == s * b + r
  <2>1. m \in Nat \ {0} /\ t \in 0..(m - 1) /\ a = m * d + t
    BY <1>3, <1>4, <1>5
  <2>. HIDE DEF m, t
  <2>2. a \div m = d /\ a % m = t
    BY <1>2, <2>1, DivUnique
  <2>. QED  BY <2>2 DEF m, t
<1>. QED  BY <1>6 DEF q, r, d, s, DividesTwice

-----------------------------------------------------------------------------
(* Sequences *)

\* Sequences with the same elements are the same.
LEMMA SameElements ==
    ASSUME NEW S, NEW a \in Seq(S), NEW b \in Seq(S), Len(a) = Len(b),
           \A i \in 1..Len(a) : a[i] = b[i]
    PROVE  a = b
  OBVIOUS

LEMMA SeqOfMore ==
    ASSUME NEW S, NEW T, \A e \in S : e \in T, NEW s \in Seq(S)
    PROVE  s \in Seq(T)
  OBVIOUS

\* What is where in a sequence made of two.
Joins(a, b, joined) ==
    /\ Len(joined) = Len(a) + Len(b)
    /\ \A i \in 1..Len(a) : joined[i] = a[i]
    /\ \A i \in 1..Len(b) : joined[Len(a) + i] = b[i]

LEMMA Joined ==
    ASSUME NEW S, NEW a \in Seq(S), NEW b \in Seq(S)
    PROVE  a \o b \in Seq(S) /\ Joins(a, b, a \o b)
  BY DEF Joins

\* A sequence is empty or ends with an element.
Ends(s, front, last) == s = Append(front, last)

LEMMA FrontAndLast ==
    ASSUME NEW S, NEW s \in Seq(S), Len(s) # 0
    PROVE  \E front \in Seq(S), last \in S : Ends(s, front, last) /\ Len(front) = Len(s) - 1
<1> DEFINE n == Len(s)
           front == [i \in 1..(n - 1) |-> s[i]]
<1>1. n \in Nat \ {0} /\ s[n] \in S /\ \A i \in 1..(n - 1) : s[i] \in S
  OBVIOUS
<1>2. front \in Seq(S) /\ Len(front) = n - 1 /\ \A i \in 1..(n - 1) : front[i] = s[i]
  <2>1. n - 1 \in Nat /\ front \in [1..(n - 1) -> S]
    BY <1>1
  <2>2. ASSUME NEW m \in Nat, NEW f \in [1..m -> S] PROVE f \in Seq(S) /\ Len(f) = m
    OBVIOUS
  <2>3. front \in Seq(S) /\ Len(front) = n - 1
    <3>. HIDE DEF n, front
    <3>. QED  BY <2>1, <2>2
  <2>. QED  BY <2>3
<1>. HIDE DEF front
<1>3. /\ Append(front, s[n]) \in Seq(S) /\ Len(Append(front, s[n])) = n
      /\ \A i \in 1..(n - 1) : Append(front, s[n])[i] = s[i] /\ Append(front, s[n])[n] = s[n]
  BY <1>1, <1>2
<1>4. \A i \in 1..n : Append(front, s[n])[i] = s[i]
  BY <1>1, <1>3
<1>5. s = Append(front, s[n])
  BY <1>3, <1>4, SameElements
<1>. QED  BY <1>1, <1>2, <1>5 DEF Ends

\* Elements appended one by one.
LEMMA Appended ==
    ASSUME NEW S, NEW s \in Seq(S), NEW a \in S, NEW b \in S, NEW c \in S
    PROVE  /\ s \o <<a>> = Append(s, a)
           /\ s \o <<a, b>> = Append(Append(s, a), b)
           /\ s \o <<a, b, c>> = Append(Append(Append(s, a), b), c)
  OBVIOUS

-----------------------------------------------------------------------------
(* Numbers *)

HalfBase == Power(2, W - 1)

\* A byte of a number has between 2 and 256 values.
LEMMA BaseValues ==
    /\ HalfBase \in Nat \ {0} /\ HalfBase <= 128
    /\ Base = 2 * HalfBase /\ Base \in Nat \ {0} /\ Base \div 2 = HalfBase
<1>1. /\ Power(2, 0) = 1 /\ Power(2, 1) = 2 /\ Power(2, 2) = 4 /\ Power(2, 3) = 8
      /\ Power(2, 4) = 16 /\ Power(2, 5) = 32 /\ Power(2, 6) = 64 /\ Power(2, 7) = 128
  <2>1. \A n \in Nat : Power(2, n + 1) = 2 * Power(2, n)
    BY PowerStep
  <2>2. /\ Power(2, 0) = 1 /\ Power(2, 0 + 1) = 2 * Power(2, 0) /\ Power(2, 1 + 1) = 2 * Power(2, 1)
        /\ Power(2, 2 + 1) = 2 * Power(2, 2) /\ Power(2, 3 + 1) = 2 * Power(2, 3)
        /\ Power(2, 4 + 1) = 2 * Power(2, 4) /\ Power(2, 5 + 1) = 2 * Power(2, 5)
        /\ Power(2, 6 + 1) = 2 * Power(2, 6)
    BY <2>1, PowerStep
  <2>. QED  BY <2>2
<1>2. W - 1 \in 0..7 /\ (W - 1) + 1 = W
  BY WidthAssumption
<1>3. HalfBase \in Nat \ {0} /\ HalfBase <= 128
  BY <1>1, <1>2 DEF HalfBase
<1>4. Base = 2 * HalfBase
  <2>1. \A n \in Nat : Power(2, n + 1) = 2 * Power(2, n)
    BY PowerStep
  <2>2. W - 1 \in Nat
    BY <1>2
  <2>3. Power(2, (W - 1) + 1) = 2 * Power(2, W - 1)
    BY <2>1, <2>2
  <2>. QED  BY <1>2, <2>3 DEF Base, HalfBase
<1>5. Base \in Nat \ {0} /\ Base \div 2 = HalfBase
  BY <1>3, <1>4
<1>. QED  BY <1>3, <1>4, <1>5

\* The function behind Unsigned.
ValuesOf(bytes, value) ==
    /\ value \in [0..Len(bytes) -> Nat] /\ value[0] = 0 /\ value[Len(bytes)] = Unsigned(bytes)
    /\ \A i \in 1..Len(bytes) : value[i] = value[i - 1] * Base + bytes[i]

LEMMA UnsignedFunction == \A bytes \in Seq(Nat) : \E value : ValuesOf(bytes, value)
<1>. TAKE bytes \in Seq(Nat)
<1> DEFINE n == Len(bytes)
           step == [x \in (1..n) \X Nat |-> x[2] * Base + bytes[x[1]]]
           p == CHOOSE g : g = [i \in 0..n |-> IF i = 0 THEN 0 ELSE g[i - 1] * Base + bytes[i]]
<1>0. n \in Nat /\ \A i \in 1..n : bytes[i] \in Nat
  OBVIOUS
<1>1. PICK f \in [0..n -> Nat] : Steps(f, n, 0, step)
  <2>1. step \in [(1..n) \X Nat -> Nat] /\ 0 \in Nat
    <3>1. ASSUME NEW x \in (1..n) \X Nat PROVE x[2] * Base + bytes[x[1]] \in Nat
      <4>1. x[2] \in Nat /\ bytes[x[1]] \in Nat /\ Base \in Nat
        BY <1>0, BaseValues
      <4>. QED  BY <4>1
    <3>. QED  BY <3>1
  <2>. HIDE DEF step, n
  <2>. QED  BY <1>0, <2>1, RecursionHolds
<1>. HIDE DEF n
<1>2. \A i \in 1..n : f[i] = f[i - 1] * Base + bytes[i]
  <2>1. \A i \in 1..n : i - 1 \in 0..n /\ f[i - 1] \in Nat
    BY <1>0
  <2>. QED  BY <1>1, <2>1 DEF Steps
<1>3. f = [i \in 0..n |-> IF i = 0 THEN 0 ELSE f[i - 1] * Base + bytes[i]]
  BY <1>0, <1>1, <1>2 DEF Steps
<1>4. p = [i \in 0..n |-> IF i = 0 THEN 0 ELSE p[i - 1] * Base + bytes[i]]
  BY <1>3
<1>5. Unsigned(bytes) = p[n]
  BY DEF Unsigned, n
<1>. HIDE DEF p
<1>6. p[0] = 0 /\ \A i \in 1..n : p[i] = p[i - 1] * Base + bytes[i]
  BY <1>0, <1>4
<1>7. Alike(p, f, n)
  <2>1. StepAlike(p, f, n)
    BY <1>1, <1>2, <1>6 DEF StepAlike, Steps
  <2>. QED  BY <1>0, <2>1, RecursionAgrees
<1>8. p \in [0..n -> Nat]
  BY <1>4, <1>7 DEF Alike
<1>. QED  BY <1>5, <1>6, <1>8 DEF ValuesOf, n

\* The value of bytes, the last one at a time.
LEMMA UnsignedStep ==
    /\ Unsigned(<<>>) = 0
    /\ \A s \in Seq(Nat) : /\ Unsigned(s) \in Nat
                           /\ \A b \in Nat : Unsigned(Append(s, b)) = Unsigned(s) * Base + b
<1>1. Unsigned(<<>>) = 0
  <2>1. PICK p : ValuesOf(<<>>, p)
    <3>1. <<>> \in Seq(Nat)
      OBVIOUS
    <3>. QED  BY <3>1, UnsignedFunction
  <2>. QED  BY <2>1 DEF ValuesOf
<1>2. ASSUME NEW s \in Seq(Nat) PROVE Unsigned(s) \in Nat
  <2>1. PICK p : ValuesOf(s, p)
    BY UnsignedFunction
  <2>2. Len(s) \in 0..Len(s)
    OBVIOUS
  <2>. QED  BY <2>1, <2>2 DEF ValuesOf
<1>3. ASSUME NEW s \in Seq(Nat), NEW b \in Nat
      PROVE  Unsigned(Append(s, b)) = Unsigned(s) * Base + b
  <2> DEFINE t == Append(s, b)
             n == Len(s)
  <2>1. /\ t \in Seq(Nat) /\ Len(t) = n + 1 /\ n \in Nat /\ t[n + 1] = b
        /\ \A i \in 1..n : t[i] = s[i]
    OBVIOUS
  <2>. HIDE DEF t
  <2>2. PICK p : ValuesOf(s, p)
    BY UnsignedFunction
  <2>3. PICK q : ValuesOf(t, q)
    BY <2>1, UnsignedFunction
  <2>. HIDE DEF n
  <2>4. p[0] = 0 /\ p[n] = Unsigned(s) /\ \A i \in 1..n : p[i] = p[i - 1] * Base + s[i]
    BY <2>2 DEF ValuesOf, n
  <2>5. q[0] = 0 /\ q[n + 1] = Unsigned(t) /\ \A i \in 1..(n + 1) : q[i] = q[i - 1] * Base + t[i]
    BY <2>1, <2>3 DEF ValuesOf
  <2>6. Alike(p, q, n)
    <3>1. StepAlike(p, q, n)
      BY <2>1, <2>4, <2>5 DEF StepAlike
    <3>. QED  BY <2>1, <3>1, RecursionAgrees
  <2>7. n + 1 \in 1..(n + 1) /\ (n + 1) - 1 = n /\ n \in 0..n
    BY <2>1
  <2>8. q[n + 1] = q[n] * Base + b /\ p[n] = q[n]
    BY <2>1, <2>5, <2>6, <2>7 DEF Alike
  <2>. QED  BY <2>4, <2>5, <2>8 DEF t
<1>. QED  BY <1>1, <1>2, <1>3

\* The bytes of a number are bytes; the last one is the remainder by the base.
LEMMA BigEndianStep ==
    ASSUME NEW v \in Int, NEW n \in Nat
    PROVE  /\ BigEndian(v, n) \in Seq(0..(Base - 1)) /\ Len(BigEndian(v, n)) = n
           /\ BigEndian(v, n + 1) = Append(BigEndian(v \div Base, n), v % Base)
<1>1. ASSUME NEW w \in Int, NEW m \in Nat
      PROVE  BigEndian(w, m) \in Seq(0..(Base - 1)) /\ Len(BigEndian(w, m)) = m
  <2>1. ASSUME NEW i \in 1..m PROVE (w \div Power(Base, m - i)) % Base \in 0..(Base - 1)
    <3>1. m - i \in Nat /\ Base \in Nat \ {0}
      BY BaseValues
    <3>2. Power(Base, m - i) \in Nat \ {0}
      BY <3>1, PowerPositive
    <3>3. w \div Power(Base, m - i) \in Int
      BY <3>2, DivMod
    <3>. QED  BY <3>1, <3>3, DivMod
  <2>2. BigEndian(w, m) = [i \in 1..m |-> (w \div Power(Base, m - i)) % Base]
    BY DEF BigEndian
  <2>3. BigEndian(w, m) \in [1..m -> 0..(Base - 1)]
    BY <2>1, <2>2
  <2>4. ASSUME NEW S, NEW f \in [1..m -> S] PROVE f \in Seq(S) /\ Len(f) = m
    OBVIOUS
  <2> DEFINE f == BigEndian(w, m)
             S == 0..(Base - 1)
  <2>. HIDE DEF f, S
  <2>5. f \in Seq(S) /\ Len(f) = m
    BY <2>3, <2>4 DEF f, S
  <2>. QED  BY <2>5 DEF f, S
<1>2. v \div Base \in Int /\ v % Base \in 0..(Base - 1)
  BY BaseValues, DivMod
<1> DEFINE a == BigEndian(v, n + 1)
           front == BigEndian(v \div Base, n)
           b == Append(front, v % Base)
<1>3. /\ a \in Seq(0..(Base - 1)) /\ Len(a) = n + 1
      /\ front \in Seq(0..(Base - 1)) /\ Len(front) = n
  BY <1>1, <1>2
<1>4. /\ \A i \in 1..(n + 1) : a[i] = (v \div Power(Base, (n + 1) - i)) % Base
      /\ \A i \in 1..n : front[i] = ((v \div Base) \div Power(Base, n - i)) % Base
  BY DEF BigEndian
<1>. HIDE DEF a, front
<1>5. /\ b \in Seq(0..(Base - 1)) /\ Len(b) = n + 1 /\ b[n + 1] = v % Base
      /\ \A i \in 1..n : b[i] = front[i]
  <2> DEFINE r == v % Base
  <2>1. r \in 0..(Base - 1)
    BY <1>2
  <2>. HIDE DEF r
  <2>2. /\ Append(front, r) \in Seq(0..(Base - 1)) /\ Len(Append(front, r)) = n + 1
        /\ Append(front, r)[n + 1] = r /\ \A i \in 1..n : Append(front, r)[i] = front[i]
    BY <1>3, <2>1
  <2>. QED  BY <2>2 DEF r
<1>6. ASSUME NEW i \in 1..n PROVE a[i] = b[i]
  <2>1. /\ n - i \in Nat /\ (n + 1) - i = (n - i) + 1 /\ i \in 1..(n + 1) /\ Base \in Nat \ {0}
    BY BaseValues
  <2>2. Power(Base, n - i) \in Nat \ {0} /\ Power(Base, (n - i) + 1) = Base * Power(Base, n - i)
    BY <2>1, PowerPositive, PowerStep
  <2>3. v \div (Base * Power(Base, n - i)) = (v \div Base) \div Power(Base, n - i)
    <3>1. DividesTwice(v, Base, Power(Base, n - i))
      BY <2>1, <2>2, DivTwice
    <3>. QED  BY <3>1, Zenon DEF DividesTwice
  <2>. QED  BY <1>4, <1>5, <2>1, <2>2, <2>3
<1>7. a[n + 1] = v % Base
  <2>1. Power(Base, 0) = 1
    BY BaseValues, PowerStep
  <2>2. v \div 1 = v
    BY DivUnique
  <2>3. n + 1 \in 1..(n + 1) /\ (n + 1) - (n + 1) = 0
    OBVIOUS
  <2>. QED  BY <1>4, <2>1, <2>2, <2>3
<1>8. a = b
  <2>1. \A i \in 1..(n + 1) : a[i] = b[i]
    <3>1. \A i \in 1..(n + 1) : i \in 1..n \/ i = n + 1
      OBVIOUS
    <3>. QED  BY <1>5, <1>6, <1>7, <3>1
  <2>. HIDE DEF b
  <2>. QED  BY <1>3, <1>5, <2>1
<1>. QED  BY <1>1, <1>8 DEF a, front

\* The bytes of a number are its remainder by the number of values they have.
LEMMA UnsignedBigEndian ==
    \A n \in Nat : \A v \in Int : /\ Power(Base, n) \in Nat \ {0}
                                  /\ Unsigned(BigEndian(v, n)) = (v % Power(Base, n))
<1> DEFINE T == {n \in Nat : \A v \in Int : Unsigned(BigEndian(v, n)) = (v % Power(Base, n))}
<1>0. Base \in Nat \ {0} /\ \A n \in Nat : Power(Base, n) \in Nat \ {0}
  BY BaseValues, PowerPositive
<1>1. 0 \in T
  <2>. SUFFICES ASSUME NEW v \in Int PROVE Unsigned(BigEndian(v, 0)) = (v % Power(Base, 0))
    OBVIOUS
  <2>1. BigEndian(v, 0) = <<>>
    BY BigEndianStep
  <2>2. Power(Base, 0) = 1
    BY <1>0, PowerStep
  <2>3. (v % 1) = 0
    OBVIOUS
  <2>. QED  BY <2>1, <2>2, <2>3, UnsignedStep
<1>2. ASSUME NEW n \in T PROVE n + 1 \in T
  <2>. SUFFICES ASSUME NEW v \in Int
                PROVE  Unsigned(BigEndian(v, n + 1)) = (v % Power(Base, n + 1))
    OBVIOUS
  <2> DEFINE front == BigEndian(v \div Base, n)
             last == v % Base
  <2>1. v \div Base \in Int /\ last \in 0..(Base - 1)
    BY <1>0, DivMod
  <2>2. front \in Seq(Nat)
    <3>1. front \in Seq(0..(Base - 1))
      BY <2>1, BigEndianStep
    <3>. QED  BY <1>0, <3>1
  <2>3. BigEndian(v, n + 1) = Append(front, last)
    BY BigEndianStep
  <2>4. Unsigned(front) = ((v \div Base) % Power(Base, n))
    BY <2>1
  <2>. HIDE DEF front, last
  <2>5. Unsigned(Append(front, last)) = Unsigned(front) * Base + last
    BY <2>1, <2>2, UnsignedStep
  <2>6. Power(Base, n + 1) = Base * Power(Base, n) /\ Power(Base, n) \in Nat \ {0}
    BY <1>0, PowerStep
  <2>7. v % (Base * Power(Base, n)) = ((v \div Base) % Power(Base, n)) * Base + (v % Base)
    <3>1. DividesTwice(v, Base, Power(Base, n))
      BY <1>0, <2>6, DivTwice
    <3>. QED  BY <3>1, Zenon DEF DividesTwice
  <2>. QED  BY <2>3, <2>4, <2>5, <2>6, <2>7 DEF last
<1>3. T = Nat
  <2>. HIDE DEF T
  <2>1. T \in SUBSET Nat
    BY DEF T
  <2>. QED  BY <1>1, <1>2, <2>1, AllNaturals
<1>. QED  BY <1>0, <1>3

\* The numbers that n bytes hold, in two's complement.
Half(n) == Power(Base, n - 1) * HalfBase
Fits(v, n) == v \in Int /\ n \in Nat \ {0} /\ -Half(n) <= v /\ v < Half(n)

LEMMA HalfValues ==
    ASSUME NEW n \in Nat \ {0}
    PROVE  Half(n) \in Nat \ {0} /\ Power(Base, n) = 2 * Half(n) /\ Power(Base, n - 1) \in Nat \ {0}
<1>1. n - 1 \in Nat /\ (n - 1) + 1 = n
  OBVIOUS
<1>2. /\ Power(Base, n - 1) \in Nat \ {0} /\ HalfBase \in Nat \ {0}
      /\ Power(Base, (n - 1) + 1) = Base * Power(Base, n - 1) /\ Base = 2 * HalfBase
  BY <1>1, BaseValues, PowerPositive, PowerStep
<1>3. ASSUME NEW x \in Nat \ {0}, NEW y \in Nat \ {0}
      PROVE  x * y \in Nat \ {0} /\ (2 * y) * x = 2 * (x * y)
  OBVIOUS
<1>. QED  BY <1>1, <1>2, <1>3 DEF Half

\* More bytes hold more.
LEMMA FitsMore ==
    ASSUME NEW v, NEW n, Fits(v, n), NEW w \in Nat, n <= w
    PROVE  Fits(v, w) /\ Half(n) <= Half(w)
<1>1. n \in Nat \ {0} /\ w \in Nat \ {0} /\ n - 1 \in Nat /\ w - n \in Nat
      /\ (n - 1) + (w - n) = w - 1
  BY DEF Fits
<1>2. /\ Power(Base, n - 1) \in Nat \ {0} /\ Power(Base, w - n) \in Nat \ {0}
      /\ HalfBase \in Nat \ {0} /\ Base \in Nat
  BY <1>1, BaseValues, PowerPositive
<1>3. Power(Base, w - 1) = Power(Base, n - 1) * Power(Base, w - n)
  BY <1>1, <1>2, PowerSum
<1>4. ASSUME NEW x \in Nat \ {0}, NEW y \in Nat \ {0}, NEW h \in Nat \ {0}
      PROVE  x * h <= (x * y) * h
  <2>1. x * h \in Nat /\ (x * y) * h = (x * h) * y /\ (x * h) * 1 = x * h
    OBVIOUS
  <2>2. (x * h) * 1 <= (x * h) * y
    BY <2>1, Monotone
  <2>. QED  BY <2>1, <2>2
<1>5. Half(n) <= Half(w)
  BY <1>2, <1>3, <1>4 DEF Half
<1>6. Half(n) \in Nat /\ Half(w) \in Nat
  BY <1>1, HalfValues
<1>. QED  BY <1>1, <1>5, <1>6 DEF Fits

\* What is in front of the bytes that a number needs is its sign.
LEMMA SignBytes ==
    ASSUME NEW v, NEW n, Fits(v, n), NEW k \in Nat, n <= k
    PROVE  (v \div Power(Base, k)) % Base = IF v < 0 THEN Base - 1 ELSE 0
<1>1. k + 1 \in Nat \ {0} /\ (k + 1) - 1 = k /\ n <= k + 1 /\ n \in Nat \ {0} /\ v \in Int
      /\ k \in Nat \ {0}
  BY DEF Fits
<1>2. Power(Base, k) \in Nat \ {0} /\ Base \in Nat \ {0}
  BY BaseValues, PowerPositive
<1>3. Half(k) \in Nat \ {0} /\ Power(Base, k) = 2 * Half(k) /\ -Half(k) <= v /\ v < Half(k)
  BY <1>1, FitsMore, HalfValues DEF Fits
<1>4. v \div Power(Base, k) = IF v < 0 THEN -1 ELSE 0
  <2> DEFINE p == Power(Base, k)
             q == IF v < 0 THEN -1 ELSE 0
             r == IF v < 0 THEN v + p ELSE v
  <2>1. p \in Nat \ {0} /\ q \in Int /\ r \in 0..(p - 1) /\ v = p * q + r
    BY <1>1, <1>2, <1>3
  <2>. HIDE DEF p, q, r
  <2>2. v \div p = q
    BY <1>1, <2>1, DivUnique
  <2>. QED  BY <2>2 DEF p, q
<1>5. (-1 % Base) = Base - 1 /\ (0 % Base) = 0
  <2>1. Base - 1 \in 0..(Base - 1) /\ -1 = Base * (-1) + (Base - 1)
    BY <1>2
  <2>2. (-1 % Base) = Base - 1
    BY <1>2, <2>1, DivUnique
  <2>. QED  BY <1>2, <2>2
<1>. QED  BY <1>4, <1>5

\* The first byte tells the sign.
LEMMA FirstByte ==
    ASSUME NEW v, NEW n, Fits(v, n)
    PROVE  Negative(BigEndian(v, n)) <=> v < 0
<1>1. n \in Nat \ {0} /\ v \in Int /\ 1 \in 1..n
  BY DEF Fits
<1>2. BigEndian(v, n)[1] = (v \div Power(Base, n - 1)) % Base /\ Len(BigEndian(v, n)) = n
  BY <1>1, BigEndianStep DEF BigEndian
<1> DEFINE p == Power(Base, n - 1)
           q == v \div p
<1>3. /\ p \in Nat \ {0} /\ HalfBase \in Nat \ {0} /\ Base = 2 * HalfBase /\ Base \div 2 = HalfBase
      /\ -(p * HalfBase) <= v /\ v < p * HalfBase
  BY <1>1, HalfValues, BaseValues DEF Fits, Half
<1>4. q \in Int /\ v % p \in 0..(p - 1) /\ v = p * q + (v % p)
  BY <1>1, <1>3, DivMod
<1>. HIDE DEF p, q
<1>5. -HalfBase <= q /\ q < HalfBase /\ (v < 0 <=> q < 0)
  <2>1. ~(q <= -HalfBase - 1)
    <3>. SUFFICES ASSUME q <= -HalfBase - 1 PROVE FALSE
      OBVIOUS
    <3>1. p * q <= p * (-HalfBase - 1) /\ p * q \in Int
      BY <1>3, <1>4, Monotone
    <3>2. p * (-HalfBase - 1) = -(p * HalfBase) - p /\ p * HalfBase \in Int
      BY <1>3
    <3>. QED  BY <1>1, <1>3, <1>4, <3>1, <3>2
  <2>2. ~(q >= HalfBase)
    <3>. SUFFICES ASSUME q >= HalfBase PROVE FALSE
      OBVIOUS
    <3>1. p * HalfBase <= p * q /\ p * HalfBase \in Int /\ p * q \in Int
      BY <1>3, <1>4, Monotone
    <3>. QED  BY <1>1, <1>3, <1>4, <3>1
  <2>3. q < 0 => v < 0
    <3>. SUFFICES ASSUME q < 0 PROVE v < 0
      OBVIOUS
    <3>1. p * q <= p * (-1) /\ p * q \in Int /\ p * (-1) = -p
      BY <1>3, <1>4, Monotone
    <3>. QED  BY <1>1, <1>3, <1>4, <3>1
  <2>4. q >= 0 => v >= 0
    <3>. SUFFICES ASSUME q >= 0 PROVE v >= 0
      OBVIOUS
    <3>1. p * 0 <= p * q /\ p * q \in Int /\ p * 0 = 0
      BY <1>3, <1>4, Monotone
    <3>. QED  BY <1>1, <1>3, <1>4, <3>1
  <2>. QED  BY <1>1, <1>3, <1>4, <2>1, <2>2, <2>3, <2>4
<1>6. (q % Base) = IF q < 0 THEN q + Base ELSE q
  <2> DEFINE d == IF q < 0 THEN -1 ELSE 0
             r == IF q < 0 THEN q + Base ELSE q
  <2>1. Base \in Nat \ {0} /\ d \in Int /\ r \in 0..(Base - 1) /\ q = Base * d + r
    BY <1>3, <1>4, <1>5
  <2>. HIDE DEF d, r
  <2>2. (q % Base) = r
    BY <1>4, <2>1, DivUnique
  <2>. QED  BY <2>2 DEF r
<1>7. BigEndian(v, n)[1] = (q % Base) /\ BigEndian(v, n) # <<>>
  BY <1>1, <1>2 DEF p, q
<1>. QED  BY <1>1, <1>3, <1>4, <1>5, <1>6, <1>7 DEF Negative

\* A number that fits its bytes is read back from them, sign and all.
LEMMA SignedBigEndian ==
    ASSUME NEW v, NEW n, Fits(v, n)
    PROVE  Signed(BigEndian(v, n)) = v
<1>1. n \in Nat \ {0} /\ v \in Int
  BY DEF Fits
<1> DEFINE p == Power(Base, n)
<1>2. Half(n) \in Nat \ {0} /\ p = 2 * Half(n) /\ -Half(n) <= v /\ v < Half(n) /\ p \in Nat \ {0}
  BY <1>1, HalfValues DEF Fits
<1>3. Len(BigEndian(v, n)) = n /\ Unsigned(BigEndian(v, n)) = (v % p)
  BY <1>1, BigEndianStep, UnsignedBigEndian
<1>4. Signed(BigEndian(v, n)) = (v % p) - (IF v < 0 THEN p ELSE 0)
  BY <1>3, FirstByte DEF Signed
<1>. HIDE DEF p
<1>5. (v % p) = IF v < 0 THEN v + p ELSE v
  <2> DEFINE q == IF v < 0 THEN -1 ELSE 0
             r == IF v < 0 THEN v + p ELSE v
  <2>1. q \in Int /\ r \in 0..(p - 1) /\ v = p * q + r
    BY <1>1, <1>2
  <2>. HIDE DEF q, r
  <2>2. (v % p) = r
    BY <1>1, <1>2, <2>1, DivUnique
  <2>. QED  BY <2>2 DEF r
<1>. QED  BY <1>1, <1>2, <1>4, <1>5

\* The words that an integer is decoded in.
LEMMA WordLens ==
    ASSUME NEW n \in 1..8
    PROVE  WordLen(n) \in {1, 2, 4, 8} /\ n <= WordLen(n)
<1>1. \E w \in {1, 2, 4, 8} : n <= w /\ \A u \in {1, 2, 4, 8} : n <= u => w <= u
  <2>1. CASE n = 1  BY <2>1
  <2>2. CASE n = 2  BY <2>2
  <2>3. CASE n \in 3..4  BY <2>3
  <2>4. CASE n \in 5..8  BY <2>4
  <2>. QED  BY <2>1, <2>2, <2>3, <2>4
<1>. QED  BY <1>1 DEF WordLen

\* Filled up to a word, the bytes of a number are those of the word.
LEMMA FilledWord ==
    ASSUME NEW v, NEW n \in 1..8, Fits(v, n)
    PROVE  FillWord(BigEndian(v, n)) = BigEndian(v, WordLen(n))
<1> DEFINE w == WordLen(n)
           bytes == BigEndian(v, n)
           sign == IF v < 0 THEN Base - 1 ELSE 0
           front == [i \in 1..(w - n) |-> sign]
           word == BigEndian(v, w)
<1>1. w \in Nat /\ n <= w /\ n \in Nat \ {0} /\ v \in Int
  BY WordLens DEF Fits
<1>2. Len(bytes) = n /\ bytes \in Seq(Int) /\ Len(word) = w /\ word \in Seq(Int)
  <2>1. Base \in Int
    BY BaseValues
  <2>2. \A k \in Nat : BigEndian(v, k) \in Seq(0..(Base - 1)) /\ Len(BigEndian(v, k)) = k
    BY <1>1, BigEndianStep
  <2>3. \A s \in Seq(0..(Base - 1)) : s \in Seq(Int)
    BY <2>1
  <2>. HIDE DEF w
  <2>. QED  BY <1>1, <2>2, <2>3
<1>3. FillWord(bytes) = front \o bytes
  BY <1>2, FirstByte DEF FillWord
<1>4. /\ \A i \in 1..w : word[i] = (v \div Power(Base, w - i)) % Base
      /\ \A i \in 1..n : bytes[i] = (v \div Power(Base, n - i)) % Base
  BY DEF BigEndian
<1>5. sign \in Int
  BY BaseValues
<1>6. front \in Seq(Int) /\ Len(front) = w - n /\ \A i \in 1..(w - n) : front[i] = sign
  <2>1. ASSUME NEW m \in Nat, NEW x \in Int
        PROVE  /\ [i \in 1..m |-> x] \in Seq(Int) /\ Len([i \in 1..m |-> x]) = m
               /\ \A i \in 1..m : [j \in 1..m |-> x][i] = x
    OBVIOUS
  <2>2. w - n \in Nat
    BY <1>1
  <2>. HIDE DEF w, sign
  <2>. QED  BY <1>5, <2>1, <2>2
<1>7. ASSUME NEW i \in 1..(w - n) PROVE word[i] = sign
  <2>1. w - i \in Nat /\ n <= w - i /\ i \in 1..w
    BY <1>1
  <2>2. (v \div Power(Base, w - i)) % Base = sign
    BY <2>1, SignBytes
  <2>. QED  BY <1>4, <2>1, <2>2
<1>8. ASSUME NEW i \in 1..n PROVE word[(w - n) + i] = bytes[i]
  <2>1. (w - n) + i \in 1..w /\ w - ((w - n) + i) = n - i
    BY <1>1
  <2>. QED  BY <1>4, <2>1
<1>. HIDE DEF w, bytes, sign, front, word
<1>9. /\ front \o bytes \in Seq(Int) /\ Len(front \o bytes) = w
      /\ \A i \in 1..(w - n) : (front \o bytes)[i] = front[i]
      /\ \A i \in 1..n : (front \o bytes)[(w - n) + i] = bytes[i]
  <2> DEFINE joined == front \o bytes
  <2>1. /\ joined \in Seq(Int) /\ Len(joined) = Len(front) + Len(bytes)
        /\ \A i \in 1..Len(front) : joined[i] = front[i]
        /\ \A i \in 1..Len(bytes) : joined[Len(front) + i] = bytes[i]
    <3>1. joined \in Seq(Int) /\ Joins(front, bytes, joined)
      BY <1>2, <1>6, Joined
    <3>. QED  BY <3>1 DEF Joins
  <2>. HIDE DEF joined
  <2>2. Len(front) = w - n /\ Len(bytes) = n /\ (w - n) + n = w
    BY <1>1, <1>2, <1>6
  <2>3. joined \in Seq(Int) /\ Len(joined) = w
    BY <2>1, <2>2
  <2>. QED  BY <2>1, <2>2, <2>3 DEF joined
<1> DEFINE joined == front \o bytes
<1>. HIDE DEF joined
<1>10. ASSUME NEW i \in 1..w PROVE joined[i] = word[i]
  <2>1. CASE i <= w - n
    BY <1>1, <1>6, <1>7, <1>9, <2>1 DEF joined
  <2>2. CASE ~(i <= w - n)
    <3>1. i - (w - n) \in 1..n /\ (w - n) + (i - (w - n)) = i
      BY <1>1, <2>2
    <3>2. joined[(w - n) + (i - (w - n))] = bytes[i - (w - n)]
      BY <1>9, <3>1 DEF joined
    <3>3. word[(w - n) + (i - (w - n))] = bytes[i - (w - n)]
      BY <1>8, <3>1
    <3>. QED  BY <3>1, <3>2, <3>3
  <2>. QED  BY <2>1, <2>2
<1>11. joined = word
  <2>1. joined \in Seq(Int) /\ Len(joined) = w
    BY <1>9 DEF joined
  <2>. QED  BY <1>2, <1>10, <2>1, SameElements
<1>. QED  BY <1>3, <1>11 DEF w, bytes, word, joined

\* So an integer of up to 8 bytes is read back.
LEMMA WordHolds ==
    ASSUME NEW v, NEW n \in 1..8, Fits(v, n)
    PROVE  Signed(FillWord(BigEndian(v, n))) = v
<1>1. WordLen(n) \in Nat /\ n <= WordLen(n)
  BY WordLens
<1>2. Fits(v, WordLen(n))
  BY <1>1, FitsMore
<1>. QED  BY <1>2, FilledWord, SignedBigEndian

-----------------------------------------------------------------------------
(* Text *)

LEMMA Utf8Chars == ASSUME NEW c \in CodePoint PROVE Utf8Char(c) \in Seq(Byte) \ {<<>>}
<1>0. c \in Nat /\ c < 65536 /\ \A b : b \in Byte <=> b \in Nat /\ b < 256
  BY DEF CodePoint, Byte
<1>1. CASE c < 128
  BY <1>0, <1>1 DEF Utf8Char
<1>2. CASE c >= 128 /\ c < 2048
  <2>1. 192 + (c \div 64) \in Byte /\ 128 + (c % 64) \in Byte
    BY <1>0, <1>2
  <2>2. Utf8Char(c) = <<192 + (c \div 64), 128 + (c % 64)>>
    BY <1>0, <1>2 DEF Utf8Char
  <2>3. \A x, y \in Byte : <<x, y>> \in Seq(Byte) \ {<<>>}
    OBVIOUS
  <2>. QED  BY <2>1, <2>2, <2>3
<1>3. CASE c >= 2048
  <2>1. 224 + (c \div 4096) \in Byte /\ 128 + ((c \div 64) % 64) \in Byte /\ 128 + (c % 64) \in Byte
    BY <1>0, <1>3
  <2>2. Utf8Char(c) = <<224 + (c \div 4096), 128 + ((c \div 64) % 64), 128 + (c % 64)>>
    BY <1>0, <1>3 DEF Utf8Char
  <2>3. \A x, y, z \in Byte : <<x, y, z>> \in Seq(Byte) \ {<<>>}
    OBVIOUS
  <2>. QED  BY <2>1, <2>2, <2>3
<1>. QED  BY <1>0, <1>1, <1>2, <1>3

LEMMA Utf8AddType ==
    ASSUME NEW bytes \in Seq(Byte), NEW c \in CodePoint
    PROVE  Utf8Add(bytes, c) \in Seq(Byte)
  BY Utf8Chars DEF Utf8Add

\* The function behind Utf8.
EncodesOf(s, bytes) ==
    /\ bytes \in [0..Len(s) -> Seq(Byte)] /\ bytes[0] = <<>> /\ bytes[Len(s)] = Utf8(s)
    /\ \A i \in 1..Len(s) : bytes[i] = Utf8Add(bytes[i - 1], s[i])

LEMMA EncodesFunction == \A s \in Seq(CodePoint) : \E bytes : EncodesOf(s, bytes)
<1>. TAKE s \in Seq(CodePoint)
<1> DEFINE n == Len(s)
           step == [x \in (1..n) \X Seq(Byte) |-> Utf8Add(x[2], s[x[1]])]
           p == CHOOSE g : g = [i \in 0..n |-> IF i = 0 THEN <<>> ELSE Utf8Add(g[i - 1], s[i])]
<1>0. n \in Nat /\ \A i \in 1..n : s[i] \in CodePoint
  OBVIOUS
<1>1. PICK f \in [0..n -> Seq(Byte)] : Steps(f, n, <<>>, step)
  <2>1. step \in [(1..n) \X Seq(Byte) -> Seq(Byte)] /\ <<>> \in Seq(Byte)
    <3>1. ASSUME NEW x \in (1..n) \X Seq(Byte) PROVE Utf8Add(x[2], s[x[1]]) \in Seq(Byte)
      <4>1. x[2] \in Seq(Byte) /\ s[x[1]] \in CodePoint
        BY <1>0
      <4>. QED  BY <4>1, Utf8AddType
    <3>. QED  BY <3>1
  <2>. HIDE DEF step, n
  <2>. QED  BY <1>0, <2>1, RecursionHolds
<1>. HIDE DEF n
<1>2. \A i \in 1..n : f[i] = Utf8Add(f[i - 1], s[i])
  <2>1. \A i \in 1..n : i - 1 \in 0..n /\ f[i - 1] \in Seq(Byte)
    BY <1>0
  <2>. QED  BY <1>1, <2>1 DEF Steps
<1>3. f = [i \in 0..n |-> IF i = 0 THEN <<>> ELSE Utf8Add(f[i - 1], s[i])]
  BY <1>0, <1>1, <1>2 DEF Steps
<1>4. p = [i \in 0..n |-> IF i = 0 THEN <<>> ELSE Utf8Add(p[i - 1], s[i])]
  BY <1>3
<1>5. Utf8(s) = p[n]
  BY DEF Utf8, n
<1>. HIDE DEF p
<1>6. p[0] = <<>> /\ \A i \in 1..n : p[i] = Utf8Add(p[i - 1], s[i])
  BY <1>0, <1>4
<1>7. Alike(p, f, n)
  <2>1. StepAlike(p, f, n)
    BY <1>1, <1>2, <1>6 DEF StepAlike, Steps
  <2>. QED  BY <1>0, <2>1, RecursionAgrees
<1>8. p \in [0..n -> Seq(Byte)]
  BY <1>4, <1>7 DEF Alike
<1>. QED  BY <1>5, <1>6, <1>8 DEF EncodesOf, n

\* A text in UTF-8, the last character at a time.
LEMMA Utf8Append ==
    /\ Utf8(<<>>) = <<>>
    /\ \A s \in Seq(CodePoint) :
          /\ Utf8(s) \in Seq(Byte)
          /\ \A c \in CodePoint : Utf8(Append(s, c)) = Utf8Add(Utf8(s), c)
<1>1. Utf8(<<>>) = <<>>
  <2>1. PICK p : EncodesOf(<<>>, p)
    <3>1. <<>> \in Seq(CodePoint)
      OBVIOUS
    <3>. QED  BY <3>1, EncodesFunction
  <2>. QED  BY <2>1 DEF EncodesOf
<1>2. ASSUME NEW s \in Seq(CodePoint) PROVE Utf8(s) \in Seq(Byte)
  <2>1. PICK p : EncodesOf(s, p)
    BY EncodesFunction
  <2>2. Len(s) \in 0..Len(s)
    OBVIOUS
  <2>. QED  BY <2>1, <2>2 DEF EncodesOf
<1>3. ASSUME NEW s \in Seq(CodePoint), NEW c \in CodePoint
      PROVE  Utf8(Append(s, c)) = Utf8Add(Utf8(s), c)
  <2> DEFINE t == Append(s, c)
             n == Len(s)
  <2>1. /\ t \in Seq(CodePoint) /\ Len(t) = n + 1 /\ n \in Nat /\ t[n + 1] = c
        /\ \A i \in 1..n : t[i] = s[i]
    OBVIOUS
  <2>. HIDE DEF t
  <2>2. PICK p : EncodesOf(s, p)
    BY EncodesFunction
  <2>3. PICK q : EncodesOf(t, q)
    BY <2>1, EncodesFunction
  <2>. HIDE DEF n
  <2>4. p[0] = <<>> /\ p[n] = Utf8(s) /\ \A i \in 1..n : p[i] = Utf8Add(p[i - 1], s[i])
    BY <2>2 DEF EncodesOf, n
  <2>5. /\ q[0] = <<>> /\ q[n + 1] = Utf8(t)
        /\ \A i \in 1..(n + 1) : q[i] = Utf8Add(q[i - 1], t[i])
    BY <2>1, <2>3 DEF EncodesOf
  <2>6. Alike(p, q, n)
    <3>1. StepAlike(p, q, n)
      BY <2>1, <2>4, <2>5 DEF StepAlike
    <3>. QED  BY <2>1, <3>1, RecursionAgrees
  <2>7. n + 1 \in 1..(n + 1) /\ (n + 1) - 1 = n /\ n \in 0..n
    BY <2>1
  <2>8. q[n + 1] = Utf8Add(q[n], c) /\ p[n] = q[n]
    BY <2>1, <2>5, <2>6, <2>7 DEF Alike
  <2>. QED  BY <2>4, <2>5, <2>8 DEF t
<1>. QED  BY <1>1, <1>2, <1>3

\* What the decoder keeps.
Utf8State == [text : Seq(Nat), need : 0..3, point : Nat]
Utf8Start == Utf8At(<<>>, 0, 0)

LEMMA Utf8StateAt ==
    ASSUME NEW t \in Seq(Nat), NEW n \in 0..3, NEW p \in Nat
    PROVE  Utf8At(t, n, p) \in Utf8State
  BY DEF Utf8At, Utf8State

LEMMA Utf8StepType ==
    ASSUME NEW d \in Utf8State, NEW b \in Byte
    PROVE  Utf8Step(d, b) \in Utf8State
<1>1. d.text \in Seq(Nat) /\ d.need \in 0..3 /\ d.point \in Nat /\ b \in Nat
  BY DEF Utf8State, Byte
<1> DEFINE q == d.point * 64 + (b % 64)
<1>2. b % 32 \in Nat /\ b % 16 \in Nat /\ q \in Nat
  BY <1>1
<1>. HIDE DEF q
<1>3. Append(d.text, b) \in Seq(Nat) /\ Append(d.text, q) \in Seq(Nat)
  BY <1>1, <1>2
<1>4. Utf8At(Append(d.text, b), 0, 0) \in Utf8State
  <2> DEFINE u == Append(d.text, b)
  <2>1. u \in Seq(Nat)
    BY <1>3
  <2>. HIDE DEF u
  <2>2. Utf8At(u, 0, 0) \in Utf8State
    BY <2>1, Utf8StateAt
  <2>. QED  BY <2>2 DEF u
<1>5. Utf8At(d.text, 1, b % 32) \in Utf8State /\ Utf8At(d.text, 2, b % 16) \in Utf8State
  BY <1>1, <1>2, Utf8StateAt
<1>6. Utf8At(Append(d.text, q), 0, 0) \in Utf8State
  <2> DEFINE u == Append(d.text, q)
  <2>1. u \in Seq(Nat)
    BY <1>3
  <2>. HIDE DEF u
  <2>2. Utf8At(u, 0, 0) \in Utf8State
    BY <2>1, Utf8StateAt
  <2>. QED  BY <2>2 DEF u
<1>7. Utf8At(d.text, 1, q) \in Utf8State
  BY <1>1, <1>2, Utf8StateAt
<1>8. Utf8At(d.text, NoText, 0) \in Utf8State
  BY <1>1, Utf8StateAt DEF NoText
<1>. QED  BY <1>4, <1>5, <1>6, <1>7, <1>8 DEF Utf8Step, q

\* One of ASCII, the first of two or of three, or a next one, with its bits q.
Lead2(q) == 192 + q
Lead3(q) == 224 + q
Next6(q) == 128 + q

LEMMA Utf8Ascii ==
    ASSUME NEW t \in Seq(Nat), NEW b \in Nat, b < 128
    PROVE  Utf8Step(Utf8At(t, 0, 0), b) = Utf8At(Append(t, b), 0, 0)
<1> DEFINE d == Utf8At(t, 0, 0)
<1>1. d.text = t /\ d.need = 0
  BY DEF Utf8At
<1>. HIDE DEF d
<1>2. Utf8Step(d, b) = Utf8At(Append(d.text, b), 0, 0)
  BY <1>1 DEF Utf8Step, Leads2, Leads3, Continues
<1>. QED  BY <1>1, <1>2 DEF d

LEMMA Utf8Leads2 ==
    ASSUME NEW t \in Seq(Nat), NEW q \in Nat, q >= 2, q < 32
    PROVE  Utf8Step(Utf8At(t, 0, 0), Lead2(q)) = Utf8At(t, 1, q)
<1> DEFINE d == Utf8At(t, 0, 0)
           x == Lead2(q)
<1>1. d.text = t /\ d.need = 0
  BY DEF Utf8At
<1>2. x \in Nat /\ ~(x < 128) /\ Leads2(x) /\ ~Leads3(x) /\ x % 32 = q
  BY DEF Lead2, Leads2, Leads3
<1>. HIDE DEF d, x
<1>3. Utf8Step(d, x) = Utf8At(d.text, 1, x % 32)
  BY <1>1, <1>2 DEF Utf8Step
<1>. QED  BY <1>1, <1>2, <1>3 DEF d, x

LEMMA Utf8Leads3 ==
    ASSUME NEW t \in Seq(Nat), NEW q \in Nat, q < 16
    PROVE  Utf8Step(Utf8At(t, 0, 0), Lead3(q)) = Utf8At(t, 2, q)
<1> DEFINE d == Utf8At(t, 0, 0)
           x == Lead3(q)
<1>1. d.text = t /\ d.need = 0
  BY DEF Utf8At
<1>2. x \in Nat /\ ~(x < 128) /\ ~Leads2(x) /\ Leads3(x) /\ x % 16 = q
  BY DEF Lead3, Leads2, Leads3
<1>. HIDE DEF d, x
<1>3. Utf8Step(d, x) = Utf8At(d.text, 2, x % 16)
  BY <1>1, <1>2 DEF Utf8Step
<1>. QED  BY <1>1, <1>2, <1>3 DEF d, x

LEMMA Utf8Nexts ==
    ASSUME NEW t \in Seq(Nat), NEW p \in Nat, NEW q \in Nat, q < 64
    PROVE  /\ Utf8Step(Utf8At(t, 1, p), Next6(q)) = Utf8At(Append(t, p * 64 + q), 0, 0)
           /\ (p = 0 => q >= 32) /\ (p = 13 => q < 32) =>
                Utf8Step(Utf8At(t, 2, p), Next6(q)) = Utf8At(t, 1, p * 64 + q)
<1> DEFINE d1 == Utf8At(t, 1, p)
           d2 == Utf8At(t, 2, p)
           x == Next6(q)
<1>1. d1.text = t /\ d1.need = 1 /\ d1.point = p /\ d2.text = t /\ d2.need = 2 /\ d2.point = p
  BY DEF Utf8At
<1>2. x \in Nat /\ Continues(x) /\ x % 64 = q
  BY DEF Next6, Continues
<1>5. (p = 0 => q >= 32) /\ (p = 13 => q < 32) => Follows3(p, x)
  BY <1>2 DEF Follows3, Next6
<1>. HIDE DEF d1, d2, x
<1>3. Utf8Step(d1, x) = Utf8At(Append(d1.text, d1.point * 64 + (x % 64)), 0, 0)
  BY <1>1, <1>2 DEF Utf8Step
<1>4. ASSUME Follows3(p, x)
      PROVE  Utf8Step(d2, x) = Utf8At(d2.text, 1, d2.point * 64 + (x % 64))
  BY <1>1, <1>2, <1>4 DEF Utf8Step
<1>. QED  BY <1>1, <1>2, <1>3, <1>4, <1>5 DEF d1, d2, x

\* The function behind Utf8Decode.
DecodesOf(bytes, d) ==
    /\ d \in [0..Len(bytes) -> Utf8State] /\ d[0] = Utf8Start /\ d[Len(bytes)] = Utf8Decode(bytes)
    /\ \A i \in 1..Len(bytes) : d[i] = Utf8Step(d[i - 1], bytes[i])

LEMMA DecodesFunction == \A bytes \in Seq(Byte) : \E d : DecodesOf(bytes, d)
<1>. TAKE bytes \in Seq(Byte)
<1> DEFINE n == Len(bytes)
           step == [x \in (1..n) \X Utf8State |-> Utf8Step(x[2], bytes[x[1]])]
           p == CHOOSE g : g = [i \in 0..n |-> IF i = 0 THEN Utf8Start ELSE Utf8Step(g[i - 1], bytes[i])]
<1>0. n \in Nat /\ \A i \in 1..n : bytes[i] \in Byte
  OBVIOUS
<1>1. PICK f \in [0..n -> Utf8State] : Steps(f, n, Utf8Start, step)
  <2>1. step \in [(1..n) \X Utf8State -> Utf8State]
    <3>1. ASSUME NEW x \in (1..n) \X Utf8State PROVE Utf8Step(x[2], bytes[x[1]]) \in Utf8State
      <4>1. x[2] \in Utf8State /\ bytes[x[1]] \in Byte
        BY <1>0
      <4>. QED  BY <4>1, Utf8StepType
    <3>. QED  BY <3>1
  <2>2. Utf8Start \in Utf8State
    <3>1. <<>> \in Seq(Nat) /\ 0 \in 0..3 /\ 0 \in Nat
      OBVIOUS
    <3>. QED  BY <3>1, Utf8StateAt DEF Utf8Start
  <2>. HIDE DEF step, n
  <2>. QED  BY <1>0, <2>1, <2>2, RecursionHolds
<1>. HIDE DEF n
<1>2. \A i \in 1..n : f[i] = Utf8Step(f[i - 1], bytes[i])
  <2>1. \A i \in 1..n : i - 1 \in 0..n /\ f[i - 1] \in Utf8State
    BY <1>0
  <2>. QED  BY <1>1, <2>1 DEF Steps
<1>3. f = [i \in 0..n |-> IF i = 0 THEN Utf8Start ELSE Utf8Step(f[i - 1], bytes[i])]
  BY <1>0, <1>1, <1>2 DEF Steps
<1>4. p = [i \in 0..n |-> IF i = 0 THEN Utf8Start ELSE Utf8Step(p[i - 1], bytes[i])]
  BY <1>3
<1>5. Utf8Decode(bytes) = p[n]
  BY DEF Utf8Decode, Utf8Start, n
<1>. HIDE DEF p
<1>6. p[0] = Utf8Start /\ \A i \in 1..n : p[i] = Utf8Step(p[i - 1], bytes[i])
  BY <1>0, <1>4
<1>7. Alike(p, f, n)
  <2>1. StepAlike(p, f, n)
    BY <1>1, <1>2, <1>6 DEF StepAlike, Steps
  <2>. QED  BY <1>0, <2>1, RecursionAgrees
<1>8. p \in [0..n -> Utf8State]
  BY <1>4, <1>7 DEF Alike
<1>. QED  BY <1>5, <1>6, <1>8 DEF DecodesOf, n

\* Decoding, the last byte at a time.
LEMMA Utf8DecodeAppend ==
    /\ Utf8Decode(<<>>) = Utf8Start
    /\ \A s \in Seq(Byte) :
          /\ Utf8Decode(s) \in Utf8State
          /\ \A b \in Byte : Utf8Decode(Append(s, b)) = Utf8Step(Utf8Decode(s), b)
<1>1. Utf8Decode(<<>>) = Utf8Start
  <2>1. PICK p : DecodesOf(<<>>, p)
    <3>1. <<>> \in Seq(Byte)
      OBVIOUS
    <3>. QED  BY <3>1, DecodesFunction
  <2>. QED  BY <2>1 DEF DecodesOf
<1>2. ASSUME NEW s \in Seq(Byte) PROVE Utf8Decode(s) \in Utf8State
  <2>1. PICK p : DecodesOf(s, p)
    BY DecodesFunction
  <2>2. Len(s) \in 0..Len(s)
    OBVIOUS
  <2>. QED  BY <2>1, <2>2 DEF DecodesOf
<1>3. ASSUME NEW s \in Seq(Byte), NEW b \in Byte
      PROVE  Utf8Decode(Append(s, b)) = Utf8Step(Utf8Decode(s), b)
  <2> DEFINE t == Append(s, b)
             n == Len(s)
  <2>1. /\ t \in Seq(Byte) /\ Len(t) = n + 1 /\ n \in Nat /\ t[n + 1] = b
        /\ \A i \in 1..n : t[i] = s[i]
    OBVIOUS
  <2>. HIDE DEF t
  <2>2. PICK p : DecodesOf(s, p)
    BY DecodesFunction
  <2>3. PICK q : DecodesOf(t, q)
    BY <2>1, DecodesFunction
  <2>. HIDE DEF n
  <2>4. /\ p[0] = Utf8Start /\ p[n] = Utf8Decode(s)
        /\ \A i \in 1..n : p[i] = Utf8Step(p[i - 1], s[i])
    BY <2>2 DEF DecodesOf, n
  <2>5. /\ q[0] = Utf8Start /\ q[n + 1] = Utf8Decode(t)
        /\ \A i \in 1..(n + 1) : q[i] = Utf8Step(q[i - 1], t[i])
    BY <2>1, <2>3 DEF DecodesOf
  <2>6. Alike(p, q, n)
    <3>1. StepAlike(p, q, n)
      BY <2>1, <2>4, <2>5 DEF StepAlike
    <3>. QED  BY <2>1, <3>1, RecursionAgrees
  <2>7. n + 1 \in 1..(n + 1) /\ (n + 1) - 1 = n /\ n \in 0..n
    BY <2>1
  <2>8. q[n + 1] = Utf8Step(q[n], b) /\ p[n] = q[n]
    BY <2>1, <2>5, <2>6, <2>7 DEF Alike
  <2>. QED  BY <2>4, <2>5, <2>8 DEF t
<1>. QED  BY <1>1, <1>2, <1>3

\* The decoder has seen the whole of a text.
Seen(bytes, s) == Utf8Decode(bytes) = Utf8At(s, 0, 0)

\* A character by its bits: it has one byte, two or three.
OneByte(c) == c < 128 /\ Utf8Char(c) = <<c>>
TwoBytes(c, x, y) ==
    /\ x >= 2 /\ x < 32 /\ y < 64 /\ c = x * 64 + y
    /\ Utf8Char(c) = <<Lead2(x), Next6(y)>>
ThreeBytes(c, x, y, z) ==
    /\ x < 16 /\ y < 64 /\ z < 64 /\ c = (x * 64 + y) * 64 + z
    /\ (x = 0 => y >= 32) /\ (x = 13 => y < 32)
    /\ Utf8Char(c) = <<Lead3(x), Next6(y), Next6(z)>>

LEMMA Bits ==
    ASSUME NEW c \in CodePoint
    PROVE  \/ OneByte(c)
           \/ \E x, y \in Nat : TwoBytes(c, x, y)
           \/ \E x, y, z \in Nat : ThreeBytes(c, x, y, z)
<1>0. c \in Nat /\ c < 65536 /\ ~(c >= 55296 /\ c < 57344)
  BY DEF CodePoint
<1>1. ASSUME c < 128 PROVE OneByte(c)
  BY <1>0, <1>1 DEF Utf8Char, OneByte
<1>2. ASSUME c >= 128, c < 2048 PROVE \E x, y \in Nat : TwoBytes(c, x, y)
  <2> DEFINE x == c \div 64
             y == c % 64
  <2>1. x \in Nat /\ y \in Nat /\ x >= 2 /\ x < 32 /\ y < 64 /\ c = x * 64 + y
    BY <1>0, <1>2
  <2>2. Utf8Char(c) = <<Lead2(x), Next6(y)>>
    BY <1>0, <1>2 DEF Utf8Char, Lead2, Next6
  <2>. HIDE DEF x, y
  <2>3. TwoBytes(c, x, y)
    BY <2>1, <2>2 DEF TwoBytes
  <2>. QED  BY <2>1, <2>3
<1>3. ASSUME c >= 2048 PROVE \E x, y, z \in Nat : ThreeBytes(c, x, y, z)
  <2> DEFINE x == c \div 4096
             y == (c \div 64) % 64
             z == c % 64
  <2>1. /\ x \in Nat /\ y \in Nat /\ z \in Nat /\ x < 16 /\ y < 64 /\ z < 64
        /\ c = (x * 64 + y) * 64 + z
    BY <1>0, <1>3
  <2>2. (x = 0 => y >= 32) /\ (x = 13 => y < 32)
    BY <1>0, <1>3, <2>1
  <2>3. Utf8Char(c) = <<Lead3(x), Next6(y), Next6(z)>>
    BY <1>0, <1>3 DEF Utf8Char, Lead3, Next6
  <2>. HIDE DEF x, y, z
  <2>4. ThreeBytes(c, x, y, z)
    BY <2>1, <2>3, <2>2 DEF ThreeBytes
  <2>. QED  BY <2>1, <2>4
<1>4. c < 128 \/ (c >= 128 /\ c < 2048) \/ c >= 2048
  BY <1>0
<1>. QED  BY <1>1, <1>2, <1>3, <1>4

\* One more character.
LEMMA SeenOneMore ==
    ASSUME NEW bytes \in Seq(Byte), NEW s \in Seq(CodePoint), Seen(bytes, s), NEW c \in CodePoint
    PROVE  Seen(Utf8Add(bytes, c), Append(s, c))
<1> DEFINE joined == Utf8Add(bytes, c)
           longer == Append(s, c)
<1>. HIDE DEF joined, longer
<1>0. Utf8Decode(bytes) = Utf8At(s, 0, 0) /\ s \in Seq(Nat)
  <2>1. \A e \in CodePoint : e \in Nat
    BY DEF CodePoint
  <2>. QED  BY <2>1 DEF Seen
<1>1. ASSUME OneByte(c) PROVE Utf8Decode(joined) = Utf8At(longer, 0, 0)
  <2> DEFINE b1 == Append(bytes, c)
  <2>1. c \in Byte /\ c \in Nat /\ c < 128
    BY <1>1 DEF Byte, CodePoint, OneByte
  <2>2. joined = b1
    <3>1. joined = bytes \o <<c>>
      BY <1>1 DEF joined, Utf8Add, OneByte
    <3>. QED  BY <2>1, <3>1, Appended
  <2>3. Utf8Decode(b1) = Utf8Step(Utf8Decode(bytes), c)
    BY <2>1, Utf8DecodeAppend
  <2>4. Utf8Step(Utf8At(s, 0, 0), c) = Utf8At(longer, 0, 0)
    BY <1>0, <2>1, Utf8Ascii DEF longer
  <2>. HIDE DEF b1
  <2>. QED  BY <1>0, <2>2, <2>3, <2>4
<1>2. ASSUME NEW x \in Nat, NEW y \in Nat, TwoBytes(c, x, y)
      PROVE  Utf8Decode(joined) = Utf8At(longer, 0, 0)
  <2> DEFINE l == Lead2(x)
             m == Next6(y)
             b1 == Append(bytes, l)
             b2 == Append(b1, m)
  <2>1. x >= 2 /\ x < 32 /\ y < 64 /\ c = x * 64 + y /\ l \in Byte /\ m \in Byte
    BY <1>2 DEF TwoBytes, Byte, Lead2, Next6
  <2>2. joined = bytes \o <<l, m>>
    BY <1>2 DEF joined, Utf8Add, TwoBytes
  <2>3. Utf8Step(Utf8At(s, 0, 0), l) = Utf8At(s, 1, x)
    BY <1>0, <2>1, Utf8Leads2
  <2>4. Utf8Step(Utf8At(s, 1, x), m) = Utf8At(longer, 0, 0)
    <3>1. Utf8Step(Utf8At(s, 1, x), m) = Utf8At(Append(s, x * 64 + y), 0, 0)
      BY <1>0, <2>1, Utf8Nexts
    <3>. QED  BY <2>1, <3>1 DEF longer
  <2>. HIDE DEF l, m
  <2>5. b1 \in Seq(Byte) /\ joined = b2
    BY <2>1, <2>2, Appended
  <2>6. Utf8Decode(b1) = Utf8Step(Utf8Decode(bytes), l)
    BY <2>1, Utf8DecodeAppend
  <2>. HIDE DEF b1
  <2>7. Utf8Decode(b2) = Utf8Step(Utf8Decode(b1), m)
    BY <2>1, <2>5, Utf8DecodeAppend
  <2>. HIDE DEF b2
  <2>. QED  BY <1>0, <2>3, <2>4, <2>5, <2>6, <2>7
<1>3. ASSUME NEW x \in Nat, NEW y \in Nat, NEW z \in Nat, ThreeBytes(c, x, y, z)
      PROVE  Utf8Decode(joined) = Utf8At(longer, 0, 0)
  <2> DEFINE l == Lead3(x)
             m == Next6(y)
             n == Next6(z)
             b1 == Append(bytes, l)
             b2 == Append(b1, m)
             b3 == Append(b2, n)
             p == x * 64 + y
  <2>1. /\ x < 16 /\ y < 64 /\ z < 64 /\ c = p * 64 + z /\ p \in Nat
        /\ (x = 0 => y >= 32) /\ (x = 13 => y < 32)
        /\ l \in Byte /\ m \in Byte /\ n \in Byte
    BY <1>3 DEF ThreeBytes, Byte, Lead3, Next6
  <2>2. joined = bytes \o <<l, m, n>>
    BY <1>3 DEF joined, Utf8Add, ThreeBytes
  <2>3. Utf8Step(Utf8At(s, 0, 0), l) = Utf8At(s, 2, x)
    BY <1>0, <2>1, Utf8Leads3
  <2>4. Utf8Step(Utf8At(s, 2, x), m) = Utf8At(s, 1, p)
    BY <1>0, <2>1, Utf8Nexts
  <2>. HIDE DEF p
  <2>5. Utf8Step(Utf8At(s, 1, p), n) = Utf8At(longer, 0, 0)
    <3>1. Utf8Step(Utf8At(s, 1, p), n) = Utf8At(Append(s, p * 64 + z), 0, 0)
      BY <1>0, <2>1, Utf8Nexts
    <3>. QED  BY <2>1, <3>1 DEF longer
  <2>. HIDE DEF l, m, n
  <2>6. b1 \in Seq(Byte) /\ b2 \in Seq(Byte) /\ joined = b3
    BY <2>1, <2>2, Appended
  <2>7. Utf8Decode(b1) = Utf8Step(Utf8Decode(bytes), l)
    BY <2>1, Utf8DecodeAppend
  <2>. HIDE DEF b1
  <2>8. Utf8Decode(b2) = Utf8Step(Utf8Decode(b1), m)
    BY <2>1, <2>6, Utf8DecodeAppend
  <2>. HIDE DEF b2
  <2>9. Utf8Decode(b3) = Utf8Step(Utf8Decode(b2), n)
    BY <2>1, <2>6, Utf8DecodeAppend
  <2>. HIDE DEF b3
  <2>. QED  BY <1>0, <2>3, <2>4, <2>5, <2>6, <2>7, <2>8, <2>9
<1>4. Utf8Decode(joined) = Utf8At(longer, 0, 0)
  BY <1>1, <1>2, <1>3, Bits
<1>. QED  BY <1>4 DEF Seen, joined, longer

\* UTF-8 is read back.
LEMMA Utf8IsText == \A s \in Seq(CodePoint) : IsTextOf(Utf8(s), s) /\ Utf8(s) \in Seq(Byte)
<1> DEFINE T == {n \in Nat : \A s \in Seq(CodePoint) : Len(s) = n => Seen(Utf8(s), s)}
<1>1. 0 \in T
  <2>. SUFFICES ASSUME NEW s \in Seq(CodePoint), Len(s) = 0 PROVE Seen(Utf8(s), s)
    OBVIOUS
  <2>1. s = <<>>
    OBVIOUS
  <2>. QED  BY <2>1, Utf8Append, Utf8DecodeAppend DEF Seen, Utf8Start
<1>2. ASSUME NEW n \in T PROVE n + 1 \in T
  <2>. SUFFICES ASSUME NEW s \in Seq(CodePoint), Len(s) = n + 1 PROVE Seen(Utf8(s), s)
    OBVIOUS
  <2>1. PICK front \in Seq(CodePoint), last \in CodePoint :
           Ends(s, front, last) /\ Len(front) = Len(s) - 1
    <3>1. Len(s) # 0
      OBVIOUS
    <3>. QED  BY <3>1, FrontAndLast
  <2>2. Len(front) = n
    BY <2>1
  <2>3. Seen(Utf8(front), front) /\ Utf8(front) \in Seq(Byte)
    BY <2>2, Utf8Append
  <2>4. Seen(Utf8Add(Utf8(front), last), Append(front, last))
    BY <2>3, SeenOneMore
  <2>5. s = Append(front, last)
    BY <2>1 DEF Ends
  <2>6. Utf8(Append(front, last)) = Utf8Add(Utf8(front), last)
    BY Utf8Append
  <2>. QED  BY <2>4, <2>5, <2>6, Zenon
<1>3. T = Nat
  <2>. HIDE DEF T
  <2>1. T \in SUBSET Nat
    BY DEF T
  <2>. QED  BY <1>1, <1>2, <2>1, AllNaturals
<1>4. ASSUME NEW s \in Seq(CodePoint) PROVE IsTextOf(Utf8(s), s)
  <2>1. Len(s) \in T
    BY <1>3
  <2>2. Seen(Utf8(s), s)
    BY <2>1
  <2>. QED  BY <2>2 DEF Seen, Utf8At, IsTextOf, IsUtf8, FromUtf8
<1>. QED  BY <1>4, Utf8Append

\* ASCII is UTF-8 as it is.
LEMMA AsciiIsText ==
    ASSUME NEW s \in Seq(CodePoint), \A i \in DOMAIN s : s[i] < 128
    PROVE  IsTextOf(s, s) /\ s \in Seq(Byte)
<1> DEFINE AsciiChars == {e \in Nat : e < 128}
           T == {n \in Nat : \A t \in Seq(AsciiChars) : Len(t) = n => Utf8(t) = t}
<1>0. \A t \in Seq(AsciiChars) : t \in Seq(CodePoint) /\ t \in Seq(Byte)
  <2>1. \A e \in AsciiChars : e \in CodePoint /\ e \in Byte
    BY DEF CodePoint, Byte
  <2>. HIDE DEF AsciiChars
  <2>. QED  BY <2>1, SMT
<1>1. 0 \in T
  <2>. SUFFICES ASSUME NEW t \in Seq(AsciiChars), Len(t) = 0 PROVE Utf8(t) = t
    OBVIOUS
  <2>1. t = <<>>
    OBVIOUS
  <2>. QED  BY <2>1, Utf8Append
<1>2. ASSUME NEW n \in T PROVE n + 1 \in T
  <2>. SUFFICES ASSUME NEW t \in Seq(AsciiChars), Len(t) = n + 1 PROVE Utf8(t) = t
    OBVIOUS
  <2>. HIDE DEF AsciiChars
  <2>1. PICK front \in Seq(AsciiChars), last \in AsciiChars :
           Ends(t, front, last) /\ Len(front) = Len(t) - 1
    <3>1. Len(t) # 0
      OBVIOUS
    <3>. QED  BY <3>1, FrontAndLast
  <2>2. Len(front) = n
    BY <2>1
  <2>3. Utf8(front) = front /\ front \in Seq(CodePoint)
    BY <1>0, <2>2
  <2>4. last \in CodePoint /\ Utf8Char(last) = <<last>>
    <3>1. last \in Nat /\ last < 128
      BY DEF AsciiChars
    <3>2. ASSUME NEW e \in Nat, e < 128 PROVE Utf8Char(e) = <<e>>
      <4>1. ~(e >= 128 /\ e < 2048) /\ ~(e >= 2048)
        BY <3>2
      <4>. QED  BY <3>2, <4>1 DEF Utf8Char
    <3>. QED  BY <3>1, <3>2 DEF CodePoint
  <2>5. Utf8(Append(front, last)) = front \o <<last>>
    BY <2>3, <2>4, Utf8Append DEF Utf8Add
  <2>6. front \o <<last>> = Append(front, last)
    OBVIOUS
  <2>. QED  BY <2>1, <2>5, <2>6 DEF Ends
<1>3. T = Nat
  <2>. HIDE DEF T
  <2>1. T \in SUBSET Nat
    BY DEF T
  <2>. QED  BY <1>1, <1>2, <2>1, AllNaturals
<1>4. s \in Seq(AsciiChars) /\ Len(s) \in T
  <2>1. \A i \in 1..Len(s) : s[i] \in AsciiChars
    BY DEF CodePoint
  <2>2. s \in Seq(AsciiChars)
    <3>. HIDE DEF AsciiChars
    <3>. QED  BY <2>1
  <2>. QED  BY <1>3, <2>2
<1>5. Utf8(s) = s
  BY <1>4
<1>. QED  BY <1>0, <1>4, <1>5, Utf8IsText

-----------------------------------------------------------------------------
(* Integers and their lengths *)

\* A power grows with its exponent.
LEMMA PowerGrows ==
    ASSUME NEW b \in Nat \ {0}, NEW m \in Nat, NEW n \in Nat, m <= n
    PROVE  Power(b, m) <= Power(b, n)
<1>1. n - m \in Nat /\ m + (n - m) = n
  OBVIOUS
<1>2. Power(b, m) \in Nat \ {0} /\ Power(b, n - m) \in Nat \ {0}
  BY <1>1, PowerPositive
<1>3. Power(b, n) = Power(b, m) * Power(b, n - m)
  BY <1>1, PowerSum
<1>4. ASSUME NEW x \in Nat \ {0}, NEW y \in Nat \ {0} PROVE x <= x * y
  <2>1. x * 1 <= x * y
    BY Monotone
  <2>. QED  BY <2>1
<1>. QED  BY <1>2, <1>3, <1>4

\* The bit length is the first power of two that is too large.
LEMMA BitLengthIsFirst ==
    ASSUME NEW v \in Int, Abs(v) < Power(2, MaxBits)
    PROVE  BitLength(v) \in Nat /\ Abs(v) < Power(2, BitLength(v))
<1> DEFINE a == Abs(v)
           T == {b \in Nat : a < Power(2, b)}
           B == {b \in 0..MaxBits : Power(2, b) <= a}
<1>1. a \in Nat /\ MaxBits \in Nat /\ \A b \in Nat : Power(2, b) \in Nat
  <2>1. a \in Nat
    BY DEF Abs
  <2>2. \A b \in Nat : Power(2, b) \in Nat
    BY PowerStep
  <2>. QED  BY <2>1, <2>2, BitsAssumption
<1>2. PICK x \in T : \A y \in T : x <= y
  <2>1. MaxBits \in T
    BY <1>1
  <2>2. T \in SUBSET Nat /\ T # {}
    BY <2>1
  <2>. HIDE DEF T
  <2>. QED  BY <2>2, LeastNatural
<1>3. x \in Nat /\ a < Power(2, x) /\ x <= MaxBits
  BY <1>1, <1>2
<1>4. ASSUME NEW b \in 0..MaxBits PROVE Power(2, b) <= a <=> b <= x - 1
  <2>1. CASE b < x
    <3>1. b \in Nat /\ ~(a < Power(2, b))
      BY <1>2, <1>3, <2>1
    <3>. QED  BY <1>1, <1>3, <2>1, <3>1
  <2>2. CASE b >= x
    <3>1. Power(2, x) <= Power(2, b) /\ Power(2, x) \in Nat /\ Power(2, b) \in Nat
      BY <1>1, <1>3, <2>2, PowerGrows
    <3>. HIDE DEF a
    <3>. QED  BY <1>1, <1>3, <2>2, <3>1
  <2>. QED  BY <1>3, <2>1, <2>2
<1>5. B = 0..(x - 1)
  <2>1. \A b : b \in B <=> b \in 0..MaxBits /\ Power(2, b) <= a
    OBVIOUS
  <2>. HIDE DEF B, a, T
  <2>2. \A b \in 0..(x - 1) : b \in 0..MaxBits /\ b <= x - 1
    BY <1>1, <1>3
  <2>3. \A b \in 0..MaxBits : b <= x - 1 => b \in 0..(x - 1)
    BY <1>1, <1>3
  <2>. QED  BY <1>4, <2>1, <2>2, <2>3
<1>6. Cardinality(0..(x - 1)) = x
  BY <1>3, FS_Interval
<1>. QED  BY <1>3, <1>5, <1>6 DEF BitLength

\* The bytes that the code takes for an integer hold it, with its sign.
LEMMA IntFits ==
    ASSUME NEW v \in Int, Abs(v) < Power(2, MaxBits)
    PROVE  ByteLen(v) \in Nat \ {0} /\ Fits(v, ByteLen(v))
<1> DEFINE x == BitLength(v)
           n == ByteLen(v)
<1>1. x \in Nat /\ Abs(v) < Power(2, x) /\ W \in Nat \ {0}
  BY BitLengthIsFirst, WidthAssumption
<1>2. n = (x + (W - 1) + 1) \div W
  BY DEF ByteLen
<1>. HIDE DEF x, n
<1>3. n \in Nat \ {0} /\ x <= W * (n - 1) + (W - 1)
  <2> DEFINE r == (x + W) % W
  <2>1. x + W \in Int /\ (x + (W - 1)) + 1 = x + W
    BY <1>1
  <2>2. n \in Int /\ r \in 0..(W - 1) /\ x + W = W * n + r
    <3>1. n = (x + W) \div W
      BY <1>2, <2>1
    <3>. QED  BY <1>1, <2>1, <3>1, DivMod
  <2>. HIDE DEF r
  <2>3. W * (n - 1) = W * n - W /\ W * n \in Int
    BY <1>1, <2>2
  <2>4. x <= W * (n - 1) + (W - 1)
    BY <1>1, <2>2, <2>3
  <2>5. ~(n <= 0)
    <3>. SUFFICES ASSUME n <= 0 PROVE FALSE
      OBVIOUS
    <3>1. W * n <= W * 0 /\ W * 0 = 0
      BY <1>1, <2>2, Monotone
    <3>. QED  BY <1>1, <2>2, <2>3, <3>1
  <2>. QED  BY <2>2, <2>4, <2>5
<1>4. Half(n) = Power(2, W * (n - 1) + (W - 1))
  <2>1. n - 1 \in Nat /\ W \in Nat /\ W - 1 \in Nat /\ W * (n - 1) \in Nat
    BY <1>1, <1>3
  <2>2. Power(Base, n - 1) = Power(2, W * (n - 1))
    BY <2>1, PowerProduct DEF Base
  <2>3. Power(2, W * (n - 1) + (W - 1)) = Power(2, W * (n - 1)) * Power(2, W - 1)
    BY <2>1, PowerSum
  <2>. QED  BY <2>2, <2>3 DEF Half, HalfBase
<1>5. Power(2, x) <= Half(n)
  <2> DEFINE y == W * (n - 1) + (W - 1)
  <2>1. y \in Nat /\ x <= y
    BY <1>1, <1>3
  <2>. HIDE DEF y
  <2>2. Power(2, x) <= Power(2, y)
    BY <1>1, <2>1, PowerGrows
  <2>. QED  BY <1>4, <2>2 DEF y
<1>6. Half(n) \in Nat /\ Power(2, x) \in Nat /\ Abs(v) < Half(n) /\ Abs(v) \in Nat
  <2>1. Half(n) \in Nat /\ Power(2, x) \in Nat
    BY <1>1, <1>3, HalfValues, PowerStep
  <2>2. Abs(v) \in Nat
    BY DEF Abs
  <2>. QED  BY <1>1, <1>5, <2>1, <2>2
<1>7. -Half(n) <= v /\ v < Half(n)
  BY <1>6 DEF Abs
<1>. QED  BY <1>3, <1>7 DEF Fits, n

\* A size below the number of values of its bytes is read back from them.
LEMMA SizeHolds ==
    ASSUME NEW n \in Nat, NEW w \in Nat, n < Power(Base, w)
    PROVE  Unsigned(BigEndian(n, w)) = n
<1> DEFINE p == Power(Base, w)
<1>1. p \in Nat \ {0} /\ Unsigned(BigEndian(n, w)) = (n % p)
  BY UnsignedBigEndian
<1>. HIDE DEF p
<1>2. n \in 0..(p - 1) /\ n = p * 0 + n
  BY <1>1 DEF p
<1>3. (n % p) = n
  BY <1>1, <1>2, DivUnique
<1>. QED  BY <1>1, <1>3

\* The bytes kept for the size of a pickle hold it.
LEMMA SizeLens ==
    ASSUME NEW n \in Nat, n < Power(Base, 8) - 1
    PROVE  SizeLen(n) \in {1, 2, 4, 8} /\ n < Power(Base, SizeLen(n))
<1>1. Base \in Nat /\ Power(Base, 1) = Base
  <2>1. Base \in Nat /\ Power(Base, 0) = 1 /\ 0 \in Nat
    BY BaseValues, PowerStep
  <2>2. Power(Base, 0 + 1) = Base * Power(Base, 0)
    BY <2>1, PowerStep
  <2>. QED  BY <2>1, <2>2
<1>2. Power(Base, 2) \in Nat /\ Power(Base, 4) \in Nat /\ Power(Base, 8) \in Nat
  BY <1>1, PowerStep
<1>. QED  BY <1>1, <1>2 DEF SizeLen

\* The bytes of a number are bytes.
LEMMA NumberBytes ==
    ASSUME NEW v \in Int, NEW n \in Nat
    PROVE  BigEndian(v, n) \in Seq(Byte) /\ Len(BigEndian(v, n)) = n
<1>1. \A b \in 0..(Base - 1) : b \in Byte
  BY BaseValues DEF Byte
<1>2. BigEndian(v, n) \in Seq(0..(Base - 1)) /\ Len(BigEndian(v, n)) = n
  BY BigEndianStep
<1> DEFINE S == 0..(Base - 1)
<1>. HIDE DEF S
<1>3. \A s \in Seq(S) : s \in Seq(Byte)
  <2>1. \A b \in S : b \in Byte
    BY <1>1 DEF S
  <2>. QED  BY <2>1, SeqOfMore
<1>. QED  BY <1>2, <1>3 DEF S

-----------------------------------------------------------------------------
(* Pickles *)

\* An object that is pickled: its pickle ends with the byte that tells to stop, and
\* has no other; so it is read back.
OtherObject == [type : {"other"}, id : Byte \ {Stop}, len : Nat \ {0, 1}]

LEMMA PickleLoads ==
    ASSUME NEW o \in OtherObject
    PROVE  /\ Dumps(o) \in Seq(Byte) /\ Len(Dumps(o)) = o.len
           /\ IsPickle(Dumps(o)) /\ Loads(Dumps(o)) = o
<1> DEFINE n == o.len
           bytes == Dumps(o)
           Ends1(i) == i \in 1..n /\ bytes[i] = Stop /\ \A j \in 1..(i - 1) : bytes[j] # Stop
<1>1. n \in Nat /\ n > 1 /\ o.id \in Byte /\ o.id # Stop /\ o.type = "other"
  BY DEF OtherObject
<1>2. bytes = [i \in 1..n |-> IF i = n THEN Stop ELSE IF i = 1 THEN o.id ELSE 0]
  BY DEF Dumps
<1>3. Stop \in Byte /\ 0 \in Byte /\ Stop # 0
  BY DEF Stop, Byte
<1>4. bytes \in Seq(Byte) /\ Len(bytes) = n /\ DOMAIN bytes = 1..n
  <2>1. bytes \in [1..n -> Byte]
    BY <1>1, <1>2, <1>3
  <2>2. ASSUME NEW m \in Nat, NEW f \in [1..m -> Byte]
        PROVE  f \in Seq(Byte) /\ Len(f) = m /\ DOMAIN f = 1..m
    OBVIOUS
  <2>. HIDE DEF bytes, n
  <2>. QED  BY <1>1, <2>1, <2>2
<1>5. bytes[n] = Stop /\ bytes[1] = o.id /\ \A j \in 1..(n - 1) : bytes[j] # Stop
  BY <1>1, <1>2, <1>3
<1>. HIDE DEF bytes, n
<1>6. \A i : Ends1(i) <=> i = n
  <2>1. Ends1(n)
    BY <1>1, <1>5
  <2>2. ASSUME NEW i, Ends1(i) PROVE i = n
    BY <1>1, <1>5, <2>2
  <2>. QED  BY <2>1, <2>2
<1>7. (CHOOSE i \in DOMAIN bytes : bytes[i] = Stop /\ \A j \in 1..(i - 1) : bytes[j] # Stop) = n
  BY <1>4, <1>6
<1>8. IsPickle(bytes)
  BY <1>1, <1>4, <1>5 DEF IsPickle
<1>9. Loads(bytes) = OtherObj(o.id, n)
  BY <1>5, <1>7 DEF Loads
<1>10. OtherObj(o.id, n) = o
  BY DEF OtherObject, OtherObj, n
<1>. QED  BY <1>4, <1>8, <1>9, <1>10 DEF bytes, n

-----------------------------------------------------------------------------
(* Where bytes are in a buffer: from data on there are all of s, or what is    *)
(* left of it at the end of the buffer; s is a tag and two parts behind it.    *)

At(buffer, data, s) ==
    data + Len(s) <= Len(buffer) /\ \A i \in 1..Len(s) : buffer[data + i] = s[i]
Begun(buffer, data, s) ==
    /\ data <= Len(buffer) /\ Len(buffer) < data + Len(s)
    /\ \A i \in 1..(Len(buffer) - data) : buffer[data + i] = s[i]
Framed(s, t, a, b) ==
    /\ Len(s) = 1 + Len(a) + Len(b) /\ s[1] = t
    /\ \A i \in 1..Len(a) : s[1 + i] = a[i]
    /\ \A i \in 1..Len(b) : s[1 + Len(a) + i] = b[i]

LEMMA FrameOfTag ==
    ASSUME NEW t \in Byte
    PROVE  <<t>> \in Seq(Byte) /\ Framed(<<t>>, t, <<>>, <<>>) /\ Len(<<t>>) = 1
  BY DEF Framed

LEMMA FrameOfPart ==
    ASSUME NEW t \in Byte, NEW a \in Seq(Byte)
    PROVE  /\ <<t>> \o a \in Seq(Byte) /\ Framed(<<t>> \o a, t, a, <<>>)
           /\ Len(<<t>> \o a) = 1 + Len(a)
  BY DEF Framed

LEMMA FrameOfParts ==
    ASSUME NEW t \in Byte, NEW a \in Seq(Byte), NEW b \in Seq(Byte)
    PROVE  /\ <<t>> \o a \o b \in Seq(Byte) /\ Framed(<<t>> \o a \o b, t, a, b)
           /\ Len(<<t>> \o a \o b) = 1 + Len(a) + Len(b)
  BY DEF Framed

LEMMA AtFrame ==
    ASSUME NEW buffer, Len(buffer) \in Nat, NEW data \in Nat, NEW s, NEW t,
           NEW a \in Seq(Byte), NEW b \in Seq(Byte), Framed(s, t, a, b), At(buffer, data, s)
    PROVE  /\ data + 1 <= Len(buffer) /\ buffer[data + 1] = t
           /\ At(buffer, data + 1, a) /\ At(buffer, data + 1 + Len(a), b)
<1>1. Len(a) \in Nat /\ Len(b) \in Nat /\ Len(s) = 1 + Len(a) + Len(b)
  BY DEF Framed
<1>2. data + Len(s) <= Len(buffer) /\ \A i \in 1..Len(s) : buffer[data + i] = s[i]
  BY DEF At
<1>3. ASSUME NEW i \in 1..Len(a) PROVE buffer[(data + 1) + i] = a[i]
  <2>1. 1 + i \in 1..Len(s) /\ data + (1 + i) = (data + 1) + i
    BY <1>1
  <2>. QED  BY <1>2, <2>1 DEF Framed
<1>4. ASSUME NEW i \in 1..Len(b) PROVE buffer[(data + 1 + Len(a)) + i] = b[i]
  <2>1. 1 + Len(a) + i \in 1..Len(s) /\ data + (1 + Len(a) + i) = (data + 1 + Len(a)) + i
    BY <1>1
  <2>. QED  BY <1>2, <2>1 DEF Framed
<1>5. 1 \in 1..Len(s) /\ data + 1 <= Len(buffer)
  BY <1>1, <1>2
<1>6. buffer[data + 1] = t
  BY <1>2, <1>5 DEF Framed
<1>7. (data + 1) + Len(a) <= Len(buffer) /\ (data + 1 + Len(a)) + Len(b) <= Len(buffer)
  BY <1>1, <1>2
<1>. QED  BY <1>3, <1>4, <1>5, <1>6, <1>7 DEF At

LEMMA BegunFrame ==
    ASSUME NEW buffer, Len(buffer) \in Nat, NEW data \in Nat, data < Len(buffer), NEW s, NEW t,
           NEW a \in Seq(Byte), NEW b \in Seq(Byte), Framed(s, t, a, b), Begun(buffer, data, s)
    PROVE  /\ data + 1 <= Len(buffer) /\ buffer[data + 1] = t
           /\ \/ Begun(buffer, data + 1, a)
              \/ At(buffer, data + 1, a) /\ Begun(buffer, data + 1 + Len(a), b)
<1>1. Len(a) \in Nat /\ Len(b) \in Nat /\ Len(s) = 1 + Len(a) + Len(b)
  BY DEF Framed
<1> DEFINE n == Len(buffer) - data
<1>2. n \in Nat \ {0} /\ n < Len(s) /\ \A i \in 1..n : buffer[data + i] = s[i]
  BY <1>1 DEF Begun
<1>3. data + 1 <= Len(buffer) /\ buffer[data + 1] = t
  <2>1. 1 \in 1..n /\ data + 1 <= Len(buffer)
    BY <1>2
  <2>. QED  BY <1>2, <2>1 DEF Framed
<1>4. ASSUME NEW i \in 1..Len(a), 1 + i <= n PROVE buffer[(data + 1) + i] = a[i]
  <2>1. 1 + i \in 1..n /\ data + (1 + i) = (data + 1) + i
    BY <1>1, <1>2, <1>4
  <2>. QED  BY <1>2, <2>1 DEF Framed
<1>5. ASSUME NEW i \in 1..Len(b), 1 + Len(a) + i <= n
      PROVE  buffer[(data + 1 + Len(a)) + i] = b[i]
  <2>1. 1 + Len(a) + i \in 1..n /\ data + (1 + Len(a) + i) = (data + 1 + Len(a)) + i
    BY <1>1, <1>2, <1>5
  <2>. QED  BY <1>2, <2>1 DEF Framed
<1>6. CASE n < 1 + Len(a)
  <2>1. data + 1 <= Len(buffer) /\ Len(buffer) < (data + 1) + Len(a)
    BY <1>1, <1>3, <1>6
  <2>2. \A i \in 1..(Len(buffer) - (data + 1)) : i \in 1..Len(a) /\ 1 + i <= n
    BY <1>1, <1>6
  <2>3. \A i \in 1..(Len(buffer) - (data + 1)) : buffer[(data + 1) + i] = a[i]
    BY <1>4, <2>2
  <2>. QED  BY <1>3, <2>1, <2>3 DEF Begun
<1>7. CASE n >= 1 + Len(a)
  <2>1. /\ (data + 1) + Len(a) <= Len(buffer)
        /\ data + 1 + Len(a) <= Len(buffer) /\ Len(buffer) < (data + 1 + Len(a)) + Len(b)
    BY <1>1, <1>2, <1>7
  <2>2. \A i \in 1..Len(a) : 1 + i <= n
    BY <1>1, <1>7
  <2>3. At(buffer, data + 1, a)
    BY <1>4, <2>1, <2>2 DEF At
  <2>4. \A i \in 1..(Len(buffer) - (data + 1 + Len(a))) : i \in 1..Len(b) /\ 1 + Len(a) + i <= n
    BY <1>1, <1>2, <1>7
  <2>5. \A i \in 1..(Len(buffer) - (data + 1 + Len(a))) : buffer[(data + 1 + Len(a)) + i] = b[i]
    BY <1>5, <2>4
  <2>. QED  BY <1>3, <2>1, <2>3, <2>5 DEF Begun
<1>. QED  BY <1>1, <1>2, <1>6, <1>7

\* The bytes at a place are what is taken there.
LEMMA AtTake ==
    ASSUME NEW buffer \in Seq(Byte), NEW data \in Nat, NEW s \in Seq(Byte), At(buffer, data, s)
    PROVE  /\ Take(buffer, data, Len(s)) = s
           /\ Left(buffer, data) \in Nat /\ Left(buffer, data) >= Len(s)
<1> DEFINE n == Len(s)
           taken == SubSeq(buffer, data + 1, data + n)
<1>1. n \in Nat /\ data + n <= Len(buffer) /\ \A i \in 1..n : buffer[data + i] = s[i]
  BY DEF At
<1>2. /\ taken \in Seq(Byte) /\ Len(taken) = n
      /\ \A i \in 1..n : taken[i] = buffer[data + i]
  <2>. HIDE DEF n
  <2>1. data + 1 \in 1..(Len(buffer) + 1) /\ data + n \in 0..Len(buffer)
    BY <1>1
  <2>2. Len(taken) = n
    BY <1>1, <2>1
  <2>3. \A i \in 1..n : taken[i] = buffer[data + i]
    BY <1>1, <2>1
  <2>4. \A i \in 1..n : buffer[data + i] \in Byte
    BY <1>1
  <2>5. taken \in Seq(Byte)
    BY <1>1, <2>1, <2>4
  <2>. QED  BY <2>2, <2>3, <2>5
<1>. HIDE DEF taken, n
<1>3. taken = s
  <2>1. \A i \in 1..n : taken[i] = s[i]
    BY <1>1, <1>2
  <2>. QED  BY <1>2, <2>1, SameElements DEF n
<1>4. Left(buffer, data) \in Nat /\ Left(buffer, data) >= n
  BY <1>1 DEF Left
<1>. QED  BY <1>3, <1>4 DEF Take, taken, n

LEMMA BegunLeft ==
    ASSUME NEW buffer \in Seq(Byte), NEW data \in Nat, NEW s \in Seq(Byte), Begun(buffer, data, s)
    PROVE  Left(buffer, data) \in Nat /\ Left(buffer, data) < Len(s)
  BY DEF Begun, Left

-----------------------------------------------------------------------------
(* What is read where an object's bytes are, or begin *)

Reads(buffer, data, o, n) == DeserializeWTypeWSize(buffer, data) = Got(o, data + n)
Fails(buffer, data) ==
    \E d \in 0..Len(buffer) : DeserializeWTypeWSize(buffer, data) = Error(d)
\* The end of the buffer is not within a pickle, whose size is not checked.
EndChecked(buffer, data, o) ==
    o.type = "other" => Len(buffer) < data + 1 + SizeLen(o.len)
ReadsBack(o, s) ==
    \A buffer \in Seq(Byte), data \in Nat :
        At(buffer, data, s) => Reads(buffer, data, o, Len(s))
FailsBegun(o, s) ==
    \A buffer \in Seq(Byte), data \in Nat :
        data < Len(buffer) /\ Begun(buffer, data, s) /\ EndChecked(buffer, data, o)
            => Fails(buffer, data)
\* The bytes of an object alone are that object.
ReadsAlone(o, s) == DeserializeWType(s) = Got(o, Len(s))

LEMMA TagValues ==
    /\ Tag.None = 1 /\ Tag.IntLarge = 10 /\ Tag.True = 11 /\ Tag.False = 12 /\ Tag.Float = 13
    /\ Tag.Str = 14 /\ Tag.UStr = 15 /\ Tag.Pickle = 16
    /\ PickleTag[1] = 16 /\ PickleTag[2] = 17 /\ PickleTag[4] = 18 /\ PickleTag[8] = 19
    /\ DOMAIN PickleTag = {1, 2, 4, 8}
<1>1. /\ Tag.None = 1 /\ Tag.IntLarge = 10 /\ Tag.True = 11 /\ Tag.False = 12 /\ Tag.Float = 13
      /\ Tag.Str = 14 /\ Tag.UStr = 15 /\ Tag.Pickle = 16
  BY DEF Tag
<1>2. /\ PickleTag[1] = 16 /\ PickleTag[2] = 17 /\ PickleTag[4] = 18 /\ PickleTag[8] = 19
      /\ DOMAIN PickleTag = {1, 2, 4, 8}
  BY DEF PickleTag
<1>. QED  BY <1>1, <1>2

LEMMA PickleTagWidth ==
    ASSUME NEW w \in {1, 2, 4, 8}
    PROVE  (CHOOSE u \in DOMAIN PickleTag : PickleTag[u] = PickleTag[w]) = w
<1>1. ASSUME NEW u \in DOMAIN PickleTag, PickleTag[u] = PickleTag[w] PROVE u = w
  BY <1>1, TagValues
<1>2. w \in DOMAIN PickleTag
  BY TagValues
<1>. QED  BY <1>1, <1>2

\* How a tag leads to the rest.
LEMMA Dispatch ==
    ASSUME NEW buffer, NEW data, NEW t, buffer[data + 1] = t
    PROVE  /\ t \in {1, 11, 12, 13} =>
                DeserializeWTypeWSize(buffer, data) = DecodeScalar(t, buffer, data + 1)
           /\ t \in 2..9 =>
                DeserializeWTypeWSize(buffer, data) = DecodeIntN(t - 1, buffer, data + 1)
           /\ t = 10 => DeserializeWTypeWSize(buffer, data) = DecodeIntLarge(buffer, data + 1)
           /\ t = 14 => DeserializeWTypeWSize(buffer, data) = DecodeStr(buffer, data + 1)
           /\ t = 15 => DeserializeWTypeWSize(buffer, data) = DecodeUStr(buffer, data + 1)
           /\ \A w \in {1, 2, 4, 8} : t = PickleTag[w] =>
                DeserializeWTypeWSize(buffer, data) = DecodePickle(w, buffer, data + 1)
<1> DEFINE result == DeserializeWTypeWSize(buffer, data)
           w0 == CHOOSE w \in DOMAIN PickleTag : PickleTag[w] = t
           next == data + 1
<1>1. result = CASE t \in {1, 11, 12, 13} -> DecodeScalar(t, buffer, next)
                 [] t \in 2..9 -> DecodeIntN(t - 1, buffer, next)
                 [] t = 10 -> DecodeIntLarge(buffer, next)
                 [] t = 14 -> DecodeStr(buffer, next)
                 [] t = 15 -> DecodeUStr(buffer, next)
                 [] t \in 16..19 -> DecodePickle(w0, buffer, next)
                 [] OTHER -> Error(next)
  BY TagValues DEF DeserializeWTypeWSize, IsIntTag, IntTag, IsPickleTag
<1>2. \A w \in {1, 2, 4, 8} : t = PickleTag[w] => t \in 16..19 /\ w0 = w
  BY TagValues, PickleTagWidth
<1>. HIDE DEF result, w0, next
<1>3. t \in {1, 11, 12, 13} => result = DecodeScalar(t, buffer, next)
  BY <1>1
<1>4. t \in 2..9 => result = DecodeIntN(t - 1, buffer, next)
  BY <1>1
<1>5. t = 10 => result = DecodeIntLarge(buffer, next)
  BY <1>1
<1>6. t = 14 => result = DecodeStr(buffer, next)
  BY <1>1
<1>7. t = 15 => result = DecodeUStr(buffer, next)
  BY <1>1
<1>8. t \in 16..19 => result = DecodePickle(w0, buffer, next)
  BY <1>1
<1>. QED  BY <1>2, <1>3, <1>4, <1>5, <1>6, <1>7, <1>8 DEF result, next

LEMMA DispatchAlone ==
    ASSUME NEW s, NEW t, s[1] = t
    PROVE  /\ t \in {1, 11, 12, 13} => DeserializeWType(s) = DecodeScalar(t, s, 1)
           /\ t \in 2..9 => DeserializeWType(s) = DecodeIntN(t - 1, s, 1)
           /\ t = 10 => DeserializeWType(s) = Got(IntObj(Signed(Rest(s, 1))), Len(s))
           /\ t \in {14, 15} => DeserializeWType(s) = DecodeText(Rest(s, 1), Len(s))
           /\ t = 16 => DeserializeWType(s) = DecodePickleBytes(Rest(s, 1), Len(s))
<1> DEFINE result == DeserializeWType(s)
           rest == Rest(s, 1)
           n == Len(s)
<1>1. result = CASE t \in {1, 11, 12, 13} -> DecodeScalar(t, s, 1)
                 [] t \in 2..9 -> DecodeIntN(t - 1, s, 1)
                 [] t = 10 -> Got(IntObj(Signed(rest)), n)
                 [] t \in {14, 15} -> DecodeText(rest, n)
                 [] t = 16 -> DecodePickleBytes(rest, n)
                 [] OTHER -> Error(1)
  BY TagValues DEF DeserializeWType, IsIntTag, IntTag
<1>. HIDE DEF result, rest, n
<1>2. t \in {1, 11, 12, 13} => result = DecodeScalar(t, s, 1)
  BY <1>1
<1>3. t \in 2..9 => result = DecodeIntN(t - 1, s, 1)
  BY <1>1
<1>4. t = 10 => result = Got(IntObj(Signed(rest)), n)
  BY <1>1
<1>5. t \in {14, 15} => result = DecodeText(rest, n)
  BY <1>1
<1>6. t = 16 => result = DecodePickleBytes(rest, n)
  BY <1>1
<1>. QED  BY <1>2, <1>3, <1>4, <1>5, <1>6 DEF result, rest, n

\* None, True and False are their tag, a float is 8 bytes behind it.
Scalar == {NoneObj, TrueObj, FalseObj} \cup [type : {"float"}, float : Byte]

LEMMA ScalarKinds ==
    /\ EncodeScalar(NoneObj) = <<1>> /\ EncodeScalar(TrueObj) = <<11>>
    /\ EncodeScalar(FalseObj) = <<12>>
    /\ \A o \in [type : {"float"}, float : Byte] :
          EncodeScalar(o) = <<13>> \o [i \in 1..8 |-> IF i = 8 THEN o.float ELSE 0]
<1>1. TrueObj # NoneObj /\ FalseObj # NoneObj /\ FalseObj # TrueObj
  <2>1. NoneObj.type = "NoneType" /\ TrueObj.type = "bool" /\ FalseObj.type = "bool"
        /\ TrueObj.truth = "True" /\ FalseObj.truth = "False"
    BY DEF NoneObj, TrueObj, FalseObj
  <2>. QED  BY <2>1
<1>2. NoneObj.type # "float" /\ TrueObj.type # "float" /\ FalseObj.type # "float"
  BY DEF NoneObj, TrueObj, FalseObj
<1>3. \A o \in [type : {"float"}, float : Byte] : o.type = "float"
  OBVIOUS
<1>4. EncodeScalar(NoneObj) = <<1>> /\ EncodeScalar(TrueObj) = <<11>> /\ EncodeScalar(FalseObj) = <<12>>
  BY <1>1, <1>2, TagValues DEF EncodeScalar
<1>5. ASSUME NEW o \in [type : {"float"}, float : Byte]
      PROVE  EncodeScalar(o) = <<13>> \o [i \in 1..8 |-> IF i = 8 THEN o.float ELSE 0]
  <2>1. o.type = "float" /\ o # NoneObj /\ o # TrueObj /\ o # FalseObj
    BY <1>2, <1>3
  <2>. QED  BY <2>1, TagValues DEF EncodeScalar
<1>. QED  BY <1>4, <1>5

LEMMA Lone ==
    ASSUME NEW o, NEW t \in Byte, t \in {1, 11, 12, 13}, o.type # "other",
           \A buffer, data : DecodeScalar(t, buffer, data) = Got(o, data)
    PROVE  /\ <<t>> \in Seq(Byte) /\ Len(<<t>>) # 0
           /\ ReadsBack(o, <<t>>) /\ FailsBegun(o, <<t>>) /\ ReadsAlone(o, <<t>>)
<1> DEFINE s == <<t>>
           e == <<>>
<1>1. /\ s \in Seq(Byte) /\ Framed(s, t, e, e) /\ e \in Seq(Byte) /\ Len(s) = 1 /\ s[1] = t
  BY FrameOfTag
<1>. HIDE DEF s, e
<1>2. ASSUME NEW buffer \in Seq(Byte), NEW data \in Nat, At(buffer, data, s)
      PROVE  Reads(buffer, data, o, Len(s))
  <2>0. Len(buffer) \in Nat
    OBVIOUS
  <2>1. buffer[data + 1] = t
    BY <1>1, <1>2, <2>0, AtFrame
  <2>. QED  BY <1>1, <2>1, Dispatch DEF Reads
<1>3. ASSUME NEW buffer \in Seq(Byte), NEW data \in Nat, data < Len(buffer), Begun(buffer, data, s)
      PROVE  FALSE
  BY <1>1, <1>3 DEF Begun
<1>4. ReadsAlone(o, s)
  <2>1. DeserializeWType(s) = DecodeScalar(t, s, 1)
    BY <1>1, DispatchAlone
  <2>. QED  BY <1>1, <2>1 DEF ReadsAlone
<1>5. ReadsBack(o, s) /\ FailsBegun(o, s)
  BY <1>2, <1>3 DEF ReadsBack, FailsBegun
<1>. QED  BY <1>1, <1>4, <1>5 DEF s

\* All that is needed of the bytes of an object.
Coded(o, s) ==
    /\ s \in Seq(Byte) /\ Len(s) # 0
    /\ ReadsBack(o, s) /\ FailsBegun(o, s)

LEMMA Part ==
    ASSUME NEW o, NEW t \in Byte, NEW a \in Seq(Byte), o.type # "other",
           \A buffer \in Seq(Byte), data \in Nat :
               data + 1 <= Len(buffer) /\ buffer[data + 1] = t /\ At(buffer, data + 1, a)
                   => Reads(buffer, data, o, 1 + Len(a)),
           \A buffer \in Seq(Byte), data \in Nat :
               data + 1 <= Len(buffer) /\ buffer[data + 1] = t /\ Begun(buffer, data + 1, a)
                   => Fails(buffer, data)
    PROVE  Coded(o, <<t>> \o a)
<1> DEFINE s == <<t>> \o a
           e == <<>>
<1>1. s \in Seq(Byte) /\ Framed(s, t, a, e) /\ e \in Seq(Byte) /\ Len(s) = 1 + Len(a) /\ Len(e) = 0
  BY FrameOfPart
<1>. HIDE DEF s, e
<1>2. ASSUME NEW buffer \in Seq(Byte), NEW data \in Nat, At(buffer, data, s)
      PROVE  Reads(buffer, data, o, Len(s))
  <2>0. Len(buffer) \in Nat
    OBVIOUS
  <2>1. data + 1 <= Len(buffer) /\ buffer[data + 1] = t /\ At(buffer, data + 1, a)
    BY <1>1, <1>2, <2>0, AtFrame
  <2>. QED  BY <1>1, <2>1
<1>3. ASSUME NEW buffer \in Seq(Byte), NEW data \in Nat, data < Len(buffer), Begun(buffer, data, s)
      PROVE  Fails(buffer, data)
  <2>0. Len(buffer) \in Nat
    OBVIOUS
  <2>1. /\ data + 1 <= Len(buffer) /\ buffer[data + 1] = t
        /\ Begun(buffer, data + 1, a) \/ Begun(buffer, data + 1 + Len(a), e)
    BY <1>1, <1>3, <2>0, BegunFrame
  <2>2. ~Begun(buffer, data + 1 + Len(a), e)
    BY <1>1, <2>0 DEF Begun
  <2>. QED  BY <2>1, <2>2
<1>4. Len(s) # 0
  BY <1>1
<1>5. ReadsBack(o, s) /\ FailsBegun(o, s)
  BY <1>2, <1>3 DEF ReadsBack, FailsBegun
<1>. QED  BY <1>1, <1>4, <1>5 DEF Coded, s

ReadsParts(o, t, a, b) ==
    \A buffer \in Seq(Byte), data \in Nat :
        (/\ data + 1 <= Len(buffer) /\ buffer[data + 1] = t
         /\ At(buffer, data + 1, a) /\ At(buffer, data + 1 + Len(a), b))
            => Reads(buffer, data, o, 1 + Len(a) + Len(b))
FailsParts(o, t, a, b) ==
    \A buffer \in Seq(Byte), data \in Nat :
        (/\ data + 1 <= Len(buffer) /\ buffer[data + 1] = t /\ EndChecked(buffer, data, o)
         /\ \/ Begun(buffer, data + 1, a)
            \/ At(buffer, data + 1, a) /\ Begun(buffer, data + 1 + Len(a), b))
            => Fails(buffer, data)

LEMMA Parts ==
    ASSUME NEW o, NEW t \in Byte, NEW a \in Seq(Byte), NEW b \in Seq(Byte),
           ReadsParts(o, t, a, b), FailsParts(o, t, a, b)
    PROVE  Coded(o, <<t>> \o a \o b)
<1> DEFINE s == <<t>> \o a \o b
<1>1. s \in Seq(Byte) /\ Framed(s, t, a, b) /\ Len(s) = 1 + Len(a) + Len(b)
  BY FrameOfParts
<1>. HIDE DEF s
<1>2. ASSUME NEW buffer \in Seq(Byte), NEW data \in Nat, At(buffer, data, s)
      PROVE  Reads(buffer, data, o, Len(s))
  <2>0. Len(buffer) \in Nat
    OBVIOUS
  <2>1. /\ data + 1 <= Len(buffer) /\ buffer[data + 1] = t
        /\ At(buffer, data + 1, a) /\ At(buffer, data + 1 + Len(a), b)
    BY <1>1, <1>2, <2>0, AtFrame
  <2>. QED  BY <1>1, <2>1 DEF ReadsParts
<1>3. ASSUME NEW buffer \in Seq(Byte), NEW data \in Nat, data < Len(buffer), Begun(buffer, data, s),
             EndChecked(buffer, data, o)
      PROVE  Fails(buffer, data)
  <2>0. Len(buffer) \in Nat
    OBVIOUS
  <2>1. /\ data + 1 <= Len(buffer) /\ buffer[data + 1] = t
        /\ \/ Begun(buffer, data + 1, a)
           \/ At(buffer, data + 1, a) /\ Begun(buffer, data + 1 + Len(a), b)
    BY <1>1, <1>3, <2>0, BegunFrame
  <2>. QED  BY <1>3, <2>1 DEF FailsParts
<1>4. Len(s) # 0
  BY <1>1
<1>5. ReadsBack(o, s) /\ FailsBegun(o, s)
  BY <1>2, <1>3 DEF ReadsBack, FailsBegun
<1>. QED  BY <1>1, <1>4, <1>5 DEF Coded, s

\* What follows the tag of a frame of one part.
LEMMA RestOfPart ==
    ASSUME NEW t \in Byte, NEW a \in Seq(Byte)
    PROVE  Rest(<<t>> \o a, 1) = a /\ (<<t>> \o a)[1] = t
<1> DEFINE s == <<t>> \o a
           rest == SubSeq(s, 2, Len(s))
           n == Len(a)
<1>1. /\ s \in Seq(Byte) /\ Len(s) = 1 + n /\ n \in Nat /\ s[1] = t
      /\ \A i \in 1..n : s[1 + i] = a[i]
  BY FrameOfPart DEF Framed
<1>2. rest \in Seq(Byte) /\ Len(rest) = n /\ \A i \in 1..n : rest[i] = s[1 + i]
  <2>. HIDE DEF s, n
  <2>1. Len(rest) = n
    BY <1>1
  <2>2. \A i \in 1..n : rest[i] = s[1 + i]
    BY <1>1
  <2>3. rest \in Seq(Byte)
    BY <1>1
  <2>. QED  BY <2>1, <2>2, <2>3
<1>. HIDE DEF rest, s
<1>3. \A i \in 1..n : rest[i] = a[i]
  BY <1>1, <1>2
<1>4. rest = a
  BY <1>2, <1>3, SameElements
<1>5. Rest(s, 1) = rest
  BY DEF Rest, rest
<1>. QED  BY <1>1, <1>4, <1>5 DEF s

\* An error is at a place of the buffer.
LEMMA FailsAt ==
    ASSUME NEW buffer \in Seq(Byte), NEW data, NEW d \in Nat, d <= Len(buffer),
           DeserializeWTypeWSize(buffer, data) = Error(d)
    PROVE  Fails(buffer, data)
<1>1. d \in 0..Len(buffer)
  OBVIOUS
<1>. QED  BY <1>1 DEF Fails

LEMMA FloatCoded ==
    ASSUME NEW o \in [type : {"float"}, float : Byte]
    PROVE  Coded(o, EncodeScalar(o)) /\ ReadsAlone(o, EncodeScalar(o))
<1> DEFINE a == [i \in 1..8 |-> IF i = 8 THEN o.float ELSE 0]
           t == 13
<1>1. EncodeScalar(o) = <<t>> \o a
  BY ScalarKinds
<1>2. t \in Byte /\ 0 \in Byte /\ o.float \in Byte /\ o.type # "other"
  BY DEF Byte
<1>3. a \in Seq(Byte) /\ Len(a) = 8 /\ a[8] = o.float
  <2>1. a \in [1..8 -> Byte]
    BY <1>2
  <2>2. ASSUME NEW m \in Nat, NEW f \in [1..m -> Byte] PROVE f \in Seq(Byte) /\ Len(f) = m
    OBVIOUS
  <2>3. a[8] = o.float
    OBVIOUS
  <2>. HIDE DEF a
  <2>. QED  BY <2>1, <2>2, <2>3
<1>4. FloatObj(o.float) = o
  BY DEF FloatObj
<1>. HIDE DEF a
<1>5. \A buffer, data : DecodeScalar(t, buffer, data) =
          IF Left(buffer, data) < 8 THEN Error(data) ELSE Got(FloatObj(buffer[data + 8]), data + 8)
  BY TagValues DEF DecodeScalar
<1>6. ASSUME NEW buffer \in Seq(Byte), NEW data \in Nat, At(buffer, data, a)
      PROVE  DecodeScalar(t, buffer, data) = Got(o, data + 8)
  <2>0. Left(buffer, data) \in Nat /\ Left(buffer, data) >= Len(a)
    BY <1>3, <1>6, AtTake
  <2>1. ~(Left(buffer, data) < 8)
    BY ONLY <1>3, <2>0
  <2>2. buffer[data + 8] = o.float
    BY <1>3, <1>6 DEF At
  <2>. QED  BY <1>4, <1>5, <2>1, <2>2
<1>7. ASSUME NEW buffer \in Seq(Byte), NEW data \in Nat, Begun(buffer, data, a)
      PROVE  DecodeScalar(t, buffer, data) = Error(data)
  <2>1. Left(buffer, data) < Len(a)
    BY <1>3, <1>7, BegunLeft
  <2>2. Left(buffer, data) < 8
    BY ONLY <1>3, <2>1
  <2>. QED  BY <1>5, <2>2
<1>8. \A buffer, data : buffer[data + 1] = t =>
          DeserializeWTypeWSize(buffer, data) = DecodeScalar(t, buffer, data + 1)
  BY Dispatch
<1>. HIDE DEF t
<1>9. ASSUME NEW buffer \in Seq(Byte), NEW data \in Nat, buffer[data + 1] = t,
             At(buffer, data + 1, a)
      PROVE  Reads(buffer, data, o, 1 + Len(a))
  <2>1. (data + 1) + 8 = data + (1 + Len(a)) /\ data + 1 \in Nat
    BY <1>3
  <2>. QED  BY <1>6, <1>8, <1>9, <2>1 DEF Reads
<1>10. ASSUME NEW buffer \in Seq(Byte), NEW data \in Nat, data + 1 <= Len(buffer),
              buffer[data + 1] = t, Begun(buffer, data + 1, a)
       PROVE  Fails(buffer, data)
  <2>1. data + 1 \in Nat
    OBVIOUS
  <2>. QED  BY <1>7, <1>8, <1>10, <2>1, FailsAt
<1>11. Coded(o, <<t>> \o a)
  BY <1>2, <1>3, <1>9, <1>10, Part
<1>12. ReadsAlone(o, <<t>> \o a)
  <2> DEFINE s == <<t>> \o a
  <2>0. s \in Seq(Byte) /\ Len(s) = 1 + Len(a) /\ Framed(s, t, a, <<>>)
    BY <1>2, <1>3, FrameOfPart
  <2>1. s \in Seq(Byte) /\ Len(s) = 1 + 8 /\ s[1] = t
    BY <1>3, <2>0 DEF Framed
  <2>. HIDE DEF s
  <2>2. At(s, 1, a)
    BY <1>3, <2>0 DEF At, Framed
  <2>3. DeserializeWType(s) = DecodeScalar(t, s, 1)
    BY <2>1, DispatchAlone DEF t
  <2>4. DecodeScalar(t, s, 1) = Got(o, 1 + 8)
    BY <1>6, <2>1, <2>2
  <2>. QED  BY <2>1, <2>3, <2>4 DEF ReadsAlone, s
<1>. QED  BY <1>1, <1>11, <1>12
\* A size that is read back from its bytes, and what is left of the buffer then.
LEMMA SizeAt ==
    ASSUME NEW buffer \in Seq(Byte), NEW data \in Nat, NEW n \in Nat, NEW w \in Nat,
           n < Power(Base, w), At(buffer, data, BigEndian(n, w))
    PROVE  /\ Unsigned(Take(buffer, data, w)) = n /\ Left(buffer, data) \in Nat
           /\ Left(buffer, data) >= w /\ data + w <= Len(buffer)
<1> DEFINE a == BigEndian(n, w)
<1>1. a \in Seq(Byte) /\ Len(a) = w
  <2>1. n \in Int
    OBVIOUS
  <2>. QED  BY <2>1, NumberBytes
<1>2. Unsigned(a) = n
  BY SizeHolds
<1>. HIDE DEF a
<1>3. Take(buffer, data, Len(a)) = a /\ Left(buffer, data) \in Nat /\ Left(buffer, data) >= Len(a)
  BY <1>1, AtTake DEF a
<1>4. data + Len(a) <= Len(buffer)
  BY DEF At, a
<1>. QED  BY <1>1, <1>2, <1>3, <1>4

LEMMA IntCoded ==
    ASSUME NEW v \in Int, NEW n \in 1..8, Fits(v, n)
    PROVE  /\ Coded(IntObj(v), <<IntTag(n)>> \o BigEndian(v, n))
           /\ ReadsAlone(IntObj(v), <<IntTag(n)>> \o BigEndian(v, n))
<1> DEFINE a == BigEndian(v, n)
           t == IntTag(n)
           o == IntObj(v)
<1>1. a \in Seq(Byte) /\ Len(a) = n /\ n \in Nat
  BY NumberBytes
<1>2. t \in Byte /\ t \in 2..9 /\ t - 1 = n
  BY DEF IntTag, Byte
<1>3. Signed(FillWord(a)) = v
  BY WordHolds
<1>4. o.type # "other"
  BY DEF IntObj
<1>5. \A buffer, data : DecodeIntN(n, buffer, data) =
          IF Left(buffer, data) < n THEN Error(data)
          ELSE Got(IntObj(Signed(FillWord(Take(buffer, data, n)))), data + n)
  BY DEF DecodeIntN
<1>. HIDE DEF a, t
<1>6. ASSUME NEW buffer \in Seq(Byte), NEW data \in Nat, At(buffer, data, a)
      PROVE  DecodeIntN(n, buffer, data) = Got(o, data + n)
  <2>0. Take(buffer, data, Len(a)) = a /\ Left(buffer, data) \in Nat /\ Left(buffer, data) >= Len(a)
    BY <1>1, <1>6, AtTake
  <2>1. ~(Left(buffer, data) < n) /\ Take(buffer, data, n) = a
    BY ONLY <1>1, <2>0
  <2>. QED  BY <1>3, <1>5, <2>1
<1>. HIDE DEF o
<1>7. ASSUME NEW buffer \in Seq(Byte), NEW data \in Nat, Begun(buffer, data, a)
      PROVE  DecodeIntN(n, buffer, data) = Error(data)
  <2>1. Left(buffer, data) < Len(a)
    BY <1>1, <1>7, BegunLeft
  <2>2. Left(buffer, data) < n
    BY ONLY <1>1, <2>1
  <2>. QED  BY <1>5, <2>2
<1>8. \A buffer, data : buffer[data + 1] = t =>
          DeserializeWTypeWSize(buffer, data) = DecodeIntN(n, buffer, data + 1)
  BY <1>2, Dispatch
<1>9. ASSUME NEW buffer \in Seq(Byte), NEW data \in Nat, buffer[data + 1] = t,
             At(buffer, data + 1, a)
      PROVE  Reads(buffer, data, o, 1 + Len(a))
  <2>1. (data + 1) + n = data + (1 + Len(a)) /\ data + 1 \in Nat
    BY <1>1
  <2>. QED  BY <1>6, <1>8, <1>9, <2>1 DEF Reads
<1>10. ASSUME NEW buffer \in Seq(Byte), NEW data \in Nat, data + 1 <= Len(buffer),
              buffer[data + 1] = t, Begun(buffer, data + 1, a)
       PROVE  Fails(buffer, data)
  <2>1. data + 1 \in Nat
    OBVIOUS
  <2>. QED  BY <1>7, <1>8, <1>10, <2>1, FailsAt
<1>11. Coded(o, <<t>> \o a)
  BY <1>1, <1>2, <1>4, <1>9, <1>10, Part
<1>12. ReadsAlone(o, <<t>> \o a)
  <2> DEFINE s == <<t>> \o a
  <2>0. s \in Seq(Byte) /\ Len(s) = 1 + Len(a) /\ Framed(s, t, a, <<>>)
    BY <1>1, <1>2, FrameOfPart
  <2>1. Len(s) = 1 + n /\ s[1] = t
    BY <1>1, <2>0 DEF Framed
  <2>. HIDE DEF s
  <2>2. At(s, 1, a)
    BY <1>1, <2>0 DEF At, Framed
  <2>3. DeserializeWType(s) = DecodeIntN(n, s, 1)
    BY <1>2, <2>1, DispatchAlone
  <2>4. DecodeIntN(n, s, 1) = Got(o, 1 + n)
    BY <1>6, <2>0, <2>2
  <2>. QED  BY <2>1, <2>3, <2>4 DEF ReadsAlone, s
<1>. QED  BY <1>11, <1>12 DEF a, t, o

LEMMA LargeCoded ==
    ASSUME NEW v \in Int, NEW n \in Nat \ {0}, n < Power(Base, 4), Fits(v, n)
    PROVE  Coded(IntObj(v), <<Tag.IntLarge>> \o BigEndian(n, 4) \o BigEndian(v, n))
<1> DEFINE a == BigEndian(n, 4)
           b == BigEndian(v, n)
           t == Tag.IntLarge
           o == IntObj(v)
<1>1. a \in Seq(Byte) /\ Len(a) = 4 /\ b \in Seq(Byte) /\ Len(b) = n
  <2>1. n \in Int /\ n \in Nat /\ 4 \in Nat
    OBVIOUS
  <2>. QED  BY <2>1, NumberBytes
<1>2. t \in Byte /\ t = 10
  BY TagValues DEF Byte
<1>3. Signed(b) = v
  BY SignedBigEndian
<1>4. o.type # "other"
  BY DEF IntObj
<1>5. \A buffer, data : buffer[data + 1] = t =>
          DeserializeWTypeWSize(buffer, data) = DecodeIntLarge(buffer, data + 1)
  BY <1>2, Dispatch
<1>6. \A buffer \in Seq(Byte), data \in Nat : At(buffer, data, a) =>
          /\ Unsigned(Take(buffer, data, 4)) = n /\ Left(buffer, data) \in Nat
          /\ Left(buffer, data) >= 4 /\ data + 4 <= Len(buffer)
  BY SizeAt
<1>. HIDE DEF a, b, t, o
<1>7. ASSUME NEW buffer \in Seq(Byte), NEW data \in Nat,
             data + 1 <= Len(buffer), buffer[data + 1] = t,
             At(buffer, data + 1, a), At(buffer, data + 1 + Len(a), b)
      PROVE  Reads(buffer, data, o, 1 + Len(a) + Len(b))
  <2> DEFINE d == data + 1
             size == Unsigned(Take(buffer, d, 4))
  <2>1. d \in Nat /\ d + 4 \in Nat /\ d + 4 = data + 1 + Len(a)
    BY <1>1
  <2>2. size = n /\ Left(buffer, d) \in Nat /\ Left(buffer, d) >= 4
    BY <1>6, <1>7, <2>1
  <2>3. /\ Take(buffer, d + 4, Len(b)) = b /\ Left(buffer, d + 4) \in Nat
        /\ Left(buffer, d + 4) >= Len(b)
    BY <1>1, <1>7, <2>1, AtTake
  <2>4. Left(buffer, d) = Left(buffer, d + 4) + 4
    BY <2>1 DEF Left
  <2>5. ~(Left(buffer, d) < 5) /\ ~(Left(buffer, d + 4) < size) /\ Take(buffer, d + 4, size) = b
    BY ONLY <1>1, <2>2, <2>3, <2>4
  <2>6. DecodeIntLarge(buffer, d) = Got(IntObj(Signed(b)), d + 4 + size)
    BY <2>5 DEF DecodeIntLarge
  <2>7. d + 4 + size = data + (1 + Len(a) + Len(b))
    BY <1>1, <2>2
  <2>8. DeserializeWTypeWSize(buffer, data) = DecodeIntLarge(buffer, d)
    BY <1>5, <1>7
  <2>. QED  BY <1>3, <2>6, <2>7, <2>8 DEF Reads, o
<1>8. ASSUME NEW buffer \in Seq(Byte), NEW data \in Nat,
             data + 1 <= Len(buffer), buffer[data + 1] = t, EndChecked(buffer, data, o),
             \/ Begun(buffer, data + 1, a)
             \/ At(buffer, data + 1, a) /\ Begun(buffer, data + 1 + Len(a), b)
      PROVE  Fails(buffer, data)
  <2> DEFINE d == data + 1
             size == Unsigned(Take(buffer, d, 4))
  <2>1. d \in Nat /\ d + 4 \in Nat /\ d + 4 = data + 1 + Len(a) /\ d <= Len(buffer)
    BY <1>1, <1>8
  <2>2. DeserializeWTypeWSize(buffer, data) = DecodeIntLarge(buffer, d)
    BY <1>5, <1>8
  <2>3. CASE Left(buffer, d) < 5
    <3>1. DecodeIntLarge(buffer, d) = Error(d)
      <4>1. ~(Left(buffer, d) >= 5)
        BY <2>1, <2>3 DEF Left
      <4>. QED  BY <2>3, <4>1 DEF DecodeIntLarge
    <3>. QED  BY <2>1, <2>2, <3>1, FailsAt
  <2>4. CASE ~(Left(buffer, d) < 5)
    <3>0. Left(buffer, d) >= 5
      BY <2>1, <2>4 DEF Left
    <3>1. ~Begun(buffer, d, a)
      <4>1. Begun(buffer, d, a) => Left(buffer, d) < Len(a) /\ Left(buffer, d) \in Nat
        BY <1>1, <2>1, BegunLeft
      <4>. QED  BY <1>1, <3>0, <4>1
    <3>2. At(buffer, d, a) /\ Begun(buffer, d + 4, b)
      BY <1>8, <2>1, <3>1
    <3>3. size = n /\ d + 4 <= Len(buffer)
      BY <1>6, <2>1, <3>2
    <3>4. Left(buffer, d + 4) < Len(b)
      BY <1>1, <2>1, <3>2, BegunLeft
    <3>5. Left(buffer, d + 4) < size
      BY <1>1, <3>3, <3>4
    <3>6. DecodeIntLarge(buffer, d) = Error(d + 4)
      BY <2>4, <3>0, <3>5 DEF DecodeIntLarge
    <3>. QED  BY <2>1, <2>2, <3>3, <3>6, FailsAt
  <2>. QED  BY <2>3, <2>4
<1>9. Coded(o, <<t>> \o a \o b)
  <2>1. ReadsParts(o, t, a, b)
    BY <1>7 DEF ReadsParts
  <2>2. FailsParts(o, t, a, b)
    BY <1>8 DEF FailsParts
  <2>. QED  BY <1>1, <1>2, <1>4, <2>1, <2>2, Parts
<1>. QED  BY <1>9 DEF a, b, t, o

\* Without a size, the rest of the buffer is the integer.
LEMMA LargeAlone ==
    ASSUME NEW v \in Int, NEW n \in Nat \ {0}, Fits(v, n)
    PROVE  /\ <<Tag.IntLarge>> \o BigEndian(v, n) \in Seq(Byte)
           /\ Len(<<Tag.IntLarge>> \o BigEndian(v, n)) # 0
           /\ ReadsAlone(IntObj(v), <<Tag.IntLarge>> \o BigEndian(v, n))
<1> DEFINE b == BigEndian(v, n)
           t == Tag.IntLarge
           s == <<t>> \o b
<1>1. b \in Seq(Byte) /\ Len(b) = n
  BY NumberBytes
<1>2. t \in Byte /\ t = 10
  BY TagValues DEF Byte
<1>3. Signed(b) = v
  BY SignedBigEndian
<1>. HIDE DEF b, t
<1>4. s \in Seq(Byte) /\ Len(s) = 1 + Len(b) /\ s[1] = t /\ Rest(s, 1) = b
  BY <1>1, <1>2, FrameOfPart, RestOfPart
<1>. HIDE DEF s
<1>5. DeserializeWType(s) = Got(IntObj(Signed(b)), Len(s))
  BY <1>2, <1>4, DispatchAlone
<1>6. Len(s) # 0
  BY <1>1, <1>4
<1>. QED  BY <1>3, <1>4, <1>5, <1>6 DEF ReadsAlone, s, b, t
\* The first 0 behind a text that has none.
LEMMA ZeroAt ==
    ASSUME NEW buffer \in Seq(Byte), NEW data \in Nat, NEW s \in Seq(Byte),
           \A i \in 1..Len(s) : s[i] # 0, At(buffer, data, s)
    PROVE  /\ Len(buffer) = data + Len(s) => NoZero(buffer, data)
           /\ (data + Len(s) + 1 <= Len(buffer) /\ buffer[data + Len(s) + 1] = 0) =>
                 ~NoZero(buffer, data) /\ FirstZero(buffer, data) = data + Len(s) + 1
<1> DEFINE z == data + Len(s) + 1
           IsZ(i) == /\ i \in (data + 1)..Len(buffer)
                     /\ buffer[i] = 0 /\ \A j \in (data + 1)..(i - 1) : buffer[j] # 0
<1>1. ASSUME NEW i \in (data + 1)..(data + Len(s)) PROVE buffer[i] # 0
  <2>1. i - data \in 1..Len(s) /\ data + (i - data) = i
    OBVIOUS
  <2>2. \A j \in 1..Len(s) : buffer[data + j] = s[j]
    BY DEF At
  <2>. QED  BY <2>1, <2>2
<1>2. ASSUME Len(buffer) = data + Len(s) PROVE NoZero(buffer, data)
  BY <1>1, <1>2 DEF NoZero
<1>3. ASSUME z <= Len(buffer), buffer[z] = 0
      PROVE  ~NoZero(buffer, data) /\ FirstZero(buffer, data) = z
  <2>1. z \in (data + 1)..Len(buffer) /\ z - 1 = data + Len(s) /\ z \in Nat
    BY <1>3
  <2>2. ~NoZero(buffer, data)
    BY <1>3, <2>1 DEF NoZero
  <2>3. IsZ(z)
    BY <1>1, <1>3, <2>1
  <2>4. ASSUME NEW i, IsZ(i) PROVE i = z
    <3>1. i \in Nat /\ i >= data + 1 /\ buffer[i] = 0
      BY <2>4
    <3>2. ~(i <= data + Len(s))
      BY <1>1, <3>1
    <3>3. i >= z
      BY <3>1, <3>2
    <3>4. CASE i > z
      <4>1. z \in (data + 1)..(i - 1)
        BY <2>1, <3>1, <3>4
      <4>. QED  BY <1>3, <2>4, <4>1
    <3>. QED  BY <2>1, <3>1, <3>3, <3>4
  <2>. HIDE DEF z, IsZ
  <2>5. (CHOOSE i : IsZ(i)) = z
    BY <2>3, <2>4
  <2>6. FirstZero(buffer, data) = CHOOSE i : IsZ(i)
    BY DEF FirstZero, IsZ
  <2>. QED  BY <2>2, <2>5, <2>6
<1>. QED  BY <1>2, <1>3

\* A text of ASCII characters but 0 is ended by a 0.
LEMMA StrCoded ==
    ASSUME NEW s \in Seq(CodePoint), \A i \in DOMAIN s : s[i] < 128, ~HasNul(s)
    PROVE  Coded(StrObj(s), <<Tag.Str>> \o s \o <<0>>)
<1> DEFINE e == <<0>>
           t == Tag.Str
           o == StrObj(s)
<1>1. s \in Seq(Byte) /\ e \in Seq(Byte) /\ Len(e) = 1 /\ e[1] = 0 /\ IsTextOf(s, s)
  BY AsciiIsText DEF Byte
<1>2. t \in Byte /\ t = 14
  BY TagValues DEF Byte
<1>3. \A i \in 1..Len(s) : s[i] # 0
  BY DEF HasNul
<1>4. o.type # "other"
  BY DEF StrObj
<1>5. \A buffer, data : buffer[data + 1] = t =>
          DeserializeWTypeWSize(buffer, data) = DecodeStr(buffer, data + 1)
  BY <1>2, Dispatch
<1>6. \A data : DecodeText(s, data) = Got(o, data)
  BY <1>1 DEF DecodeText, IsTextOf
<1>. HIDE DEF e, t, o
<1>7. ASSUME NEW buffer \in Seq(Byte), NEW data \in Nat,
             data + 1 <= Len(buffer), buffer[data + 1] = t,
             At(buffer, data + 1, s), At(buffer, data + 1 + Len(s), e)
      PROVE  Reads(buffer, data, o, 1 + Len(s) + Len(e))
  <2> DEFINE d == data + 1
             z == FirstZero(buffer, d)
             n == Len(s)
  <2>1. d \in Nat /\ n \in Nat
    BY <1>1
  <2>2. d + n + 1 <= Len(buffer) /\ buffer[d + n + 1] = 0
    BY <1>1, <1>7 DEF At
  <2>3. ~NoZero(buffer, d) /\ z = d + n + 1
    BY <1>1, <1>3, <1>7, <2>1, <2>2, ZeroAt
  <2>4. Take(buffer, d, n) = s
    BY <1>1, <1>7, <2>1, AtTake
  <2>. HIDE DEF n
  <2>5. SubSeq(buffer, d + 1, z - 1) = s
    <3>1. z - 1 = d + n
      BY <2>1, <2>3
    <3>. QED  BY <2>4, <3>1 DEF Take
  <2>. HIDE DEF z
  <2>6. DecodeStr(buffer, d) = Got(o, z)
    BY <1>6, <2>3, <2>5 DEF DecodeStr, z
  <2>7. z = data + (1 + n + Len(e))
    BY <1>1, <2>1, <2>3
  <2>. QED  BY <1>5, <1>7, <2>6, <2>7 DEF Reads, n
<1>8. ASSUME NEW buffer \in Seq(Byte), NEW data \in Nat,
             data + 1 <= Len(buffer), buffer[data + 1] = t, EndChecked(buffer, data, o),
             \/ Begun(buffer, data + 1, s)
             \/ At(buffer, data + 1, s) /\ Begun(buffer, data + 1 + Len(s), e)
      PROVE  Fails(buffer, data)
  <2> DEFINE d == data + 1
  <2>1. d \in Nat /\ Len(s) \in Nat /\ Len(buffer) \in Nat
    BY <1>1
  <2>2. NoZero(buffer, d)
    <3>1. CASE Begun(buffer, d, s)
      <4>1. \A i \in 1..(Len(buffer) - d) : buffer[d + i] # 0
        <5>. HIDE DEF d
        <5>1. /\ Len(buffer) < d + Len(s)
              /\ \A i \in 1..(Len(buffer) - d) : buffer[d + i] = s[i]
          BY <3>1 DEF Begun
        <5>2. \A i \in 1..(Len(buffer) - d) : i \in 1..Len(s)
          BY <2>1, <5>1
        <5>. QED  BY <1>3, <5>1, <5>2
      <4>2. \A i \in (d + 1)..Len(buffer) : i - d \in 1..(Len(buffer) - d) /\ d + (i - d) = i
        BY <2>1
      <4>. HIDE DEF d
      <4>. QED  BY <4>1, <4>2 DEF NoZero
    <3>2. CASE At(buffer, d, s) /\ Begun(buffer, d + Len(s), e)
      <4>1. Len(buffer) = d + Len(s)
        BY <1>1, <2>1, <3>2 DEF Begun
      <4>. QED  BY <1>1, <1>3, <2>1, <3>2, <4>1, ZeroAt
    <3>. QED  BY <1>8, <3>1, <3>2
  <2>3. DeserializeWTypeWSize(buffer, data) = Error(Len(buffer))
    BY <1>5, <1>8, <2>2 DEF DecodeStr
  <2>. QED  BY <2>1, <2>3, FailsAt
<1>9. ReadsParts(o, t, s, e) /\ FailsParts(o, t, s, e)
  <2>1. ReadsParts(o, t, s, e)
    BY <1>7 DEF ReadsParts
  <2>2. FailsParts(o, t, s, e)
    BY <1>8 DEF FailsParts
  <2>. QED  BY <2>1, <2>2
<1>10. Coded(o, <<t>> \o s \o e)
  BY <1>1, <1>2, <1>4, <1>9, Parts
<1>. QED  BY <1>10 DEF e, t, o

\* Any text is kept in UTF-8, behind its size.
LEMMA UStrCoded ==
    ASSUME NEW s \in Seq(CodePoint), Len(Utf8(s)) < Power(Base, 4)
    PROVE  Coded(StrObj(s), <<Tag.UStr>> \o BigEndian(Len(Utf8(s)), 4) \o Utf8(s))
<1> DEFINE b == Utf8(s)
           n == Len(b)
           a == BigEndian(n, 4)
           t == Tag.UStr
           o == StrObj(s)
<1>1. b \in Seq(Byte) /\ n \in Nat /\ IsTextOf(b, s)
  BY Utf8IsText
<1>2. a \in Seq(Byte) /\ Len(a) = 4
  <2>1. n \in Int /\ 4 \in Nat
    BY <1>1
  <2>. HIDE DEF n
  <2>. QED  BY <2>1, NumberBytes
<1>3. t \in Byte /\ t = 15
  BY TagValues DEF Byte
<1>4. o.type # "other"
  BY DEF StrObj
<1>5. \A buffer, data : buffer[data + 1] = t =>
          DeserializeWTypeWSize(buffer, data) = DecodeUStr(buffer, data + 1)
  BY <1>3, Dispatch
<1>6. \A data : DecodeText(b, data) = Got(o, data)
  BY <1>1 DEF DecodeText, IsTextOf
<1>7. \A buffer \in Seq(Byte), data \in Nat : At(buffer, data, a) =>
          /\ Unsigned(Take(buffer, data, 4)) = n /\ Left(buffer, data) \in Nat
          /\ Left(buffer, data) >= 4 /\ data + 4 <= Len(buffer)
  <2>1. n \in Nat /\ 4 \in Nat /\ n < Power(Base, 4)
    BY <1>1
  <2>. HIDE DEF n
  <2>. QED  BY <2>1, SizeAt
<1>. HIDE DEF a, b, t, o
<1>8. ASSUME NEW buffer \in Seq(Byte), NEW data \in Nat,
             data + 1 <= Len(buffer), buffer[data + 1] = t,
             At(buffer, data + 1, a), At(buffer, data + 1 + Len(a), b)
      PROVE  Reads(buffer, data, o, 1 + Len(a) + Len(b))
  <2> DEFINE d == data + 1
             size == Unsigned(Take(buffer, d, 4))
  <2>1. d \in Nat /\ d + 4 \in Nat /\ d + 4 = data + 1 + Len(a)
    BY <1>2
  <2>2. size = n /\ Left(buffer, d) \in Nat /\ Left(buffer, d) >= 4
    BY <1>7, <1>8, <2>1
  <2>3. /\ Take(buffer, d + 4, Len(b)) = b /\ Left(buffer, d + 4) \in Nat
        /\ Left(buffer, d + 4) >= Len(b)
    BY <1>1, <1>8, <2>1, AtTake
  <2>5. ~(Left(buffer, d) < 4) /\ ~(Left(buffer, d + 4) < size) /\ Take(buffer, d + 4, size) = b
    BY ONLY <1>1, <2>2, <2>3
  <2>. HIDE DEF size
  <2>6. DecodeUStr(buffer, d) = Got(o, d + 4 + size)
    BY <1>6, <2>5 DEF DecodeUStr, size
  <2>7. d + 4 + size = data + (1 + Len(a) + Len(b))
    BY <1>1, <1>2, <2>2
  <2>8. DeserializeWTypeWSize(buffer, data) = DecodeUStr(buffer, d)
    BY <1>5, <1>8
  <2>. QED  BY <2>6, <2>7, <2>8 DEF Reads
<1>9. ASSUME NEW buffer \in Seq(Byte), NEW data \in Nat,
             data + 1 <= Len(buffer), buffer[data + 1] = t, EndChecked(buffer, data, o),
             \/ Begun(buffer, data + 1, a)
             \/ At(buffer, data + 1, a) /\ Begun(buffer, data + 1 + Len(a), b)
      PROVE  Fails(buffer, data)
  <2> DEFINE d == data + 1
             size == Unsigned(Take(buffer, d, 4))
  <2>1. d \in Nat /\ d + 4 \in Nat /\ d + 4 = data + 1 + Len(a) /\ d <= Len(buffer)
    BY <1>2, <1>9
  <2>2. DeserializeWTypeWSize(buffer, data) = DecodeUStr(buffer, d)
    BY <1>5, <1>9
  <2>3. CASE Left(buffer, d) < 4
    <3>1. DecodeUStr(buffer, d) = Error(d)
      <4>1. ~(Left(buffer, d) >= 4)
        BY <2>1, <2>3 DEF Left
      <4>. QED  BY <2>3, <4>1 DEF DecodeUStr
    <3>. QED  BY <2>1, <2>2, <3>1, FailsAt
  <2>4. CASE ~(Left(buffer, d) < 4)
    <3>0. Left(buffer, d) >= 4
      BY <2>1, <2>4 DEF Left
    <3>1. ~Begun(buffer, d, a)
      <4>1. Begun(buffer, d, a) => Left(buffer, d) < Len(a) /\ Left(buffer, d) \in Nat
        BY <1>2, <2>1, BegunLeft
      <4>. QED  BY <1>2, <3>0, <4>1
    <3>2. At(buffer, d, a) /\ Begun(buffer, d + 4, b)
      BY <1>9, <2>1, <3>1
    <3>3. size = n /\ d + 4 <= Len(buffer)
      BY <1>7, <2>1, <3>2
    <3>4. Left(buffer, d + 4) < Len(b)
      BY <1>1, <2>1, <3>2, BegunLeft
    <3>5. Left(buffer, d + 4) < size
      BY <3>3, <3>4
    <3>6. DecodeUStr(buffer, d) = Error(d + 4)
      BY <2>4, <3>0, <3>5 DEF DecodeUStr
    <3>. QED  BY <2>1, <2>2, <3>3, <3>6, FailsAt
  <2>. QED  BY <2>3, <2>4
<1>10. ReadsParts(o, t, a, b) /\ FailsParts(o, t, a, b)
  <2>1. ReadsParts(o, t, a, b)
    BY <1>8 DEF ReadsParts
  <2>2. FailsParts(o, t, a, b)
    BY <1>9 DEF FailsParts
  <2>. QED  BY <2>1, <2>2
<1>11. Coded(o, <<t>> \o a \o b)
  BY <1>1, <1>2, <1>3, <1>4, <1>10, Parts
<1>. QED  BY <1>11 DEF a, b, t, o
\* A pickle is kept behind its size, which is not checked against the end.
LEMMA PickleCoded ==
    ASSUME NEW o \in OtherObject, o.len < Power(Base, 8) - 1
    PROVE  Coded(o, EncodePickle(o))
<1> DEFINE n == o.len
           w == SizeLen(n)
           a == BigEndian(n, w)
           b == Dumps(o)
           t == PickleTag[w]
<1>1. n \in Nat /\ o.type = "other"
  BY DEF OtherObject
<1>2. b \in Seq(Byte) /\ Len(b) = n /\ IsPickle(b) /\ Loads(b) = o
  BY PickleLoads
<1>3. w \in {1, 2, 4, 8} /\ w \in Nat /\ n < Power(Base, w)
  <2>. HIDE DEF n
  <2>. QED  BY <1>1, SizeLens DEF n
<1>4. a \in Seq(Byte) /\ Len(a) = w
  <2>1. n \in Int
    BY <1>1
  <2>. HIDE DEF n, w
  <2>. QED  BY <1>3, <2>1, NumberBytes
<1>5. t \in Byte
  BY <1>3, TagValues DEF Byte
<1>6. EncodePickle(o) = <<t>> \o a \o b
  BY DEF EncodePickle
<1>7. \A buffer \in Seq(Byte), data \in Nat : At(buffer, data, a) =>
          /\ Unsigned(Take(buffer, data, w)) = n /\ Left(buffer, data) \in Nat
          /\ Left(buffer, data) >= w /\ data + w <= Len(buffer)
  <2>. HIDE DEF n, w
  <2>. QED  BY <1>1, <1>3, SizeAt
<1>. HIDE DEF n, w, a, b, t
<1>8. \A buffer, data : buffer[data + 1] = t =>
          DeserializeWTypeWSize(buffer, data) = DecodePickle(w, buffer, data + 1)
  BY <1>3, Dispatch DEF t
<1>9. \A data : DecodePickleBytes(b, data) = Got(o, data)
  BY <1>2 DEF DecodePickleBytes
<1>10. ASSUME NEW buffer \in Seq(Byte), NEW data \in Nat,
             data + 1 <= Len(buffer), buffer[data + 1] = t,
             At(buffer, data + 1, a), At(buffer, data + 1 + Len(a), b)
      PROVE  Reads(buffer, data, o, 1 + Len(a) + Len(b))
  <2> DEFINE d == data + 1
             size == Unsigned(Take(buffer, d, w))
  <2>1. d \in Nat /\ d + w \in Nat /\ d + w = data + 1 + Len(a)
    BY <1>3, <1>4
  <2>2. size = n /\ Left(buffer, d) \in Nat /\ Left(buffer, d) >= w
    BY <1>7, <1>10, <2>1
  <2>3. Take(buffer, d + w, Len(b)) = b
    BY <1>2, <1>10, <2>1, AtTake
  <2>4. ~(Left(buffer, d) < w) /\ Take(buffer, d + w, size) = b
    BY ONLY <1>2, <1>3, <2>2, <2>3
  <2>. HIDE DEF size
  <2>5. DecodePickle(w, buffer, d) = Got(o, d + w + size)
    BY <1>9, <2>4 DEF DecodePickle, size
  <2>6. d + w + size = data + (1 + Len(a) + Len(b))
    BY <1>1, <1>2, <1>3, <1>4, <2>2
  <2>7. DeserializeWTypeWSize(buffer, data) = DecodePickle(w, buffer, d)
    BY <1>8, <1>10
  <2>. QED  BY <2>5, <2>6, <2>7 DEF Reads
<1>11. ASSUME NEW buffer \in Seq(Byte), NEW data \in Nat,
             data + 1 <= Len(buffer), buffer[data + 1] = t, EndChecked(buffer, data, o),
             \/ Begun(buffer, data + 1, a)
             \/ At(buffer, data + 1, a) /\ Begun(buffer, data + 1 + Len(a), b)
      PROVE  Fails(buffer, data)
  <2> DEFINE d == data + 1
  <2>1. d \in Nat /\ Len(buffer) \in Nat /\ d <= Len(buffer)
    BY <1>11
  <2>2. Left(buffer, d) < w
    <3>1. Len(buffer) < data + 1 + w
      BY <1>1, <1>11 DEF EndChecked, w, n
    <3>. QED  BY <1>3, <2>1, <3>1 DEF Left
  <2>3. DecodePickle(w, buffer, d) = Error(d)
    BY <2>2 DEF DecodePickle
  <2>4. DeserializeWTypeWSize(buffer, data) = Error(d)
    BY <1>8, <1>11, <2>3
  <2>. QED  BY <2>1, <2>4, FailsAt
<1>12. ReadsParts(o, t, a, b) /\ FailsParts(o, t, a, b)
  <2>1. ReadsParts(o, t, a, b)
    BY <1>10 DEF ReadsParts
  <2>2. FailsParts(o, t, a, b)
    BY <1>11 DEF FailsParts
  <2>. QED  BY <2>1, <2>2
<1>13. Coded(o, <<t>> \o a \o b)
  BY <1>2, <1>4, <1>5, <1>12, Parts
<1>. QED  BY <1>6, <1>13
LEMMA LoneCoded ==
    \A o \in {NoneObj, TrueObj, FalseObj} :
        Coded(o, EncodeScalar(o)) /\ ReadsAlone(o, EncodeScalar(o))
<1>1. NoneObj.type # "other" /\ TrueObj.type # "other" /\ FalseObj.type # "other"
  BY DEF NoneObj, TrueObj, FalseObj
<1>2. /\ \A buffer, data : DecodeScalar(1, buffer, data) = Got(NoneObj, data)
      /\ \A buffer, data : DecodeScalar(11, buffer, data) = Got(TrueObj, data)
      /\ \A buffer, data : DecodeScalar(12, buffer, data) = Got(FalseObj, data)
  BY TagValues DEF DecodeScalar
<1>3. 1 \in Byte /\ 11 \in Byte /\ 12 \in Byte
  BY DEF Byte
<1>4. Coded(NoneObj, <<1>>) /\ ReadsAlone(NoneObj, <<1>>)
  BY <1>1, <1>2, <1>3, Lone DEF Coded
<1>5. Coded(TrueObj, <<11>>) /\ ReadsAlone(TrueObj, <<11>>)
  BY <1>1, <1>2, <1>3, Lone DEF Coded
<1>6. Coded(FalseObj, <<12>>) /\ ReadsAlone(FalseObj, <<12>>)
  BY <1>1, <1>2, <1>3, Lone DEF Coded
<1>. QED  BY <1>4, <1>5, <1>6, ScalarKinds

\* The kinds of objects, one by one.
LEMMA Kinds ==
    ASSUME NEW o, IsObject(o)
    PROVE  \/ o \in {NoneObj, TrueObj, FalseObj} /\ o.type \notin {"int", "str", "other"}
           \/ o \in [type : {"float"}, float : Byte] /\ o.type = "float"
           \/ o.type = "int" /\ o.int \in Int /\ Abs(o.int) < Power(2, MaxBits) /\ o = IntObj(o.int)
           \/ /\ o.type = "str" /\ o.str \in Seq(CodePoint) /\ o = StrObj(o.str)
              /\ Len(Utf8(o.str)) < Power(Base, 4)
           \/ o.type = "other" /\ o \in OtherObject /\ o.len < Power(Base, 8) - 1
<1>1. CASE o \in {NoneObj, TrueObj, FalseObj}
  <2>1. o.type \notin {"int", "str", "other"}
    BY <1>1 DEF NoneObj, TrueObj, FalseObj
  <2>. QED  BY <1>1, <2>1
<1>2. CASE o \in [type : {"float"}, float : Byte]
  <2>1. o.type = "float"
    BY <1>2
  <2>. QED  BY <1>2, <2>1
<1>3. CASE o \in [type : {"int"}, int : Int] /\ Abs(o.int) < Power(2, MaxBits)
  <2>1. o.type = "int" /\ o.int \in Int /\ o = IntObj(o.int)
    BY <1>3 DEF IntObj
  <2>. QED  BY <1>3, <2>1
<1>4. CASE o \in [type : {"str"}, str : Seq(CodePoint)] /\ Len(Utf8(o.str)) < Power(Base, 4)
  <2>1. o.type = "str" /\ o.str \in Seq(CodePoint) /\ o = StrObj(o.str)
    BY <1>4 DEF StrObj
  <2>. QED  BY <1>4, <2>1
<1>5. CASE o \in OtherObject /\ o.len < Power(Base, 8) - 1
  <2>1. o.type = "other"
    BY <1>5 DEF OtherObject
  <2>. QED  BY <1>5, <2>1
<1>. QED  BY <1>1, <1>2, <1>3, <1>4, <1>5 DEF IsObject, OtherObject

\* What serializeWTypeWSize makes of an object is read as that object wherever it
\* stands in a buffer, and if the buffer ends before it does, but for a pickle, as
\* an error: every class of objects has a form that tells where it ends.
THEOREM ObjectCoded ==
    ASSUME NEW o, IsObject(o), ~TooLarge(o),
           o.type = "str" /\ OneByteKind(o.str) /\ ~HasNul(o.str) => Ascii(o.str)
    PROVE  Coded(o, SerializeWTypeWSize(o))
<1>1. CASE o.type = "int" /\ o.int \in Int /\ Abs(o.int) < Power(2, MaxBits) /\ o = IntObj(o.int)
  <2> DEFINE v == o.int
             n == ByteLen(v)
             a == BigEndian(v, n)
             e == BigEndian(n, 4)
  <2>1. n \in Nat \ {0} /\ Fits(v, n)
    BY <1>1, IntFits
  <2>2. SerializeWTypeWSize(o) = EncodeInt(v, TRUE)
    BY <1>1 DEF SerializeWTypeWSize
  <2>3. EncodeInt(v, TRUE) = IF n <= 8 THEN <<IntTag(n)>> \o a ELSE <<Tag.IntLarge>> \o e \o a
    BY DEF EncodeInt
  <2>4. ASSUME n <= 8 PROVE Coded(o, <<IntTag(n)>> \o a)
    <3>1. n \in 1..8
      BY <2>1, <2>4
    <3>. HIDE DEF n
    <3>. QED  BY <1>1, <2>1, <3>1, IntCoded
  <2>5. ASSUME ~(n <= 8) PROVE Coded(o, <<Tag.IntLarge>> \o e \o a)
    <3>1. ~(n >= Power(Base, 4))
      BY <1>1 DEF TooLarge
    <3>2. Power(Base, 4) \in Nat
      BY BaseValues, PowerStep
    <3>. HIDE DEF n
    <3>3. n < Power(Base, 4)
      BY <2>1, <3>1, <3>2
    <3>. QED  BY <1>1, <2>1, <3>3, LargeCoded
  <2>. HIDE DEF n, a, e
  <2>. QED  BY <2>2, <2>3, <2>4, <2>5
<1>2. CASE o.type = "str" /\ o.str \in Seq(CodePoint) /\ o = StrObj(o.str)
           /\ Len(Utf8(o.str)) < Power(Base, 4)
  <2> DEFINE s == o.str
             narrow == <<Tag.Str>> \o s \o <<0>>
             wide == <<Tag.UStr>> \o BigEndian(Len(Utf8(s)), 4) \o Utf8(s)
  <2>1. SerializeWTypeWSize(o) = EncodeStr(s)
    BY <1>2 DEF SerializeWTypeWSize
  <2>2. EncodeStr(s) = IF OneByteKind(s) /\ ~HasNul(s) THEN narrow ELSE wide
    BY DEF EncodeStr
  <2>3. ASSUME OneByteKind(s) /\ ~HasNul(s) PROVE Coded(o, narrow)
    BY <1>2, <2>3, StrCoded DEF Ascii
  <2>4. Coded(o, wide)
    BY <1>2, UStrCoded
  <2>. HIDE DEF narrow, wide, s
  <2>. QED  BY <2>1, <2>2, <2>3, <2>4
<1>3. CASE o.type = "other" /\ o \in OtherObject /\ o.len < Power(Base, 8) - 1
  <2>1. SerializeWTypeWSize(o) = EncodePickle(o)
    BY <1>3 DEF SerializeWTypeWSize
  <2>. QED  BY <1>3, <2>1, PickleCoded
<1>4. CASE o \in {NoneObj, TrueObj, FalseObj} /\ o.type \notin {"int", "str", "other"}
  <2>1. SerializeWTypeWSize(o) = EncodeScalar(o)
    BY <1>4 DEF SerializeWTypeWSize
  <2>. QED  BY <1>4, <2>1, LoneCoded
<1>5. CASE o \in [type : {"float"}, float : Byte] /\ o.type = "float"
  <2>1. SerializeWTypeWSize(o) = EncodeScalar(o)
    BY <1>5 DEF SerializeWTypeWSize
  <2>. QED  BY <1>5, <2>1, FloatCoded
<1>. QED  BY <1>1, <1>2, <1>3, <1>4, <1>5, Kinds

\* An object alone in a key or a value of RocksDB is read back, whatever its
\* size (serialize and deserialize with WType): no two objects have one encoding.
THEOREM ObjectAlone ==
    ASSUME NEW o, IsObject(o), o.type = "str" /\ OneByteKind(o.str) => Ascii(o.str)
    PROVE  /\ SerializeWType(o) \in Seq(Byte) /\ Len(SerializeWType(o)) # 0
           /\ ReadsAlone(o, SerializeWType(o))
<1> DEFINE Good(s) == s \in Seq(Byte) /\ Len(s) # 0 /\ ReadsAlone(o, s)
<1>0. \A s : Coded(o, s) /\ ReadsAlone(o, s) => Good(s)
  BY DEF Coded
<1>1. CASE o.type = "int" /\ o.int \in Int /\ Abs(o.int) < Power(2, MaxBits) /\ o = IntObj(o.int)
  <2> DEFINE v == o.int
             n == ByteLen(v)
             a == BigEndian(v, n)
  <2>1. n \in Nat \ {0} /\ Fits(v, n)
    BY <1>1, IntFits
  <2>2. SerializeWType(o) = EncodeInt(v, FALSE)
    BY <1>1 DEF SerializeWType
  <2>3. EncodeInt(v, FALSE) = IF n <= 8 THEN <<IntTag(n)>> \o a ELSE <<Tag.IntLarge>> \o <<>> \o a
    BY DEF EncodeInt
  <2>4. ASSUME n <= 8 PROVE Good(<<IntTag(n)>> \o a)
    <3>1. n \in 1..8
      BY <2>1, <2>4
    <3>2. Coded(o, <<IntTag(n)>> \o a) /\ ReadsAlone(o, <<IntTag(n)>> \o a)
      <4>. HIDE DEF n
      <4>. QED  BY <1>1, <2>1, <3>1, IntCoded
    <3>. HIDE DEF Good
    <3>. QED  BY <1>0, <3>2
  <2>5. Good(<<Tag.IntLarge>> \o a)
    <3>. HIDE DEF n
    <3>. QED  BY <1>1, <2>1, LargeAlone
  <2>6. <<Tag.IntLarge>> \o <<>> = <<Tag.IntLarge>>
    OBVIOUS
  <2>7. EncodeInt(v, FALSE) = IF n <= 8 THEN <<IntTag(n)>> \o a ELSE <<Tag.IntLarge>> \o a
    <3>. HIDE DEF n, a
    <3>. QED  BY <2>3, <2>6
  <2>. HIDE DEF n, a, Good
  <2>8. Good(SerializeWType(o))
    BY <2>2, <2>4, <2>5, <2>7
  <2>. QED  BY <2>8 DEF Good
<1>2. CASE o.type = "str" /\ o.str \in Seq(CodePoint) /\ o = StrObj(o.str)
  <2> DEFINE s == o.str
             narrow == <<Tag.Str>> \o s
             wide == <<Tag.UStr>> \o Utf8(s)
  <2>1. SerializeWType(o) = EncodeStrWType(s)
    BY <1>2 DEF SerializeWType
  <2>2. EncodeStrWType(s) = IF OneByteKind(s) THEN narrow ELSE wide
    BY DEF EncodeStrWType
  <2>3. ASSUME NEW t \in {14, 15}, NEW b \in Seq(Byte), IsTextOf(b, s) PROVE Good(<<t>> \o b)
    <3> DEFINE all == <<t>> \o b
    <3>1. t \in Byte
      BY DEF Byte
    <3>2. all \in Seq(Byte) /\ Len(all) = 1 + Len(b) /\ Rest(all, 1) = b /\ all[1] = t
      BY <3>1, FrameOfPart, RestOfPart
    <3>3. DecodeText(b, Len(all)) = Got(o, Len(all))
      BY <1>2, <2>3 DEF DecodeText, IsTextOf
    <3>. HIDE DEF all
    <3>4. DeserializeWType(all) = DecodeText(b, Len(all))
      BY <3>2, DispatchAlone
    <3>5. Len(all) # 0
      BY <3>2
    <3>. QED  BY <3>2, <3>3, <3>4, <3>5 DEF ReadsAlone, all
  <2>4. ASSUME OneByteKind(s) PROVE Good(narrow)
    <3>1. IsTextOf(s, s) /\ s \in Seq(Byte)
      BY <1>2, <2>4, AsciiIsText DEF Ascii
    <3>2. Tag.Str \in {14, 15}
      BY TagValues
    <3>. HIDE DEF Good
    <3>. QED  BY <2>3, <3>1, <3>2
  <2>5. Good(wide)
    <3>1. IsTextOf(Utf8(s), s) /\ Utf8(s) \in Seq(Byte)
      BY <1>2, Utf8IsText
    <3>2. Tag.UStr \in {14, 15}
      BY TagValues
    <3>. HIDE DEF Good
    <3>. QED  BY <2>3, <3>1, <3>2
  <2>. HIDE DEF narrow, wide, s, Good
  <2>6. Good(SerializeWType(o))
    BY <2>1, <2>2, <2>4, <2>5
  <2>. QED  BY <2>6 DEF Good
<1>3. CASE o.type = "other" /\ o \in OtherObject
  <2> DEFINE b == Dumps(o)
             t == Tag.Pickle
             s == <<t>> \o b
  <2>1. SerializeWType(o) = s
    BY <1>3 DEF SerializeWType
  <2>2. b \in Seq(Byte) /\ IsPickle(b) /\ Loads(b) = o
    BY <1>3, PickleLoads
  <2>3. t \in Byte /\ t = 16
    BY TagValues DEF Byte
  <2>. HIDE DEF b, t
  <2>4. s \in Seq(Byte) /\ Len(s) = 1 + Len(b) /\ Rest(s, 1) = b /\ s[1] = t
    BY <2>2, <2>3, FrameOfPart, RestOfPart
  <2>. HIDE DEF s
  <2>5. DeserializeWType(s) = DecodePickleBytes(b, Len(s))
    BY <2>3, <2>4, DispatchAlone
  <2>6. DecodePickleBytes(b, Len(s)) = Got(o, Len(s))
    BY <2>2 DEF DecodePickleBytes
  <2>7. Len(s) # 0
    BY <2>2, <2>4
  <2>. QED  BY <2>1, <2>4, <2>5, <2>6, <2>7 DEF ReadsAlone
<1>4. CASE o \in {NoneObj, TrueObj, FalseObj} /\ o.type \notin {"int", "str", "other"}
  <2>1. SerializeWType(o) = EncodeScalar(o)
    BY <1>4 DEF SerializeWType
  <2>. QED  BY <1>0, <1>4, <2>1, LoneCoded
<1>5. CASE o \in [type : {"float"}, float : Byte] /\ o.type = "float"
  <2>1. SerializeWType(o) = EncodeScalar(o)
    BY <1>5 DEF SerializeWType
  <2>. QED  BY <1>0, <1>5, <2>1, FloatCoded
<1>. QED  BY <1>1, <1>2, <1>3, <1>4, <1>5, Kinds
\* No two objects have the same bytes: the keys of a dictionary stay apart.
THEOREM BytesTellApart ==
    ASSUME NEW o, IsObject(o), o.type = "str" /\ OneByteKind(o.str) => Ascii(o.str),
           NEW q, IsObject(q), q.type = "str" /\ OneByteKind(q.str) => Ascii(q.str),
           SerializeWType(o) = SerializeWType(q)
    PROVE  o = q
<1> DEFINE n == Len(SerializeWType(o))
           m == Len(SerializeWType(q))
<1>1. DeserializeWType(SerializeWType(o)) = Got(o, n)
  BY ObjectAlone DEF ReadsAlone
<1>2. DeserializeWType(SerializeWType(q)) = Got(q, m)
  BY ObjectAlone DEF ReadsAlone
<1>3. Got(o, n).object = o /\ Got(q, m).object = q
  BY DEF Got
<1>. QED  BY <1>1, <1>2, <1>3
=============================================================================
