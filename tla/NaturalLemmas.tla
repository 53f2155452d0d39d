---------------------------- MODULE NaturalLemmas ----------------------------
(* Sets of numbers have least elements, so what holds of 0 and passes from a    *)
(* number to the next one holds of all.  The library states induction over a    *)
(* predicate, which the provers cannot take as a parameter: here it is the set  *)
(* of the numbers for which it holds.  With it, a function that is defined by   *)
(* recursion on a number exists, and has the values its definition says.        *)
EXTENDS Integers, FiniteSetTheorems, WellFoundedInduction, TLAPS

\* A set of numbers up to n has a least element: the intervals up to its elements
\* are ordered by inclusion, which is well founded.
LEMMA LeastElement ==
    ASSUME NEW n \in Nat, NEW T \in SUBSET (1..n), T # {}
    PROVE  \E x \in T : \A y \in T : x <= y
<1> DEFINE Upto == {1..i : i \in T}
<1>1. IsFiniteSet(1..n)
  BY FS_Interval
<1>2. IsWellFoundedOn(StrictSubsetOrdering(1..n), SUBSET (1..n))
  BY <1>1, FS_FiniteSubsetsOfFinite, FS_StrictSubsetOrderingWellFounded
<1>3. Upto \subseteq SUBSET (1..n) /\ Upto # {}
  <2>1. \A i \in T : 1..i \subseteq 1..n
    OBVIOUS
  <2>2. \A X \in Upto : X \in SUBSET (1..n)
    BY <2>1, Zenon
  <2>3. PICK i \in T : TRUE
    OBVIOUS
  <2>4. 1..i \in Upto
    BY Zenon
  <2> QED
    BY <2>2, <2>4, Zenon
<1> HIDE DEF Upto
<1>4. PICK X \in Upto : \A Y \in Upto : ~ (<<Y, X>> \in StrictSubsetOrdering(1..n))
  BY <1>2, <1>3, WFMin
<1>5. PICK x \in T : X = 1..x
  BY <1>4 DEF Upto
<1>6. ASSUME NEW y \in T
      PROVE  ~(y < x)
  <2>1. 1..y \in Upto
    BY DEF Upto
  <2>2. ~ (<<1..y, 1..x>> \in StrictSubsetOrdering(1..n))
    BY <1>4, <1>5, <2>1
  <2>3. ~ (1..y \subseteq 1..x /\ 1..y # 1..x)
    BY <2>2, <1>3, <1>5, <2>1 DEF StrictSubsetOrdering
  <2>4. y < x => 1..y \subseteq 1..x /\ x \in 1..x /\ x \notin 1..y
    OBVIOUS
  <2> QED
    BY <2>3, <2>4
<1> QED
  BY <1>6

\* A set of natural numbers has a least element: look below one of them.
LEMMA LeastNatural ==
    ASSUME NEW T \in SUBSET Nat, T # {}
    PROVE  \E x \in T : \A y \in T : x <= y
<1>1. PICK n \in T : TRUE
  OBVIOUS
<1> DEFINE Below == {i \in 1..(n + 1) : i - 1 \in T}
<1>2. n \in Nat /\ n + 1 \in Nat /\ Below \in SUBSET (1..(n + 1)) /\ Below # {}
  <2>1. n \in Nat /\ n + 1 \in 1..(n + 1) /\ (n + 1) - 1 = n
    BY <1>1
  <2>2. n + 1 \in Below
    BY <1>1, <2>1
  <2>3. Below \in SUBSET (1..(n + 1)) /\ Below # {}
    BY <2>2
  <2>. QED  BY <2>1, <2>3
<1>3. PICK m \in Below : \A y \in Below : m <= y
  <2>. HIDE DEF Below
  <2>. QED  BY ONLY <1>2, LeastElement
<1>4. m - 1 \in T /\ m \in 1..(n + 1)
  BY <1>3
<1>5. ASSUME NEW y \in T PROVE m - 1 <= y
  <2>1. CASE y <= n
    <3>1. y \in Nat /\ y + 1 \in 1..(n + 1) /\ (y + 1) - 1 = y
      BY <1>2, <2>1
    <3>2. y + 1 \in Below
      BY <3>1
    <3>3. m <= y + 1
      BY <1>3, <3>2
    <3>. QED  BY <1>4, <3>1, <3>3
  <2>2. CASE ~(y <= n)
    BY <1>2, <1>4, <2>2
  <2>. QED  BY <2>1, <2>2
<1>. QED  BY <1>4, <1>5

\* Induction: the numbers from 0 on are all there are.
LEMMA AllNaturals ==
    ASSUME NEW T \in SUBSET Nat, 0 \in T, \A n \in T : n + 1 \in T
    PROVE  T = Nat
<1>. SUFFICES ASSUME Nat \ T # {} PROVE FALSE
  OBVIOUS
<1>1. PICK x \in Nat \ T : \A y \in Nat \ T : x <= y
  BY LeastNatural
<1>2. x # 0 /\ x - 1 \in Nat
  BY <1>1
<1>3. x - 1 \in T
  BY <1>1, <1>2
<1>. QED  BY <1>1, <1>2, <1>3

\* Induction on all smaller numbers.
LEMMA AllFromSmaller ==
    ASSUME NEW T \in SUBSET Nat, \A n \in Nat : (\A m \in 0..(n - 1) : m \in T) => n \in T
    PROVE  T = Nat
<1>. SUFFICES ASSUME Nat \ T # {} PROVE FALSE
  OBVIOUS
<1>1. PICK x \in Nat \ T : \A y \in Nat \ T : x <= y
  BY LeastNatural
<1>2. ASSUME NEW m \in 0..(x - 1) PROVE m \in T
  BY <1>1, <1>2
<1>. QED  BY <1>1, <1>2

\* Numbers up to n with which all smaller ones are taken are those up to their count.
LEMMA Initial ==
    ASSUME NEW n \in Nat, NEW B \in SUBSET (1 .. n), \A i \in B : \A j \in 1 .. i : j \in B
    PROVE  Cardinality(B) \in 0 .. n /\ B = 1 .. Cardinality(B)
<1>1. CASE B = 1 .. n
  <2>1. Cardinality(1 .. n) = n
    BY FS_Interval
  <2>. QED  BY <1>1, <2>1
<1>2. CASE B # 1 .. n
  <2>1. PICK x \in (1 .. n) \ B : \A y \in (1 .. n) \ B : x <= y
    BY <1>2, LeastElement
  <2>2. ASSUME NEW y \in B PROVE y \in 1 .. (x - 1)
    <3>1. y \in 1 .. n /\ ~(x \in 1 .. y)
      BY <2>1, <2>2
    <3>. QED  BY <2>1, <3>1
  <2>3. ASSUME NEW y \in 1 .. (x - 1) PROVE y \in B
    BY <2>1, <2>3
  <2>4. B = 1 .. (x - 1)
    BY <2>2, <2>3
  <2>5. Cardinality(1 .. (x - 1)) = x - 1
    BY <2>1, FS_Interval
  <2>. QED  BY <2>1, <2>4, <2>5
<1>. QED  BY <1>1, <1>2

-----------------------------------------------------------------------------
(* Recursion on a number: step takes the value before to the next one. *)

Steps(f, N, a, step) == f[0] = a /\ \A i \in 1..N : f[i] = step[<<i, f[i - 1]>>]

\* A step always leads from a value to a value.
LEMMA RecursionHolds ==
    ASSUME NEW N \in Nat, NEW S, NEW a \in S, NEW step \in [(1..N) \X S -> S]
    PROVE  \E f \in [0..N -> S] : Steps(f, N, a, step)
<1> DEFINE Good(n, f) == f[0] = a /\ \A i \in 1..n : f[i] = step[<<i, f[i - 1]>>]
           T == {n \in Nat : n <= N => \E f \in [0..n -> S] : Good(n, f)}
<1>1. 0 \in T
  <2>1. [i \in 0..0 |-> a] \in [0..0 -> S] /\ Good(0, [i \in 0..0 |-> a])
    OBVIOUS
  <2>. QED  BY <2>1
<1>2. ASSUME NEW n \in T PROVE n + 1 \in T
  <2>. SUFFICES ASSUME n + 1 <= N PROVE \E f \in [0..(n + 1) -> S] : Good(n + 1, f)
    OBVIOUS
  <2>1. PICK f \in [0..n -> S] : Good(n, f)
    OBVIOUS
  <2> DEFINE g == [i \in 0..(n + 1) |-> IF i = n + 1 THEN step[<<n + 1, f[n]>>] ELSE f[i]]
  <2>2. n \in Nat /\ n + 1 \in 1..N /\ f[n] \in S
    OBVIOUS
  <2>3. step[<<n + 1, f[n]>>] \in S
    BY <2>2
  <2>4. g \in [0..(n + 1) -> S] /\ g[n + 1] = step[<<n + 1, f[n]>>]
    BY <2>2, <2>3
  <2>5. \A i \in 0..n : g[i] = f[i]
    BY <2>2
  <2>. HIDE DEF g
  <2>6. g[0] = a
    BY <2>1, <2>2, <2>5
  <2>7. ASSUME NEW i \in 1..(n + 1) PROVE g[i] = step[<<i, g[i - 1]>>]
    <3>1. CASE i = n + 1
      <4>1. i - 1 = n /\ n \in 0..n
        BY <2>2, <3>1
      <4>. QED  BY <2>4, <2>5, <3>1, <4>1
    <3>2. CASE i # n + 1
      <4>1. i \in 1..n /\ i \in 0..n /\ i - 1 \in 0..n
        BY <2>2, <3>2
      <4>. QED  BY <2>1, <2>5, <4>1
    <3>. QED  BY <3>1, <3>2
  <2>. QED  BY <2>4, <2>6, <2>7
<1>3. T = Nat
  <2>. HIDE DEF T
  <2>1. T \in SUBSET Nat
    BY DEF T
  <2>. QED  BY <1>1, <1>2, <2>1, AllNaturals
<1>4. \E f \in [0..N -> S] : Good(N, f)
  <2>. HIDE DEF Good
  <2>. QED  BY <1>3
<1>. QED  BY <1>4 DEF Steps

\* Two functions that begin alike, and go on alike from there, are alike.
StepAlike(f, g, N) == f[0] = g[0] /\ \A i \in 1..N : f[i - 1] = g[i - 1] => f[i] = g[i]
Alike(f, g, N) == \A i \in 0..N : f[i] = g[i]

LEMMA RecursionAgrees ==
    ASSUME NEW N \in Nat, NEW f, NEW g, StepAlike(f, g, N)
    PROVE  Alike(f, g, N)
<1>. USE DEF StepAlike, Alike
<1> DEFINE T == {i \in Nat : i <= N => f[i] = g[i]}
<1>1. 0 \in T
  OBVIOUS
<1>2. ASSUME NEW i \in T PROVE i + 1 \in T
  <2>1. i + 1 <= N => i + 1 \in 1..N /\ (i + 1) - 1 = i /\ i <= N
    OBVIOUS
  <2>. QED  BY <2>1
<1>3. T = Nat
  <2>. HIDE DEF T
  <2>1. T \in SUBSET Nat
    BY DEF T
  <2>. QED  BY <1>1, <1>2, <2>1, AllNaturals
<1>. QED  BY <1>3
=============================================================================
