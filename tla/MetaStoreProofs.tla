--------------------------- MODULE MetaStoreProofs ---------------------------
(* MetaComparator gives RocksDB a strict total order on every set of keys, of  *)
(* whatever lengths: what a comparator has to be for lookups to find entries.  *)
(* With it the binary search and the insertion of RocksDB keep the entries of  *)
(* a meta column family in order, whatever names are written, and since no two *)
(* objects have the same bytes the entries are the dictionary that was set.    *)
EXTENDS MetaStore, SerializerProofs

-----------------------------------------------------------------------------
(* The comparator *)

\* A key has at least its first byte.
Key == {k \in Seq(Nat) : Len(k) >= 1}

(* Two different sequences of one length differ at a first place. *)
LEMMA FirstDifferenceExists ==
    ASSUME NEW a \in Seq(Nat), NEW b \in Seq(Nat), Len(a) = Len(b), a # b
    PROVE  /\ FirstDifference(a, b) \in 1..Len(a)
           /\ a[FirstDifference(a, b)] # b[FirstDifference(a, b)]
           /\ \A j \in 1..(FirstDifference(a, b) - 1) : a[j] = b[j]
<1> DEFINE T == {i \in 1..Len(a) : a[i] # b[i]}
<1>1. T # {}
  OBVIOUS
<1>2. T \in SUBSET (1..Len(a)) /\ Len(a) \in Nat
  OBVIOUS
<1>3. PICK i \in T : \A y \in T : i <= y
  BY <1>1, <1>2, LeastElement
<1>4. /\ i \in DOMAIN a
      /\ a[i] # b[i]
      /\ \A j \in 1..(i - 1) : a[j] = b[j]
  BY <1>3
<1>5. \E k \in DOMAIN a : a[k] # b[k] /\ \A j \in 1..(k - 1) : a[j] = b[j]
  BY <1>4, Zenon
<1>6. /\ FirstDifference(a, b) \in DOMAIN a
      /\ a[FirstDifference(a, b)] # b[FirstDifference(a, b)]
      /\ \A j \in 1..(FirstDifference(a, b) - 1) : a[j] = b[j]
  BY <1>5, Zenon DEF FirstDifference
<1>7. DOMAIN a = 1..Len(a)
  OBVIOUS
<1> QED
  BY <1>6, <1>7, Zenon

(* Any place where two sequences differ first is the one memcmp decides at. *)
LEMMA FirstDifferenceUnique ==
    ASSUME NEW a \in Seq(Nat), NEW b \in Seq(Nat), Len(a) = Len(b),
           NEW i \in 1..Len(a), a[i] # b[i], \A j \in 1..(i - 1) : a[j] = b[j]
    PROVE  FirstDifference(a, b) = i
<1> DEFINE d == FirstDifference(a, b)
<1>1. /\ d \in 1..Len(a)
      /\ a[d] # b[d]
      /\ \A j \in 1..(d - 1) : a[j] = b[j]
  BY FirstDifferenceExists
<1>2. ~(d < i) /\ ~(i < d)
  BY <1>1
<1> QED
  BY <1>1, <1>2

(* memcmp finds equal exactly what is equal. *)
LEMMA MemcmpZero ==
    ASSUME NEW a \in Seq(Nat), NEW b \in Seq(Nat), Len(a) = Len(b)
    PROVE  Memcmp(a, b) = 0 <=> a = b
BY DEF Memcmp

(* Swapping the arguments of memcmp swaps its answer. *)
LEMMA MemcmpAntisymmetric ==
    ASSUME NEW a \in Seq(Nat), NEW b \in Seq(Nat), Len(a) = Len(b)
    PROVE  Memcmp(a, b) < 0 <=> Memcmp(b, a) > 0
<1>1. CASE a = b
  BY <1>1 DEF Memcmp
<1>2. CASE a # b
  <2> DEFINE d == FirstDifference(a, b)
  <2>1. /\ d \in 1..Len(a)
        /\ a[d] # b[d]
        /\ \A j \in 1..(d - 1) : a[j] = b[j]
    BY <1>2, FirstDifferenceExists
  <2>2. FirstDifference(b, a) = d
    BY <2>1, FirstDifferenceUnique
  <2>3. a[d] \in Nat /\ b[d] \in Nat
    BY <2>1
  <2> QED
    BY <1>2, <2>1, <2>2, <2>3 DEF Memcmp
<1> QED
  BY <1>1, <1>2

(* memcmp orders the sequences of one length transitively. *)
LEMMA MemcmpTransitive ==
    ASSUME NEW a \in Seq(Nat), NEW b \in Seq(Nat), NEW c \in Seq(Nat),
           Len(a) = Len(b), Len(b) = Len(c),
           Memcmp(a, b) < 0, Memcmp(b, c) < 0
    PROVE  Memcmp(a, c) < 0
<1> DEFINE d == FirstDifference(a, b)
           e == FirstDifference(b, c)
<1>1. a # b /\ b # c
  BY DEF Memcmp
<1>2. /\ d \in 1..Len(a)
      /\ \A j \in 1..(d - 1) : a[j] = b[j]
      /\ a[d] < b[d]
  <2>1. /\ d \in 1..Len(a)
        /\ \A j \in 1..(d - 1) : a[j] = b[j]
    BY <1>1, FirstDifferenceExists
  <2>2. a[d] < b[d]
    BY <1>1 DEF Memcmp
  <2> QED
    BY <2>1, <2>2
<1>3. /\ e \in 1..Len(a)
      /\ \A j \in 1..(e - 1) : b[j] = c[j]
      /\ b[e] < c[e]
  <2>1. /\ e \in 1..Len(b)
        /\ \A j \in 1..(e - 1) : b[j] = c[j]
    BY <1>1, FirstDifferenceExists
  <2>2. b[e] < c[e]
    BY <1>1 DEF Memcmp
  <2> QED
    BY <2>1, <2>2
<1>4. PICK i \in 1..Len(a) : /\ a[i] < c[i]
                             /\ \A j \in 1..(i - 1) : a[j] = c[j]
  <2> HIDE DEF d, e
  <2>1. CASE d < e
    <3>1. d \in 1..(e - 1) /\ 1..(d - 1) \subseteq 1..(e - 1)
      BY <1>2, <1>3, <2>1
    <3>2. a[d] < c[d] /\ \A j \in 1..(d - 1) : a[j] = c[j]
      BY <1>2, <1>3, <3>1
    <3> QED
      BY <1>2, <3>2
  <2>2. CASE d > e
    <3>1. e \in 1..(d - 1) /\ 1..(e - 1) \subseteq 1..(d - 1)
      BY <1>2, <1>3, <2>2
    <3>2. a[e] < c[e] /\ \A j \in 1..(e - 1) : a[j] = c[j]
      BY <1>2, <1>3, <3>1
    <3> QED
      BY <1>3, <3>2
  <2>3. CASE d = e
    <3>1. a[d] \in Nat /\ b[d] \in Nat /\ c[d] \in Nat
      BY <1>2
    <3>2. a[d] < c[d] /\ \A j \in 1..(d - 1) : a[j] = c[j]
      BY <1>2, <1>3, <2>3, <3>1
    <3> QED
      BY <1>2, <3>2
  <2> QED
    BY <1>2, <1>3, <2>1, <2>2, <2>3
<1>5. a[i] \in Nat /\ c[i] \in Nat
  BY <1>4
<1>6. a[i] # c[i] /\ a # c
  BY <1>4, <1>5
<1>7. FirstDifference(a, c) = i
  BY <1>4, <1>6, FirstDifferenceUnique
<1> QED
  BY <1>4, <1>6, <1>7 DEF Memcmp

-----------------------------------------------------------------------------
(* A key has a type byte in front, which Compare reads first. *)
LEMMA KeyType ==
    ASSUME NEW a \in Key
    PROVE  a[1] \in Nat /\ Len(a) \in Nat /\ a \in Seq(Nat) /\ a # <<>>
BY DEF Key

(* What Compare hands to memcmp is the key behind its type byte. *)
LEMMA TailType ==
    ASSUME NEW a \in Key
    PROVE  Tail(a) \in Seq(Nat) /\ Len(Tail(a)) = Len(a) - 1
BY KeyType

(* Keys of one type that are equal behind it are the same key. *)
LEMMA TailsEqual ==
    ASSUME NEW a \in Key, NEW b \in Key, a[1] = b[1], Tail(a) = Tail(b)
    PROVE  a = b
<1>1. a \in Seq(Nat) /\ b \in Seq(Nat) /\ a # <<>> /\ b # <<>>
  BY KeyType
<1>2. Len(a) = Len(b)
  BY <1>1, TailType
<1>3. \A i \in 2..Len(a) : a[i] = Tail(a)[i - 1] /\ b[i] = Tail(b)[i - 1]
  BY <1>1, <1>2
<1>4. \A i \in 1..Len(a) : a[i] = b[i]
  <2> TAKE i \in 1..Len(a)
  <2>1. i = 1 \/ i \in 2..Len(a)
    BY <1>1
  <2>2. i \in 2..Len(a) => a[i] = b[i]
    BY <1>3, Zenon
  <2> QED
    BY <2>1, <2>2
<1> QED
  BY <1>1, <1>2, <1>4

(* The four ways in which Compare reaches its answer. *)
LEMMA CompareCases ==
    ASSUME NEW a \in Key, NEW b \in Key
    PROVE  /\ a[1] < b[1] => Compare(a, b) = -1
           /\ a[1] > b[1] => Compare(a, b) = 1
           /\ a[1] = b[1] /\ Len(a) < Len(b) => Compare(a, b) = -1
           /\ a[1] = b[1] /\ Len(a) > Len(b) => Compare(a, b) = 1
           /\ a[1] = b[1] /\ Len(a) = Len(b) => Compare(a, b) = Memcmp(Tail(a), Tail(b))
BY KeyType DEF Compare

(* Two keys compare equal only if they are the same key: an assignment never   *)
(* overwrites another entry, and never adds a second one for its own key.      *)
THEOREM CompareZero ==
    \A a, b \in Key : Compare(a, b) = 0 <=> a = b
<1> SUFFICES ASSUME NEW a \in Key, NEW b \in Key
             PROVE  Compare(a, b) = 0 <=> a = b
  OBVIOUS
<1>1. CASE a[1] # b[1] \/ Len(a) # Len(b)
  BY <1>1, KeyType, CompareCases
<1>2. CASE a[1] = b[1] /\ Len(a) = Len(b)
  <2>1. Compare(a, b) = Memcmp(Tail(a), Tail(b))
    BY <1>2, KeyType, CompareCases
  <2>2. Tail(a) \in Seq(Nat) /\ Tail(b) \in Seq(Nat) /\ Len(Tail(a)) = Len(Tail(b))
    BY <1>2, TailType
  <2>3. Memcmp(Tail(a), Tail(b)) = 0 <=> Tail(a) = Tail(b)
    BY <2>2, MemcmpZero
  <2> QED
    BY <1>2, <2>1, <2>3, TailsEqual
<1> QED
  BY <1>1, <1>2

(* The answer for two keys does not depend on which of them is asked about.    *)
THEOREM CompareAntisymmetric ==
    \A a, b \in Key : Compare(a, b) < 0 <=> Compare(b, a) > 0
<1> SUFFICES ASSUME NEW a \in Key, NEW b \in Key
             PROVE  Compare(a, b) < 0 <=> Compare(b, a) > 0
  OBVIOUS
<1>1. CASE a[1] # b[1] \/ Len(a) # Len(b)
  <2>1. /\ a[1] \in Nat /\ b[1] \in Nat /\ Len(a) \in Nat /\ Len(b) \in Nat
        /\ a[1] < b[1] => Compare(a, b) = -1 /\ Compare(b, a) = 1
        /\ a[1] > b[1] => Compare(a, b) = 1 /\ Compare(b, a) = -1
        /\ a[1] = b[1] /\ Len(a) < Len(b) => Compare(a, b) = -1 /\ Compare(b, a) = 1
        /\ a[1] = b[1] /\ Len(a) > Len(b) => Compare(a, b) = 1 /\ Compare(b, a) = -1
    BY KeyType, CompareCases
  <2> QED
    BY ONLY <1>1, <2>1
<1>2. CASE a[1] = b[1] /\ Len(a) = Len(b)
  <2>1. Compare(a, b) = Memcmp(Tail(a), Tail(b)) /\ Compare(b, a) = Memcmp(Tail(b), Tail(a))
    BY <1>2, KeyType, CompareCases
  <2> QED
    BY <1>2, <2>1, KeyType, TailType, MemcmpAntisymmetric
<1> QED
  BY <1>1, <1>2

(* The order is transitive across kinds, lengths and contents, so that the     *)
(* place of a key among sorted entries is well defined.                        *)
THEOREM CompareTransitive ==
    \A a, b, c \in Key : Compare(a, b) < 0 /\ Compare(b, c) < 0 => Compare(a, c) < 0
<1> SUFFICES ASSUME NEW a \in Key, NEW b \in Key, NEW c \in Key,
                    Compare(a, b) < 0, Compare(b, c) < 0
             PROVE  Compare(a, c) < 0
  OBVIOUS
<1>1. a[1] <= b[1] /\ b[1] <= c[1]
  BY KeyType, CompareCases
<1>2. CASE a[1] < c[1]
  BY <1>2, KeyType, CompareCases
<1>3. CASE a[1] = c[1]
  <2>1. a[1] = b[1] /\ b[1] = c[1]
    BY <1>1, <1>3, KeyType, TailType
  <2>2. Len(a) <= Len(b) /\ Len(b) <= Len(c)
    <3>1. ASSUME NEW x \in Key, NEW y \in Key, x[1] = y[1], Compare(x, y) < 0
          PROVE  Len(x) <= Len(y)
      <4>1. Len(x) \in Nat /\ Len(y) \in Nat
        BY KeyType
      <4>2. Len(x) > Len(y) => Compare(x, y) = 1
        BY <3>1, CompareCases
      <4>. QED  BY ONLY <3>1, <4>1, <4>2
    <3>. QED  BY <2>1, <3>1
  <2>3. CASE Len(a) < Len(c)
    BY <1>3, <2>3, KeyType, CompareCases
  <2>4. CASE Len(a) = Len(c)
    <3>1. Len(a) = Len(b) /\ Len(b) = Len(c)
      BY <2>2, <2>4, KeyType, TailType
    <3>2. /\ Compare(a, b) = Memcmp(Tail(a), Tail(b))
          /\ Compare(b, c) = Memcmp(Tail(b), Tail(c))
          /\ Compare(a, c) = Memcmp(Tail(a), Tail(c))
      BY <2>1, <3>1, KeyType, CompareCases
    <3>3. /\ Tail(a) \in Seq(Nat) /\ Tail(b) \in Seq(Nat) /\ Tail(c) \in Seq(Nat)
          /\ Len(Tail(a)) = Len(Tail(b)) /\ Len(Tail(b)) = Len(Tail(c))
      BY <3>1, TailType
    <3>4. Memcmp(Tail(a), Tail(c)) < 0
      BY <3>2, <3>3, MemcmpTransitive
    <3> QED
      BY <3>2, <3>4
  <2> QED
    BY <2>2, <2>3, <2>4, KeyType, TailType
<1> QED
  BY <1>1, <1>2, <1>3, KeyType, TailType

-----------------------------------------------------------------------------
(* The entries *)

\* The keys that setMeta writes, and the entries that have one.
Written == {KeyBytes(kind, key) : kind \in Kind, key \in KeyObject}
Entry == [key : Written, value : {SerializeWType(value) : value \in ValueObject}]

\* The inductive invariant: entries ascend, in one direction.
Ascending == \A i, j \in DOMAIN entries : i < j => Compare(entries[i].key, entries[j].key) < 0
Inv == entries \in Seq(Entry) /\ Len(entries) <= MaxEntries /\ Ascending

\* What setMeta writes as a key has a kind in front.
LEMMA WrittenKeys == Written \subseteq Key
<1>1. ASSUME NEW kind \in Kind PROVE kind \in Nat
  <2>1. DOMAIN MetaType = {"Metric", "Field", "Param"}
        /\ MetaType["Metric"] = 0 /\ MetaType["Field"] = 2 /\ MetaType["Param"] = 4
    BY DEF MetaType
  <2>. QED  BY <2>1 DEF Kind
<1>2. ASSUME NEW kind \in Kind, NEW key \in KeyObject PROVE KeyBytes(kind, key) \in Key
  <2>1. kind \in Nat /\ SerializeWType(key) \in Seq(Nat)
    <3>1. SerializeWType(key) \in Seq(Byte)
      BY ItemAssumption, TextAssumption, ObjectAlone
    <3>2. \A b \in Byte : b \in Nat
      BY DEF Byte
    <3>. QED  BY <1>1, <3>1, <3>2, SeqOfMore
  <2>. QED  BY <2>1 DEF KeyBytes, Key
<1>. QED  BY <1>2 DEF Written

\* What is in the store.
LEMMA EntryTypes ==
    ASSUME Inv
    PROVE  /\ entries \in Seq(Entry) /\ DOMAIN entries = 1 .. Len(entries) /\ Len(entries) \in Nat
           /\ \A i \in DOMAIN entries :
                 entries[i] \in Entry /\ entries[i].key \in Written /\ entries[i].key \in Key
<1>1. entries \in Seq(Entry) /\ DOMAIN entries = 1 .. Len(entries) /\ Len(entries) \in Nat
  BY DEF Inv
<1>2. ASSUME NEW i \in DOMAIN entries
      PROVE  entries[i] \in Entry /\ entries[i].key \in Written /\ entries[i].key \in Key
  <2>1. entries[i] \in Entry
    BY <1>1, <1>2
  <2>2. entries[i].key \in Written
    BY <2>1 DEF Entry
  <2>. QED  BY <2>1, <2>2, WrittenKeys
<1>. QED  BY <1>1, <1>2

\* The comparator answers with -1, 0 or 1.
LEMMA Answers == ASSUME NEW a \in Key, NEW b \in Key PROVE Compare(a, b) \in {-1, 0, 1}
<1>1. a[1] \in Nat /\ b[1] \in Nat /\ Len(a) \in Nat /\ Len(b) \in Nat
  BY KeyType
<1>. QED  BY <1>1 DEF Compare, Memcmp

\* Where the elements are after one has been inserted.
LEMMA Inserted ==
    ASSUME NEW S, NEW s \in Seq(S), NEW e \in S, NEW p \in 1 .. Len(s) + 1
    PROVE  /\ InsertAt(s, p, e) \in Seq(S) /\ Len(InsertAt(s, p, e)) = Len(s) + 1
           /\ \A i \in 1 .. Len(s) + 1 :
                InsertAt(s, p, e)[i] = IF i < p THEN s[i] ELSE IF i = p THEN e ELSE s[i - 1]
<1> DEFINE front == SubSeq(s, 1, p - 1)
           back == SubSeq(s, p, Len(s))
<1>1. Len(s) \in Nat /\ p \in Nat
  OBVIOUS
<1>2. /\ front \in Seq(S) /\ Len(front) = p - 1
      /\ \A i \in 1 .. p - 1 : front[i] = s[i]
  BY <1>1
<1>3. /\ back \in Seq(S) /\ Len(back) = Len(s) - p + 1
      /\ \A i \in 1 .. Len(s) - p + 1 : back[i] = s[p + i - 1]
  BY <1>1
<1>. HIDE DEF front, back
<1>4. InsertAt(s, p, e) = (front \o <<e>>) \o back
  BY DEF InsertAt, front, back
<1>5. /\ front \o <<e>> \in Seq(S) /\ Len(front \o <<e>>) = p
      /\ \A i \in 1 .. p : (front \o <<e>>)[i] = IF i < p THEN s[i] ELSE e
  BY <1>1, <1>2
<1>6. InsertAt(s, p, e) \in Seq(S) /\ Len(InsertAt(s, p, e)) = Len(s) + 1
  <2>1. ASSUME NEW a \in Seq(S), NEW b \in Seq(S)
        PROVE  a \o b \in Seq(S) /\ Len(a \o b) = Len(a) + Len(b)
    BY ONLY <2>1
  <2>2. /\ (front \o <<e>>) \o back \in Seq(S)
        /\ Len((front \o <<e>>) \o back) = Len(front \o <<e>>) + Len(back)
    BY ONLY <1>3, <1>5, <2>1
  <2>. QED  BY <1>1, <1>3, <1>4, <1>5, <2>2
<1>7. ASSUME NEW i \in 1 .. Len(s) + 1
      PROVE  InsertAt(s, p, e)[i] = IF i < p THEN s[i] ELSE IF i = p THEN e ELSE s[i - 1]
  <2>1. CASE i <= p
    BY <1>1, <1>3, <1>4, <1>5, <2>1
  <2>2. CASE i > p
    <3>1. InsertAt(s, p, e)[i] = back[i - p]
      BY <1>1, <1>3, <1>4, <1>5, <2>2
    <3>2. back[i - p] = s[i - 1]
      BY <1>1, <1>3, <2>2
    <3>. QED  BY <1>1, <2>2, <3>1, <3>2
  <2>. QED  BY <1>1, <2>1, <2>2
<1>. QED  BY <1>6, <1>7

\* The comparator alone finds the place of a key: what is in front of it is less.
LEMMA PlaceSplits ==
    ASSUME Inv, NEW k \in Key
    PROVE  /\ PlaceOf(k) \in 1 .. Len(entries) + 1
           /\ \A i \in DOMAIN entries : i < PlaceOf(k) <=> Compare(entries[i].key, k) < 0
<1> DEFINE B == {i \in DOMAIN entries : Compare(entries[i].key, k) < 0}
<1>1. /\ DOMAIN entries = 1 .. Len(entries) /\ Len(entries) \in Nat
      /\ \A i \in DOMAIN entries : entries[i].key \in Key
  BY EntryTypes
<1>2. ASSUME NEW i \in B, NEW j \in 1 .. i PROVE j \in B
  <2>1. CASE j = i  BY <2>1
  <2>2. CASE j # i
    <3>1. i \in DOMAIN entries /\ j \in DOMAIN entries /\ j < i
      BY <1>1, <2>2
    <3>2. Compare(entries[j].key, entries[i].key) < 0 /\ Compare(entries[i].key, k) < 0
      BY <3>1 DEF Inv, Ascending
    <3>3. Compare(entries[j].key, k) < 0
      BY <1>1, <3>1, <3>2, CompareTransitive
    <3>. QED  BY <3>1, <3>3
  <2>. QED  BY <2>1, <2>2
<1>3. B \in SUBSET (1 .. Len(entries))
  BY <1>1
<1>4. PlaceOf(k) = Cardinality(B) + 1
  BY DEF PlaceOf
<1>5. \A i \in DOMAIN entries : i \in B <=> Compare(entries[i].key, k) < 0
  OBVIOUS
<1>. HIDE DEF B
<1>6. Cardinality(B) \in 0 .. Len(entries) /\ B = 1 .. Cardinality(B)
  BY <1>1, <1>2, <1>3, Initial
<1>. QED  BY <1>1, <1>4, <1>5, <1>6

\* What is at its place or behind is greater, unless the key is found.
LEMMA BehindIsGreater ==
    ASSUME Inv, NEW k \in Key, ~Found(k), NEW i \in DOMAIN entries, i >= PlaceOf(k)
    PROVE  Compare(k, entries[i].key) < 0
<1>1. /\ DOMAIN entries = 1 .. Len(entries) /\ Len(entries) \in Nat
      /\ \A j \in DOMAIN entries : entries[j].key \in Key
  BY EntryTypes
<1>2. PlaceOf(k) \in DOMAIN entries /\ ~(Compare(entries[PlaceOf(k)].key, k) < 0)
  BY <1>1, PlaceSplits
<1>3. Compare(entries[PlaceOf(k)].key, k) # 0
  BY <1>2 DEF Found
<1>4. Compare(entries[PlaceOf(k)].key, k) > 0
  BY <1>1, <1>2, <1>3, Answers
<1>5. Compare(k, entries[PlaceOf(k)].key) < 0
  BY <1>1, <1>2, <1>4, CompareAntisymmetric
<1>6. CASE i = PlaceOf(k)
  BY <1>5, <1>6
<1>7. CASE i # PlaceOf(k)
  <2>1. Compare(entries[PlaceOf(k)].key, entries[i].key) < 0
    BY <1>1, <1>2, <1>7 DEF Inv, Ascending
  <2>. QED  BY <1>1, <1>2, <1>5, <2>1, CompareTransitive
<1>. QED  BY <1>6, <1>7

\* The comparator finds a key that is there, and no other.
LEMMA FoundIsThere ==
    ASSUME Inv, NEW k \in Key
    PROVE  Found(k) <=> \E i \in DOMAIN entries : entries[i].key = k
<1> DEFINE p == PlaceOf(k)
<1>1. /\ DOMAIN entries = 1 .. Len(entries) /\ Len(entries) \in Nat
      /\ \A i \in DOMAIN entries : entries[i].key \in Key
  BY EntryTypes
<1>2. /\ p \in 1 .. Len(entries) + 1
      /\ \A i \in DOMAIN entries : i < p <=> Compare(entries[i].key, k) < 0
  BY PlaceSplits
<1>3. Found(k) <=> p \in DOMAIN entries /\ Compare(entries[p].key, k) = 0
  BY DEF Found
<1>. HIDE DEF p
<1>4. ASSUME Found(k) PROVE \E i \in DOMAIN entries : entries[i].key = k
  BY <1>1, <1>3, <1>4, CompareZero
<1>5. ASSUME NEW i \in DOMAIN entries, entries[i].key = k PROVE Found(k)
  <2>1. Compare(entries[i].key, k) = 0
    BY <1>1, <1>5, CompareZero
  <2>2. ~(i < p)
    BY <1>1, <1>2, <2>1
  <2>3. p \in DOMAIN entries
    BY <1>1, <1>2, <2>2
  <2>4. CASE i = p
    BY <1>3, <2>1, <2>3, <2>4
  <2>5. CASE i # p
    <3>1. p < i
      BY <1>1, <1>2, <2>2, <2>5
    <3>2. Compare(entries[p].key, k) < 0
      BY <1>5, <2>3, <3>1 DEF Inv, Ascending
    <3>. QED  BY <1>2, <2>3, <3>2
  <2>. QED  BY <2>4, <2>5
<1>. QED  BY <1>4, <1>5

\* setMeta keeps the order, be the key overwritten or inserted.
LEMMA SetMetaKeeps ==
    ASSUME Inv, NEW kind \in Kind, NEW key \in KeyObject, NEW value \in ValueObject,
           SetMeta(kind, key, value)
    PROVE  Inv'
<1> DEFINE k == KeyBytes(kind, key)
           p == PlaceOf(k)
           entry == [key |-> k, value |-> SerializeWType(value)]
<1>1. k \in Written /\ k \in Key /\ entry \in Entry /\ entry.key = k
  BY WrittenKeys DEF Written, Entry
<1>2. /\ DOMAIN entries = 1 .. Len(entries) /\ Len(entries) \in Nat /\ entries \in Seq(Entry)
      /\ \A i \in DOMAIN entries : entries[i].key \in Key
  BY EntryTypes
<1>3. /\ p \in 1 .. Len(entries) + 1
      /\ \A i \in DOMAIN entries : i < p <=> Compare(entries[i].key, k) < 0
  BY <1>1, PlaceSplits
<1>4. \/ Found(k) /\ entries' = [entries EXCEPT ![p] = entry]
      \/ ~Found(k) /\ Len(entries) < MaxEntries /\ entries' = InsertAt(entries, p, entry)
  BY DEF SetMeta
<1>5. \A i \in DOMAIN entries : ~Found(k) /\ i >= p => Compare(k, entries[i].key) < 0
  BY <1>1, BehindIsGreater
<1>6. Found(k) => p \in DOMAIN entries /\ Compare(entries[p].key, k) = 0
  BY DEF Found
<1>. HIDE DEF k, p, entry
<1>7. CASE Found(k) /\ entries' = [entries EXCEPT ![p] = entry]
  <2>1. p \in DOMAIN entries /\ entries[p].key = k
    BY <1>1, <1>2, <1>6, <1>7, CompareZero
  <2>2. entries' \in Seq(Entry) /\ DOMAIN entries' = DOMAIN entries /\ Len(entries') = Len(entries)
    BY <1>1, <1>2, <1>7, <2>1
  <2>3. \A i \in DOMAIN entries : entries'[i].key = entries[i].key
    BY <1>1, <1>2, <1>7, <2>1
  <2>4. Ascending'
    BY <2>2, <2>3 DEF Inv, Ascending
  <2>. QED  BY <2>2, <2>4 DEF Inv
<1>8. CASE ~Found(k) /\ Len(entries) < MaxEntries /\ entries' = InsertAt(entries, p, entry)
  <2>1. /\ entries' \in Seq(Entry) /\ Len(entries') = Len(entries) + 1
        /\ DOMAIN entries' = 1 .. Len(entries) + 1
        /\ \A i \in 1 .. Len(entries) + 1 :
              entries'[i] = IF i < p THEN entries[i] ELSE IF i = p THEN entry ELSE entries[i - 1]
    <3> DEFINE longer == InsertAt(entries, p, entry)
    <3>1. /\ longer \in Seq(Entry) /\ Len(longer) = Len(entries) + 1
          /\ \A i \in 1 .. Len(entries) + 1 :
                longer[i] = IF i < p THEN entries[i] ELSE IF i = p THEN entry ELSE entries[i - 1]
      <4>1. entries \in Seq(Entry) /\ entry \in Entry /\ p \in 1 .. Len(entries) + 1
        BY <1>1, <1>2, <1>3
      <4>. QED  BY <4>1, Inserted
    <3>. HIDE DEF longer
    <3>2. DOMAIN longer = 1 .. Len(entries) + 1
      BY <3>1
    <3>3. entries' = longer
      BY <1>8 DEF longer
    <3>. QED  BY <3>1, <3>2, <3>3
  <2>2. ASSUME NEW i \in DOMAIN entries', NEW j \in DOMAIN entries', i < j
        PROVE  Compare(entries'[i].key, entries'[j].key) < 0
    <3>1. CASE j < p
      BY <1>2, <1>3, <2>1, <2>2, <3>1 DEF Inv, Ascending
    <3>2. CASE j = p
      BY <1>1, <1>2, <1>3, <2>1, <2>2, <3>2
    <3>3. CASE i = p
      BY <1>1, <1>2, <1>3, <1>5, <1>8, <2>1, <2>2, <3>3
    <3>4. CASE i < p /\ p < j
      BY <1>2, <1>3, <2>1, <2>2, <3>4 DEF Inv, Ascending
    <3>5. CASE p < i
      <4>1. i - 1 \in DOMAIN entries /\ j - 1 \in DOMAIN entries /\ i - 1 < j - 1
        BY <1>2, <1>3, <2>1, <2>2, <3>5
      <4>2. entries'[i] = entries[i - 1] /\ entries'[j] = entries[j - 1]
        BY <1>2, <1>3, <2>1, <2>2, <3>5
      <4>. QED  BY <4>1, <4>2 DEF Inv, Ascending
    <3>. QED  BY <1>2, <1>3, <2>1, <2>2, <3>1, <3>2, <3>3, <3>4, <3>5
  <2>3. Len(entries') <= MaxEntries
    BY <1>2, <1>8, <2>1, EntriesAssumption
  <2>. QED  BY <2>1, <2>2, <2>3 DEF Inv, Ascending
<1>. QED  BY <1>4, <1>7, <1>8

LEMMA Invariance == Spec => []Inv
<1>1. Init => Inv
  BY EntriesAssumption DEF Init, Inv, Ascending
<1>2. Inv /\ [Next]_vars => Inv'
  <2>. SUFFICES ASSUME Inv, [Next]_vars PROVE Inv'
    OBVIOUS
  <2>1. CASE Next
    BY <2>1, SetMetaKeeps DEF Next
  <2>2. CASE UNCHANGED vars
    BY <2>2 DEF vars, Inv, Ascending
  <2>. QED  BY <2>1, <2>2
<1>. QED  BY <1>1, <1>2, PTL DEF Spec
\* No two entries have the same key.
LEMMA KeysDiffer ==
    ASSUME Inv, NEW i \in DOMAIN entries, NEW j \in DOMAIN entries,
           entries[i].key = entries[j].key
    PROVE  i = j
<1>1. DOMAIN entries = 1 .. Len(entries) /\ Len(entries) \in Nat /\ entries[i].key \in Key
  BY EntryTypes
<1>2. Compare(entries[i].key, entries[i].key) = 0
  BY <1>1, CompareZero
<1>3. ~(i < j) /\ ~(j < i)
  BY <1>2 DEF Inv, Ascending
<1>. QED  BY <1>1, <1>3

-----------------------------------------------------------------------------
(* The dictionary.  A second invariant, on top of the order: the entries are   *)
(* the items of dict, one each.                                                *)

Item == Kind \X KeyObject
KeyOf(x) == KeyBytes(x[1], x[2])
IsItem(entry, x, value) == entry.key = KeyOf(x) /\ entry.value = SerializeWType(value)

DictInv ==
    /\ DOMAIN dict \in SUBSET Item /\ dict \in [DOMAIN dict -> ValueObject]
    /\ IsFiniteSet(DOMAIN dict) /\ Len(entries) = Cardinality(DOMAIN dict)
    /\ \A i \in DOMAIN entries : \E x \in DOMAIN dict : IsItem(entries[i], x, dict[x])
    /\ \A x \in DOMAIN dict : \E i \in DOMAIN entries : entries[i].key = KeyOf(x)

\* What setMeta writes for a name is not empty, and is read back as the name.
LEMMA NameBytes ==
    ASSUME NEW o \in KeyObject \cup ValueObject
    PROVE  /\ SerializeWType(o) \in Seq(Byte) /\ Len(SerializeWType(o)) # 0
           /\ DeserializeWType(SerializeWType(o)).object = o
<1>1. /\ SerializeWType(o) \in Seq(Byte) /\ Len(SerializeWType(o)) # 0
      /\ ReadsAlone(o, SerializeWType(o))
  BY ItemAssumption, TextAssumption, ObjectAlone
<1>2. \A n : Got(o, n).object = o
  BY DEF Got
<1>. QED  BY <1>1, <1>2 DEF ReadsAlone

LEMMA KindByte ==
    ASSUME NEW kind, NEW s \in Seq(Byte)
    PROVE  /\ (<<kind>> \o s)[1] = kind /\ Tail(<<kind>> \o s) = s
           /\ Len(<<kind>> \o s) = 1 + Len(s)
<1> DEFINE T == Byte \cup {kind}
           k == <<kind>> \o s
           rest == Tail(k)
<1>1. s \in Seq(T)
  <2>1. \A b \in Byte : b \in T
    OBVIOUS
  <2>. HIDE DEF T
  <2>. QED  BY <2>1, SeqOfMore
<1>2. kind \in T
  OBVIOUS
<1>. HIDE DEF T
<1>3. /\ k \in Seq(T) /\ Len(k) = 1 + Len(s) /\ k[1] = kind
      /\ \A i \in 1..Len(s) : k[1 + i] = s[i]
  BY <1>1, <1>2
<1>. HIDE DEF k
<1>4. rest \in Seq(T) /\ Len(rest) = Len(s) /\ \A i \in 1..Len(s) : rest[i] = k[i + 1]
  <2>1. Len(s) \in Nat /\ k # <<>>
    BY <1>3
  <2>. QED  BY <1>3, <2>1
<1>. HIDE DEF rest
<1>5. rest = s
  <2>1. \A i \in 1..Len(rest) : rest[i] = s[i]
    BY <1>3, <1>4
  <2>. QED  BY <1>1, <1>4, <2>1, SameElements
<1>. QED  BY <1>3, <1>5 DEF k, rest

\* The key of an item tells it.
LEMMA ItemOfKey ==
    ASSUME NEW x \in Item
    PROVE  /\ <<KeyOf(x)[1], DeserializeWType(Tail(KeyOf(x))).object>> = x
           /\ Len(KeyOf(x)) >= 2 /\ KeyOf(x) \in Written
<1>1. x[1] \in Kind /\ x[2] \in KeyObject /\ x = <<x[1], x[2]>>
  BY DEF Item
<1>2. /\ SerializeWType(x[2]) \in Seq(Byte) /\ Len(SerializeWType(x[2])) # 0
      /\ DeserializeWType(SerializeWType(x[2])).object = x[2]
  BY <1>1, NameBytes
<1>3. /\ KeyOf(x)[1] = x[1] /\ Tail(KeyOf(x)) = SerializeWType(x[2])
      /\ Len(KeyOf(x)) = 1 + Len(SerializeWType(x[2]))
  BY <1>2, KindByte DEF KeyOf, KeyBytes
<1>4. Len(KeyOf(x)) >= 2
  <2>1. \A s \in Seq(Byte) : Len(s) # 0 => 1 + Len(s) >= 2
    OBVIOUS
  <2>. QED  BY <1>2, <1>3, <2>1
<1>5. KeyOf(x) \in Written
  BY <1>1 DEF KeyOf, Written
<1>. QED  BY <1>1, <1>2, <1>3, <1>4, <1>5

LEMMA KeyTellsItem ==
    ASSUME NEW x \in Item, NEW y \in Item, KeyOf(x) = KeyOf(y)
    PROVE  x = y
<1>1. <<KeyOf(x)[1], DeserializeWType(Tail(KeyOf(x))).object>> = x
  BY ItemOfKey
<1>2. <<KeyOf(y)[1], DeserializeWType(Tail(KeyOf(y))).object>> = y
  BY ItemOfKey
<1>. QED  BY <1>1, <1>2

\* setMeta replaces the entry of its key, or adds it; the others stay.
LEMMA SetMetaWrites ==
    ASSUME Inv, NEW kind \in Kind, NEW key \in KeyObject, NEW value \in ValueObject,
           SetMeta(kind, key, value), NEW k, k = KeyBytes(kind, key),
           NEW entry, entry = [key |-> k, value |-> SerializeWType(value)]
    PROVE  /\ \A i \in DOMAIN entries' :
                 \/ entries'[i] = entry
                 \/ \E j \in DOMAIN entries : entries'[i] = entries[j] /\ entries[j].key # k
           /\ \E i \in DOMAIN entries' : entries'[i] = entry
           /\ \A j \in DOMAIN entries : entries[j].key # k =>
                 \E i \in DOMAIN entries' : entries'[i] = entries[j]
           /\ Len(entries') = IF Found(k) THEN Len(entries) ELSE Len(entries) + 1
<1> DEFINE p == PlaceOf(k)
<1>1. k \in Written /\ k \in Key /\ entry \in Entry /\ entry.key = k
  BY WrittenKeys DEF Written, Entry
<1>2. /\ DOMAIN entries = 1 .. Len(entries) /\ Len(entries) \in Nat /\ entries \in Seq(Entry)
      /\ \A i \in DOMAIN entries : entries[i].key \in Key
  BY EntryTypes
<1>3. p \in 1 .. Len(entries) + 1
  BY <1>1, PlaceSplits
<1>4. \/ Found(k) /\ entries' = [entries EXCEPT ![p] = entry]
      \/ ~Found(k) /\ entries' = InsertAt(entries, p, entry)
  BY DEF SetMeta
<1>5. Found(k) => p \in DOMAIN entries /\ entries[p].key = k
  BY <1>1, <1>2, CompareZero DEF Found
<1>6. ~Found(k) => \A j \in DOMAIN entries : entries[j].key # k
  BY <1>1, FoundIsThere
<1>. HIDE DEF p
<1>7. CASE Found(k)
  <2>1. /\ DOMAIN entries' = DOMAIN entries /\ Len(entries') = Len(entries)
        /\ entries'[p] = entry /\ \A i \in DOMAIN entries : i # p => entries'[i] = entries[i]
    BY <1>1, <1>2, <1>4, <1>5, <1>7
  <2>2. \A i \in DOMAIN entries : i # p => entries[i].key # k
    BY <1>5, <1>7, KeysDiffer
  <2>. QED  BY <1>5, <1>7, <2>1, <2>2
<1>8. CASE ~Found(k)
  <2> DEFINE longer == InsertAt(entries, p, entry)
  <2>1. /\ longer \in Seq(Entry) /\ Len(longer) = Len(entries) + 1
        /\ \A i \in 1 .. Len(entries) + 1 :
              longer[i] = IF i < p THEN entries[i] ELSE IF i = p THEN entry ELSE entries[i - 1]
    BY <1>1, <1>2, <1>3, Inserted
  <2>. HIDE DEF longer
  <2>2. DOMAIN longer = 1 .. Len(entries) + 1
    BY <2>1
  <2>3. entries' = longer
    BY <1>4, <1>8 DEF longer
  <2>4. \A i \in DOMAIN longer :
           longer[i] = entry \/ \E j \in DOMAIN entries : longer[i] = entries[j]
    <3>. SUFFICES ASSUME NEW i \in DOMAIN longer, i # p
                  PROVE  \E j \in DOMAIN entries : longer[i] = entries[j]
      BY <1>3, <2>1, <2>2
    <3>1. CASE i < p
      <4>1. i \in DOMAIN entries /\ longer[i] = entries[i]
        BY <1>2, <1>3, <2>1, <2>2, <3>1
      <4>. QED  BY <4>1
    <3>2. CASE i > p
      <4>1. i - 1 \in DOMAIN entries /\ longer[i] = entries[i - 1]
        BY <1>2, <1>3, <2>1, <2>2, <3>2
      <4>. QED  BY <4>1
    <3>. QED  BY <1>3, <2>2, <3>1, <3>2
  <2>5. ASSUME NEW j \in DOMAIN entries PROVE \E i \in DOMAIN longer : longer[i] = entries[j]
    <3>1. CASE j < p
      <4>1. j \in DOMAIN longer /\ longer[j] = entries[j]
        BY <1>2, <1>3, <2>1, <2>2, <3>1
      <4>. QED  BY <4>1
    <3>2. CASE ~(j < p)
      <4>1. j + 1 \in DOMAIN longer /\ longer[j + 1] = entries[j]
        BY <1>2, <1>3, <2>1, <2>2, <3>2
      <4>. QED  BY <4>1
    <3>. QED  BY <3>1, <3>2
  <2>6. p \in DOMAIN longer /\ longer[p] = entry
    BY <1>3, <2>1, <2>2
  <2>. QED  BY <1>6, <1>8, <2>1, <2>3, <2>4, <2>5, <2>6
<1>. QED  BY <1>7, <1>8

LEMMA DictKept ==
    ASSUME Inv, DictInv, NEW kind \in Kind, NEW key \in KeyObject, NEW value \in ValueObject,
           SetMeta(kind, key, value)
    PROVE  DictInv'
<1> DEFINE x0 == <<kind, key>>
           k == KeyBytes(kind, key)
           entry == [key |-> k, value |-> SerializeWType(value)]
<1>1. x0 \in Item /\ KeyOf(x0) = k /\ IsItem(entry, x0, value) /\ k \in Key
  BY WrittenKeys DEF Item, KeyOf, IsItem, Written
<1>2. /\ DOMAIN dict' = DOMAIN dict \cup {x0} /\ dict'[x0] = value
      /\ \A x \in DOMAIN dict : x # x0 => dict'[x] = dict[x]
      /\ dict' \in [DOMAIN dict' -> ValueObject]
  <2>1. dict' = [x \in DOMAIN dict \cup {x0} |-> IF x = x0 THEN value ELSE dict[x]]
    BY DEF SetMeta
  <2>2. dict \in [DOMAIN dict -> ValueObject]
    BY DEF DictInv
  <2>. HIDE DEF x0
  <2>. QED  BY <2>1, <2>2
<1>3. /\ \A i \in DOMAIN entries' :
            \/ entries'[i] = entry
            \/ \E j \in DOMAIN entries : entries'[i] = entries[j] /\ entries[j].key # k
      /\ \E i \in DOMAIN entries' : entries'[i] = entry
      /\ \A j \in DOMAIN entries : entries[j].key # k =>
            \E i \in DOMAIN entries' : entries'[i] = entries[j]
      /\ Len(entries') = IF Found(k) THEN Len(entries) ELSE Len(entries) + 1
  BY SetMetaWrites
<1>4. entry.key = k
  OBVIOUS
<1>. HIDE DEF x0, k, entry
<1>5. Found(k) <=> x0 \in DOMAIN dict
  <2>1. Found(k) <=> \E i \in DOMAIN entries : entries[i].key = k
    BY <1>1, FoundIsThere
  <2>2. ASSUME NEW i \in DOMAIN entries, entries[i].key = k PROVE x0 \in DOMAIN dict
    <3>1. PICK x \in DOMAIN dict : entries[i].key = KeyOf(x)
      BY DEF DictInv, IsItem
    <3>2. x \in Item
      BY DEF DictInv
    <3>. QED  BY <1>1, <2>2, <3>1, <3>2, KeyTellsItem
  <2>3. ASSUME x0 \in DOMAIN dict PROVE \E i \in DOMAIN entries : entries[i].key = k
    BY <1>1, <2>3 DEF DictInv
  <2>. QED  BY <2>1, <2>2, <2>3
<1>6. DOMAIN dict' \in SUBSET Item
  BY <1>1, <1>2 DEF DictInv
<1>7. IsFiniteSet(DOMAIN dict') /\ Len(entries') = Cardinality(DOMAIN dict')
  <2>1. /\ IsFiniteSet(DOMAIN dict \cup {x0})
        /\ Cardinality(DOMAIN dict \cup {x0}) =
              IF x0 \in DOMAIN dict THEN Cardinality(DOMAIN dict) ELSE Cardinality(DOMAIN dict) + 1
    BY FS_AddElement DEF DictInv
  <2>. QED  BY <1>2, <1>3, <1>5, <2>1 DEF DictInv
<1>8. ASSUME NEW i \in DOMAIN entries'
      PROVE  \E x \in DOMAIN dict' : IsItem(entries'[i], x, dict'[x])
  <2>1. CASE entries'[i] = entry
    BY <1>1, <1>2, <2>1
  <2>2. ASSUME NEW j \in DOMAIN entries, entries'[i] = entries[j], entries[j].key # k
        PROVE  \E x \in DOMAIN dict' : IsItem(entries'[i], x, dict'[x])
    <3>1. PICK x \in DOMAIN dict : IsItem(entries[j], x, dict[x])
      BY DEF DictInv
    <3>2. x # x0
      BY <1>1, <2>2, <3>1 DEF IsItem
    <3>. QED  BY <1>2, <2>2, <3>1, <3>2
  <2>. QED  BY <1>3, <2>1, <2>2
<1>9. ASSUME NEW x \in DOMAIN dict' PROVE \E i \in DOMAIN entries' : entries'[i].key = KeyOf(x)
  <2>1. CASE x = x0
    BY <1>1, <1>3, <1>4, <2>1
  <2>2. CASE x # x0
    <3>1. x \in DOMAIN dict /\ x \in Item
      BY <1>2, <2>2 DEF DictInv
    <3>2. PICK j \in DOMAIN entries : entries[j].key = KeyOf(x)
      BY <3>1 DEF DictInv
    <3>3. entries[j].key # k
      BY <1>1, <2>2, <3>1, <3>2, KeyTellsItem
    <3>. QED  BY <1>3, <3>2, <3>3
  <2>. QED  BY <2>1, <2>2
<1>. QED  BY <1>2, <1>6, <1>7, <1>8, <1>9 DEF DictInv

LEMMA DictInvariance == Spec => []DictInv
<1>1. Init => DictInv
  <2>. SUFFICES ASSUME Init PROVE DictInv
    OBVIOUS
  <2>1. entries = <<>> /\ dict = <<>> /\ DOMAIN dict = {} /\ Len(entries) = 0 /\ DOMAIN entries = {}
    BY DEF Init
  <2>2. IsFiniteSet({}) /\ Cardinality({}) = 0
    BY FS_EmptySet
  <2>3. dict \in [DOMAIN dict -> ValueObject]
    BY <2>1
  <2>. QED  BY <2>1, <2>2, <2>3 DEF DictInv
<1>2. Inv /\ DictInv /\ [Next]_vars => DictInv'
  <2>. SUFFICES ASSUME Inv, DictInv, [Next]_vars PROVE DictInv'
    OBVIOUS
  <2>1. CASE Next
    BY <2>1, DictKept DEF Next
  <2>2. CASE UNCHANGED vars
    BY <2>2 DEF vars, DictInv
  <2>. QED  BY <2>1, <2>2
<1>. QED  BY <1>1, <1>2, Invariance, PTL DEF Spec

-----------------------------------------------------------------------------
\* However names are chosen, no two entries have the same key, and no more entries
\* and no other keys and values are there than setMeta wrote.
THEOREM Typed == Spec => []TypeOK
<1>1. Inv => TypeOK
  <2>. SUFFICES ASSUME Inv PROVE TypeOK
    OBVIOUS
  <2>1. /\ DOMAIN entries = 1 .. Len(entries) /\ Len(entries) \in Nat
        /\ \A i \in DOMAIN entries : entries[i] \in Entry /\ entries[i].key \in Key
    BY EntryTypes
  <2>2. ASSUME NEW i \in DOMAIN entries, NEW j \in DOMAIN entries,
               entries[i].key = entries[j].key, i # j
        PROVE  FALSE
    <3>1. Compare(entries[i].key, entries[i].key) = 0
      BY <2>1, CompareZero
    <3>2. i < j \/ j < i
      BY <2>1, <2>2
    <3>. QED  BY <2>2, <3>1, <3>2 DEF Inv, Ascending
  <2>3. ASSUME NEW i \in DOMAIN entries
        PROVE  /\ entries[i].key \in Written
               /\ entries[i].value \in {SerializeWType(value) : value \in ValueObject}
    BY <2>1 DEF Entry
  <2>. QED  BY <2>2, <2>3 DEF TypeOK, Inv, Written
<1>. QED  BY Invariance, <1>1, PTL

\* The entries stay in the order of MetaComparator, in both directions of the
\* comparison, whatever names are written in whatever order.
THEOREM OrderIsKept == Spec => []EntriesSorted
<1>1. Inv => EntriesSorted
  <2>. SUFFICES ASSUME Inv, NEW i \in DOMAIN entries, NEW j \in DOMAIN entries, i < j
                PROVE  /\ Compare(entries[i].key, entries[j].key) < 0
                       /\ Compare(entries[j].key, entries[i].key) > 0
    BY DEF EntriesSorted
  <2>1. entries[i].key \in Key /\ entries[j].key \in Key
    BY EntryTypes
  <2>2. Compare(entries[i].key, entries[j].key) < 0
    BY DEF Inv, Ascending
  <2>. QED  BY <2>1, <2>2, CompareAntisymmetric
<1>. QED  BY Invariance, <1>1, PTL
\* Every key has the two bytes that MetaComparator asserts, since no name is
\* written as no bytes.
THEOREM KeysAreComparable == Spec => []KeysComparable
<1>1. DictInv => KeysComparable
  <2>. SUFFICES ASSUME DictInv, NEW i \in DOMAIN entries PROVE Len(entries[i].key) >= 2
    BY DEF KeysComparable
  <2>1. PICK x \in DOMAIN dict : entries[i].key = KeyOf(x)
    BY DEF DictInv, IsItem
  <2>2. x \in Item
    BY DEF DictInv
  <2>. QED  BY <2>1, <2>2, ItemOfKey
<1>. QED  BY DictInvariance, <1>1, PTL

\* What is read back is what was set: an entry for each kind and name that was
\* assigned, with its last value.  Keys of every type, length and width come
\* back, as long as their text is not Latin-1.
THEOREM DictIsReadBack == Spec => []ReadsBackDict
<1>1. DictInv => ReadsBackDict
  <2>. SUFFICES ASSUME DictInv, NEW i \in DOMAIN entries
                PROVE  /\ Len(entries) = Cardinality(DOMAIN dict)
                       /\ ItemOf(entries[i]) \in DOMAIN dict
                       /\ ValueOf(entries[i]) = dict[ItemOf(entries[i])]
    BY DEF ReadsBackDict, DictInv
  <2>1. PICK x \in DOMAIN dict : IsItem(entries[i], x, dict[x])
    BY DEF DictInv
  <2>2. x \in Item /\ dict[x] \in ValueObject
    BY DEF DictInv
  <2>3. ItemOf(entries[i]) = x
    BY <2>1, <2>2, ItemOfKey DEF ItemOf, IsItem
  <2>4. ValueOf(entries[i]) = dict[x]
    BY <2>1, <2>2, NameBytes DEF ValueOf, IsItem
  <2>. QED  BY <2>3, <2>4 DEF DictInv
<1>. QED  BY DictInvariance, <1>1, PTL
=============================================================================
