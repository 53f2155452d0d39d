-------------------------- MODULE HandleTableProofs --------------------------
(* Theorems about HandleTable for any runs and any foreign names.                *)
EXTENDS HandleTable, TLAPS, FiniteSetTheorems

\* What holds of an object that is open: its first handle is the one of the default
\* column family, which is its own or the DB's, no later one is, and what somebody has
\* to destroy is m_cf and the DB's own handle.
OpenOK ==
    /\ cf \in Seq(Handles) /\ cf # <<>>
    /\ Head(cf) = IF isNew THEN Builtin ELSE Default
    /\ Elements(Tail(cf)) \subseteq CF
    /\ live = Elements(cf) \cup {Builtin}
    /\ disk # {}

\* The inductive invariant.
Inv ==
    /\ TypeOK
    /\ phase = "open" => OpenOK
    /\ phase \in {"none", "closed"} => live = {}
    /\ misused # {} => phase = "undefined"
    /\ phase = "undefined" => Unknown(disk) # {}
    /\ disk # {} => Default \in disk

-----------------------------------------------------------------------------
(* Sequences of handles. *)

LEMMA ElementsOfConcat ==
    ASSUME NEW S, NEW s \in Seq(S), NEW t \in Seq(S)
    PROVE  Elements(s \o t) = Elements(s) \cup Elements(t)
<1>1. /\ Len(s \o t) = Len(s) + Len(t) /\ Len(s) \in Nat /\ Len(t) \in Nat
      /\ DOMAIN s = 1 .. Len(s) /\ DOMAIN t = 1 .. Len(t) /\ DOMAIN (s \o t) = 1 .. Len(s \o t)
  OBVIOUS
<1>2. \A i \in 1 .. Len(s) + Len(t) :
        (s \o t)[i] = IF i <= Len(s) THEN s[i] ELSE t[i - Len(s)]
  OBVIOUS
<1>3. Elements(s \o t) \subseteq Elements(s) \cup Elements(t)
  BY <1>1, <1>2 DEF Elements
<1>4. Elements(s) \subseteq Elements(s \o t)
  BY <1>1, <1>2 DEF Elements
<1>5. Elements(t) \subseteq Elements(s \o t)
  <2>. SUFFICES ASSUME NEW j \in DOMAIN t PROVE \E i \in DOMAIN (s \o t) : (s \o t)[i] = t[j]
    BY DEF Elements
  <2>1. j + Len(s) \in 1 .. Len(s) + Len(t) /\ ~(j + Len(s) <= Len(s))
    BY <1>1
  <2>2. (s \o t)[j + Len(s)] = t[j]
    BY <1>1, <1>2, <2>1
  <2>. QED  BY <1>1, <2>1, <2>2
<1>. QED  BY <1>3, <1>4, <1>5

LEMMA ElementsOfHeadAndTail ==
    ASSUME NEW S, NEW s \in Seq(S), s # <<>>
    PROVE  Elements(s) = {Head(s)} \cup Elements(Tail(s))
<1>1. /\ Len(s) \in Nat \ {0} /\ DOMAIN s = 1 .. Len(s)
      /\ DOMAIN Tail(s) = 1 .. Len(s) - 1 /\ Head(s) = s[1]
  OBVIOUS
<1>2. \A i \in 1 .. Len(s) - 1 : Tail(s)[i] = s[i + 1]
  OBVIOUS
<1>3. Elements(Tail(s)) \subseteq Elements(s) /\ Head(s) \in Elements(s)
  BY <1>1, <1>2 DEF Elements
<1>4. ASSUME NEW i \in DOMAIN s PROVE s[i] \in {Head(s)} \cup Elements(Tail(s))
  <2>1. CASE i = 1  BY <1>1, <2>1
  <2>2. CASE i # 1
    <3>1. i - 1 \in 1 .. Len(s) - 1 /\ Tail(s)[i - 1] = s[i]
      BY <1>1, <1>2, <2>2
    <3>. QED  BY <1>1, <3>1 DEF Elements
  <2>. QED  BY <2>1, <2>2
<1>5. Elements(s) \subseteq {Head(s)} \cup Elements(Tail(s))
  BY <1>4 DEF Elements
<1>. QED  BY <1>3, <1>5

LEMMA Nothing == DOMAIN <<>> = {} /\ Elements(<<>>) = {}
<1>1. DOMAIN <<>> = {}
  OBVIOUS
<1>. QED  BY <1>1 DEF Elements

\* The default column family and RocksDB's handle of it are none of a run.
LEMMA Distinct == Default \notin CF /\ Builtin \notin CF /\ Default # Builtin
BY DEF Default, Builtin, CF

\* There are finitely many column families.
LEMMA FiniteDisk ==
    ASSUME NEW D, D \subseteq CF \cup Foreign \cup {Default}
    PROVE  IsFiniteSet(D \ {Default})
<1>1. IsFiniteSet({"data", "meta"})
  <2>1. IsFiniteSet({"data"}) /\ IsFiniteSet({"meta"})
    BY FS_Singleton
  <2>2. {"data", "meta"} = {"data"} \cup {"meta"}
    OBVIOUS
  <2>. QED  BY ONLY <2>1, <2>2, FS_Union
<1>2. IsFiniteSet(CF)
  BY <1>1, FS_Product, NamesAssumption DEF CF
<1>3. IsFiniteSet(CF \cup Foreign)
  BY <1>2, FS_Union, NamesAssumption
<1>4. D \ {Default} \subseteq CF \cup Foreign
  OBVIOUS
<1>. QED  BY <1>3, <1>4, FS_Subset

\* A list of the column families begins with the default one, and has the others.
LEMMA ListOfDisk ==
    ASSUME NEW D, D \subseteq CF \cup Foreign \cup {Default}, NEW s \in Lists(D)
    PROVE  /\ s \in Seq({Default} \cup D) /\ s # <<>>
           /\ Head(s) = Default
           /\ Elements(Tail(s)) = D \ {Default}
<1>. DEFINE others == D \ {Default}
<1>1. IsFiniteSet(others)
  BY FiniteDisk
<1>2. Cardinality(others) \in Nat
  BY <1>1, FS_CardinalityType
<1>3. PICK t \in [1 .. Cardinality(others) -> others] : Elements(t) = others /\ s = <<Default>> \o t
  BY DEF Lists
<1>4. t \in Seq(others)
  <2>. HIDE DEF others
  <2>1. \A n \in Nat : [1 .. n -> others] \subseteq Seq(others)
    OBVIOUS
  <2>. QED  BY <1>2, <1>3, <2>1
<1>5. t \in Seq({Default} \cup D) /\ <<Default>> \in Seq({Default} \cup D)
  BY <1>4
<1>6. s \in Seq({Default} \cup D) /\ s # <<>> /\ Head(s) = Default /\ Tail(s) = t
  BY <1>3, <1>5
<1>. QED  BY <1>3, <1>6
-----------------------------------------------------------------------------
(* Inv is inductive. *)

LEMMA InitInv == Init => Inv
BY Nothing DEF Init, Inv, TypeOK

LEMMA OpenNewInv ==
    ASSUME Inv, NEW succeeds \in BOOLEAN, OpenNew(succeeds)
    PROVE  Inv'
<1>. USE DEF Inv, OpenNew, Constructing
<1>1. TypeOK'
  <2>1. Elements(<<Builtin>>) = {Builtin}
    BY DEF Elements
  <2>2. Elements(cf') \subseteq Handles /\ isNew' \in BOOLEAN
    <3>1. CASE succeeds
      <4>1. cf' = <<Builtin>> /\ isNew' = TRUE
        BY <3>1
      <4>. QED  BY <2>1, <4>1 DEF Handles
    <3>2. CASE ~succeeds
      <4>1. cf' = cf /\ isNew' = isNew
        BY <3>2
      <4>. QED  BY <4>1 DEF TypeOK
    <3>. QED  BY <3>1, <3>2
  <2>3. live' \subseteq Handles
    BY DEF Handles
  <2>4. runs' = <<>> /\ engines' = engines /\ phase' \in {"open", "leaked"} /\ disk' = {Default}
    OBVIOUS
  <2>. QED  BY <2>2, <2>3, <2>4, Nothing DEF TypeOK
<1>2. ASSUME phase' = "open" PROVE OpenOK'
  <2>1. cf' = <<Builtin>> /\ isNew' = TRUE /\ live' = {Builtin} /\ disk' = {Default}
    BY <1>2
  <2>2. cf' \in Seq(Handles) /\ cf' # <<>> /\ Head(cf') = Builtin
    BY <2>1 DEF Handles
  <2>3. Elements(Tail(cf')) = {} /\ Elements(cf') = {Builtin}
    BY <2>1 DEF Elements
  <2>. QED  BY <2>1, <2>2, <2>3 DEF OpenOK
<1>. QED  BY <1>1, <1>2

\* initRuns makes entries of the runs, with null or their own column families.
LEMMA InitRunsTyped ==
    ASSUME NEW D
    PROVE  /\ DOMAIN initRuns(D) \subseteq Run
           /\ \A r \in DOMAIN initRuns(D) : /\ initRuns(D)[r].data \in {Data(r), Null}
                                           /\ initRuns(D)[r].meta \in {Meta(r), Null}
BY DEF initRuns

LEMMA OpenExistingInv ==
    ASSUME Inv, NEW succeeds \in BOOLEAN, OpenExisting(succeeds)
    PROVE  Inv'
<1>. USE DEF Inv, OpenExisting, Constructing
<1>1. disk \subseteq CF \cup Foreign \cup {Default} /\ Default \in disk
  BY DEF TypeOK
<1>2. disk \ {Default} \subseteq CF
  BY <1>1, NamesAssumption DEF Unknown, parsRunName
<1>3. /\ cf' \in Seq({Default} \cup disk) /\ cf' # <<>> /\ Head(cf') = Default
      /\ Elements(Tail(cf')) = disk \ {Default}
  BY <1>1, ListOfDisk
<1>4. Elements(cf') = disk
  <2>1. Elements(cf') = {Head(cf')} \cup Elements(Tail(cf'))
    BY <1>3, ElementsOfHeadAndTail
  <2>. QED  BY <1>1, <1>3, <2>1
<1>5. {Default} \cup disk \subseteq Handles
  BY <1>1, <1>2 DEF Handles
<1>6. cf' \in Seq(Handles)
  BY <1>3, <1>5
<1>7. TypeOK'
  <2>1. live' \subseteq Handles /\ Elements(cf') \subseteq Handles
    BY <1>4, <1>5 DEF Handles
  <2>2. /\ DOMAIN runs' \subseteq Run
        /\ \A r \in DOMAIN runs' : runs'[r].data \in {Data(r), Null} /\ runs'[r].meta \in {Meta(r), Null}
    BY InitRunsTyped
  <2>. QED  BY <2>1, <2>2 DEF TypeOK
<1>8. OpenOK'
  BY <1>1, <1>2, <1>3, <1>4, <1>6 DEF OpenOK
<1>. QED  BY <1>7, <1>8

LEMMA OpenForeignInv ==
    ASSUME Inv, OpenForeign
    PROVE  Inv'
<1>1. TypeOK'
  BY DEF Inv, TypeOK, OpenForeign, Constructing, Handles
<1>. QED  BY <1>1 DEF Inv, OpenForeign, Constructing

\* What addRunWriter has created of run r.
LEMMA MadeOfRun ==
    ASSUME NEW r \in Run, NEW made \in {<<>>, <<Data(r)>>, <<Data(r), Meta(r)>>}
    PROVE  /\ made \in Seq(Handles) /\ Elements(made) \subseteq CF
           /\ made # <<>> => made[1] = Data(r)
           /\ Len(made) = 2 => made[2] = Meta(r)
<1>1. Data(r) \in CF /\ Meta(r) \in CF
  BY DEF Data, Meta, CF
<1>2. Data(r) \in Handles /\ Meta(r) \in Handles
  BY <1>1 DEF Handles
<1>. HIDE DEF Handles, CF
<1>3. CASE made = <<>>
  BY <1>3 DEF Elements
<1>4. CASE made = <<Data(r)>>
  BY <1>1, <1>2, <1>4 DEF Elements
<1>5. CASE made = <<Data(r), Meta(r)>>
  BY <1>1, <1>2, <1>5 DEF Elements
<1>. QED  BY <1>3, <1>4, <1>5

LEMMA AddRunInv ==
    ASSUME Inv, NEW r \in Run, NEW made \in {<<>>, <<Data(r)>>, <<Data(r), Meta(r)>>}, AddRun(r, made)
    PROVE  Inv'
<1>1. OpenOK /\ TypeOK /\ Default \in disk
  BY DEF Inv, AddRun, OpenOK
<1>2. /\ disk' = disk \cup Elements(made) /\ cf' = cf \o made /\ live' = live \cup Elements(made)
      /\ phase = "open" /\ phase' = phase /\ isNew' = isNew /\ misused' = misused /\ engines' = engines
      /\ misused = {}
  BY DEF AddRun, Inv
<1>3. cf \in Seq(Handles) /\ cf # <<>> /\ made \in Seq(Handles) /\ Tail(cf) \in Seq(Handles)
  <2>1. cf \in Seq(Handles) /\ cf # <<>> /\ made \in Seq(Handles)
    BY <1>1, MadeOfRun DEF OpenOK
  <2>. QED  BY <2>1
<1>4. /\ cf' \in Seq(Handles) /\ cf' # <<>> /\ Head(cf') = Head(cf)
      /\ Tail(cf') = Tail(cf) \o made
  BY <1>2, <1>3
<1>5. Elements(cf') = Elements(cf) \cup Elements(made)
  BY <1>2, <1>3, ElementsOfConcat
<1>6. Elements(Tail(cf')) = Elements(Tail(cf)) \cup Elements(made)
  <2>1. Elements(Tail(cf) \o made) = Elements(Tail(cf)) \cup Elements(made)
    <3>1. \A s \in Seq(Handles) : Elements(s \o made) = Elements(s) \cup Elements(made)
      BY <1>3, ElementsOfConcat
    <3>. QED  BY <1>3, <3>1, Zenon
  <2>. QED  BY <1>4, <2>1
<1>7. OpenOK'
  <2>1. Elements(Tail(cf')) \subseteq CF
    BY <1>1, <1>6, MadeOfRun DEF OpenOK
  <2>2. live' = Elements(cf') \cup {Builtin}
    BY <1>1, <1>2, <1>5 DEF OpenOK
  <2>3. Head(cf') = IF isNew' THEN Builtin ELSE Default
    BY <1>1, <1>2, <1>4 DEF OpenOK
  <2>4. disk' # {}
    BY <1>1, <1>2
  <2>. QED  BY <1>4, <2>1, <2>2, <2>3, <2>4 DEF OpenOK
<1>8. TypeOK'
  <2>1. DOMAIN runs' \subseteq Run
    BY <1>1 DEF TypeOK, AddRun, SetEntry
  <2>2. ASSUME NEW q \in DOMAIN runs'
        PROVE  runs'[q].data \in {Data(q), Null} /\ runs'[q].meta \in {Meta(q), Null}
    <3>1. CASE q = r
      <4>1. runs'[r] = [data |-> IF made = <<>> THEN Null ELSE made[1],
                        meta |-> IF Len(made) = 2 THEN made[2] ELSE Null]
        BY DEF AddRun, SetEntry
      <4>2. /\ made # <<>> => made[1] = Data(r)
            /\ Len(made) = 2 => made[2] = Meta(r)
        BY MadeOfRun
      <4>. QED  BY <3>1, <4>1, <4>2
    <3>2. CASE q # r
      BY <1>1, <3>2 DEF AddRun, SetEntry, TypeOK
    <3>. QED  BY <3>1, <3>2
  <2>3. Elements(made) \subseteq CF
    BY MadeOfRun
  <2>4. Elements(cf') \subseteq Handles /\ live' \subseteq Handles /\ disk' \subseteq CF \cup Foreign \cup {Default}
    BY <1>1, <1>2, <1>5, <2>3 DEF TypeOK, Handles
  <2>. QED  BY <1>1, <1>2, <2>1, <2>2, <2>4 DEF TypeOK
<1>. QED  BY <1>1, <1>2, <1>7, <1>8 DEF Inv

\* closeDatabase drops column families of runs only.
LEMMA KeepsDefault ==
    ASSUME Inv, phase = "open"
    PROVE  Default \notin Elements(ToDrop)
<1>1. OpenOK
  BY DEF Inv
<1>. QED  BY <1>1, Distinct, Nothing DEF OpenOK, ToDrop

LEMMA CloseInv ==
    ASSUME Inv, CloseDatabase
    PROVE  Inv'
<1>. USE DEF Inv, CloseDatabase
<1>1. OpenOK /\ TypeOK
  OBVIOUS
<1>2. Elements(cf) = {Head(cf)} \cup Elements(Tail(cf))
  BY <1>1, ElementsOfHeadAndTail DEF OpenOK
<1>3. Elements(ToDestroy) = live \ {Builtin}
  BY <1>1, <1>2, Distinct DEF OpenOK, ToDestroy
<1>4. misused' = {} /\ live' = {} /\ phase' = "closed"
  BY <1>3
<1>5. Default \notin Elements(ToDrop)
  BY KeepsDefault
<1>6. TypeOK'
  BY <1>1, <1>4, Nothing DEF TypeOK
<1>. QED  BY <1>4, <1>5, <1>6

LEMMA NextInv == Inv /\ [Next]_vars => Inv'
<1>. SUFFICES ASSUME Inv, [Next]_vars PROVE Inv'
  OBVIOUS
<1>1. CASE RegisterEngine
  BY <1>1 DEF Inv, TypeOK, RegisterEngine, object, OpenOK
<1>2. CASE ForeignTool
  BY <1>2 DEF Inv, TypeOK, ForeignTool, object, OpenOK
<1>3. CASE OpenOther
  <2>1. TypeOK'
    BY <1>3 DEF Inv, TypeOK, OpenOther, Constructing, Elements
  <2>. QED  BY <1>3, <2>1 DEF Inv, OpenOther, Constructing
<1>4. ASSUME NEW succeeds \in BOOLEAN, OpenNew(succeeds) PROVE Inv'
  BY <1>4, OpenNewInv
<1>5. ASSUME NEW succeeds \in BOOLEAN, OpenExisting(succeeds) PROVE Inv'
  BY <1>5, OpenExistingInv
<1>6. CASE OpenForeign
  BY <1>6, OpenForeignInv
<1>7. CASE AddRuns
  BY <1>7, AddRunInv DEF AddRuns
<1>8. CASE CloseDatabase
  BY <1>8, CloseInv
<1>9. CASE Destruct
  BY <1>9 DEF Inv, TypeOK, Destruct, object, OpenOK
<1>10. CASE Die
  <2>2. TypeOK'
    BY <1>10, Nothing DEF Inv, TypeOK, Die
  <2>. QED  BY <1>10, <2>2 DEF Inv, Die
<1>11. CASE OpenRefused
  BY <1>11 DEF Inv, TypeOK, OpenRefused, vars, object, OpenOK
<1>12. CASE UNCHANGED vars
  BY <1>12 DEF Inv, TypeOK, vars, object, OpenOK
<1>. QED
  BY <1>1, <1>2, <1>3, <1>4, <1>5, <1>6, <1>7, <1>8, <1>9, <1>10, <1>11, <1>12 DEF Next

LEMMA Invariance == Spec => []Inv
BY InitInv, NextInv, PTL DEF Spec

-----------------------------------------------------------------------------
(* m_cf and m_runs point to the same handles. *)

OnePlace(s) == \A i, j \in DOMAIN s : s[i] = s[j] => i = j

\* What is inductive beside Inv: a column family that addRunWriter can create is in
\* no place of m_cf yet, since those that are exist on disk.
Linked ==
    phase = "open" =>
        /\ Pointers \ {Null} = Elements(cf) \ {Default, Builtin}
        /\ OnePlace(cf)
        /\ Elements(Tail(cf)) \subseteq disk

\* RocksDB lists each column family once: so many places hold all the others.
LEMMA ListsOnce ==
    ASSUME NEW D, D \subseteq CF \cup Foreign \cup {Default}, NEW s \in Lists(D)
    PROVE  OnePlace(s)
<1>. DEFINE others == D \ {Default}
<1>1. IsFiniteSet(others)
  BY FiniteDisk
<1>2. Cardinality(others) \in Nat
  BY <1>1, FS_CardinalityType
<1>3. PICK t \in [1 .. Cardinality(others) -> others] : Elements(t) = others /\ s = <<Default>> \o t
  BY DEF Lists
<1>. HIDE DEF others
<1>4. IsFiniteSet(1 .. Cardinality(others)) /\ Cardinality(1 .. Cardinality(others)) = Cardinality(others)
  BY <1>2, FS_Interval
<1>5. t \in Surjection(1 .. Cardinality(others), others)
  BY <1>3 DEF Surjection, Elements
<1>6. t \in Injection(1 .. Cardinality(others), others)
  BY <1>4, <1>5, FS_SurjSameCardinalityImpliesInj
<1>7. \A i, j \in 1 .. Cardinality(others) : t[i] = t[j] => i = j
  BY <1>6 DEF Injection, IsInjective
<1>8. \A i \in 1 .. Cardinality(others) : t[i] # Default
  BY <1>3 DEF others
<1>9. t \in Seq(others) /\ Len(t) = Cardinality(others)
  <2>1. \A n \in Nat : \A u \in [1 .. n -> others] : u \in Seq(others) /\ Len(u) = n
    OBVIOUS
  <2>. QED  BY <1>2, <1>3, <2>1
<1>10. /\ DOMAIN s = 1 .. Cardinality(others) + 1
       /\ s[1] = Default
       /\ \A i \in 2 .. Cardinality(others) + 1 : s[i] = t[i - 1]
  <2>1. s = <<Default>> \o t
    BY <1>3
  <2>. QED  BY <1>2, <1>9, <2>1
<1>11. ASSUME NEW i \in DOMAIN s, NEW j \in DOMAIN s, s[i] = s[j] PROVE i = j
  <2>1. CASE i = 1 /\ j = 1
    BY <2>1
  <2>2. CASE i = 1 /\ j # 1
    <3>1. j - 1 \in 1 .. Cardinality(others) /\ s[j] = t[j - 1]
      BY <1>2, <1>10, <2>2
    <3>. QED  BY <1>8, <1>10, <1>11, <2>2, <3>1
  <2>3. CASE i # 1 /\ j = 1
    <3>1. i - 1 \in 1 .. Cardinality(others) /\ s[i] = t[i - 1]
      BY <1>2, <1>10, <2>3
    <3>. QED  BY <1>8, <1>10, <1>11, <2>3, <3>1
  <2>4. CASE i # 1 /\ j # 1
    <3>1. /\ i - 1 \in 1 .. Cardinality(others) /\ s[i] = t[i - 1]
          /\ j - 1 \in 1 .. Cardinality(others) /\ s[j] = t[j - 1]
      BY <1>2, <1>10, <2>4
    <3>2. i - 1 = j - 1
      BY <1>7, <1>11, <3>1
    <3>. QED  BY <1>2, <1>10, <3>2
  <2>. QED  BY <2>1, <2>2, <2>3, <2>4
<1>. QED  BY <1>11 DEF OnePlace

\* Two sequences without a repetition, and without a common element, one after the other.
LEMMA ConcatOnce ==
    ASSUME NEW S, NEW s \in Seq(S), NEW t \in Seq(S), OnePlace(s), OnePlace(t),
           Elements(s) \cap Elements(t) = {}
    PROVE  OnePlace(s \o t)
<1>1. /\ Len(s) \in Nat /\ Len(t) \in Nat /\ DOMAIN s = 1 .. Len(s) /\ DOMAIN t = 1 .. Len(t)
      /\ DOMAIN (s \o t) = 1 .. Len(s) + Len(t)
  OBVIOUS
<1>2. \A i \in 1 .. Len(s) + Len(t) :
        (s \o t)[i] = IF i <= Len(s) THEN s[i] ELSE t[i - Len(s)]
  OBVIOUS
<1>3. ASSUME NEW i \in DOMAIN (s \o t), NEW j \in DOMAIN (s \o t), (s \o t)[i] = (s \o t)[j] PROVE i = j
  <2>1. CASE i <= Len(s) /\ j <= Len(s)
    <3>1. i \in DOMAIN s /\ j \in DOMAIN s /\ s[i] = s[j]
      BY <1>1, <1>2, <1>3, <2>1
    <3>. QED  BY <3>1 DEF OnePlace
  <2>2. CASE ~(i <= Len(s)) /\ ~(j <= Len(s))
    <3>1. i - Len(s) \in DOMAIN t /\ j - Len(s) \in DOMAIN t /\ t[i - Len(s)] = t[j - Len(s)]
      BY <1>1, <1>2, <1>3, <2>2
    <3>2. i - Len(s) = j - Len(s)
      BY <3>1 DEF OnePlace
    <3>. QED  BY <1>1, <3>2
  <2>3. CASE i <= Len(s) /\ ~(j <= Len(s))
    <3>1. i \in DOMAIN s /\ j - Len(s) \in DOMAIN t /\ s[i] = t[j - Len(s)]
      BY <1>1, <1>2, <1>3, <2>3
    <3>. QED  BY <3>1 DEF Elements
  <2>4. CASE ~(i <= Len(s)) /\ j <= Len(s)
    <3>1. j \in DOMAIN s /\ i - Len(s) \in DOMAIN t /\ s[j] = t[i - Len(s)]
      BY <1>1, <1>2, <1>3, <2>4
    <3>. QED  BY <3>1 DEF Elements
  <2>. QED  BY <2>1, <2>2, <2>3, <2>4
<1>. QED  BY <1>3 DEF OnePlace

\* The null pointer is no column family.
LEMMA NullIsNone == Null \notin CF
BY NamesAssumption DEF CF

LEMMA OpenNewLinked ==
    ASSUME NEW succeeds \in BOOLEAN, OpenNew(succeeds), phase' = "open"
    PROVE  Linked'
<1>1. cf' = <<Builtin>> /\ runs' = <<>>
  BY DEF OpenNew
<1>2. Elements(cf') = {Builtin} /\ Elements(Tail(cf')) = {}
  BY <1>1 DEF Elements
<1>3. Pointers' = {}
  BY <1>1, Nothing DEF Pointers
<1>4. OnePlace(cf')
  BY <1>1 DEF OnePlace
<1>. QED  BY <1>2, <1>3, <1>4 DEF Linked

LEMMA OpenExistingLinked ==
    ASSUME Inv, NEW succeeds \in BOOLEAN, OpenExisting(succeeds), phase' = "open"
    PROVE  Linked'
<1>1. disk \subseteq CF \cup Foreign \cup {Default} /\ Default \in disk /\ cf' \in Lists(disk)
      /\ runs' = initRuns(disk) /\ disk' = disk
  BY DEF Inv, TypeOK, OpenExisting, Constructing
<1>2. disk \ {Default} \subseteq CF
  BY <1>1, NamesAssumption DEF OpenExisting, Unknown, parsRunName
<1>3. OnePlace(cf')
  BY <1>1, ListsOnce
<1>4. Elements(Tail(cf')) = disk \ {Default} /\ Elements(cf') = disk
  <2>1. /\ cf' \in Seq({Default} \cup disk) /\ cf' # <<>> /\ Head(cf') = Default
        /\ Elements(Tail(cf')) = disk \ {Default}
    BY <1>1, ListOfDisk
  <2>2. Elements(cf') = {Head(cf')} \cup Elements(Tail(cf'))
    BY <2>1, ElementsOfHeadAndTail
  <2>. QED  BY <1>1, <2>1, <2>2
<1>5. Pointers' \ {Null} = disk \ {Default}
  <2>1. ASSUME NEW r \in DOMAIN runs' PROVE {runs'[r].data, runs'[r].meta} \ {Null} \subseteq disk \ {Default}
    <3>1. r \in Run /\ Data(r) \in CF /\ Meta(r) \in CF
      BY <1>1, <2>1 DEF initRuns, Data, Meta, CF
    <3>2. /\ runs'[r].data = IF Data(r) \in disk THEN Data(r) ELSE Null
          /\ runs'[r].meta = IF Meta(r) \in disk THEN Meta(r) ELSE Null
      BY <1>1, <2>1 DEF initRuns
    <3>. QED  BY <3>1, <3>2, Distinct
  <2>2. ASSUME NEW c \in disk \ {Default} PROVE c \in Pointers' \ {Null}
    <3>1. PICK r \in Run : c = Data(r) \/ c = Meta(r)
      BY <1>2 DEF CF, Data, Meta
    <3>2. r \in DOMAIN runs'
      BY <1>1, <3>1 DEF initRuns
    <3>3. c = runs'[r].data \/ c = runs'[r].meta
      BY <1>1, <3>1, <3>2 DEF initRuns
    <3>. QED  BY <1>2, <3>2, <3>3, NullIsNone DEF Pointers
  <2>. QED  BY <2>1, <2>2 DEF Pointers
<1>6. Builtin \notin disk
  BY <1>2, Distinct
<1>. QED  BY <1>1, <1>3, <1>4, <1>5, <1>6 DEF Linked

LEMMA AddRunLinked ==
    ASSUME Inv, Linked, NEW r \in Run, NEW made \in {<<>>, <<Data(r)>>, <<Data(r), Meta(r)>>},
           AddRun(r, made)
    PROVE  Linked'
<1>1. /\ OpenOK /\ phase = "open" /\ OnePlace(cf)
      /\ Pointers \ {Null} = Elements(cf) \ {Default, Builtin} /\ Elements(Tail(cf)) \subseteq disk
  BY DEF Inv, AddRun, Linked
<1>2. /\ Elements(made) \cap disk = {} /\ disk' = disk \cup Elements(made) /\ cf' = cf \o made
      /\ r \notin DOMAIN runs
  BY DEF AddRun
<1>3. cf \in Seq(Handles) /\ cf # <<>> /\ made \in Seq(Handles) /\ Elements(made) \subseteq CF
  BY <1>1, MadeOfRun DEF OpenOK
<1>4. Elements(cf') = Elements(cf) \cup Elements(made)
  BY <1>2, <1>3, ElementsOfConcat
<1>5. Elements(Tail(cf')) \subseteq disk'
  <2>1. Tail(cf) \in Seq(Handles) /\ Tail(cf') = Tail(cf) \o made
    BY <1>2, <1>3
  <2>2. Elements(Tail(cf) \o made) = Elements(Tail(cf)) \cup Elements(made)
    <3>1. ASSUME NEW s \in Seq(Handles), NEW t \in Seq(Handles)
          PROVE  Elements(s \o t) = Elements(s) \cup Elements(t)
      BY ONLY <3>1, ElementsOfConcat
    <3>. QED  BY ONLY <1>3, <2>1, <3>1
  <2>3. Elements(Tail(cf')) = Elements(Tail(cf)) \cup Elements(made)
    BY ONLY <2>1, <2>2
  <2>. QED  BY ONLY <1>1, <1>2, <2>3
<1>6. Elements(cf) \cap Elements(made) = {}
  <2>1. Elements(cf) = {Head(cf)} \cup Elements(Tail(cf)) /\ Head(cf) \in {Builtin, Default}
    BY <1>1, <1>3, ElementsOfHeadAndTail DEF OpenOK
  <2>. QED  BY <1>1, <1>2, <1>3, <2>1, Distinct
<1>7. OnePlace(made)
  <2>1. Data(r) # Meta(r)
    BY DEF Data, Meta
  <2>2. CASE made = <<>>
    BY <2>2 DEF OnePlace
  <2>3. CASE made = <<Data(r)>>
    BY <2>3 DEF OnePlace
  <2>4. CASE made = <<Data(r), Meta(r)>>
    BY <2>1, <2>4 DEF OnePlace
  <2>. QED  BY <2>2, <2>3, <2>4
<1>8. OnePlace(cf')
  BY <1>1, <1>2, <1>3, <1>6, <1>7, ConcatOnce
<1>9. Pointers' \ {Null} = (Pointers \ {Null}) \cup Elements(made)
  <2>1. /\ DOMAIN runs' = DOMAIN runs \cup {r}
        /\ \A q \in DOMAIN runs : runs'[q] = runs[q]
        /\ runs'[r] = [data |-> IF made = <<>> THEN Null ELSE made[1],
                       meta |-> IF Len(made) = 2 THEN made[2] ELSE Null]
    BY <1>2 DEF AddRun, SetEntry
  <2>2. Pointers' = Pointers \cup {runs'[r].data, runs'[r].meta}
    BY <2>1 DEF Pointers
  <2>3. {runs'[r].data, runs'[r].meta} \ {Null} = Elements(made)
    <3>1. Data(r) # Null /\ Meta(r) # Null
      BY NullIsNone DEF Data, Meta, CF
    <3>2. CASE made = <<>>
      BY <2>1, <3>2, Nothing
    <3>3. CASE made = <<Data(r)>>
      BY <2>1, <3>1, <3>3 DEF Elements
    <3>4. CASE made = <<Data(r), Meta(r)>>
      BY <2>1, <3>1, <3>4 DEF Elements
    <3>. QED  BY <3>2, <3>3, <3>4
  <2>. QED  BY <2>2, <2>3
<1>. QED  BY <1>1, <1>3, <1>4, <1>5, <1>8, <1>9, Distinct DEF Linked

LEMMA NextLinked == Inv /\ Linked /\ [Next]_vars => Linked'
<1>. SUFFICES ASSUME Inv, Linked, [Next]_vars, phase' = "open" PROVE Linked'
  BY DEF Linked
<1>1. ASSUME NEW succeeds \in BOOLEAN, OpenNew(succeeds) PROVE Linked'
  BY <1>1, OpenNewLinked
<1>2. ASSUME NEW succeeds \in BOOLEAN, OpenExisting(succeeds) PROVE Linked'
  BY <1>2, OpenExistingLinked
<1>3. CASE AddRuns
  BY <1>3, AddRunLinked DEF AddRuns
<1>4. CASE RegisterEngine \/ OpenRefused \/ UNCHANGED vars
  BY <1>4 DEF RegisterEngine, OpenRefused, vars, object, Linked, Pointers
<1>5. ~ForeignTool /\ ~OpenOther /\ ~OpenForeign /\ ~CloseDatabase /\ ~Destruct /\ ~Die
  BY DEF ForeignTool, OpenOther, OpenForeign, CloseDatabase, Destruct, Die
<1>. QED  BY <1>1, <1>2, <1>3, <1>4, <1>5 DEF Next
-----------------------------------------------------------------------------
\* Only handles of runs and of default column families get into the tables.
THEOREM Typed == Spec => []TypeOK
<1>1. Inv => TypeOK
  BY DEF Inv
<1>. QED  BY Invariance, <1>1, PTL

\* No handle is used or destroyed twice, unless a column family is none of a run.
THEOREM NoHandleIsDestroyedTwice == Spec => []HandlesDestroyedOnce
<1>1. Inv => HandlesDestroyedOnce
  BY DEF Inv, HandlesDestroyedOnce
<1>. QED  BY Invariance, <1>1, PTL

\* A database that is closed has left no handle of its DB behind.
THEOREM CloseDestroysAll == Spec => []NothingLeaks
<1>1. Inv => NothingLeaks
  BY DEF Inv, NothingLeaks
<1>. QED  BY Invariance, <1>1, PTL

\* No step loses the default column family: the sessions that drop column families
\* begin behind the first of m_cf, and all others only add some.
THEOREM DefaultIsNeverDropped == Spec => DefaultSurvives
<1>1. ASSUME Inv, [Next]_vars
      PROVE  [(Default \in disk) => (Default \in disk')]_disk
  <2>. SUFFICES ASSUME Default \in disk, disk' # disk PROVE Default \in disk'
    OBVIOUS
  <2>1. CASE ForeignTool
    BY <2>1 DEF ForeignTool
  <2>2. ASSUME NEW succeeds \in BOOLEAN, OpenNew(succeeds) PROVE Default \in disk'
    BY <2>2 DEF OpenNew
  <2>3. CASE AddRuns
    BY <2>3 DEF AddRuns, AddRun
  <2>4. CASE CloseDatabase
    BY <1>1, <2>4, KeepsDefault DEF CloseDatabase
  <2>5. ~RegisterEngine /\ ~OpenRefused /\ ~OpenOther /\ ~OpenForeign /\ ~Destruct /\ ~Die
    BY DEF RegisterEngine, OpenRefused, OpenOther, OpenForeign, Destruct, Die, vars
  <2>6. \A succeeds \in BOOLEAN : ~OpenExisting(succeeds)
    BY DEF OpenExisting
  <2>. QED  BY <1>1, <2>1, <2>2, <2>3, <2>4, <2>5, <2>6 DEF Next, vars
<1>. QED  BY Invariance, <1>1, PTL DEF Spec, DefaultSurvives

\* A writer finds the handles of its run: m_runs points to each handle of m_cf but that
\* of the default column family, and to nothing else, and m_cf has no handle twice.
THEOREM RunsShareHandles == Spec => []RunsPointToHandles
<1>1. Init => Linked
  BY DEF Init, Linked
<1>2. Inv /\ Linked => RunsPointToHandles
  BY DEF Inv, OpenOK, Linked, OnePlace, RunsPointToHandles
<1>. QED  BY Invariance, NextLinked, <1>1, <1>2, PTL DEF Spec
=============================================================================
