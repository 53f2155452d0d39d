--------------------------- MODULE RunStoreProofs ---------------------------
(***************************************************************************)
(* Proofs about RunStore for every set of clients, runs, writers, keys and *)
(* values, and that it implements RunCatalogue.                            *)
(***************************************************************************)
EXTENDS RunStoreInv, TLAPS

-----------------------------------------------------------------------------
(* The type invariant of RunStore holds in every reachable state. *)

\* A batch is a sequence of items, so its length is a number.
LEMMA BatchType ==
  ASSUME TypeOK, NEW p \in Client
  PROVE  batch[p] \in Seq(MetaKey \X MetaVal)
<1>1. CASE batch[p] \in Batches
  BY <1>1, BatchAssumption
<1>2. CASE batch[p] = <<>>
  BY <1>2
<1> QED
  BY <1>1, <1>2 DEF TypeOK

\* The disk starts without a database and no client is inside a call.
LEMMA InitType == Init => TInv
<1> SUFFICES ASSUME Init PROVE TInv
  OBVIOUS
<1>1. version \in [VersionKey -> {"unset", "current", "newer"}]
  BY DEF Init
<1>2. /\ meta \in [Run -> [MetaKey -> MetaVal \cup {NoVal}]]
      /\ stray \in [MetaKey -> MetaVal \cup {NoVal}]
  BY DEF Init, NoMeta
<1>3. writer \in [Client -> [Writer -> Run \cup {NoRun, Dangling}]]
  BY DEF Init
<1> QED
  BY <1>1, <1>2, <1>3 DEF Init, TypeOK, CallInv, TInv, PC

\* Every action keeps the types, and the state of a call fit for its pc.
LEMMA StepType ==
  ASSUME TInv, NEW p \in Client, Continue(p) \/ Request(p) \/ Fail(p)
  PROVE  TInv'
<1>a. \A q \in Client : Len(batch[q]) \in Nat
  BY BatchType DEF TInv
<1>b. \A b \in Batches : Len(b) \in Nat
  BY BatchAssumption
<1> USE <1>a, <1>b DEF TInv, CallInv, TypeOK, Goto, PC, Opening, Session, VersionKey
<1> USE DEF disk, object, call
<1>1. ASSUME Die(p) PROVE TInv'
  BY <1>1 DEF Die, SetObject, EndCall
<1>2. CASE OpenAppend(p)
  BY <1>2 DEF OpenAppend
<1>3. CASE OpenRefused(p)
  BY <1>3 DEF OpenRefused, vars
<1>4. CASE ListCF(p)
  BY <1>4 DEF ListCF
<1>5. CASE CreateDB(p)
  BY <1>5 DEF CreateDB, CanCreate
<1>6. CASE PutVersion(p)
  BY <1>6 DEF PutVersion, AfterKey
<1>7. CASE PutVersionFails(p)
  BY <1>7 DEF PutVersionFails
<1>8. CASE OpenExisting(p)
  <2>1. RunsOf(listed[p]) \subseteq Run
    BY DEF RunsOf
  <2>2. CASE Openable
    <3>1. /\ SetObject(p, FALSE, listed[p], RunsOf(listed[p]))
          /\ pc' = [pc EXCEPT ![p] = "ready"]
      BY <1>8, <2>2 DEF OpenExisting
    <3>2. /\ isNew' \in [Client -> BOOLEAN]
          /\ handles' \in [Client -> SUBSET CF]
          /\ runs' \in [Client -> SUBSET Run]
          /\ made' \in [Client -> SUBSET CF]
      BY <3>1, <2>1 DEF SetObject
    <3> QED
      BY <1>8, <3>1, <3>2 DEF OpenExisting
  <2>3. CASE ~Openable
    BY <1>8, <2>3 DEF OpenExisting
  <2> QED
    BY <2>2, <2>3
<1>9. CASE OpenFails(p)
  BY <1>9 DEF OpenFails, MayFailToOpen
<1>10. ASSUME NEW r \in Run, NEW w \in Writer, NEW b \in Batches,
              AddNewRun(p, r, w, b)
       PROVE  TInv'
  BY <1>10 DEF AddNewRun, BeginCall
<1>11. ASSUME NEW r \in Run, NEW w \in Writer, NEW b \in Batches,
              AddExistingRun(p, r, w, b)
       PROVE  TInv'
  BY <1>11 DEF AddExistingRun, BeginCall
<1>12. CASE CreateData(p)
  BY <1>12 DEF CreateData, Create, Data, CF
<1>13. CASE CreateMeta(p)
  BY <1>13 DEF CreateMeta, Create, Meta, CF
<1>14. CASE CreateFails(p)
  BY <1>14 DEF CreateFails, EndCall, MidChange
<1>15. ASSUME NEW w \in Writer, NEW b \in Batches, BeginUpdate(p, w, b)
       PROVE  TInv'
  BY <1>15 DEF BeginUpdate, BeginCall
<1>16. CASE PutMeta(p)
  <2>1. NextItem(p) \in MetaKey \X MetaVal
    BY <1>16, BatchType DEF PutMeta, NextItem
  <2>2. NextItem(p)[1] \in MetaKey /\ NextItem(p)[2] \in MetaVal
    BY <2>1
  <2> QED
    BY <1>16, <2>2 DEF PutMeta
<1>17. CASE PutNull(p)
  <2>1. NextItem(p) \in MetaKey \X MetaVal
    BY <1>17, BatchType DEF PutNull, NextItem
  <2>2. NextItem(p)[1] \in MetaKey /\ NextItem(p)[2] \in MetaVal
    BY <2>1
  <2> QED
    BY <1>17, <2>2 DEF PutNull
<1>18. CASE UpdateRaises(p)
  BY <1>18 DEF UpdateRaises, EndCall
<1>19. CASE UpdateDone(p)
  BY <1>19 DEF UpdateDone, EndCall
<1>20. ASSUME NEW w \in Writer, CloseWriter(p, w)
       PROVE  TInv'
  BY <1>20 DEF CloseWriter
<1>21. ASSUME NEW w \in Writer, DanglingUpdate(p, w)
       PROVE  TInv'
  BY <1>21, <1>1 DEF DanglingUpdate
<1>22. CASE CloseNew(p)
  BY <1>22 DEF CloseNew, EndSession, SetObject
<1>23. CASE CloseExisting(p)
  BY <1>23 DEF CloseExisting
<1>24. ASSUME NEW c \in CF, DropCF(p, c)
       PROVE  TInv'
  BY <1>24 DEF DropCF, CF, NoMeta
<1>25. CASE CloseDone(p)
  BY <1>25 DEF CloseDone, EndSession, SetObject
<1>26. CASE Crash(p)
  BY <1>26, <1>1 DEF Crash
<1> QED
  BY <1>2, <1>3, <1>4, <1>5, <1>6, <1>7, <1>8, <1>9, <1>10, <1>11, <1>12,
     <1>13, <1>14, <1>15, <1>16, <1>17, <1>18, <1>19, <1>20, <1>21, <1>22,
     <1>23, <1>24, <1>25, <1>26
  DEF Continue, Request, Fail

\* Every variable of RunStore keeps its type, in every step of
\* RockDB_Database's calls.
THEOREM TypeCorrect == Spec => []TypeOK
<1>1. TInv /\ [Next]_vars => TInv'
  <2> SUFFICES ASSUME TInv, [Next]_vars PROVE TInv'
    OBVIOUS
  <2>1. CASE UNCHANGED vars
    BY <2>1 DEF vars, disk, object, call, TypeOK, CallInv, TInv
  <2>2. CASE Next
    BY <2>2, StepType DEF Next
  <2> QED
    BY <2>1, <2>2
<1>2. TInv => TypeOK
  BY DEF TInv
<1> QED
  BY InitType, <1>1, <1>2, PTL DEF Spec

-----------------------------------------------------------------------------
(* Steps of the inductive invariant. *)

\* A client's step leaves the other clients' memory alone, and the disk too
\* while another client holds the LOCK.
LEMMA Isolation ==
  ASSUME IInv, NEW p \in Client, NEW q \in Client, q # p,
         Continue(p) \/ Request(p) \/ Fail(p)
  PROVE  /\ pc'[q] = pc[q] /\ isNew'[q] = isNew[q]
         /\ handles'[q] = handles[q] /\ runs'[q] = runs[q]
         /\ made'[q] = made[q] /\ target'[q] = target[q]
         /\ batch'[q] = batch[q] /\ at'[q] = at[q]
         /\ lock = q => UNCHANGED <<exists, version, cfs, meta, stray, lock>>
         /\ lock # q => lock' # q
         /\ exists => exists'
         /\ version'["major"] \in {version["major"], "current"}
         /\ torn => torn'
<1> DEFINE Goal ==
         /\ pc'[q] = pc[q] /\ isNew'[q] = isNew[q]
         /\ handles'[q] = handles[q] /\ runs'[q] = runs[q]
         /\ made'[q] = made[q] /\ target'[q] = target[q]
         /\ batch'[q] = batch[q] /\ at'[q] = at[q]
         /\ lock = q => UNCHANGED <<exists, version, cfs, meta, stray, lock>>
         /\ lock # q => lock' # q
         /\ exists => exists'
         /\ version'["major"] \in {version["major"], "current"}
         /\ torn => torn'
<1>a. /\ pc[p] \in Session \cup VersionKey => lock = p
      /\ q # NoClient
      /\ TypeOK
  BY NoneAssumption DEF IInv, LocalInv, Held, TInv
<1> USE <1>a DEF Goto, disk, object, call, Session, VersionKey, TypeOK
<1>1. ASSUME Die(p) PROVE Goal
  BY <1>1 DEF Die, SetObject, EndCall, MidChange
<1>2. CASE OpenAppend(p)
  BY <1>2 DEF OpenAppend
<1>3. CASE OpenRefused(p)
  BY <1>3 DEF OpenRefused, vars
<1>4. CASE ListCF(p)
  BY <1>4 DEF ListCF
<1>5. CASE CreateDB(p)
  BY <1>5 DEF CreateDB, CanCreate
<1>6. CASE PutVersion(p)
  BY <1>6 DEF PutVersion, AfterKey
<1>7. CASE PutVersionFails(p)
  BY <1>7 DEF PutVersionFails
<1>8. CASE OpenExisting(p)
  BY <1>8 DEF OpenExisting, SetObject
<1>9. CASE OpenFails(p)
  BY <1>9 DEF OpenFails, MayFailToOpen
<1>10. ASSUME NEW r \in Run, NEW w \in Writer, NEW b \in Batches, AddNewRun(p, r, w, b)
       PROVE  Goal
  BY <1>10 DEF AddNewRun, BeginCall
<1>11. ASSUME NEW r \in Run, NEW w \in Writer, NEW b \in Batches, AddExistingRun(p, r, w, b)
       PROVE  Goal
  BY <1>11 DEF AddExistingRun, BeginCall
<1>12. CASE CreateData(p)
  BY <1>12 DEF CreateData, Create
<1>13. CASE CreateMeta(p)
  BY <1>13 DEF CreateMeta, Create
<1>14. CASE CreateFails(p)
  BY <1>14 DEF CreateFails, EndCall
<1>15. ASSUME NEW w \in Writer, NEW b \in Batches, BeginUpdate(p, w, b)
       PROVE  Goal
  BY <1>15 DEF BeginUpdate, BeginCall
<1>16. CASE PutMeta(p)
  BY <1>16 DEF PutMeta
<1>17. CASE PutNull(p)
  BY <1>17 DEF PutNull
<1>18. CASE UpdateRaises(p)
  BY <1>18 DEF UpdateRaises, EndCall
<1>19. CASE UpdateDone(p)
  BY <1>19 DEF UpdateDone, EndCall
<1>20. ASSUME NEW w \in Writer, CloseWriter(p, w)
       PROVE  Goal
  BY <1>20 DEF CloseWriter
<1>21. ASSUME NEW w \in Writer, DanglingUpdate(p, w)
       PROVE  Goal
  BY <1>21, <1>1 DEF DanglingUpdate
<1>22. CASE CloseNew(p)
  BY <1>22 DEF CloseNew, EndSession, SetObject
<1>23. CASE CloseExisting(p)
  BY <1>23 DEF CloseExisting
<1>24. ASSUME NEW c \in CF, DropCF(p, c)
       PROVE  Goal
  BY <1>24 DEF DropCF
<1>25. CASE CloseDone(p)
  BY <1>25 DEF CloseDone, EndSession, SetObject
<1>26. CASE Crash(p)
  BY <1>26, <1>1 DEF Crash
<1> QED
  BY <1>2, <1>3, <1>4, <1>5, <1>6, <1>7, <1>8, <1>9, <1>10, <1>11, <1>12,
     <1>13, <1>14, <1>15, <1>16, <1>17, <1>18, <1>19, <1>20, <1>21, <1>22,
     <1>23, <1>24, <1>25, <1>26
  DEF Continue, Request, Fail

\* So the other clients keep their part of the invariant.
LEMMA OthersKeep ==
  ASSUME IInv, NEW p \in Client, NEW q \in Client, q # p,
         Continue(p) \/ Request(p) \/ Fail(p)
  PROVE  LocalInv(q)'
<1>1. /\ pc'[q] = pc[q] /\ isNew'[q] = isNew[q]
      /\ handles'[q] = handles[q] /\ runs'[q] = runs[q]
      /\ made'[q] = made[q] /\ target'[q] = target[q]
      /\ batch'[q] = batch[q] /\ at'[q] = at[q]
      /\ lock = q => UNCHANGED <<exists, version, cfs, meta, stray, lock>>
      /\ lock # q => lock' # q
      /\ exists => exists'
      /\ version'["major"] \in {version["major"], "current"}
      /\ torn => torn'
  BY Isolation
<1>2. LocalInv(q)
  BY DEF IInv
<1>3. CASE lock = q
  <2>1. UNCHANGED <<exists, version, cfs, meta, stray, lock>>
    BY <1>1, <1>3
  <2> QED
    BY <1>1, <1>2, <1>3, <2>1
    DEF LocalInv, Held, Mirror, Versions, Names, Clean, Stored, RunsOf,
        RunsWhole, VersionSupported, VersionComplete, Data, Meta, Written,
        HasMeta
<1>4. CASE lock # q
  <2>1. pc[q] \notin Session \cup VersionKey /\ lock' # q
    BY <1>1, <1>2, <1>4 DEF LocalInv, Held
  <2> QED
    BY <1>1, <1>2, <2>1
    DEF LocalInv, Held, Mirror, Versions, Names, Clean, Stored, Session,
        VersionKey
<1> QED
  BY <1>3, <1>4

\* And the client that takes the step keeps its own, and what is on disk.
LEMMA OwnKeep ==
  ASSUME IInv, TypeOK', NEW p \in Client, Continue(p) \/ Request(p) \/ Fail(p)
  PROVE  LocalInv(p)' /\ GlobalInv'
<1> DEFINE Goal == LocalInv(p)' /\ GlobalInv'
<1>a. TypeOK /\ CallInv /\ LocalInv(p) /\ GlobalInv /\ p # NoClient
  BY NoneAssumption DEF IInv, TInv
<1> USE <1>a DEF Goto, disk, object, call, Session, VersionKey, Opening, TypeOK
<1> USE DEF LocalInv, Held, Mirror, Versions, Names, Clean, Stored, GlobalInv,
        CleanDiskReopens, VersionSupported, VersionComplete, RunsWhole, RunsOf
<1>1. ASSUME Die(p) PROVE Goal
  BY <1>1 DEF Die, SetObject, EndCall, MidChange, HalfDropped, Data, Meta
<1>2. CASE OpenAppend(p)
  BY <1>2 DEF OpenAppend, Supported, VersionComplete
<1>3. CASE OpenRefused(p)
  BY <1>3 DEF OpenRefused, vars
<1>4. CASE ListCF(p)
  BY <1>4 DEF ListCF
<1>5. CASE CreateDB(p)
  BY <1>5 DEF CreateDB, CanCreate
<1>6. CASE PutVersion(p)
  <2> USE <1>6 DEF PutVersion, AfterKey
  <2>1. cfs = {} /\ lock = p /\ exists
    OBVIOUS
  <2>2. CASE pc[p] = "major"
    BY <2>1, <2>2
  <2>3. CASE pc[p] = "minor"
    BY <2>1, <2>3
  <2>4. CASE pc[p] = "serializer"
    <3>1. VersionSupported'
      BY <2>4
    <3>2. pc'[p] = "ready"
      BY <2>4
    <3>3. handles'[p] = {} /\ made'[p] = {}
      BY <2>4
    <3> QED
      BY <2>1, <3>1, <3>2, <3>3
  <2> QED
    BY <2>2, <2>3, <2>4
<1>7. CASE PutVersionFails(p)
  BY <1>7 DEF PutVersionFails
<1>8. CASE OpenExisting(p)
  BY <1>8 DEF OpenExisting, SetObject, Openable
<1>9. CASE OpenFails(p)
  BY <1>9 DEF OpenFails, MayFailToOpen
<1>10. ASSUME NEW r \in Run, NEW w \in Writer, NEW b \in Batches, AddNewRun(p, r, w, b)
       PROVE  Goal
  BY <1>10 DEF AddNewRun, BeginCall, Data, Meta
<1>11. ASSUME NEW r \in Run, NEW w \in Writer, NEW b \in Batches, AddExistingRun(p, r, w, b)
       PROVE  Goal
  BY <1>11 DEF AddExistingRun, BeginCall
<1>12. CASE CreateData(p)
  BY <1>12 DEF CreateData, Create, CallInv, CF, Data, Meta
<1>13. CASE CreateMeta(p)
  <2> DEFINE r == target[p]
  <2>1. /\ r \in Run /\ lock = p
        /\ pc'[p] = "update" /\ lock' = p
        /\ cfs' = cfs \cup {Meta(r)} /\ Data(r) \in cfs
        /\ UNCHANGED <<exists, version, meta, isNew, runs, target, batch, at, torn>>
    BY <1>13 DEF CreateMeta, Create, CallInv
  <2>2. handles'[p] = cfs'
    BY <1>13 DEF CreateMeta, Create
  <2>3. isNew'[p] => made'[p] = cfs'
    BY <1>13 DEF CreateMeta, Create
  <2>4. RunsOf(cfs)' \subseteq runs'[p]
    BY <1>13, <2>1 DEF CreateMeta, Data, Meta
  <2>5. Clean(p)'
    BY <1>13, <2>1 DEF CreateMeta, Data, Meta
  <2>6. Stored(p)'
    BY <1>13, <2>1 DEF CreateMeta
  <2> QED
    BY <1>13, <2>1, <2>2, <2>3, <2>4, <2>5, <2>6 DEF CreateMeta
<1>14. CASE CreateFails(p)
  BY <1>14 DEF CreateFails, EndCall, MidChange, Data, Meta
<1>15. ASSUME NEW w \in Writer, NEW b \in Batches, BeginUpdate(p, w, b)
       PROVE  Goal
  BY <1>15 DEF BeginUpdate, BeginCall
<1>16. CASE PutMeta(p)
  <2> DEFINE r == target[p]
             b == batch[p]
             n == at[p] + 1
  <2>1. /\ b \in Batches /\ b \in Seq(MetaKey \X MetaVal)
        /\ n \in 1..Len(b) /\ at[p] \in Nat /\ r \in Run
    BY <1>16, BatchType DEF PutMeta, CallInv
  <2>2. b[n][1] \in MetaKey /\ \A i \in 1..at[p] : b[i][1] \in MetaKey
    BY <2>1
  <2>3. ASSUME NEW i \in 1..at[p]
        PROVE  b[i][1] # b[n][1]
    <3>1. i \in 1..Len(b) /\ i # n
      BY <2>1
    <3> QED
      BY <2>1, <3>1, BatchAssumption
  <2>4. /\ meta' = [meta EXCEPT ![r][b[n][1]] = b[n][2]]
        /\ at'[p] = n
        /\ pc[p] = "update"
        /\ UNCHANGED <<exists, version, cfs, lock, pc, isNew, handles, runs,
                        made, target, batch, torn>>
    BY <1>16 DEF PutMeta, NextItem
  <2>5. Written(p) = meta[r] /\ Written(p)' = meta'[r]
    BY <1>16, <2>4 DEF PutMeta, Written, HasMeta
  <2>6. ASSUME NEW i \in 1..n
        PROVE  meta'[r][b[i][1]] = b[i][2]
    <3>1. CASE i = n
      BY <2>1, <2>2, <2>4, <3>1
    <3>2. CASE i \in 1..at[p]
      <4>1. meta[r][b[i][1]] = b[i][2]
        BY <2>4, <2>5, <3>2
      <4> QED
        BY <2>1, <2>2, <2>3, <2>4, <3>2, <4>1
    <3> QED
      BY <2>1, <3>1, <3>2
  <2>7. Stored(p)'
    BY <2>4, <2>5, <2>6
  <2>8. Clean(p)' /\ Names(p)' /\ Held(p)' /\ Mirror(p)' /\ Versions(p)'
    BY <2>4
  <2>9. \A x \in Run : Meta(x) \notin cfs' => meta'[x] = NoMeta
    <3>1. Meta(r) \in cfs
      BY <1>16 DEF PutMeta, HasMeta
    <3> QED
      BY <2>1, <2>4, <3>1
  <2>10. GlobalInv'
    BY <2>4, <2>9
  <2> QED
    BY <2>7, <2>8, <2>10
<1>17. CASE PutNull(p)
  <2> DEFINE b == batch[p]
             n == at[p] + 1
  <2>1. /\ b \in Batches /\ b \in Seq(MetaKey \X MetaVal)
        /\ n \in 1..Len(b) /\ at[p] \in Nat
    BY <1>17, BatchType DEF PutNull, CallInv
  <2>2. b[n][1] \in MetaKey /\ \A i \in 1..at[p] : b[i][1] \in MetaKey
    BY <2>1
  <2>3. ASSUME NEW i \in 1..at[p]
        PROVE  b[i][1] # b[n][1]
    <3>1. i \in 1..Len(b) /\ i # n
      BY <2>1
    <3> QED
      BY <2>1, <3>1, BatchAssumption
  <2>4. /\ stray' = [stray EXCEPT ![b[n][1]] = b[n][2]]
        /\ at'[p] = n
        /\ pc[p] = "update"
        /\ UNCHANGED <<exists, version, cfs, meta, lock, pc, isNew, handles,
                        runs, made, target, batch, torn>>
    BY <1>17 DEF PutNull, NextItem
  <2>5. Written(p) = stray /\ Written(p)' = stray'
    BY <1>17, <2>4 DEF PutNull, Written, HasMeta
  <2>6. ASSUME NEW i \in 1..n
        PROVE  stray'[b[i][1]] = b[i][2]
    <3>1. CASE i = n
      BY <2>1, <2>2, <2>4, <3>1
    <3>2. CASE i \in 1..at[p]
      <4>1. stray[b[i][1]] = b[i][2]
        BY <2>4, <2>5, <3>2
      <4> QED
        BY <2>1, <2>2, <2>3, <2>4, <3>2, <4>1
    <3> QED
      BY <2>1, <3>1, <3>2
  <2>7. Stored(p)'
    BY <2>4, <2>5, <2>6
  <2>8. Clean(p)' /\ Names(p)' /\ Held(p)' /\ Mirror(p)' /\ Versions(p)'
    BY <2>4
  <2>9. GlobalInv'
    BY <2>4
  <2> QED
    BY <2>7, <2>8, <2>9
<1>18. CASE UpdateRaises(p)
  BY <1>18 DEF UpdateRaises, EndCall
<1>19. CASE UpdateDone(p)
  BY <1>19 DEF UpdateDone, EndCall
<1>20. ASSUME NEW w \in Writer, CloseWriter(p, w)
       PROVE  Goal
  BY <1>20 DEF CloseWriter, AtRest
<1>21. ASSUME NEW w \in Writer, DanglingUpdate(p, w)
       PROVE  Goal
  BY <1>21, <1>1 DEF DanglingUpdate
<1>22. CASE CloseNew(p)
  BY <1>22 DEF CloseNew, EndSession, SetObject
<1>23. CASE CloseExisting(p)
  BY <1>23 DEF CloseExisting
<1>24. ASSUME NEW c \in CF, DropCF(p, c)
       PROVE  Goal
  <2>1. /\ pc[p] = "drop" /\ lock = p /\ handles[p] = cfs
        /\ c \in NextDrops(p) /\ cfs' = cfs \ {c}
        /\ handles'[p] = handles[p] \ {c}
        /\ UNCHANGED <<exists, version, lock, pc, isNew, runs, made, torn>>
    BY <1>24 DEF DropCF
  <2>2. ~isNew[p]
    BY <2>1
  <2>3. ~torn => \A r \in Run : Data(r) \in cfs' => Meta(r) \in cfs'
    <3> SUFFICES ASSUME ~torn, NEW r \in Run, Data(r) \in cfs'
                 PROVE  Meta(r) \in cfs'
      OBVIOUS
    <3>1. Meta(r) \in cfs
      BY <2>1
    <3>2. CASE HalfDropped(p) # {}
      <4>1. PICK h \in HalfDropped(p) : c = Meta(h)
        BY <2>1, <3>2 DEF NextDrops
      <4>2. Data(h) \notin cfs
        BY <2>1 DEF HalfDropped
      <4>3. h # r
        BY <2>1, <4>2
      <4> QED
        BY <2>1, <3>1, <4>1, <4>3 DEF Meta
    <3>3. CASE HalfDropped(p) = {}
      <4>1. c[2] = "data"
        BY <2>1, <3>3 DEF NextDrops
      <4> QED
        BY <2>1, <3>1, <4>1 DEF Meta
    <3> QED
      BY <3>2, <3>3
  <2>4. RunsOf(cfs)' \subseteq runs'[p]
    BY <2>1
  <2>5. \A r \in Run : Meta(r) \notin cfs' => meta'[r] = NoMeta
    <3> SUFFICES ASSUME NEW r \in Run, Meta(r) \notin cfs'
                 PROVE  meta'[r] = NoMeta
      OBVIOUS
    <3>1. meta' = IF c[2] = "meta" THEN [meta EXCEPT ![c[1]] = NoMeta] ELSE meta
      BY <1>24 DEF DropCF
    <3>2. CASE c = Meta(r)
      BY <3>1, <3>2 DEF Meta
    <3>3. CASE c # Meta(r)
      <4>1. meta[r] = NoMeta
        BY <2>1, <3>3
      <4> QED
        BY <3>1, <4>1 DEF CF
    <3> QED
      BY <3>2, <3>3
  <2> QED
    BY <2>1, <2>2, <2>3, <2>4, <2>5
<1>25. CASE CloseDone(p)
  BY <1>25 DEF CloseDone, EndSession, SetObject
<1>26. CASE Crash(p)
  BY <1>26, <1>1 DEF Crash
<1> QED
  BY <1>2, <1>3, <1>4, <1>5, <1>6, <1>7, <1>8, <1>9, <1>10, <1>11, <1>12,
     <1>13, <1>14, <1>15, <1>16, <1>17, <1>18, <1>19, <1>20, <1>21, <1>22,
     <1>23, <1>24, <1>25, <1>26
  DEF Continue, Request, Fail

\* The invariant holds before the first call.
LEMMA InitInv == Init => IInv
<1> SUFFICES ASSUME Init PROVE IInv
  OBVIOUS
<1>1. GlobalInv
  BY DEF Init, GlobalInv, CleanDiskReopens, VersionComplete, RunsWhole,
         VersionKey
<1>2. ASSUME NEW p \in Client PROVE LocalInv(p)
  BY NoneAssumption DEF Init, LocalInv, Held, Mirror, Versions, Names, Clean,
     Stored, Session, VersionKey, Opening
<1> QED
  BY InitType, <1>1, <1>2 DEF IInv

\* Every step keeps the invariant: the acting client's part by OwnKeep, the
\* other clients' parts by OthersKeep.
LEMMA StepInv == IInv /\ [Next]_vars => IInv'
<1> SUFFICES ASSUME IInv, [Next]_vars PROVE IInv'
  OBVIOUS
<1>1. CASE UNCHANGED vars
  BY <1>1 DEF vars, disk, object, call, IInv, TInv, TypeOK, CallInv, GlobalInv,
     CleanDiskReopens, VersionSupported, VersionComplete, RunsWhole, RunsOf,
     LocalInv, Held, Mirror, Versions, Names, Clean, Stored, Written, HasMeta
<1>2. ASSUME NEW p \in Client, Continue(p) \/ Request(p) \/ Fail(p)
      PROVE  IInv'
  <2>1. TInv'
    BY <1>2, StepType DEF IInv
  <2>2. LocalInv(p)' /\ GlobalInv'
    BY <1>2, <2>1, OwnKeep DEF TInv
  <2>3. ASSUME NEW q \in Client, q # p PROVE LocalInv(q)'
    BY <1>2, <2>3, OthersKeep
  <2> QED
    BY <2>1, <2>2, <2>3 DEF IInv
<1> QED
  BY <1>1, <1>2 DEF Next

\* The inductive invariant holds in every reachable state: whoever holds the
\* LOCK mirrors the disk, whatever fails or crashes (openWriteAppend,
\* addRunWriter, update, closeDatabase).
THEOREM Invariance == Spec => []IInv
  BY InitInv, StepInv, PTL DEF Spec

-----------------------------------------------------------------------------
(* What follows from it. *)

\* While a client has a session it alone holds the LOCK, and m_cf lists exactly
\* the column families on disk (openWriteAppend, addRunWriter, closeDatabase).
THEOREM MirrorTheorem == Spec => []SessionMirrorsDisk
<1>1. IInv => SessionMirrorsDisk
  BY DEF IInv, LocalInv, Held, Mirror, SessionMirrorsDisk
<1> QED
  BY <1>1, Invariance, PTL

\* A session whose column families closeDatabase keeps (m_isNew) made them all.
THEOREM NewSessionTheorem == Spec => []NewSessionMadeAll
<1>1. IInv => NewSessionMadeAll
  BY DEF IInv, LocalInv, Mirror, NewSessionMadeAll
<1> QED
  BY <1>1, Invariance, PTL

\* Runs are on disk only beside a complete, supported version
\* (DBVersion::writeTo comes before any addRunWriter, whatever fails).
THEOREM VersionTheorem == Spec => []VersionBeforeRuns
<1>1. IInv => VersionBeforeRuns
  BY DEF IInv, GlobalInv, VersionSupported, VersionBeforeRuns
<1> QED
  BY <1>1, Invariance, PTL

\* A database that no failure tore and nobody has open passes the checks of
\* readFrom and initRuns.
THEOREM ReopenTheorem == Spec => []CleanDiskReopens
<1>1. IInv => CleanDiskReopens
  BY DEF IInv, GlobalInv
<1> QED
  BY <1>1, Invariance, PTL

\* On an untorn database of a supported serializer version the constructor of
\* RockDB_Database never leaks the LOCK.
THEOREM NoLeakTheorem == Spec => []LockHeldByObject
<1>1. IInv => LockHeldByObject
  BY DEF IInv, LocalInv, Clean, LockHeldByObject
<1> QED
  BY <1>1, Invariance, PTL

\* assert(version.major == currentMajor) in openWriteAppend cannot fail.
THEOREM MajorTheorem == Spec => []MajorStillSupported
<1>1. IInv => MajorStillSupported
  BY DEF IInv, LocalInv, Versions, MajorStillSupported
<1> QED
  BY <1>1, Invariance, PTL

\* update stores its items undisturbed by other clients.
THEOREM StoredTheorem == Spec => []PutsStored
<1>1. IInv => PutsStored
  BY DEF IInv, LocalInv, Stored, PutsStored
<1> QED
  BY <1>1, Invariance, PTL

\* addRunWriter never asks for a column family that exists.
THEOREM NameTheorem == Spec => []NameIsFree
<1>1. IInv => NameIsFree
  BY DEF IInv, LocalInv, Names, NameIsFree
<1> QED
  BY <1>1, Invariance, PTL

-----------------------------------------------------------------------------
(* RunStore implements RunCatalogue: whole runs, owned by one client. *)

\* Every step of a client is a step of the catalogue or leaves it as it is.
LEMMA StepCatalogue ==
  ASSUME IInv, TypeOK', NEW p \in Client,
         Continue(p) \/ Request(p) \/ Fail(p)
  PROVE  [Catalogue!Next]_(Catalogue!vars)
<1> DEFINE Goal == [Catalogue!Next]_(Catalogue!vars)
           Same == UNCHANGED <<cfs, meta>>
<1>a. /\ TypeOK /\ CallInv /\ LocalInv(p) /\ GlobalInv /\ p # NoClient
      /\ pc[p] \in Session \cup VersionKey => lock = p
      /\ lock \in Client => LocalInv(lock)
  BY NoneAssumption DEF IInv, TInv, TypeOK, LocalInv, Held
<1>b. ASSUME Same PROVE Whole' = Whole /\ Contents' = Contents
  BY <1>b DEF Whole, Contents
<1>c. ASSUME Same, lock' = lock, pc' = pc \/
             \E l \in PC \ {"drop"} : pc[p] # "drop" /\ pc' = [pc EXCEPT ![p] = l]
      PROVE  Goal
  <2>1. Closing' = Closing
    BY <1>a, <1>c DEF Closing, TypeOK
  <2> QED
    BY <1>b, <1>c, <2>1 DEF Catalogue!vars
<1>d. ASSUME Same, lock = NoClient, lock' = p, pc'[p] # "drop"
      PROVE  Goal
  <2>1. Closing = FALSE /\ Closing' = FALSE
    BY <1>a, <1>d DEF Closing
  <2>2. Catalogue!Open(p)
    BY <1>b, <1>d, <2>1 DEF Catalogue!Open
  <2> QED
    BY <2>2 DEF Catalogue!Next
<1>e. ASSUME Same, lock = p, lock' = NoClient
      PROVE  Goal
  <2>1. Closing' = FALSE
    BY <1>e DEF Closing
  <2>2. Catalogue!LetGo
    BY <1>a, <1>b, <1>e, <2>1 DEF Catalogue!LetGo
  <2> QED
    BY <2>2 DEF Catalogue!Next
<1> USE DEF Goto, disk, object, call
<1>1. ASSUME Die(p) PROVE Goal
  <2>1. CASE lock = p
    BY <1>1, <1>e, <2>1 DEF Die
  <2>2. CASE lock # p
    <3>1. pc[p] # "drop"
      BY <1>a, <2>2 DEF Session
    <3>2. Same /\ lock' = lock /\ pc' = [pc EXCEPT ![p] = "idle"]
      BY <1>1, <2>2 DEF Die
    <3>3. "idle" \in PC \ {"drop"}
      BY DEF PC
    <3> QED
      BY <3>1, <3>2, <3>3, <1>c
  <2> QED
    BY <2>1, <2>2
<1>2. CASE OpenAppend(p)
  BY <1>2, <1>c DEF OpenAppend, PC, Opening, VersionKey, Session
<1>3. CASE OpenRefused(p)
  BY <1>3, <1>c DEF OpenRefused, vars
<1>4. CASE ListCF(p)
  BY <1>4, <1>c DEF ListCF, PC, Opening, VersionKey, Session
<1>5. CASE CreateDB(p)
  BY <1>5, <1>a, <1>d DEF CreateDB, CanCreate, TypeOK
<1>6. CASE PutVersion(p)
  <2>1. /\ pc[p] \in VersionKey /\ Same /\ lock' = lock
        /\ pc' = [pc EXCEPT ![p] = AfterKey[pc[p]]]
    BY <1>6 DEF PutVersion
  <2>2. pc[p] # "drop" /\ AfterKey[pc[p]] \in {"minor", "serializer", "ready"}
    BY <2>1 DEF VersionKey, AfterKey
  <2>3. AfterKey[pc[p]] \in PC \ {"drop"}
    BY <2>2 DEF PC, VersionKey, Session
  <2> QED
    BY <2>1, <2>2, <2>3, <1>c
<1>7. CASE PutVersionFails(p)
  BY <1>7, <1>c DEF PutVersionFails, PC, Opening, VersionKey, Session
<1>8. CASE OpenExisting(p)
  BY <1>8, <1>a, <1>d DEF OpenExisting, TypeOK
<1>9. CASE OpenFails(p)
  BY <1>9, <1>c DEF OpenFails, MayFailToOpen, PC, Opening, VersionKey, Session
<1>10. ASSUME NEW r \in Run, NEW w \in Writer, NEW b \in Batches, AddNewRun(p, r, w, b)
       PROVE  Goal
  BY <1>10, <1>c DEF AddNewRun, PC, Opening, VersionKey, Session
<1>11. ASSUME NEW r \in Run, NEW w \in Writer, NEW b \in Batches, AddExistingRun(p, r, w, b)
       PROVE  Goal
  BY <1>11, <1>c DEF AddExistingRun, PC, Opening, VersionKey, Session
<1>12. CASE CreateData(p)
  <2>1. /\ target[p] \in Run /\ Meta(target[p]) \notin cfs /\ lock = p
        /\ cfs' = cfs \cup {Data(target[p])}
        /\ pc' = [pc EXCEPT ![p] = "mkMeta"] /\ pc[p] = "mkData"
        /\ UNCHANGED <<meta, lock>>
    BY <1>12, <1>a DEF CreateData, Create, CallInv, LocalInv, Names, Session
  <2>2. Whole' = Whole
    BY <2>1 DEF Whole, Data, Meta
  <2>3. Contents' = Contents
    BY <2>1, <2>2 DEF Contents
  <2>4. Closing' = Closing
    BY <2>1, <1>a DEF Closing, TypeOK
  <2> QED
    BY <2>1, <2>2, <2>3, <2>4 DEF Catalogue!vars
<1>13. CASE CreateMeta(p)
  <2> DEFINE r == target[p]
  <2>1. /\ r \in Run /\ lock = p
        /\ Meta(r) \notin cfs /\ Data(r) \in cfs
        /\ cfs' = cfs \cup {Meta(r)}
        /\ pc' = [pc EXCEPT ![p] = "update"] /\ pc[p] = "mkMeta"
        /\ UNCHANGED <<meta, lock>>
    BY <1>13, <1>a DEF CreateMeta, Create, CallInv, LocalInv, Names, Session
  <2>2. Whole' = Whole \cup {r} /\ r \notin Whole
    BY <2>1 DEF Whole, Data, Meta
  <2>3. meta[r] = NoMeta
    BY <2>1, <1>a DEF GlobalInv
  <2>4. Contents' = Contents
    BY <2>1, <2>2, <2>3 DEF Contents
  <2>5. Closing = FALSE /\ Closing' = FALSE
    BY <2>1, <1>a DEF Closing, TypeOK
  <2>6. Catalogue!Add(r)
    BY <2>1, <2>2, <2>4, <2>5, <1>a DEF Catalogue!Add
  <2> QED
    BY <2>1, <2>6 DEF Catalogue!Next
<1>14. CASE CreateFails(p)
  BY <1>14, <1>c DEF CreateFails, PC, Opening, VersionKey, Session
<1>15. ASSUME NEW w \in Writer, NEW b \in Batches, BeginUpdate(p, w, b)
       PROVE  Goal
  BY <1>15, <1>c DEF BeginUpdate, PC, Opening, VersionKey, Session
<1>16. CASE PutMeta(p)
  <2> DEFINE r == target[p]
             k == NextItem(p)[1]
             v == NextItem(p)[2]
  <2>1. /\ r \in Run /\ lock = p /\ lock' = lock
        /\ meta' = [meta EXCEPT ![r][k] = v]
        /\ pc' = pc /\ pc[p] = "update" /\ cfs' = cfs
    BY <1>16, <1>a DEF PutMeta, CallInv, Session
  <2>2. NextItem(p) \in MetaKey \X MetaVal
    BY <1>16, <1>a, BatchType DEF PutMeta, NextItem, CallInv
  <2>3. Whole' = Whole /\ Closing = FALSE /\ Closing' = FALSE
    BY <2>1 DEF Whole, Closing
  <2>4. CASE r \notin Whole
    <3>1. Contents' = Contents
      BY <2>1, <2>3, <2>4, <1>a DEF Contents, TypeOK
    <3> QED
      BY <2>1, <2>3, <3>1 DEF Catalogue!vars
  <2>5. CASE r \in Whole
    <3>1. Contents' = [Contents EXCEPT ![r][k] = v]
      BY <2>1, <2>3, <2>5, <1>a DEF Contents, TypeOK
    <3>2. Catalogue!Write(r, k, v)
      BY <2>1, <2>3, <2>5, <3>1, <1>a DEF Catalogue!Write
    <3> QED
      BY <2>1, <2>2, <3>2 DEF Catalogue!Next
  <2> QED
    BY <2>4, <2>5
<1>17. CASE PutNull(p)
  BY <1>17, <1>c DEF PutNull
<1>18. CASE UpdateRaises(p)
  BY <1>18, <1>c DEF UpdateRaises, PC, Opening, VersionKey, Session
<1>19. CASE UpdateDone(p)
  BY <1>19, <1>c DEF UpdateDone, PC, Opening, VersionKey, Session
<1>20. ASSUME NEW w \in Writer, CloseWriter(p, w)
       PROVE  Goal
  BY <1>20, <1>c DEF CloseWriter
<1>21. ASSUME NEW w \in Writer, DanglingUpdate(p, w)
       PROVE  Goal
  BY <1>21, <1>1 DEF DanglingUpdate
<1>22. CASE CloseNew(p)
  BY <1>22, <1>a, <1>e DEF CloseNew, EndSession, Session
<1>23. CASE CloseExisting(p)
  <2>1. /\ lock = p /\ lock' = lock /\ pc'[p] = "drop" /\ Same
    BY <1>23, <1>a DEF CloseExisting, Session, TypeOK
  <2>2. Closing' = TRUE
    BY <2>1, <1>a DEF Closing
  <2>3. Catalogue!StartClosing
    BY <1>a, <1>b, <2>1, <2>2 DEF Catalogue!StartClosing
  <2> QED
    BY <2>3 DEF Catalogue!Next
<1>24. ASSUME NEW c \in CF, DropCF(p, c)
       PROVE  Goal
  <2>1. /\ pc[p] = "drop" /\ lock = p /\ lock' = lock /\ pc' = pc
        /\ handles[p] = cfs /\ c \in NextDrops(p)
        /\ cfs' = cfs \ {c}
        /\ meta' = IF c[2] = "meta" THEN [meta EXCEPT ![c[1]] = NoMeta] ELSE meta
    BY <1>24, <1>a DEF DropCF, LocalInv, Mirror, Session
  <2>2. Closing = TRUE /\ Closing' = TRUE
    BY <2>1, <1>a DEF Closing
  <2>3. CASE c[2] = "meta"
    <3>1. PICK r \in HalfDropped(p) : c = Meta(r)
      BY <2>1, <2>3 DEF NextDrops
    <3>2. r \in Run /\ Data(r) \notin cfs /\ c[1] = r
      BY <2>1, <3>1 DEF HalfDropped, Meta
    <3>3. Whole' = Whole /\ r \notin Whole
      BY <2>1, <3>1, <3>2 DEF Whole, Data, Meta
    <3>4. Contents' = Contents
      BY <2>1, <2>3, <3>2, <3>3, <1>a DEF Contents, TypeOK
    <3> QED
      BY <2>1, <2>2, <3>3, <3>4 DEF Catalogue!vars
  <2>4. CASE c[2] # "meta"
    <3>1. PICK r \in Run : c = Data(r)
      BY <2>4 DEF CF, Data
    <3>2. Whole' = Whole \ {r} /\ meta' = meta
      BY <2>1, <2>4, <3>1 DEF Whole, Data, Meta
    <3>3. Contents' = [Contents EXCEPT ![r] = NoMeta]
      BY <3>1, <3>2 DEF Contents
    <3>4. Catalogue!Remove(r)
      BY <2>1, <2>2, <3>2, <3>3 DEF Catalogue!Remove, Catalogue!Empty, NoMeta
    <3> QED
      BY <3>1, <3>4 DEF Catalogue!Next
  <2> QED
    BY <2>3, <2>4
<1>25. CASE CloseDone(p)
  BY <1>25, <1>a, <1>e DEF CloseDone, EndSession, Session
<1>26. CASE Crash(p)
  BY <1>26, <1>1 DEF Crash
<1> QED
  BY <1>2, <1>3, <1>4, <1>5, <1>6, <1>7, <1>8, <1>9, <1>10, <1>11, <1>12,
     <1>13, <1>14, <1>15, <1>16, <1>17, <1>18, <1>19, <1>20, <1>21, <1>22,
     <1>23, <1>24, <1>25, <1>26
  DEF Continue, Request, Fail

\* The runs and the LOCK of rocksdb.cpp behave as RunCatalogue promises: one
\* owner, whole runs added empty, written only while there, removed only by an
\* owner that is closing.
THEOREM Implements == Spec => ImplementsCatalogue
<1>1. Init => Catalogue!Init
  <2> SUFFICES ASSUME Init PROVE Catalogue!Init
    OBVIOUS
  <2>1. Whole = {} /\ Closing = FALSE
    BY DEF Init, Whole, Closing
  <2>2. Contents = [r \in Run |-> NoMeta]
    BY <2>1 DEF Contents
  <2> QED
    BY <2>1, <2>2 DEF Init, Catalogue!Init, Catalogue!Empty, NoMeta
<1>2. IInv /\ IInv' /\ [Next]_vars => [Catalogue!Next]_(Catalogue!vars)
  <2> SUFFICES ASSUME IInv, IInv', [Next]_vars
               PROVE  [Catalogue!Next]_(Catalogue!vars)
    OBVIOUS
  <2>1. CASE UNCHANGED vars
    BY <2>1 DEF vars, disk, Catalogue!vars, Whole, Closing, Contents
  <2>2. CASE Next
    BY <2>2, StepCatalogue DEF Next, IInv, TInv
  <2> QED
    BY <2>1, <2>2
<1> QED
  BY <1>1, <1>2, Invariance, PTL DEF Spec, ImplementsCatalogue, Catalogue!Spec
=============================================================================
