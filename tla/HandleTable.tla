----------------------------- MODULE HandleTable -----------------------------
(* The column family handles of one RockDB_Database object after the other      *)
(* (db/rocksdb.cpp): the vector m_cf, the pointers that m_runs has to the same  *)
(* handles, and what becomes of both when an open fails or the database closes.  *)
(* RunStore has the clients that compete for a path; here one process uses it,   *)
(* the handles are in their order, and the path may hold a column family that is *)
(* none of a run.  Whether the version keys are complete is left to RunStore:    *)
(* here an open that gets that far may fail.                                     *)
(*                                                                               *)
(* External (RocksDB itself): column families are listed with the default one      *)
(* first, and opening makes a handle for each of those listed, in that order.    *)
(*   A handle is used and destroyed by whoever got it, before the DB is    *)
(* deleted; DefaultColumnFamily() is a handle of the DB's own.                    *)
EXTENDS Naturals, Sequences, FiniteSets

CONSTANTS Run,        \* hashes of runs
          Foreign,    \* names that end neither in .data nor in .meta
          Null        \* the null pointer

ASSUME NamesAssumption ==
    /\ IsFiniteSet(Run) /\ IsFiniteSet(Foreign)
    /\ \A c \in Foreign : c[2] \notin {"data", "meta", "default", "builtin"}
    /\ \A r \in Run : Null \notin {<<r, "data">>, <<r, "meta">>}

VARIABLES
    engines,    \* the names in the register of engines
    disk,       \* column families at the path, none if there is no database
    phase,      \* of the object: "none", "open", "closed"; "leaked" after a throw
                \* with the DB open, "undefined" after a handle was misused
    cf,         \* m_cf
    isNew,      \* m_isNew
    runs,       \* m_runs
    live,       \* handles that somebody has to destroy
    misused     \* history: handles used, or destroyed, after they were destroyed

object == <<cf, isNew, runs>>
vars == <<engines, disk, phase, object, live, misused>>

Default == <<Null, "default">>
Builtin == <<Null, "builtin">>     \* what DefaultColumnFamily() returns
Data(r) == <<r, "data">>
Meta(r) == <<r, "meta">>
CF == Run \X {"data", "meta"}

Elements(s) == {s[i] : i \in DOMAIN s}

\* The lists of the column families in S: the default one, then the others.
Lists(S) ==
    LET others == S \ {Default}
    IN {<<Default>> \o s : s \in {t \in [1 .. Cardinality(others) -> others] : Elements(t) = others}}

\* Mutant: a name without its suffix is that of a run's data.
parsRunNameAnyIsData(name) == IF name[2] \in {"data", "meta"} THEN name[2] ELSE "data"
\* parsRunName: what the suffix of a name tells.
parsRunName(name) == IF name[2] \in {"data", "meta"} THEN name[2] ELSE "unknown"

Unknown(S) == {c \in S \ {Default} : parsRunName(c) = "unknown"}
-----------------------------------------------------------------------------
Init ==
    /\ engines = {}
    /\ disk = {}
    /\ phase = "none"
    /\ cf = <<>> /\ isNew = FALSE /\ runs = <<>>
    /\ live = {} /\ misused = {}

\* EngineRegister::add, from the initialization of the Python module.
RegisterEngine ==
    /\ "ROCKDBCF" \notin engines
    /\ engines' = engines \cup {"ROCKDBCF"}
    /\ UNCHANGED <<disk, phase, object, live, misused>>

\* Another program makes a column family of its own at the path, while it is free.
ForeignTool ==
    /\ phase = "none" /\ disk # {}
    /\ \E x \in Foreign : disk' = disk \cup {x}
    /\ UNCHANGED <<engines, phase, object, live, misused>>

\* Database::open finds the engine, and its OpenProc constructs the object.
Constructing == phase = "none" /\ "ROCKDBCF" \in engines

\* Database::open of an engine that is not registered throws, and so do an invalid
\* mode, a version that is not supported, and DB::Open.
OpenRefused == phase = "none" /\ UNCHANGED vars

\* Modes r, w and x open nothing: m_db stays null, as it is after close.
OpenOther ==
    /\ Constructing
    /\ phase' = "closed"
    /\ isNew' \in BOOLEAN
    /\ cf' = <<>> /\ runs' = <<>>
    /\ UNCHANGED <<engines, disk, live, misused>>

\* openWriteAppend where there is nothing: the handle of the default column family
\* is the DB's own.  When the version cannot be written, the DB is never closed.
OpenNew(succeeds) ==
    /\ Constructing /\ disk = {}
    /\ disk' = {Default}
    /\ live' = {Builtin}
    /\ IF succeeds THEN phase' = "open" /\ cf' = <<Builtin>> /\ isNew' = TRUE
                   ELSE phase' = "leaked" /\ UNCHANGED <<cf, isNew>>
    /\ runs' = <<>>
    /\ UNCHANGED <<engines, misused>>

\* initRuns: an entry for each run that one of the names belongs to.
initRuns(S) ==
    LET of(c) == IF c \in S THEN c ELSE Null
    IN [r \in {q \in Run : Data(q) \in S \/ Meta(q) \in S} |->
            [data |-> of(Data(r)), meta |-> of(Meta(r))]]

Whole(entries) == \A r \in DOMAIN entries : Null \notin {entries[r].data, entries[r].meta}

\* openWriteAppend of what is on disk, as far as initRuns and, when it fails or what
\* follows it does, without a call of closeDatabase.
OpenExisting(succeeds) ==
    /\ Constructing /\ disk # {} /\ Unknown(disk) = {}
    /\ cf' \in Lists(disk)
    /\ live' = disk \cup {Builtin}
    /\ runs' = initRuns(disk)
    /\ succeeds => Whole(runs')
    /\ phase' = IF succeeds THEN "open" ELSE "leaked"
    /\ isNew' = FALSE
    /\ UNCHANGED <<engines, disk, misused>>

\* A column family that is none of a run: initRuns destroys every handle, and then
\* calls closeDatabase, which goes over m_cf again, as m_isNew happens to tell it.
OpenForeign ==
    /\ Constructing /\ disk # {} /\ Unknown(disk) # {}
    /\ cf' \in Lists(disk)
    /\ live' = {Builtin}
    /\ isNew' \in BOOLEAN
    /\ misused' = Elements(IF isNew' THEN Tail(cf') ELSE cf')
    /\ phase' = "undefined"
    /\ runs' = <<>>
    /\ UNCHANGED <<engines, disk>>

\* m_runs.emplace of a hash.
SetEntry(r, data, meta) ==
    runs' = [q \in DOMAIN runs \cup {r} |->
                IF q = r THEN [data |-> data, meta |-> meta] ELSE runs[q]]

\* Mutant: the handle of the meta column family is not kept in m_cf.
AddRunUnlisted(r, made) ==
    /\ phase = "open" /\ r \notin DOMAIN runs
    /\ Elements(made) \cap disk = {}
    /\ disk' = disk \cup Elements(made)
    /\ cf' = cf \o SelectSeq(made, LAMBDA c : c[2] = "data")
    /\ live' = live \cup Elements(made)
    /\ SetEntry(r, IF made = <<>> THEN Null ELSE made[1],
                   IF Len(made) = 2 THEN made[2] ELSE Null)
    /\ UNCHANGED <<engines, phase, isNew, misused>>
\* addRunWriter of a hash that m_runs does not have: the data column family is
\* created, then the meta one, unless RocksDB refuses; the entry is there already.
AddRun(r, made) ==
    /\ phase = "open" /\ r \notin DOMAIN runs
    /\ Elements(made) \cap disk = {}
    /\ disk' = disk \cup Elements(made)
    /\ cf' = cf \o made
    /\ live' = live \cup Elements(made)
    /\ SetEntry(r, IF made = <<>> THEN Null ELSE made[1],
                   IF Len(made) = 2 THEN made[2] ELSE Null)
    /\ UNCHANGED <<engines, phase, isNew, misused>>

AddRuns == \E r \in Run : \E made \in {<<>>, <<Data(r)>>, <<Data(r), Meta(r)>>} : AddRun(r, made)

\* Mutant: the handle of the default column family is destroyed in both cases.
ToDestroyAll == cf
\* Mutant: the handles that were dropped are not destroyed.
ToDestroyDefault == IF isNew THEN Tail(cf) ELSE <<Head(cf)>>
\* closeDatabase: what it destroys; the handle of a new database's default column
\* family is not its own.
ToDestroy == IF isNew THEN Tail(cf) ELSE cf

\* Mutant: from the first on.
ToDropAll == IF isNew THEN <<>> ELSE cf
\* What it drops before that.
ToDrop == IF isNew THEN <<>> ELSE Tail(cf)

\* close, or the end of the object.
CloseDatabase ==
    /\ phase = "open"
    /\ disk' = disk \ Elements(ToDrop)
    /\ misused' = misused \cup {c \in Elements(ToDestroy) : c \notin live \ {Builtin}}
    /\ live' = (live \ Elements(ToDestroy)) \ {Builtin}
    /\ phase' = IF misused' = {} THEN "closed" ELSE "undefined"
    /\ cf' = <<>> /\ runs' = <<>>
    /\ UNCHANGED <<engines, isNew>>

\* The destructor of a database that is closed, and a close of it, do nothing more.
Destruct ==
    /\ phase = "closed"
    /\ phase' = "none"
    /\ UNCHANGED <<engines, disk, object, live, misused>>

\* The process ends, in whatever state it is, and another one begins.
Die ==
    /\ engines' = {} /\ phase' = "none"
    /\ cf' = <<>> /\ isNew' = FALSE /\ runs' = <<>>
    /\ live' = {} /\ misused' = {}
    /\ UNCHANGED disk

Next ==
    \/ RegisterEngine \/ ForeignTool \/ OpenRefused \/ OpenOther
    \/ \E succeeds \in BOOLEAN : OpenNew(succeeds) \/ OpenExisting(succeeds)
    \/ OpenForeign \/ AddRuns \/ CloseDatabase \/ Destruct \/ Die

Spec == Init /\ [][Next]_vars
-----------------------------------------------------------------------------
Handles == CF \cup {Default, Builtin}

\* The handles of an object are those of runs and of default column families: a name
\* that parsRunName does not know never gets into the tables.
TypeOK ==
    /\ engines \subseteq {"ROCKDBCF"}
    /\ disk \subseteq CF \cup Foreign \cup {Default}
    /\ phase \in {"none", "open", "closed", "leaked", "undefined"}
    /\ phase # "undefined" => Elements(cf) \subseteq Handles
    /\ isNew \in BOOLEAN
    /\ DOMAIN runs \subseteq Run
    /\ \A r \in DOMAIN runs : runs[r].data \in {Data(r), Null} /\ runs[r].meta \in {Meta(r), Null}
    /\ live \subseteq Handles

\* No handle is used or destroyed after it was destroyed, whichever of the two loops
\* of closeDatabase runs and whatever failed before, unless initRuns came upon a
\* column family that is none of a run.
HandlesDestroyedOnce == misused # {} => Unknown(disk) # {}

\* When closeDatabase deletes the DB, every handle that somebody got from it is
\* destroyed, those of a run that was only half created included.
NothingLeaks == phase = "closed" => live = {}

\* What the entries of m_runs point to.
Pointers == {runs[r].data : r \in DOMAIN runs} \cup {runs[r].meta : r \in DOMAIN runs}

\* m_cf and m_runs are two views of the same handles: each column family in m_cf is
\* in one place of one entry of m_runs, nothing else is in m_runs, and a writer that
\* goes through its entry finds a handle that is not destroyed.
RunsPointToHandles ==
    phase = "open" =>
        /\ Pointers \ {Null} = Elements(cf) \ {Default, Builtin}
        /\ Elements(cf) \subseteq live
        /\ \A i, j \in DOMAIN cf : cf[i] = cf[j] => i = j

\* A database never loses its default column family, and with it its version: the loops
\* of closeDatabase start behind it, "Default must not be dropped" (db/rocksdb.cpp:411).
DefaultSurvives == [][(Default \in disk) => (Default \in disk')]_disk
=============================================================================
