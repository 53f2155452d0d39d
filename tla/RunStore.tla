------------------------------ MODULE RunStore ------------------------------
(***************************************************************************)
(* The run database of db/rocksdb.cpp: clients that open one RocksDB path  *)
(* in append mode, add runs, write run metadata and close.                 *)
(*                                                                         *)
(* A run r is stored in two column families, r.data and r.meta.  The state *)
(* has three parts: what is on disk, what each client's RockDB_Database    *)
(* object holds in memory, and where each client stands inside the call it *)
(* has made.  Every call into RocksDB is one atomic step; everything else  *)
(* a client can do, other clients' steps included, may happen in between.  *)
(*                                                                         *)
(* External (RocksDB itself): DB::Open takes the exclusive LOCK of the     *)
(* path and refuses a list of column families other than the ones on disk; *)
(* OpenForReadOnly and ListColumnFamilies take no lock; a status that is   *)
(* not ok may come back from any of them.  Put takes a null column family  *)
(* handle for the default column family and returns ok.                    *)
(***************************************************************************)
EXTENDS Naturals, Sequences

CONSTANTS
    Client,      \* processes, each using one RockDB_Database object at a time
    Run,         \* run hashes
    Writer,      \* RunWriter handles a client may hold at once (a bound)
    MetaKey,     \* serialized keys, MetaType byte included
    MetaVal,     \* serialized values
    Batches,     \* what update() is given: its dicts' items, in order
    NoClient, NoRun, NoWriter, NoVal,
    Dangling     \* m_run pointing into a map that close() has cleared

ASSUME NoneAssumption == /\ NoClient \notin Client
                         /\ NoRun \notin Run
                         /\ NoWriter \notin Writer
                         /\ NoVal \notin MetaVal
                         /\ Dangling \notin Run \cup {NoRun}

\* A dict has one item per key, and each dict has a MetaType byte of its own.
ASSUME BatchAssumption ==
    /\ Batches \subseteq Seq(MetaKey \X MetaVal)
    /\ \A b \in Batches : \A i, j \in 1..Len(b) : b[i][1] = b[j][1] => i = j

CF == Run \X {"data", "meta"}

Data(r) == <<r, "data">>
Meta(r) == <<r, "meta">>

VARIABLES
    \* on disk
    exists,      \* the path holds a database
    version,     \* the three version keys of the default column family
    cfs,         \* column families, the default one left out
    meta,        \* contents of each run's meta column family
    stray,       \* metadata in the default column family, beside the version
    lock,        \* who has the path open for writing: RocksDB's LOCK file
    \* in the memory of each client
    pc,          \* where its call stands; "ready" and "idle" between calls
    listed,      \* names ListColumnFamilies returned
    isNew,       \* m_isNew
    handles,     \* m_cf, the default one left out
    runs,        \* the keys of m_runs
    writer,      \* m_run of each RunWriter
    target, slot, batch, at,   \* arguments and progress of the current call
    \* history, read by properties only
    made,        \* column families created in this session
    torn         \* a change of several steps was cut short somewhere

disk   == <<exists, version, cfs, meta, stray>>
object == <<isNew, handles, runs, made>>
call   == <<target, slot, batch, at>>
vars   == <<disk, lock, pc, listed, object, writer, call, torn>>

VersionKey == {"major", "minor", "serializer"}

Opening == {"list", "create", "open"}
Session == {"ready", "mkData", "mkMeta", "update", "drop"}
PC == {"idle"} \cup Opening \cup VersionKey \cup Session

NoMeta == [k \in MetaKey |-> NoVal]

-----------------------------------------------------------------------------
(* What a reader of the disk finds. *)

\* DBVersion::readFrom finds all three keys.
VersionComplete == \A k \in VersionKey : version[k] # "unset"

\* initRuns finds both column families of every run it finds one of.
RunsWhole(s) == \A r \in Run : Data(r) \in s <=> Meta(r) \in s

RunsOf(s) == {r \in Run : Data(r) \in s \/ Meta(r) \in s}

\* openWriteAppend gets to its end after DB::Open succeeded.
Openable == /\ RunsWhole(cfs)
            /\ VersionComplete
            /\ version["serializer"] = "current"

-----------------------------------------------------------------------------
(* Either there is nothing at the path, or a database of this or of another *)
(* release with no runs in it yet.                                          *)
Init ==
    /\ \/ /\ exists = FALSE
          /\ version = [k \in VersionKey |-> "unset"]
       \/ /\ exists = TRUE
          /\ version \in [VersionKey -> {"current", "newer"}]
          /\ version["minor"] = "current"
    /\ cfs = {}
    /\ meta = [r \in Run |-> NoMeta]
    /\ stray = NoMeta
    /\ lock = NoClient
    /\ pc = [p \in Client |-> "idle"]
    /\ listed = [p \in Client |-> {}]
    /\ isNew = [p \in Client |-> FALSE]
    /\ handles = [p \in Client |-> {}]
    /\ runs = [p \in Client |-> {}]
    /\ writer = [p \in Client |-> [w \in Writer |-> NoRun]]
    /\ target = [p \in Client |-> NoRun]
    /\ slot = [p \in Client |-> NoWriter]
    /\ batch = [p \in Client |-> <<>>]
    /\ at = [p \in Client |-> 0]
    /\ made = [p \in Client |-> {}]
    /\ torn = FALSE

-----------------------------------------------------------------------------
Goto(p, l) == pc' = [pc EXCEPT ![p] = l]

\* The fields of p's RockDB_Database object.
SetObject(p, new, hs, rs) ==
    /\ isNew' = [isNew EXCEPT ![p] = new]
    /\ handles' = [handles EXCEPT ![p] = hs]
    /\ runs' = [runs EXCEPT ![p] = rs]
    /\ made' = [made EXCEPT ![p] = {}]

\* The call ends: its arguments are gone.
EndCall(p) ==
    /\ target' = [target EXCEPT ![p] = NoRun]
    /\ slot' = [slot EXCEPT ![p] = NoWriter]
    /\ batch' = [batch EXCEPT ![p] = <<>>]
    /\ at' = [at EXCEPT ![p] = 0]

\* Mutant: the cursor starts before the first item.
BeginCallTooEarly(p, r, w, b) ==
    /\ target' = [target EXCEPT ![p] = r]
    /\ slot' = [slot EXCEPT ![p] = w]
    /\ batch' = [batch EXCEPT ![p] = b]
    /\ at' = [at EXCEPT ![p] = @ - 1]

BeginCall(p, r, w, b) ==
    /\ target' = [target EXCEPT ![p] = r]
    /\ slot' = [slot EXCEPT ![p] = w]
    /\ batch' = [batch EXCEPT ![p] = b]
    /\ at' = [at EXCEPT ![p] = 0]

\* Some of p's column families have one of their pair dropped already.
HalfDropped(p) == {r \in Run : /\ Meta(r) \in handles[p]
                               /\ Data(r) \notin handles[p]}

\* Steps after which a process that stops leaves a change half done.
MidChange(p) == \/ pc[p] \in VersionKey \cup {"mkMeta"}
                \/ pc[p] = "drop" /\ HalfDropped(p) # {}

\* p's process ends: the operating system frees the LOCK and its memory.
Die(p) ==
    /\ lock' = IF lock = p THEN NoClient ELSE lock
    /\ Goto(p, "idle")
    /\ listed' = [listed EXCEPT ![p] = {}]
    /\ SetObject(p, FALSE, {}, {})
    /\ writer' = [writer EXCEPT ![p] = [w \in Writer |-> NoRun]]
    /\ EndCall(p)
    /\ torn' = (torn \/ MidChange(p))
    /\ UNCHANGED disk

-----------------------------------------------------------------------------
(* Opening in append mode: openRocksDB, then openWriteAppend. *)

\* Mutant: the major version is not looked at.
SupportedAnyMajor == ~exists \/ VersionComplete

\* The version is read through a read-only open; a path with no database goes
\* on, and so does one whose major version is ours.
Supported == ~exists \/ (VersionComplete /\ version["major"] = "current")

OpenAppend(p) ==
    /\ pc[p] = "idle"
    /\ Supported
    /\ Goto(p, "list")
    /\ UNCHANGED <<disk, lock, listed, object, writer, call, torn>>

\* openRocksDB throws; a read-only open leaves nothing behind.
OpenRefused(p) ==
    /\ pc[p] = "idle"
    /\ ~Supported
    /\ UNCHANGED vars

ListCF(p) ==
    /\ pc[p] = "list"
    /\ listed' = [listed EXCEPT ![p] = cfs]
    /\ Goto(p, IF exists THEN "open" ELSE "create")
    /\ UNCHANGED <<disk, lock, object, writer, call, torn>>

\* Mutant: runs that another client has put at the path since do not matter.
CanCreateOverRuns == lock = NoClient

\* DB::Open(options, path) with create_if_missing lists only the default column
\* family, so it fails if another client has put runs there since.
CanCreate == lock = NoClient /\ cfs = {}

CreateDB(p) ==
    /\ pc[p] = "create"
    /\ CanCreate
    /\ exists' = TRUE
    /\ lock' = p
    /\ Goto(p, "major")
    /\ UNCHANGED <<version, cfs, meta, stray, listed, object, writer, call, torn>>

\* Mutant: writeTo stops before the serializer's version.
AfterKeyTooSoon == [major |-> "minor", minor |-> "ready", serializer |-> "ready"]

AfterKey == [major |-> "minor", minor |-> "serializer", serializer |-> "ready"]

\* DBVersion::writeTo, one Put per key.
PutVersion(p) ==
    /\ pc[p] \in VersionKey
    /\ version' = [version EXCEPT ![pc[p]] = "current"]
    /\ isNew' = [isNew EXCEPT ![p] = (pc[p] = "serializer")]
    /\ Goto(p, AfterKey[pc[p]])
    /\ UNCHANGED <<exists, cfs, meta, stray, lock, listed, handles, runs, made,
                   writer, call, torn>>

\* A Put fails: the constructor throws, the destructor never runs, the DB stays
\* open and keeps the LOCK.
PutVersionFails(p) ==
    /\ pc[p] \in VersionKey
    /\ Goto(p, "idle")
    /\ torn' = TRUE
    /\ UNCHANGED <<disk, lock, listed, object, writer, call>>

\* DB::Open of an existing database, initRuns, readFrom, Serializer::create.
\* When one of the last three throws, the DB stays open and keeps the LOCK.
OpenExisting(p) ==
    /\ pc[p] = "open"
    /\ lock = NoClient
    /\ listed[p] = cfs
    /\ lock' = p
    /\ \/ /\ Openable
          /\ SetObject(p, FALSE, listed[p], RunsOf(listed[p]))
          /\ Goto(p, "ready")
       \/ /\ ~Openable
          /\ Goto(p, "idle")
          /\ UNCHANGED object
    /\ listed' = [listed EXCEPT ![p] = {}]
    /\ UNCHANGED <<disk, writer, call, torn>>

\* Mutant: only a LOCK that is taken makes an open fail.
MayFailToOpenOnLock(p) == pc[p] \in Opening /\ lock # NoClient

\* ListColumnFamilies or DB::Open reports an error: the LOCK is taken, the
\* names have changed, or the file system fails.
MayFailToOpen(p) == pc[p] \in Opening

OpenFails(p) ==
    /\ MayFailToOpen(p)
    /\ Goto(p, "idle")
    /\ listed' = [listed EXCEPT ![p] = {}]
    /\ UNCHANGED <<disk, lock, object, writer, call, torn>>

-----------------------------------------------------------------------------
(* addRunWriter *)

\* m_runs gets its entry before the column families are created.
AddNewRun(p, r, w, b) ==
    /\ pc[p] = "ready"
    /\ writer[p][w] = NoRun
    /\ r \notin runs[p]
    /\ runs' = [runs EXCEPT ![p] = @ \cup {r}]
    /\ BeginCall(p, r, w, b)
    /\ Goto(p, "mkData")
    /\ UNCHANGED <<disk, lock, listed, isNew, handles, made, writer, torn>>

AddExistingRun(p, r, w, b) ==
    /\ pc[p] = "ready"
    /\ writer[p][w] = NoRun
    /\ r \in runs[p]
    /\ BeginCall(p, r, w, b)
    /\ Goto(p, "update")
    /\ UNCHANGED <<disk, lock, listed, object, writer, torn>>

\* Mutant: the new handle is not pushed to m_cf.
CreateUnlisted(p, c) ==
    /\ c \notin cfs
    /\ cfs' = cfs \cup {c}
    /\ made' = [made EXCEPT ![p] = @ \cup {c}]
    /\ UNCHANGED <<exists, version, meta, stray, lock, listed, isNew, handles,
                   runs, writer, call, torn>>

Create(p, c) ==
    /\ c \notin cfs
    /\ cfs' = cfs \cup {c}
    /\ handles' = [handles EXCEPT ![p] = @ \cup {c}]
    /\ made' = [made EXCEPT ![p] = @ \cup {c}]
    /\ UNCHANGED <<exists, version, meta, stray, lock, listed, isNew, runs,
                   writer, call, torn>>

CreateData(p) ==
    /\ pc[p] = "mkData"
    /\ Create(p, Data(target[p]))
    /\ Goto(p, "mkMeta")

CreateMeta(p) ==
    /\ pc[p] = "mkMeta"
    /\ Create(p, Meta(target[p]))
    /\ Goto(p, "update")

\* Mutant: the entry is taken out of m_runs again, the column family is not.
CreateFailsForgets(p) ==
    /\ pc[p] \in {"mkData", "mkMeta"}
    /\ torn' = (torn \/ MidChange(p))
    /\ runs' = [runs EXCEPT ![p] = @ \ {target[p]}]
    /\ EndCall(p)
    /\ Goto(p, "ready")
    /\ UNCHANGED <<disk, lock, listed, isNew, handles, made, writer>>

\* CreateColumnFamily fails: addRunWriter throws and the m_runs entry stays.
CreateFails(p) ==
    /\ pc[p] \in {"mkData", "mkMeta"}
    /\ torn' = (torn \/ MidChange(p))
    /\ EndCall(p)
    /\ Goto(p, "ready")
    /\ UNCHANGED <<disk, lock, listed, object, writer>>

-----------------------------------------------------------------------------
(* RockDB_RunWriter: its constructor ends in update, which the user may     *)
(* call again; setMeta is one Put.                                          *)

BeginUpdate(p, w, b) ==
    /\ pc[p] = "ready"
    /\ writer[p][w] \in Run
    /\ BeginCall(p, writer[p][w], w, b)
    /\ Goto(p, "update")
    /\ UNCHANGED <<disk, lock, listed, object, writer, torn>>

\* Mutant: every round of the loop takes the first item.
NextItemStuck(p) == batch[p][1]

NextItem(p) == batch[p][at[p] + 1]

\* The run that p writes to has a meta handle in m_runs.
HasMeta(p) == Meta(target[p]) \in handles[p]

PutMeta(p) ==
    /\ pc[p] = "update"
    /\ at[p] < Len(batch[p])
    /\ HasMeta(p)
    /\ meta' = [meta EXCEPT ![target[p]][NextItem(p)[1]] = NextItem(p)[2]]
    /\ at' = [at EXCEPT ![p] = @ + 1]
    /\ UNCHANGED <<exists, version, cfs, stray, lock, pc, listed, object, writer,
                   target, slot, batch, torn>>

\* The entry in m_runs has no meta handle: the item goes to the default column
\* family, with a status that is ok, and update goes on.
PutNull(p) ==
    /\ pc[p] = "update"
    /\ at[p] < Len(batch[p])
    /\ ~HasMeta(p)
    /\ stray' = [stray EXCEPT ![NextItem(p)[1]] = NextItem(p)[2]]
    /\ at' = [at EXCEPT ![p] = @ + 1]
    /\ UNCHANGED <<exists, version, cfs, meta, lock, pc, listed, object, writer,
                   target, slot, batch, torn>>

\* serializeWType throws: the items before this one are stored already.
UpdateRaises(p) ==
    /\ pc[p] = "update"
    /\ at[p] < Len(batch[p])
    /\ EndCall(p)
    /\ Goto(p, "ready")
    /\ UNCHANGED <<disk, lock, listed, object, writer, torn>>

UpdateDone(p) ==
    /\ pc[p] = "update"
    /\ at[p] = Len(batch[p])
    /\ writer' = [writer EXCEPT ![p][slot[p]] = target[p]]
    /\ EndCall(p)
    /\ Goto(p, "ready")
    /\ UNCHANGED <<disk, lock, listed, object, torn>>

AtRest(p) == pc[p] \in {"idle", "ready"}

CloseWriter(p, w) ==
    /\ AtRest(p)
    /\ writer[p][w] # NoRun
    /\ writer' = [writer EXCEPT ![p][w] = NoRun]
    /\ UNCHANGED <<disk, lock, pc, listed, object, call, torn>>

\* update with something to write, through an m_run whose RockDB_Run is freed
\* and an m_database whose m_db is null or that is itself freed.
DanglingUpdate(p, w) ==
    /\ AtRest(p)
    /\ writer[p][w] = Dangling
    /\ Die(p)

-----------------------------------------------------------------------------
(* closeDatabase *)

\* Mutant: m_db is not deleted.
EndSessionKeepsDB(p) ==
    /\ SetObject(p, FALSE, {}, {})
    /\ writer' = [writer EXCEPT ![p] =
                    [w \in Writer |-> IF @[w] = NoRun THEN NoRun ELSE Dangling]]
    /\ Goto(p, "idle")
    /\ UNCHANGED <<disk, lock, listed, call, torn>>

\* m_runs.clear, m_cf.clear, delete m_db.
EndSession(p) ==
    /\ lock' = NoClient
    /\ SetObject(p, FALSE, {}, {})
    /\ writer' = [writer EXCEPT ![p] =
                    [w \in Writer |-> IF @[w] = NoRun THEN NoRun ELSE Dangling]]
    /\ Goto(p, "idle")
    /\ UNCHANGED <<disk, listed, call, torn>>

\* m_isNew: the handles are destroyed, the column families stay.
CloseNew(p) ==
    /\ pc[p] = "ready"
    /\ isNew[p]
    /\ EndSession(p)

\* Mutant: the DB is let go before its column families are dropped.
CloseExistingUnlocks(p) ==
    /\ pc[p] = "ready"
    /\ ~isNew[p]
    /\ Goto(p, "drop")
    /\ lock' = NoClient
    /\ UNCHANGED <<disk, listed, object, writer, call, torn>>

\* Otherwise every column family but the default one is dropped first.
CloseExisting(p) ==
    /\ pc[p] = "ready"
    /\ ~isNew[p]
    /\ Goto(p, "drop")
    /\ UNCHANGED <<disk, lock, listed, object, writer, call, torn>>

\* Mutant: the column families are dropped in any order.
NextDropsAny(p) == handles[p]

\* m_cf holds each run's data before its meta, side by side; which run comes
\* first is left open.
NextDrops(p) == IF HalfDropped(p) # {}
                THEN {Meta(r) : r \in HalfDropped(p)}
                ELSE {c \in handles[p] : c[2] = "data"}

DropCF(p, c) ==
    /\ pc[p] = "drop"
    /\ c \in NextDrops(p)
    /\ cfs' = cfs \ {c}
    /\ meta' = IF c[2] = "meta" THEN [meta EXCEPT ![c[1]] = NoMeta] ELSE meta
    /\ handles' = [handles EXCEPT ![p] = @ \ {c}]
    /\ UNCHANGED <<exists, version, stray, lock, pc, listed, isNew, runs, made,
                   writer, call, torn>>

CloseDone(p) ==
    /\ pc[p] = "drop"
    /\ handles[p] = {}
    /\ EndSession(p)

-----------------------------------------------------------------------------
\* The process is killed, exits without closing, or aborts in assert(status.ok()).
Crash(p) ==
    /\ pc[p] # "idle" \/ lock = p \/ \E w \in Writer : writer[p][w] # NoRun
    /\ Die(p)

\* The steps of a call under way that need no further choice of the user.
Continue(p) ==
    \/ ListCF(p)
    \/ CreateDB(p)
    \/ PutVersion(p)
    \/ OpenExisting(p)
    \/ OpenFails(p)
    \/ CreateData(p)
    \/ CreateMeta(p)
    \/ PutMeta(p)
    \/ PutNull(p)
    \/ UpdateDone(p)
    \/ \E c \in CF : DropCF(p, c)
    \/ CloseDone(p)

\* What the user of the API does.
Request(p) ==
    \/ OpenAppend(p)
    \/ OpenRefused(p)
    \/ \E r \in Run, w \in Writer, b \in Batches :
          AddNewRun(p, r, w, b) \/ AddExistingRun(p, r, w, b)
    \/ \E w \in Writer, b \in Batches : BeginUpdate(p, w, b)
    \/ \E w \in Writer : CloseWriter(p, w) \/ DanglingUpdate(p, w)
    \/ CloseNew(p)
    \/ CloseExisting(p)

\* What goes wrong.
Fail(p) ==
    \/ PutVersionFails(p)
    \/ CreateFails(p)
    \/ UpdateRaises(p)
    \/ Crash(p)

Next == \E p \in Client : Continue(p) \/ Request(p) \/ Fail(p)

Spec == Init /\ [][Next]_vars

\* A thread inside a call keeps running; nobody has to call, close or fail.
Fairness == \A p \in Client : WF_vars(Continue(p))

FairSpec == Spec /\ Fairness
-----------------------------------------------------------------------------
TypeOK ==
    /\ exists \in BOOLEAN
    /\ version \in [VersionKey -> {"unset", "current", "newer"}]
    /\ cfs \in SUBSET CF
    /\ meta \in [Run -> [MetaKey -> MetaVal \cup {NoVal}]]
    /\ stray \in [MetaKey -> MetaVal \cup {NoVal}]
    /\ lock \in Client \cup {NoClient}
    /\ pc \in [Client -> PC]
    /\ listed \in [Client -> SUBSET CF]
    /\ isNew \in [Client -> BOOLEAN]
    /\ handles \in [Client -> SUBSET CF]
    /\ runs \in [Client -> SUBSET Run]
    /\ writer \in [Client -> [Writer -> Run \cup {NoRun, Dangling}]]
    /\ target \in [Client -> Run \cup {NoRun}]
    /\ slot \in [Client -> Writer \cup {NoWriter}]
    /\ batch \in [Client -> Batches \cup {<<>>}]
    /\ at \in [Client -> Nat]
    /\ made \in [Client -> SUBSET CF]
    /\ torn \in BOOLEAN

\* While a client has a session it alone holds the LOCK, and m_cf lists exactly
\* the column families on disk: m_cf decides what closeDatabase drops, and was
\* filled from a list read before the LOCK was taken.
SessionMirrorsDisk ==
    \A p \in Client : pc[p] \in Session => lock = p /\ handles[p] = cfs

\* A session that closeDatabase ends without dropping anything (m_isNew) found
\* no column families of anyone else: it made all there are.
NewSessionMadeAll ==
    \A p \in Client : pc[p] \in Session /\ isNew[p] => cfs = made[p]

\* Runs are only ever on disk beside a complete version this release can read,
\* whatever failed or crashed: readFrom never calls a path with runs corrupted.
VersionBeforeRuns ==
    cfs # {} => /\ VersionComplete
                /\ version["major"] = "current"
                /\ version["serializer"] = "current"

\* Unless some change of several steps was cut short, a database that nobody
\* has open passes readFrom and initRuns.
CleanDiskReopens ==
    ~torn /\ exists /\ lock = NoClient => VersionComplete /\ RunsWhole(cfs)

\* The constructor leaks the open DB, and with it the LOCK, only over a torn
\* database or one with an unsupported serializer version: on any other the
\* holder of the LOCK has a session or is writing the version.
LockHeldByObject ==
    ~torn /\ version["serializer"] # "newer" =>
        \A p \in Client : lock = p => pc[p] \in Session \cup VersionKey

\* assert(version.major == currentMajor) in openWriteAppend: the version that
\* openRocksDB checked through another, earlier open is still the one there.
MajorStillSupported ==
    \A p \in Client : pc[p] \in Opening =>
        version["major"] \in {"unset", "current"}

\* What update has stored so far is in the column family that its handle stands
\* for, item by item: nobody else writes to it, drops it or recreates it before
\* update returns.
Written(p) == IF HasMeta(p) THEN meta[target[p]] ELSE stray

PutsStored ==
    \A p \in Client : pc[p] = "update" =>
        \A i \in 1..at[p] : Written(p)[batch[p][i][1]] = batch[p][i][2]

\* The name addRunWriter is about to create is free: m_runs, which it asked,
\* has an entry for every run any part of which is on disk.
NameIsFree ==
    \A p \in Client : /\ pc[p] = "mkData" => Data(target[p]) \notin cfs
                      /\ pc[p] = "mkMeta" => Meta(target[p]) \notin cfs

\* The runs and the LOCK behave as RunCatalogue promises, with a run appearing
\* when its meta column family is created and vanishing when its data is
\* dropped.
Whole == {r \in Run : Data(r) \in cfs /\ Meta(r) \in cfs}

Closing == lock # NoClient /\ pc[lock] = "drop"

Contents == [r \in Run |-> IF r \in Whole THEN meta[r] ELSE NoMeta]

Catalogue == INSTANCE RunCatalogue
    WITH owner <- lock, closing <- Closing,
         catalogue <- Whole, contents <- Contents

ImplementsCatalogue == Catalogue!Spec

\* A call that is under way returns or its process dies.
CallsReturn ==
    \A p \in Client : (pc[p] \notin {"idle", "ready"}) ~> AtRest(p)

-----------------------------------------------------------------------------
(* What the interface promises, and the code does not keep. *)

\* A run that is stored stays stored: Database has no operation that removes one,
\* and mode "a" is openWriteAppend, beside openWriteTruncate for "w".  The loop
\* of closeDatabase that drops column families breaks this.
RunsAreKept == [][Whole \subseteq Whole']_vars

\* Metadata goes to the run it was given for: setMeta is about to Put an item
\* only where addRunWriter created or found the run's meta column family.
PutHasColumnFamily ==
    \A p \in Client : pc[p] = "update" /\ at[p] < Len(batch[p]) => HasMeta(p)
=============================================================================
