# aimcore in TLA+

A specification of `src/`: a run database on RocksDB (`db/`), the serializer
its keys and values go through, and the query language with which a Python
program filters runs (`ql/`). Six families of modules model the parts that keep
state or decide what state may be, TLC checks them on small instances, and
TLAPS proves the properties that matter most for every value of the constants.

    tlc -workers 2 -config RunStore.cfg MCRunStore.tla
    tlapm RunStoreProofs.tla

`PROJECT.json` has the table of runs, the code lines behind every definition,
the hazards with the properties that watch them, and the theorems.

## 1. The system

| component | state | operations | what makes it correct |
|---|---|---|---|
| Run database, `db/rocksdb.cpp` | on disk: three version keys, two column families per run, RocksDB's LOCK file; in memory: `m_db`, `m_cf`, `m_runs`, `m_isNew`, and the `m_run` of each `RunWriter` | constructor (`openRocksDB`, `openWriteAppend`), `addRunWriter`, `update`/`setMeta`, `close` | what the object believes is what is on disk; only the owner of the LOCK changes the disk; a database nobody tore can be opened again; nothing is dropped that should stay |
| Serializer, `db/serializer.cpp` | a `Buffer`, and the reader's pointer into it | `serializeWType`, `serializeWTypeWSize`, `deserializeWType`, two `deserializeWTypeWSize` | whatever was written is read back, in order, and a buffer that lost its end is reported |
| Metadata order, `MetaComparator` and `setMeta` | the `meta` column family of a run | `Compare`, `setMeta` | the order is strict and total, so a family is a dictionary |
| Bet, `ql/qlpython.cpp`, `ExpressionTree`, `ExpressionNodeHeap` | nodes that never move, a root | `Bet`, `concat`, `match`, destructor | a match answers for the filters held when it began; every node is destroyed once |
| Expression nodes, `ql/qltree.cpp` | their operands; the heap and the root of their tree | `eval` and `evalBool`, the `create` functions, `assignRoot`, `concatRoot` | the operators of Python, but for `None` and non-strict comparison; a tree answers as its filters do |
| Parser, `ql/qlparser.cpp` | none, but the nodes it puts in the heap | the Spirit rules, `parseExpression`, `parseAndConcatExpression` | every expression has a text and is read back from it; what is accepted is read whole |
| Database interface, `db/database.{h,cpp}` | the register of engines | `EngineRegister::add`, `openProc`, `Database::open`, abstract classes | filled before it is read |
| Python glue, `db/dbpython.cpp`, `db/pyutils.h`, `ql/dllmain.cpp` | none | bindings, exception translation | |
| Test driver `qlproto.cpp` | none | tables of filters, a loop that reads lines | its expectations hold |
| Build files, `testdbs/` | none | | |

How they interact. A Python program makes a database object over a path. The
constructor calls RocksDB several times: a read-only open to look at the
version, a list of the column families, then the open that takes the LOCK. A
`RunWriter` points into `m_runs` of the object that made it and writes through
the handles of `m_cf`. Every key and value is serialized first, and RocksDB
calls back into `MetaComparator` to place the key. Independently, a `Bet` parses
texts into a tree and evaluates it for a dict, which runs Python code
(comparisons, attribute access) in the middle of the evaluation.

What is hard here:

* Several processes use one path. The version is checked in one open and used in
  another, and the list of column families is read without a lock.
* A process can end, or RocksDB can return an error, between any two of the steps
  of which creating a database, adding a run and dropping runs consist.
* Objects are left half-initialized by constructors that throw; the LOCK then
  stays with a process that has no object.
* Another thread, or the very code that a match runs, may add a filter to a bet
  in the middle of that match.
* Integers, sizes and strings have many encodings chosen by limits.
* A column family handle is in `m_cf` and in `m_runs`, and belongs to the object or
  to the DB; `closeDatabase` has to tell, whatever failed before.
* The grammar backtracks: an alternative that is tried first may take the place of
  a longer one, and leaves its nodes in the heap.
* Filters meet values of any type, and variables that are missing, in two modes.

## 2. Modules

`A <- B` reads "B extends or instantiates A".

    RunStore     <- RunStoreInv <- RunStoreProofs
    RunStore     <- MCRunStore
    RunCatalogue <- RunStore                 abstract specification
    Serializer   <- SerializerStream <- SerializerStreamInv <- MCSerializerStream
    SerializerStream <- MCSerializerLatin
    NaturalLemmas, Serializer <- SerializerProofs
    SerializerStreamInv, SerializerProofs <- SerializerStreamProofs
    Serializer, MetaComparator <- MetaStore <- MCMetaStore
    MetaStore, SerializerProofs <- MetaStoreProofs
    FilterValues <- Conjunction <- Bet       abstract specification
    Bet          <- MCBet
    Bet, NaturalLemmas <- BetProofs
    HandleTable  <- HandleTableProofs, MCHandleTable
    PyObject <- ExpressionNodes <- ExpressionTree <- ExpressionTreeProofs
    ExpressionNodes <- TreeEval, Grammar
    ExpressionTree, Grammar <- ExpressionText <- MCExpressionTree
    Grammar <- FilterCases <- FilterTests
    FilterTests, TreeEval <- TestDriver <- MCTestDriver

### RunStore

Each client is a process that uses one `RockDB_Database` at a time. The state
has three layers: the disk (`exists`, `version`, `cfs`, `meta`, `stray`, and `lock`), the
object of each client (`isNew` is `m_isNew`, `handles` is `m_cf` without the
default family, `runs` the keys of `m_runs`, `writer` the `m_run` of each
`RunWriter`), and the call each client is inside (`pc`, `listed`, `target`,
`slot`, `batch`, `at`). `made` and `torn` are history for the properties.

One call into RocksDB is one atomic step, and what the code does between two
such calls, which nobody else sees, belongs to the step before or after.

| code | actions |
|---|---|
| `openRocksDB`, the version check of an existing path | `OpenAppend`, `OpenRefused` |
| `ListColumnFamilies` | `ListCF` |
| `openWriteAppend`, the branch that creates | `CreateDB`, `PutVersion`, `PutVersionFails` |
| `openWriteAppend`, the branch that opens, with `readFrom` and `initRuns` | `OpenExisting`, `OpenFails` |
| `addRunWriter` | `AddNewRun`, `CreateData`, `CreateMeta`, `CreateFails`, `AddExistingRun` |
| `RunWriter::update`, `setMeta` | `BeginUpdate`, `PutMeta`, `PutNull`, `UpdateRaises`, `UpdateDone`, `DanglingUpdate` |
| `RunWriter::close` | `CloseWriter` |
| `close`, `closeDatabase` | `CloseNew`, `CloseExisting`, `DropCF`, `CloseDone` |
| end of a process | `Crash` |

RocksDB is external: `DB::Open` takes the LOCK and refuses any list of column
families but the one on disk, `OpenForReadOnly` and `ListColumnFamilies` take no
lock, and any of them may return an error. A `Put` through a null handle is one into
the default column family, and succeeds (`PutNull`): what update gives to a run whose
creation failed ends up in `stray`, beside the version keys, which it cannot
overwrite, since keys of metadata begin with a `MetaType`. An assertion on a status ends the
process in a debug build, which is what `Crash` does too. `update` through a
writer that `close` has left dangling (`Dangling`) is undefined behaviour; the
process dies, the one outcome after which nothing more can be said.

`RunCatalogue` is what all of this amounts to: one owner at a time adds whole,
empty runs and writes to them; once closing, it only removes; between owners
nothing changes. A run appears with its meta family and vanishes with its data
family (`Whole`), so neither a half-created nor a half-dropped run is one.

### Serializer, SerializerStream

`Serializer` is the pure part: the bytes of each object and what reading finds.
Bytes of numbers have `W` bits, so that all the widths of the code (1 to 8
bytes, and long integers with a size in front) are reached within the 32-bit
integers of TLC; tags and text bytes are real bytes. A float or a pickle is an
identity with a length. `IsObject` says which objects there are: integers of up to
`MaxBits` bits, characters of the basic multilingual plane, and texts and pickles
whose size fits the bytes that the code keeps for it. Where a definition goes
through a sequence it is a recursive function, or counts, so that it can be reasoned
about; the UTF-8 decoder goes from byte to byte, and refuses forms that are not the
shortest one, and surrogates, as CPython does. `SerializerStream` has a writer and a reader of one
buffer, cuts off its end, and lets a `serialize` call raise half way, after the
tag of a long integer is in the buffer (serializer.cpp:249).

### MetaComparator, MetaStore

`Compare` is `MetaComparator::Compare` on byte sequences, `Memcmp` the library
call. `MetaStore` keeps entries where the comparator alone puts them, as
RocksDB does, with keys made of a `MetaType` and the serialized name. `dict` is
the history of assignments. Names are told apart by type: the store does not
identify `1`, `True` and `1.0`, as a Python dict would. `setMeta` is one step:
serializing touches nothing that others see.

### Bet

`heap` is `m_nodeHeap`, which only grows; `root` is `m_root`; `call` is, for each
thread, the root its match started from, the dict and the operands still to be
evaluated. The tree of one text is one node, whose value for each dict is a
constant: `yes`, `no`, objects with a truth value that `extract<bool>` refuses,
or an exception. Nodes that failed alternatives of the grammar leave behind are
left out.

`concat` is atomic (parsing runs no Python code), with three outcomes: `Concat`,
`ConcatEmpty` (an empty text parses to a null root, without an error) and
`ConcatRaises` (a syntax error, after which nodes stay in the heap). In a debug
build `ConcatAborts` is the assertion at qltree.cpp:1089; `debug` chooses the
build. `match` takes a step for each node (`Match`, `EvalAnd`, `EvalFilter`),
with anything in between; `MatchNull` is the call through a null node. `Drop` is
the destructor. `Bet::parse` is not modelled since no program reaches it: the
Python name is bound to `match` (qlpython.cpp:66).

`Conjunction` is the promise: a bet is a list of filters, and a match answers
for those held when it began, decided by the first one that is not true.

### HandleTable

`RunStore` says what is on disk; `HandleTable` follows the handles, one by one, of
one object after the other over a path. `cf` is the vector `m_cf` in its order, since
both loops of `closeDatabase` rely on the default column family being first; `runs`
is `m_runs` with its pairs of pointers; `live` the handles that somebody has to
destroy, RocksDB's own handle of the default family (`Builtin`) among them;
`misused` those used or destroyed after their destruction. `engines` is the
register that `Database::open` looks into.

| code | actions |
|---|---|
| `EngineRegister::add` | `RegisterEngine` |
| `Database::open`, the constructor, the version check | `OpenRefused`, `OpenOther` (modes `r`, `w`, `x`) |
| `openWriteAppend` with `initRuns` | `OpenNew`, `OpenExisting`, `OpenForeign` |
| `addRunWriter` | `AddRuns`, with none, one or both of the column families made |
| `closeDatabase`, the destructor | `CloseDatabase`, `Destruct` |
| another program at the path, the end of a process | `ForeignTool`, `Die` |

`Foreign` are names that end neither in `.data` nor in `.meta`. For one of them
`initRuns` destroys all handles and calls `closeDatabase`, which reads an `m_isNew`
that nobody has set: `OpenForeign` takes either value.

### PyObject, ExpressionNodes, TreeEval

`PyObject` has the Python objects of filters, external to the code: exact
rationals for ints and floats, texts, lists, dicts and `None`, with their operators
and the errors these raise. Lists and dicts are compared down to `MaxNesting` levels,
a bound that the values of the runs stay within. `ExpressionNodes` is `eval` of every
node class, in both modes, and `evalBool`: `EvalNode` is what a node makes of what its
operands give, or of `Raised` where they fail. It goes no deeper than the node, as the
code does. `TreeEval` adds the virtual calls down a whole tree.

### ExpressionTree, ExpressionText

`ExpressionTree` makes trees as the semantic actions of the grammar do. `operands` are
the nodes that no other has taken: `Create` is `allocNode` with the last of them,
`CreateList` and `AppendListNode` make list displays, `EndOfFilter` is `assignRoot` or
`concatRoot`. A node does not change once others refer to it, so what it gives is
settled when it is made: the record `Made` keeps, for each dict, what `eval` gives in
the mode it was made in and would give in either mode. `numeric` and `filters` are
history for the properties. What trees are made of is a *kit*, with the bounds.

`ExpressionText` writes the same trees as texts (`Text`), with the parentheses that they
need.

### Grammar

The rules of `ExpressionGrammar`, as a recursive descent over a sequence of
symbols: `r | s` is an alternative, `Expected` an expectation point, `Repetition` the
loop of the binary rules, `Caught` the error handler. Every result counts the nodes it
made, those of failed alternatives too. A symbol is a mark, a digit or a piece of a
word, cut so that keywords are found where the code finds them, in the beginning
of longer words too.

### FilterCases, FilterTests, TestDriver

`FilterTests` has the 106 functions of `qlproto.cpp` that test filters, a definition
each: texts, the tree that `toString` must show, dict, and what `eval` must give.
Half of the functions repeat the other half in the non-strict mode, and are
written that way. `FilterCases` is how they write filters and values. `TestDriver`
runs the cases, and reads lines as the loop of `main` does.

## 3. What TLC checks

| run | instance | states | shows |
|---|---|---|---|
| `store_safety` | 2 clients, 2 runs, 1 writer each, 2 keys, 2 values, 3 batches; symmetric in clients and runs | 859668 | the eight invariants and `ImplementsCatalogue` |
| `store_liveness` | 2 clients, 1 run, 2 writers each; no symmetry | 552512 | `CallsReturn` |
| `store_drops`, `store_null_put` | as `store_safety` | | the first two findings of section 5 |
| `handle_table` | 2 runs, 1 foreign name; symmetric in runs | 318 | `HandlesDestroyedOnce`, `NothingLeaks`, `RunsPointToHandles`, `DefaultSurvives` |
| `serializer_stream` | 2-bit bytes; integers on both sides of every width, texts with 0, ASCII, Latin-1 with a 0 and wide characters, pickles; 2 objects | 144998 | `ReadsInOrder`, `ErrorOnlyAtTheCut`, `WholeIsOneObject` |
| `serializer_limits` | 1-bit bytes; pickles of every size from 2 to 17, an integer too long for its size; 2 objects | 70535 | `ReadsInOrder`, `ErrorOnlyAtTheCut` at the limits of the 1, 2, 4 and 8-byte sizes |
| `serializer_latin` | Latin-1 texts without a 0; 1 object | | the third finding |
| `meta_store` | keys that are a type alone, prefixes of one another, of equal length, pickled; 3 entries | 17345 | `EntriesSorted`, `KeysComparable`, `ReadsBackDict` |
| `bet` | 2 threads, 2 dicts, 3 filters, 5 nodes | 286878 | `DestroyedOnce`, `DiesOnlyWithoutFilter`, `ImplementsConjunction` |
| `expression_tree` | 3 kits, trees of 5 nodes: 5 leaves and 8 operators over 20 dicts; 3 filters of 7 leaves over 4 dicts; every operator and list displays | 182860 | `ModesAgree`, `NonStrictAnswers`, `ConcatIsConjunction`, `FirstRefusalDecides`, `ReadsBack` |
| `test_driver` | 1936 cases; lines of 6 symbols over 7 keyboards | 249957 | `TestsPass`, `NothingSkipped`, `HeapBound`, `NamesAreVariables` |

The properties, in words:

* `SessionMirrorsDisk`: the `m_cf` of an open session lists exactly the column
  families on disk, although it was filled from a list read before the LOCK was
  taken. It decides what `closeDatabase` drops.
* `NewSessionMadeAll`: a session that drops nothing at its end made all there is.
* `VersionBeforeRuns`, `CleanDiskReopens`, `LockHeldByObject`: what failures and
  crashes can leave behind, and what they cannot.
* `MajorStillSupported`: the assertion on the major version holds although the
  version was read through an earlier open.
* `PutsStored`: what `update` has stored so far is in the column family that its handle
  stands for, the default one where the handle is null; `NameIsFree`: the name that
  `addRunWriter` creates is free.
* `RunsAreKept` (violated): a run that is stored stays stored. `PutHasColumnFamily`
  (violated): an item is put only through a handle.
* `ReadsInOrder`, `ErrorOnlyAtTheCut`, `WholeIsOneObject`: a reader gets what was
  written, up to where the buffer was cut, and an error there and only there.
* `EntriesSorted`, `ReadsBackDict`: the family is a dictionary per kind of
  metadata, whatever the lengths of its keys.
* `DestroyedOnce`: no node has two parents, and the root has none.
* `DiesOnlyWithoutFilter`: a null node is met only if a text was missing or empty.
* `HandlesDestroyedOnce`, `NothingLeaks`: `closeDatabase` destroys every handle once,
  after any opens and creations that failed, unless a column family is none of a run.
* `RunsPointToHandles`: `m_cf` and `m_runs` list the same handles, half-made runs
  included, and `m_cf` lists none twice.
* `DefaultSurvives`: no step of any session drops the default column family, where the version is.
* `ModesAgree`: leaving the strict mode never changes an answer, however deep a missing
  variable is; `NonStrictAnswers`: it does answer where a number may be missing.
* `ConcatIsConjunction`, `FirstRefusalDecides`: a tree of several filters answers as its
  filters do one by one, and does not ask those behind the first refusal.
* `ReadsBack`: the grammar has a text for every tree. This fixes the levels and the
  associativity of all operators, and that no shorter alternative hides a longer one.
* `NothingSkipped`: what is accepted is in the tree as a whole, in its order.
* `HeapBound`: how many nodes parsing can leave behind, with failed alternatives.
* `NamesAreVariables`: names that do not begin with a keyword are variables.
* `TestsPass`: every expectation of the tables holds, but for one that is mistaken.

Why these bounds. `MaxBits` is 30, so that powers stay within the integers of TLC. Two clients suffice for every pair of racing steps, since the
LOCK admits one at a time and the rest only read. Two runs are the fewest for
which dropping or adding one can disturb another, and with two writers a run can
be added twice. Batches with two items and a repeated key reach a half-done
update and an overwritten value. Two objects in a buffer are the fewest for which
the size of the first matters for the second. Three entries are the fewest for
transitivity. Five nodes make a tree of three filters, so that a match can be
between any two of them while the root changes. With two runs, whole, half and
missing pairs of handles occur side by side, and the vector has a handle behind
the first two. A tree of five nodes has an operator under another on either side,
with a third operand between them: all that levels and associativity decide. Six
symbols are enough for a nested parenthesis with a tuple in it, `not` in front of
`not in`, and an operator of two marks between names, with one symbol too many.
The values of filters nest at most two deep, so `MaxNesting` is 3.

Fairness is used in `store_liveness` only: weak fairness of `Continue(p)`, the
steps of a call that is under way. A thread inside a C++ call keeps running, and
none of those calls blocks: RocksDB refuses a LOCK that is taken, it does not
wait. No fairness is assumed of requests or failures. `CallsReturn` would fail if
an open could loop on a list of column families that went stale.

Deadlock is checked everywhere but where a behaviour ends: a bet that is dropped, a
tree or a line at its bounds, a case with its result.

## 4. What is proved

For every number of clients, runs, writers, keys and batches (`RunStoreProofs`):

* `TypeCorrect`, from `TInv`: the types, and a target, a slot and a place in the
  batch for each call that needs them.
* `Invariance` of `IInv` (`RunStoreInv`), which is `TInv`, `GlobalInv` about the disk
  and `LocalInv(p)` of each client. The safety properties are not inductive: that
  `m_cf` mirrors the disk survives a step of another client only because that
  client cannot change the disk without the LOCK, which needs `Held`; that
  `addRunWriter` finds its name free needs `Mirror`, that `m_runs` covers what is on
  disk; that a version is there before a run needs `Versions` at every point of an
  open; and that a closed database opens again needs `Clean` for each place inside
  a call where a run may be half there.
* The proof of a step follows this: `Isolation` says what a step of one client
  leaves alone, hence `OthersKeep`; `OwnKeep` goes through the actions.
* `MirrorTheorem`, `NewSessionTheorem`, `VersionTheorem`, `ReopenTheorem`, `NoLeakTheorem`,
  `MajorTheorem`, `StoredTheorem` and `NameTheorem` state the invariants of
  `store_safety`, each a consequence of `IInv`.
* `Implements`: every step of `RunStore` is a step of `RunCatalogue` or leaves it as
  it is.

Assumed: `NoneAssumption`, that sentinels are none of the values, and
`BatchAssumption`, that a batch gives each key once, as a dict does.

`SerializerProofs`, for all objects and every number of bits in a byte up to 8, which is
the real one:

* `ObjectCoded`: what `serializeWTypeWSize` makes of an object is read as that object
  wherever it stands in a buffer, with any bytes before and behind it; and a buffer that
  ends before the object does is an error, unless it ends within a pickle. It rests on
  one lemma for each encoding: an integer of `ByteLen` bytes has its sign in the
  top bit of the first one (`SignBytes`, `FirstByte`), so it survives the filling up
  to a word (`FilledWord`) and comes back (`SignedBigEndian`); the size of a pickle fits
  the bytes that `SizeLen` chooses (`SizeHolds`); a text in UTF-8 is decoded to itself
  (`Utf8IsText`), and the first 0 ends a text that has none.
* `ObjectAlone`: the same of `serializeWType` and `deserializeWType`, where the end of the
  buffer is the end of the object. Hence `BytesTellApart`: two objects never have the
  same bytes.

`SerializerStreamProofs`, for any objects, any number of them in a buffer and any place
where its end is lost: `Typed`, `ReadInOrder`, `ErrorsAtTheCut` and `OneObjectReadWhole`, the
invariants of `serializer_stream`. None is inductive, since they say little about the
bytes. `StreamInv` (`SerializerStreamInv`) adds `BufferInv`, that the buffer begins as what
was written, is all of it unless it was cut, and does not end inside a pickle; and
`ReaderInv`, that the reader has the first objects and stands behind them. Then
`NextPlace` gives the place of the next object, `ObjectCoded` what reading finds there
(`NextRead`), and since places grow (`PlacesGrow`) an error comes when all whole objects,
and no more, have been read (`WholeCount`).

`MetaStoreProofs`, for any names, values and number of entries:

* `CompareZero`, `CompareAntisymmetric` and `CompareTransitive`, for all keys: the
  comparator is a strict total order. That two different sequences have a first place
  where they differ comes from `LeastElement`.
* `Typed` and `OrderIsKept`, from `Inv`: the entries ascend. That a place found
  with the comparator alone has all smaller keys in front (`PlaceSplits`) takes its
  transitivity; that all behind are greater (`BehindIsGreater`) its antisymmetry;
  that an overwritten entry keeps its key, that only equal keys compare as 0.
* `KeysAreComparable`: every key has the first byte that `Compare` asserts, and a
  second one, as no name is serialized to nothing.
* `DictIsReadBack`, from `DictInv`: entries and assignments correspond one to one. It needs
  the order, as an entry may only be replaced by one of the same key, and
  `BytesTellApart`, as otherwise two names would share an entry.

Assumed of the serializer and of `MetaStore`: `WidthAssumption`, `BitsAssumption`,
`CountAssumption`, `EntriesAssumption`, that the parameters are in their ranges;
`ObjectAssumption` and `ItemAssumption`, that what is written is an object (`IsObject`); and
`TextAssumption`, that a text whose bytes are those CPython keeps is ASCII. Without the
last the theorems are false, by the third finding: it leaves out the Latin-1 texts
that do not come back, and nothing else.

`BetProofs`, for any number of threads, filters and nodes: `Typed`, that a match
only comes to nodes of the heap and operands are older than their node, so that
evaluation ends; and `TreeIsDestroyedOnce`. The latter needs the former: an
appended node is younger than all operands, so it has no parent, and what it
takes as operands, the old root and what was parsed, had none. Assumed:
`FilterAssumption` and `CallAssumption`, about sentinels and filters, and
`NodesAssumption`, that the bound on nodes is a number.

Under the same assumptions:

* `DiesOfEmptyTextsOnly`, with `NoNulls`: as long as no text was missing or empty,
  neither the root, nor an operand, nor what a match still has to evaluate is null.
* `Implements`: `Bet` implements `Conjunction`. The filters of a bet are those under its
  root, from left to right (`FiltersOf`), a function that descends the tree. What it
  returns is shown by induction on the index of the node, since operands are older
  (`FiltersOfDefined`), and a node's filters do not change while the heap grows
  (`FiltersStay`). The inductive invariant is `WayInv`: the filters a match answers for
  are those it has evaluated, all true, followed by those under each operand that it
  still has to evaluate, in order. Hence the first filter that is not true decides,
  whatever `concat` has done to the root in the meantime.

`HandleTableProofs`, for any runs and foreign names: `Typed`, `NoHandleIsDestroyedTwice`,
`CloseDestroysAll`, `DefaultIsNeverDropped` and `RunsShareHandles`. The inductive invariant `Inv` adds
`OpenOK` to them, what holds of an open object: `m_cf` begins with the handle of the
default column family, the DB's own exactly if the database is new, has only
handles of runs behind it, and together with the DB's own it is what somebody has
to destroy. With this, either loop of `closeDatabase` is seen to destroy everything
and drop only runs. `addRunWriter` keeps it since what it makes was not on disk.
That `m_runs` and `m_cf` have the same handles takes a second one, `Linked`: each handle has one place, and
all but the first are of column families on disk. An open establishes it because
RocksDB lists each family once (`ListsOnce`, by counting), and `addRunWriter` keeps it.
Assumed: `NamesAssumption`, that runs and foreign names are finitely many, that
a foreign name is none of a run, and that the null pointer is no handle.

`ExpressionTreeProofs`, for any leaves, operators, dicts and bounds, hence for every
filter that can be parsed and any number of filters: `EveryNodeHasOneOwner`,
`ModesDifferInMissingOnly`, `NumericFiltersAnswer`, `RootIsConjunction` and
`RefusalsAreFinal`, the invariants of `expression_tree` but for the one about
texts. None of them but the first says enough to be kept by a step:

* That the modes agree on a node takes more than that they agree on its operands: `is`
  asks whether two operands are one object, so `Agree` compares where objects come
  from as well, and a strict value must be one of the same origin. `NodeAgrees` goes
  through the operators: each raises when an operand does, but for `or` and `and`, whose
  first operand then decides alike, and the order comparisons, where the strict mode
  raises whenever the other one stops at a `None`.
* That a numeric filter answers needs what it answers with: `NumberOrNone`, as `or` and `and`
  hand on an operand, which the next comparison must be able to take. Comparing two
  numbers never raises, and `NonStrictCmp` lets nothing else through.
* A node is `Sound` when both hold for every dict. `MadeSound` and `AppendedSound` show it
  of new nodes, so all operands are sound, not only those at the top.
* The root is no conjunction of truth values: an and-node gives one of its operands, and
  `evalBool` refuses texts, floats and lists. What is inductive is `Decides`: some filter k
  has the very value of the root, all before it are true, and it is the last one or is not
  true. `concatRoot` keeps k where the root is not true and moves it to the new filter
  where it is. Both theorems about the root follow from it, with what `evalBool` makes of
  one value (`RootAnswers`).
* `TypeOK` counts the nodes of trees, a recursive function over the operands; counting two
  sequences behind each other (`JoinedCounted`) shows that what leaves the operands enters the
  new node.

Together these are `IInv`, and `Invariance` has a step for each action. Assumed:
`KitsAssumption`, that leaves are leaves, operators those of the language and bounds
numbers; and `NestingAssumption`, that `MaxNesting` is a number.

`NaturalLemmas` has what these proofs of recursive functions need. The induction
theorems of the library take a predicate as a parameter, which the provers cannot
instantiate; here induction is about a set of numbers (`AllNaturals`, `AllFromSmaller`),
and follows from the well-foundedness of set inclusion. From it comes that a function
defined by recursion exists (`RecursionHolds`) and is the only one (`RecursionAgrees`).

Only model-checked:

* `CallsReturn`, as liveness under fairness is out of the reach of the provers.
* `ReadsBack` and the four properties of `TestDriver`: whole trees are
  evaluated, written and parsed by `RECURSIVE` operators, several of which call each
  other, and the provers do not take modules with such operators. What a parser does
  with every text would also need induction over texts. The proofs about trees do
  without, since `ExpressionTree` gives every node its value when it is made.

## 5. Findings

1. `closeDatabase` (rocksdb.cpp:413) keeps the runs of a session that created the
   database, and drops all runs at the end of any later session, those it found as
   well as those it added: mode `a`, which is `openWriteAppend` (line 231) beside
   `openWriteTruncate` for `w`, loses what is stored. The comments on the two
   branches, lines 405 and 411, are about which handles and families are left out
   of the loops, and are obeyed; that the second loop drops at all is the defect.
   `testOpenAppend` (qlproto.cpp:7351) opens one path 50 times in this mode, and does not
   look at what is left. Run `store_drops`.
2. `addRunWriter` (rocksdb.cpp:439) leaves its `m_runs` entry behind when a column
   family cannot be created; the next call for that run takes the branch of a run
   that exists, and `setMeta` (line 508) puts through a null handle. RocksDB puts the
   items into the default column family with a status that is ok, so the assertion
   at line 509 holds, `update` returns normally, and the metadata is not in the run.
   Run `store_null_put`.
3. A string kept as Latin-1 is written as its Latin-1 bytes and decoded as UTF-8
   (serializer.cpp:484). Run `serializer_latin`.

Beside these, the models show the following, each an exception that a property
states:

* A column family that is none of a run makes `initRuns` destroy every handle and
  `closeDatabase` destroy them again (`OpenForeign`, excepted in
  `HandlesDestroyedOnce`). The precaution of the comment at rocksdb.cpp:335 does not
  help, as `closeDatabase` does not look at `m_defaultCF`.
* A writer of a database that was closed goes on with a freed entry of `m_runs`
  (`DanglingUpdate` of `RunStore`): `update` only knows writers that were closed
  themselves.
* A bet made by `Bet(bool)`, or given an empty text, has no root, against the
  assertion at qltree.cpp:1089 (`ConcatAborts`, `MatchNull` of `Bet`; `empty` in
  `DiesOnlyWithoutFilter`).
* A filter whose value is a text or a list raises when it is alone, and matches once
  another one is concatenated behind it, which `concatRoot` (qltree.cpp:1090)
  takes not to happen (the condition of `ConcatIsConjunction`).
* Names that begin with a keyword are no names: `True_` is a syntax error, `not1`
  is `not 1` and `inf` a number, although qlparser.cpp:293 refers to the identifiers
  of Python (`Keywords` in `NamesAreVariables`).
* `test()` lists the numeric test of addition twice and that of subtraction not at all;
  one of these expects -4 of `False-5` (qlproto.cpp:3195, `Mistaken` in `TestsPass`).

## 6. Not modelled

* Modes `r`, `w` and `x` of the database reach functions with empty bodies.
* The order of runs in `m_cf`; the contents of data column families, which nothing
  writes; unsynchronized writes lost in a power failure.
* Truncated pickles, whose size is used without a look at the end of the buffer:
  what is behind the end is not modelled.
* Of the grammar: exponents of floats, blanks other than the space, the wording of
  errors. A text is its symbols, so that the end of a text with other than ASCII
  characters, computed in qlpython.cpp:27 from its length in characters, is right.
* Of the values: floats are exact, and a subclass of a type is that type.
  `toString` is taken for the identity of trees.
* `Bet` and `ExpressionTree` are not composed: in `Bet` a filter is one node with a
  value for each dict, and what the value is comes from `ExpressionNodes`.
* The lifetime of Python objects: a writer refers to its database by a plain pointer.
* `addMetric` and the metric interfaces have no implementation.
* Python glue and build files: no behaviour of their own. Of the test driver, the
  tests of the serializer (`serializer_stream` makes the same round trips over
  ranges of objects), the benchmark of the database and what is printed.

## 7. Plan

Done, in the order of importance: RunStore with RunCatalogue, the serializer,
the metadata order, Bet with Conjunction, HandleTable, the nodes, the grammar and
the tests; then the proofs, of every invariant and refinement but those listed at the
end of section 4. Left: the buffer of the parser in bytes, with the length of
`qlpython.cpp:27`.
