------------------------------ MODULE MetaStore -----------------------------
(* The meta column family of one run: RunWriter::setMeta of db/rocksdb.cpp     *)
(* serializes a key and a value with serializeWType, and RocksDB keeps the     *)
(* entry where MetaComparator puts it.  Serializing touches no shared state,   *)
(* so the Put of an item is the one step that other writers see.               *)
EXTENDS Serializer, MetaComparator, SequencesExt

CONSTANTS KeyObject,        \* Python objects used as metadata names
          ValueObject,      \* and as their values
          MaxEntries        \* bound: entries in the column family

\* enum class MetaType; nothing writes Internal.
MetaType == [Metric |-> 0, Field |-> 2, Param |-> 4]
Kind == {MetaType[m] : m \in DOMAIN MetaType}

VARIABLES
    entries,    \* ascending, as RocksDB iterates over them
    dict        \* history: the value last given to each kind and key object

vars == <<entries, dict>>

ASSUME EntriesAssumption == MaxEntries \in Nat
ASSUME ItemAssumption == \A o \in KeyObject \cup ValueObject : IsObject(o)
\* A text that Python keeps in one byte a character is written as these bytes
\* and read as UTF-8, which is the same for ASCII only (see ReadsSingleObject).
ASSUME TextAssumption ==
    \A o \in KeyObject \cup ValueObject :
        o.type = "str" /\ OneByteKind(o.str) => Ascii(o.str)

-----------------------------------------------------------------------------
\* Mutant: the metadata type is left out.
KeyBytesWithoutKind(kind, key) == SerializeWType(key)

\* The metadata type, then the name as serializeWType writes it.
KeyBytes(kind, key) == <<kind>> \o SerializeWType(key)

\* RocksDB looks for the place of a key with the comparator alone.
PlaceOf(key) == Cardinality({i \in DOMAIN entries : Compare(entries[i].key, key) < 0}) + 1

\* Mutant: an entry is never overwritten.
NeverFound(key) == FALSE

Found(key) ==
    PlaceOf(key) \in DOMAIN entries /\ Compare(entries[PlaceOf(key)].key, key) = 0

SetMeta(kind, key, value) ==
    LET k == KeyBytes(kind, key)
        entry == [key |-> k, value |-> SerializeWType(value)]
    IN  /\ \/ /\ Found(k)
              /\ entries' = [entries EXCEPT ![PlaceOf(k)] = entry]
           \/ /\ ~Found(k)
              /\ Len(entries) < MaxEntries
              /\ entries' = InsertAt(entries, PlaceOf(k), entry)
        /\ dict' = [x \in DOMAIN dict \cup {<<kind, key>>} |->
                        IF x = <<kind, key>> THEN value ELSE dict[x]]

Init == entries = <<>> /\ dict = <<>>

Next ==
    \E kind \in Kind, key \in KeyObject, value \in ValueObject : SetMeta(kind, key, value)

Spec == Init /\ [][Next]_vars

-----------------------------------------------------------------------------
(* Properties *)

TypeOK ==
    /\ Len(entries) <= MaxEntries
    /\ \A i, j \in DOMAIN entries : entries[i].key = entries[j].key => i = j
    /\ \A i \in DOMAIN entries :
          /\ entries[i].key \in {KeyBytes(kind, key) : kind \in Kind, key \in KeyObject}
          /\ entries[i].value \in {SerializeWType(value) : value \in ValueObject}

\* The order of MetaComparator is strict: whichever two entries RocksDB
\* compares, it gets the answer that the place of each implies.
EntriesSorted ==
    \A i, j \in DOMAIN entries :
        i < j => /\ Compare(entries[i].key, entries[j].key) < 0
                 /\ Compare(entries[j].key, entries[i].key) > 0

\* MetaComparator asserts two bytes in every key it is given: a kind and a
\* type, even for objects that are written as their type alone.
KeysComparable == \A i \in DOMAIN entries : Len(entries[i].key) >= 2

\* An entry read back: its kind and key object, and its value object.
ItemOf(entry) == <<entry.key[1], DeserializeWType(Tail(entry.key)).object>>
ValueOf(entry) == DeserializeWType(entry.value).object

\* Read back with deserializeWType, the entries are a dictionary for each kind
\* of metadata: one entry for each kind and key object that was assigned, with
\* the value of its last assignment, whatever the lengths of the keys.
ReadsBackDict ==
    /\ Len(entries) = Cardinality(DOMAIN dict)
    /\ \A i \in DOMAIN entries :
          /\ ItemOf(entries[i]) \in DOMAIN dict
          /\ ValueOf(entries[i]) = dict[ItemOf(entries[i])]
=============================================================================
