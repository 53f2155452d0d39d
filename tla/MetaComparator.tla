--------------------------- MODULE MetaComparator ---------------------------
(* RockDB_Database::MetaComparator of db/rocksdb.cpp: the order in which       *)
(* RocksDB keeps the keys of a run's metadata.  A key is a sequence of bytes:  *)
(* the metadata type, then the key object as serializeWType writes it.         *)
EXTENDS Integers, Sequences

\* Where two sequences of equal length differ first, if they do.
FirstDifference(a, b) ==
    CHOOSE i \in DOMAIN a : a[i] # b[i] /\ \A j \in 1..(i - 1) : a[j] = b[j]

Memcmp(a, b) ==
    IF a = b THEN 0
    ELSE LET i == FirstDifference(a, b) IN IF a[i] < b[i] THEN -1 ELSE 1

\* Mutant: without the sizes, what follows the shorter key is not looked at.
CompareNoSizes(a, b) ==
    LET n == IF Len(a) < Len(b) THEN Len(a) ELSE Len(b)
    IN  IF a[1] # b[1] THEN (IF a[1] < b[1] THEN -1 ELSE 1)
        ELSE Memcmp(SubSeq(a, 2, n), SubSeq(b, 2, n))

\* Mutant: keys of different size are less than one another.
CompareShorterLast(a, b) ==
    CASE a[1] < b[1] -> -1
      [] a[1] > b[1] -> 1
      [] a[1] = b[1] /\ Len(a) # Len(b) -> -1
      [] OTHER -> Memcmp(Tail(a), Tail(b))

\* Metadata type first, then size, then contents.
Compare(a, b) ==
    CASE a[1] < b[1] -> -1
      [] a[1] > b[1] -> 1
      [] a[1] = b[1] /\ Len(a) < Len(b) -> -1
      [] a[1] = b[1] /\ Len(a) > Len(b) -> 1
      [] OTHER -> Memcmp(Tail(a), Tail(b))
=============================================================================
