SPECIFICATION Spec
CONSTANTS
    W = 2
    MaxBits = 30
    KeyObject <- MCKeyObject
    ValueObject <- MCValueObject
    MaxEntries = 3
INVARIANTS
    TypeOK
    EntriesSorted
    KeysComparable
    ReadsBackDict
