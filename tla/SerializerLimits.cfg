SPECIFICATION Spec
CONSTANTS
    W = 1
    MaxBits = 30
    Object <- MCWideObject
    MaxObjects = 2
INVARIANTS
    ReadsInOrder
    ErrorOnlyAtTheCut
