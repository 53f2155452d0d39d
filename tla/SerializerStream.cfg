SPECIFICATION Spec
CONSTANTS
    W = 2
    MaxBits = 30
    Object <- MCObject
    MaxObjects = 2
INVARIANTS
    TypeOK
    ReadsInOrder
    ErrorOnlyAtTheCut
    WholeIsOneObject
