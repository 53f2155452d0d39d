SPECIFICATION Spec
CONSTANTS
    W = 2
    MaxBits = 30
    Object <- MCLatinObject
    MaxObjects = 1
INVARIANT
    ReadsSingleObject
