SPECIFICATION Spec
CONSTANTS
    d1 = d1
    d2 = d2
    Dict = {d1, d2}
    Thread = {t1, t2}
    Filter <- MCFilter
    NoFilter = NoFilter
    NoCall = NoCall
    MaxNodes = 5
INVARIANTS
    TypeOK
    DestroyedOnce
    DiesOnlyWithoutFilter
PROPERTY
    ImplementsConjunction
\* A bet ends, and with it the calls.
CHECK_DEADLOCK FALSE
