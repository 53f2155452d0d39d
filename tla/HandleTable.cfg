SPECIFICATION Spec
CONSTANTS
    r1 = r1
    r2 = r2
    x = x
    Run = {r1, r2}
    Foreign <- MCForeign
    Null = Null
SYMMETRY Symmetry
INVARIANTS
    TypeOK
    HandlesDestroyedOnce
    NothingLeaks
    RunsPointToHandles
PROPERTY
    DefaultSurvives
