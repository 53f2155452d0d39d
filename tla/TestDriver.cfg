SPECIFICATION Spec
CONSTANTS
    Alphabet <- MCAlphabet
    MaxNesting = 3
    Pieces <- MCPieces
    MaxInt = 999
    Keyboards <- MCKeyboards
    MaxLength = 6
INVARIANTS
    TestsPass
    NothingSkipped
    HeapBound
    NamesAreVariables
\* A case ends with its result, and a line is typed up to the bound.
CHECK_DEADLOCK FALSE
