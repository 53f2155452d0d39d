SPECIFICATION Spec
CONSTANTS
    Alphabet <- MCAlphabet
    MaxNesting = 3
    Pieces <- MCPieces
    MaxInt = 99
    Kits <- MCKits
INVARIANTS
    TypeOK
    ModesAgree
    NonStrictAnswers
    ConcatIsConjunction
    FirstRefusalDecides
    ReadsBack
\* A tree is built up to the bounds.
CHECK_DEADLOCK FALSE
