SPECIFICATION Spec
CONSTANTS
    Client = {p1, p2}
    Run = {r1, r2}
    Writer = {w1}
    MetaKey = {k1, k2}
    MetaVal = {v1, v2}
    k1 = k1
    k2 = k2
    v1 = v1
    v2 = v2
    Batches <- MCBatches
    NoClient = NoClient
    NoRun = NoRun
    NoWriter = NoWriter
    NoVal = NoVal
    Dangling = Dangling
SYMMETRY Symmetry
PROPERTY
    RunsAreKept
