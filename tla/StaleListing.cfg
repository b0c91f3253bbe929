SPECIFICATION Spec
CONSTANTS
    Keys = {k1}
    Versions = {1, 2}
    NULL = NULL
    Readers = {r1, r2}
    InOrder = TRUE
    CacheTTL = 1
    MaxStall = 1
    MaxAlls = 2
INVARIANT AllSeesCompletedWrites
