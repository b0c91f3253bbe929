SPECIFICATION Spec
CONSTANTS
    Clients = {c1, c2}
    Conns = {x1, x2}
    PoolSizes = {1}
    Keys = {k1}
    Versions = {1, 2}
    NULL = NULL
    Marks = {FALSE}
    Faults = TRUE
INVARIANTS InitializedTruthful AllReturns
