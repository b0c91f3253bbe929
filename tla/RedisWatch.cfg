SPECIFICATION Spec
CONSTANTS
    Clients = {c1, c2}
    Conns = {x1, x2}
    PoolSizes = {2}
    Keys = {k1}
    Versions = {1, 2}
    NULL = NULL
    Marks = {FALSE}
    Faults = FALSE
INVARIANT InitSucceeds
