SPECIFICATION LoopSpec
CONSTANTS
    Kinds = {flags}
    LD_FLAG = flags
    Keys = {k1, k2}
    Versions = {1, 2}
    NULL = NULL
    Readers = {r1}
INVARIANTS TypeOK AllMatchesItems LatestWins
PROPERTIES ImplementsVersionedStore InitIsAtomic
