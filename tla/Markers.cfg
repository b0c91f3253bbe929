SPECIFICATION CheckSpec
CONSTANTS
    Callers = {c1, c2}
    Markers = {m1, m2, m3}
    NoMarker = NoMarker
    CacheTTL = 1
INVARIANTS DeletedOnce InitializedAfterInit
