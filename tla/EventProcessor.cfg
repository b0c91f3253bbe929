SPECIFICATION Spec
CONSTANTS
    Threads = {t1, t2}
    Users = {u1, u2, u3}
    Flags = {f1, f2}
    Missing = {f2}
    Tracked = {f1}
    Debugged = {f1}
    DebugUntil = 2
    ServerTimes = {2}
    EventsCapacity = 1
    UserKeysCapacity = 2
    UserKeysFlushInterval = 1
    MaxTime = 2
    MaxCalls = 4
    NULL = NULL
SYMMETRY Symmetry
INVARIANTS SummaryExact SummariesFollow LRUExact
CHECK_DEADLOCK FALSE
