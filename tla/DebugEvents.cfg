SPECIFICATION Spec
CONSTANTS
    Threads = {t1, t2}
    Users = {u1}
    Flags = {f1, f2}
    Missing = {f2}
    Tracked = {f1}
    Debugged = {f1}
    DebugUntil = 2
    ServerTimes = {1, 2}
    EventsCapacity = 3
    UserKeysCapacity = 1
    UserKeysFlushInterval = 1
    MaxTime = 2
    MaxCalls = 2
    NULL = NULL
PROPERTIES DebugQueued PeriodCovers
CHECK_DEADLOCK FALSE
