SPECIFICATION ParserSpec
CONSTANTS
    Names = {"put", "patch", "hello"}
    Data = {"json", "js", "on", "nopath"}
    Garbage = {"junk"}
    CleanClose = TRUE
    MaxLines = 4
    MaxConnections = 2
INVARIANTS ChunkingIrrelevant
CHECK_DEADLOCK FALSE
