SPECIFICATION ParserSpec
CONSTANTS
    Names = {"put"}
    Data = {"json"}
    Garbage = {"junk", "nl"}
    CleanClose = FALSE
    MaxLines = 3
    MaxConnections = 2
INVARIANT PutApplied
CHECK_DEADLOCK FALSE
