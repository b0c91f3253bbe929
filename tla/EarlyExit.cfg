SPECIFICATION Spec
CONSTANTS
    Interfaces = {streaming, analytics}
    Streaming = streaming
    Handles = {h1, h2, h3}
    NULL = NULL
INVARIANT AlwaysCleanExit
CHECK_DEADLOCK FALSE
