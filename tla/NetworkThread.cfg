SPECIFICATION Spec
CONSTANTS
    Interfaces = {streaming, analytics}
    Streaming = streaming
    Handles = {h1, h2, h3}
    NULL = NULL
INVARIANTS FreesLiveHandles BooksAgree CleanExit
PROPERTY CloseReturns
CHECK_DEADLOCK FALSE
