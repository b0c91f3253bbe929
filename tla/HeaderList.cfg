SPECIFICATION Spec
CONSTANTS
    QuickClose = 3
    ReadTimeout = 4
    BackoffCap = 6
    MaxAttempts = 4
INVARIANT HeadersFreedOnce
