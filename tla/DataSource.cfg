SPECIFICATION Source
CONSTANTS
    QuickClose = 3
    ReadTimeout = 4
    BackoffCap = 6
    MaxAttempts = 4
    PollInterval = 3
    MaxChunks = 3
    Responses = 3
INVARIANTS TypeOK BodyIsOneResponse
PROPERTIES BackoffRespected Reconnects SilentStreamKilled KeepsPolling
