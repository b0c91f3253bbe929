SPECIFICATION Spec
CONSTANTS
    PollInterval = 3
    MaxChunks = 2
    Responses = 2
INVARIANT BodyPresent
PROPERTY PollsSpaced
