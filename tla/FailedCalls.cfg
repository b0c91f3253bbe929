\* What a call that failed tells its caller and leaves behind: -continue reports
\* all five.
SPECIFICATION Spec
CONSTANTS
    A = A
    B = B
    C = C
    S = S
    T = T
    Absent = Absent
    Bad = Bad
    Scale = 10
    MaxWrites = 2
    FlagKeys = {A, B, C}
    SegmentKeys = {S, T}
    History <- MCHistory
    WellFormed <- MCWellFormed
    Users <- MCUsers
    TextHolds <- MCTextHolds
    ParseDate <- MCParseDate
    ParseSemVer <- MCParseSemVer
    FormatNumber <- MCFormatNumber
    Digest <- MCDigest
INVARIANTS
    NothingHeldAfterwards NoMemoryMeansNoMemory DetailsOwnTheirTexts
    FailureHasAReason FallbackHasNoVariation
