\* Two callers; tokens too short for the margin, just long enough, and so long that
\* their Duration overflows.
CONSTANTS
    Call = {c1, c2}
    Lifetime = {1, 2, 6}
    CacheTTL = 0
    Margin = 1
    Floor = 1
    Default = 3
    MaxDuration = 4
    FetchLatency = 1
    MaxClock = 5
SPECIFICATION TokenSpec
INVARIANTS TokenTypeOK NoDeadToken
