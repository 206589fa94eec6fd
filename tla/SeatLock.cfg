SPECIFICATION FairSpec
CONSTANTS
    Requests = {r1, r2, r3}
    NoRequest = NoRequest
    Seats = 2
    Deltas <- MCDeltas
    MaxRetries = 2
    MaxCalls = 2
INVARIANTS
    TypeOK
    NeverNegative
    VersionPinsCount
    MissesNeedCommits
PROPERTIES
    CounterSpec
    EveryCallAnswered
