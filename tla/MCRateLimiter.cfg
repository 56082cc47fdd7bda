SPECIFICATION BSpec
CONSTANTS
    Keys = {k1, k2}
    Threads = {t1, t2}
    Settings <- MCSettings
    None = None
    Scale = 2
    Tolerance = 1
    MaxBuckets = 1
    MaxTime = 4
    BurstCap = 2
    RateCap = 2
SYMMETRY Symmetry
INVARIANTS
    TypeOK
    TableWithinCap
    TokensConserved
    GrantsWithinBudget
PROPERTIES
    PenaltyFreezesBucket
    CleanupUnnoticed
