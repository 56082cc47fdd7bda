SPECIFICATION FairSpec
CONSTANTS
    Keys = {k1, k2}
    Threads = {t1}
    Settings <- MCSettings
    None = None
    Scale = 2
    Tolerance = 1
    MaxBuckets = 1
    MaxTime = 4
PROPERTY IdleBucketsCleanedUp
