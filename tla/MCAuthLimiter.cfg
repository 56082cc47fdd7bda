SPECIFICATION HSpec
CONSTANTS
    Keys = {ip1, ip2}
    Threads = {t1, t2, t3}
    None = None
    MaxFailures = 3
    Window = 1
    Lockout = 2
    CleanupAge = 2
    MaxKeys = 1
    U32Max = 4
    MaxTime = 4
    MaxCounted = 6
SYMMETRY Symmetry
INVARIANTS
    TypeOK
    NoMissedLockout
    TrackedWithinCap
    FailuresPayForLockouts
    DoubleFailuresLockOut
PROPERTIES
    EarlyReleaseOnlyByInflight
    ImplementsLockout
