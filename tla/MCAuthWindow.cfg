SPECIFICATION HSpec
CONSTANTS
    Keys = {ip1, ip2}
    Threads = {t1}
    None = None
    MaxFailures = 3
    Window = 1
    Lockout = 2
    CleanupAge = 2
    MaxKeys = 1
    U32Max = 4
    MaxTime = 5
    MaxCounted = 6
INVARIANT FailuresWithinWindowLockOut
