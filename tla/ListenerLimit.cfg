SPECIFICATION Spec
CONSTANTS
    Conns = {c1, c2}
    MaxConns = 1
    BadFiles = {}
    DeadConfigs = {}
    MaxVersion = 1
    MaxSignals = 1
    MaxBindErrors = 0
CHECK_DEADLOCK FALSE
INVARIANT ConnectionLimit
