SPECIFICATION FairSpec
CONSTANTS
    Conns = {c1, c2}
    MaxConns = 1
    BadFiles = {1}
    DeadConfigs = {2}
    MaxVersion = 3
    MaxSignals = 3
    MaxBindErrors = 1
\* The process may exit, and the operator may stop sending signals.
CHECK_DEADLOCK FALSE
INVARIANTS
    TypeOK
    PermitsConserved
    StaleListenerNotified
    RestartsJustified
PROPERTY SignalledFileServed
