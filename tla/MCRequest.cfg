SPECIFICATION FairSpec
CONSTANTS
    Reqs = {r1, r2}
    Policies <- MCPolicies
    None = None
    AuditCap = 1
    MaxReloads = 1
\* Every request may have been answered.
CHECK_DEADLOCK FALSE
INVARIANTS
    TypeOK
    ForwardedUnderOnePolicy
    CountersTellFates
    AuditTrailExact
PROPERTY RequestsEnd
