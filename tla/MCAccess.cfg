CONSTANTS
    Vars <- MCVars
    Escapes <- MCEscapes
    Unprintable <- MCUnprintable
    MaxPathLen = 9
    MaxTokenLen = 2
    Addresses <- MCAddresses
    Nets <- MCNets
    None = None
    Strings <- MCStrings
    Ports <- MCPorts
    Existing <- MCExisting
    Scenarios <- MCScenarios
    Sockets <- MCSockets
    MaxReloads = 2
SPECIFICATION Spec
CHECK_DEADLOCK FALSE
INVARIANTS
    TypeOK
    AdmissionsDeclared
    DeclarationsHonoured
    CertificatesVerified
    ForgedHopsIgnored
    PathsCanonical
