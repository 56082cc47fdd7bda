CONSTANTS
    Indices <- MCIndices
    Env <- MCEnv
    Vars <- MCVars
    Lowercase <- MCLowercase
    Regexes <- MCRegexes
    IpNets <- MCIpNets
    Cases <- MCCases
    Responses <- MCResponses
    ToJson <- Serialised
    Matches <- AllMatch
    Prepare <- resolve_env_vars
    Compiles <- compile_regexes
    Paths <- MCPaths
    Unparsed = Unparsed
    Redacted <- MCRedacted
    None = None
SPECIFICATION Spec
CHECK_DEADLOCK FALSE
INVARIANTS
    TypeOK
    FirstRuleDecides
    LimitersAskedInTurn
    NamedFieldsHidden
    OthersUntouched
    NegationsComplement
