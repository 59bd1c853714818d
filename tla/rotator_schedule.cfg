SPECIFICATION FairSpec
CONSTANTS
    Inputs <- WithoutLongest
    Hour = 4
    DEFAULT_DAY = 2
    DefaultDuration = 3
    Prefixes <- MCPrefixes
    MaxCalls = 1
    MaxWeight = 6
PROPERTY
    Returns
CHECK_DEADLOCK FALSE
