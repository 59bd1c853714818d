SPECIFICATION FairSpec
CONSTANTS
    Inputs <- MCInputs
    Hour = 4
    DEFAULT_DAY = 2
    DefaultDuration = 3
    Prefixes <- MCPrefixes
    MaxCalls = 3
    MaxWeight = 30
INVARIANTS
    TypeOK
    RulesHold
    WeightsRise
PROPERTIES
    NewHourFromStart
    Returns
CHECK_DEADLOCK FALSE
