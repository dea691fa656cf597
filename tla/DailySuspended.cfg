SPECIFICATION Spec
CONSTANTS
    Last = 4
    MaxDelay = 1
    Strategies <- MCStrategies
    Plans <- MCPlans
    Prices <- MCPrices
    UpperLimit = 2
    Fee = 1
    InitialCash = 5
    MaxExitAttempts = 2
PROPERTIES
    SuspendedEntryRetried
CHECK_DEADLOCK FALSE
