CONSTANTS
    Width = 10
    Millisecond = 20
    Parts = 3
    Policies <- MCPolicies
    Waits <- MCLongWaits
    MaxRefusals = 5
SPECIFICATION RefusalsSpec
CHECK_DEADLOCK FALSE
INVARIANTS
    LongWaitSlept
