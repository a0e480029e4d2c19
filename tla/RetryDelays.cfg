CONSTANTS
    Grain = 4
    Parts = 3
    ClientPolicies <- MCClientPolicies
    Overrides <- MCOverrides
    FailureHeaders <- MCFailureHeaders
    Instants <- MCInstants
    MaxFailures = 3
    MaxDuration = 7
    Width = 10
    Millisecond = 20
    Policies <- MCPolicies
    Waits <- MCWaits
    MaxRefusals = 5
SPECIFICATION EitherSpec
CHECK_DEADLOCK FALSE
INVARIANTS
    DelayFollowsPolicy
    OverrideChangesWhatItNames
    UsableWaitSlept
    BackoffNeverCollapses
