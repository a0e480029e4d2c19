CONSTANTS
    c1 = c1
    c2 = c2
    c3 = c3
    NoCall = NoCall
    Calls <- MCCalls
    ClientRetry <- MCRetry
    Override <- MCOverride
    Answers <- MCAnswers
    Interval = 2
    Timeout = 1
    Longest = 1
    Grain = 1
    Parts = 2
SPECIFICATION FairSpec
CHECK_DEADLOCK FALSE
INVARIANTS
    TypeOK
    GivesUpOnlyWhenSpent
    AttemptsReported
PROPERTIES
    ClaimsSpaced
    NeverRepeatsFinalAnswer
    RetryAfterHonored
    ImplementsBillableCall
    ImplementsRateCeiling
    EveryCallEnds
