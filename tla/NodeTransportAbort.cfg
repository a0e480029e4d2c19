CONSTANTS
    c1 = c1
    c2 = c2
    Calls <- MCOneCall
    ClientRetry <- MCRetry
    Override <- MCKeep
    Answers <- MCHealthy
    Interval = 0
    Timeout = 2
    TimeoutMax = 6
    MaxAttempts = 3
    Grain = 2
    Parts = 2
SPECIFICATION FairSpec
CHECK_DEADLOCK FALSE
PROPERTIES
    AbortIsFinal
