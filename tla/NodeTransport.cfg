CONSTANTS
    c1 = c1
    c2 = c2
    Calls <- MCCalls
    ClientRetry <- MCRetry
    Override <- MCOverride
    Answers <- MCAnswers
    Interval = 3
    Timeout = 2
    TimeoutMax = 6
    MaxAttempts = 4
    Grain = 2
    Parts = 2
SPECIFICATION FairSpec
CHECK_DEADLOCK FALSE
INVARIANTS
    TypeOK
    AttemptsReported
PROPERTIES
    AbortStopsRetries
    KeepsItsPromises
    EveryCallSettles
