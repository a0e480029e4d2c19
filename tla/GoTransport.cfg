CONSTANTS
    c1 = c1
    c2 = c2
    Calls <- MCCalls
    Retry <- MCRetry
    Answers <- MCAnswers
    Interval = 2
    Timeout = 1
    Width = 10
    Millisecond = 1
    Parts = 2
SPECIFICATION FairSpec
CHECK_DEADLOCK FALSE
INVARIANTS
    TypeOK
    EndedCallIsReady
    AttemptsReported
    GivesUpForAReason
PROPERTIES
    ContextIsFinal
    KeepsItsPromises
    EveryCallEnds
