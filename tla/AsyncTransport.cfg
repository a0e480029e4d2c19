CONSTANTS
    c1 = c1
    c2 = c2
    NoCall = NoCall
    Calls <- MCCalls
    ClientRetry <- MCRetry
    Override <- MCOverride
    Answers <- MCAnswers
    Interval = 1
    Timeout = 1
    Longest = 1
    Grain = 1
    Parts = 1
SPECIFICATION PromptSpec
CHECK_DEADLOCK FALSE
PROPERTIES
    CancellationIsFinal
    KeepsItsPromises
    CancelledCallEnds
