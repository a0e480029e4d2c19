CONSTANTS
    Values <- MCValues
    Known <- MCKnown
    OtherRequests <- MCOtherRequests
    FixtureEins <- MCKnown
    Connections <- MCConnections
    MaxLength = 3
    MaxBulkEins = 2
    MaxAttempts = 2
    MaxEdits = 1
    MAX_BULK_EINS = 2
    TRANSIENT_FAILURES = 1
SPECIFICATION CompositeSpec
CHECK_DEADLOCK FALSE
INVARIANTS
    AllOrNothing
    SendsWhatWasPassed
    EveryEinAccountedFor
PROPERTIES
    BillsWhatItServes
