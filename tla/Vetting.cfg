CONSTANTS
    OneGroup = {"digits:1", "digits:2", "digits:4", "digits:9"}
    SeveralGroups = {"digits:5-4"}
    Eins <- MCEins
    Records <- MCRecords
    Applicants <- MCApplicants
    Approved <- MCApproved
    Row <- MCRow
    DaysOld <- MCDaysOld
    Words <- MCWords
    NormalAddress <- MCNormalAddress
    WithUid = {"match"}
    NotIncluded = {"no match"}
    BatchSize = 2
    MaxRuns = 3
    MaxMoves = 2
SPECIFICATION Spec
CHECK_DEADLOCK FALSE
INVARIANTS
    NothingUnverifiedPasses
PROPERTIES
    SyncNeverErases
    AuditTellsEveryChange
