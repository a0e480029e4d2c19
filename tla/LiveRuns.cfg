CONSTANTS
    OneGroup = {"digits:1", "digits:2", "digits:4", "digits:9"}
    SeveralGroups = {"digits:5-4"}
    Contract <- MCContract
    Worlds <- MCWorlds
    Later <- MCLater
    Recordings <- MCRecordings
    Settings <- MCSettings
    FirstCount = 5
    MaxDisturbances = 1
SPECIFICATION Spec
CHECK_DEADLOCK FALSE
INVARIANTS
    NoFalseAlarm
    NothingSlipsThrough
    BilledWithinBudget
    DeltaNeverOverstates
    RecordingSurvives
