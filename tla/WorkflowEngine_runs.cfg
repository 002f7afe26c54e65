CONSTANTS
    b1 = b1
    c1 = c1
    BuiltIn = {b1}
    Custom = {c1}
    StageLists <- MCStageLists
    BuiltInStages <- MCBuiltInStages
    Incident = {i1}
    NoIncident = NoIncident
    Intervals = {0, 2}
    MaxRuns = 2
    MaxStarted = 3
    MaxRequests = 4
    MaxRestarts = 1
    MaxTime = 5
SPECIFICATION FairSpec
INVARIANTS
    TypeOK
    StagesAgreeWithStatus
    RecoveryLeavesNoTwins
PROPERTIES
    FallbackRunsEnd
CHECK_DEADLOCK FALSE
