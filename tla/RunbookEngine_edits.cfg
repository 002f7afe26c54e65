CONSTANTS
    v1 = v1
    v2 = v2
    v3 = v3
    Run = {r1}
    Version = {v1, v2, v3}
    Steps <- MCSteps
    MaxSteps = 5
    MaxRequests = 4
    MaxRestarts = 1
SPECIFICATION FairSpec
INVARIANTS
    TypeOK
    OneStepAtATime
    GatesHold
    NoRunIsLost
PROPERTIES
    RunsComeToAStop
CHECK_DEADLOCK FALSE
