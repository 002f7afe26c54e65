CONSTANTS
    v1 = v1
    v2 = v2
    v3 = v3
    Run = {r1}
    Version = {v1, v2}
    Steps <- MCSteps
    MaxSteps = 5
    MaxRequests = 3
    MaxRestarts = 0
SPECIFICATION Spec
INVARIANTS
    ApprovedIsWhatRuns
CHECK_DEADLOCK FALSE
