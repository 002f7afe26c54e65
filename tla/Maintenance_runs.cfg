CONSTANTS
    a = a
    b = b
    j1 = j1
    Job = {j1}
    Seeds = {j1}
    SeedPeriod = 2
    Server = {a, b}
    Periods = {1, 2}
    Cycle = 2
    Targets <- MCTargets
    MaxRuns = 2
SPECIFICATION MaintenanceFairSpec
INVARIANTS
    MaintenanceTypeOK
PROPERTIES
    NoWindowTwice
    DueJobsRun
