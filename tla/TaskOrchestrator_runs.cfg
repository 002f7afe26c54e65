CONSTANTS
    t1 = t1
    t2 = t2
    Task = {t1, t2}
    Agent = {a1}
    NoAgent = NoAgent
    Deps <- MCDeps
    MaxConcurrent = 2
    MaxRetryLimit = 1
    MaxInterventions = 1
    MaxRestarts = 1
SPECIFICATION FairSpec
INVARIANTS
    TypeOK
    StoreLagsOnlyOnMemoryOnly
    LaunchBudget
    SlotsAreLoops
PROPERTIES
    HeldTasksStay
    EveryTaskSettles
