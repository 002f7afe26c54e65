CONSTANTS
    Critical = 2
    MinSeverity = 1
    PlanLength = 2
    MaxChecks = 1
    MaxDue = 1
SPECIFICATION FairSpec
INVARIANTS
    TypeOK
    PagesComeFirst
PROPERTIES
    FailuresAreHandedOver
    AnalysesAreHeard
    AlertsDoNotStand
