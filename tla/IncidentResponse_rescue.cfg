CONSTANTS
    Critical = 2
    MinSeverity = 1
    PlanLength = 1
    MaxChecks = 1
    MaxDue = 1
SPECIFICATION FairSpec
PROPERTIES
    LostTimersAreRescued
