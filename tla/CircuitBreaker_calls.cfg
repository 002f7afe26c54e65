CONSTANTS
    Call = {c1, c2, c3, c4}
    FailureThreshold = 3
    ResetTime = 2
    HalfOpenMax = 2
SPECIFICATION FairSpec
INVARIANTS
    TypeOK
    CountersFit
PROPERTIES
    QuietWhileOpen
    Heals
