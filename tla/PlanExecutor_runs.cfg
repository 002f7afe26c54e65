CONSTANTS
    a = a
    b = b
    c = c
    missing = missing
    e1 = e1
    e2 = e2
    Node = {a, b, c}
    Missing = missing
    Shapes <- MCShapes
    Execution = {e1, e2}
    MaxAttempts = 3
    MaxRestarts = 1
SPECIFICATION FairSpec
INVARIANTS
    TypeOK
    VerdictFits
PROPERTIES
    KeepsPromise
    ResultsAreKept
    ExecutionsEnd
CHECK_DEADLOCK FALSE
