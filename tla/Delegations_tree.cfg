CONSTANTS
    root = root
    sub = sub
    leaf = leaf
    d1 = d1
    d2 = d2
    NoTask = NoTask
    Task = {root, sub, leaf}
    Root = root
    Beginnings <- MCBeginnings
    Parent <- MCParent
    Delegation = {d1, d2}
    Of <- MCOf
    ChildOf <- MCChildOf
    Risk <- MCRisk
    Deadline = {d2}
    Token = {t1, t2}
    MaxRecords = 1
    ListLimit = 1
    Policies <- MCPolicies
    SetTo = {"completed", "cancelled", "rolling_back", "rolled_back"}
    MaxOps = 3
    MaxRestarts = 1
SPECIFICATION FairSpec
INVARIANTS
    TypeOK
PROPERTIES
    DriftHasAName
    TokensBuyOnce
    LateOnesAreNoticed
CHECK_DEADLOCK FALSE
