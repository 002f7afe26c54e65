CONSTANTS
    s1 = s1
    s2 = s2
    system = system
    acme = acme
    Schedule = {s1, s2}
    Run = {r1, r2}
    NoRun = NoRun
    NoSchedule = NoSchedule
    Tenant = {system, acme}
    SystemTenant = system
    NoTenant = NoTenant
    Deployments <- MCDeployments
    MaxCrashes = 1
SPECIFICATION FairSpec
INVARIANTS
    TypeOK
    LockIsAccountedFor
    
PROPERTIES
    BootEndsAndLocksOpen
CHECK_DEADLOCK FALSE
