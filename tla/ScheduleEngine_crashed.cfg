CONSTANTS
    s1 = s1
    s2 = s2
    system = system
    acme = acme
    Schedule = {s1}
    Run = {r1}
    NoRun = NoRun
    NoSchedule = NoSchedule
    Tenant = {system}
    SystemTenant = system
    NoTenant = NoTenant
    Deployments <- MCSmallDeployment
    MaxCrashes = 1
SPECIFICATION Spec
PROPERTIES
    SkippedForARun
CHECK_DEADLOCK FALSE
