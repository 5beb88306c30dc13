SPECIFICATION Spec
CONSTANTS
    Lease = {l1}
    Caller = {c1, c2}
    Target <- AllTargets
    RequestTarget <- GenericAndRedis
    InitialDrivers <- OwnNames
    Registrations <- NoRegistration
    FailingDrivers <- NoFailures
    RequestTTL <- DefaultOnly
    MinTTL = 1
    MaxTTL = 2
    DefaultTTL = 1
    MaxRenewals = 1
    MaxTime = 0
    None = None
INVARIANT ActiveLeasesAreValid
