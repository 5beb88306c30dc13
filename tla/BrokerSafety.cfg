SPECIFICATION Spec
CONSTANTS
    Lease = {l1}
    Caller = {c1, c2}
    Target <- AllTargets
    RequestTarget <- AllTargets
    InitialDrivers <- OwnNames
    Registrations <- AliasOfGeneric
    FailingDrivers <- BackendsFail
    RequestTTL <- DefaultOnly
    MinTTL = 1
    MaxTTL = 2
    DefaultTTL = 1
    MaxRenewals = 1
    MaxTime = 0
    None = None
INVARIANTS
    NoLeaseUnattended
    ShutdownCoversSettledLeases
    RevokedMeansDropped
PROPERTIES
    ImplementsLeaseService
SYMMETRY CallerSymmetry
