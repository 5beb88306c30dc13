SPECIFICATION Spec
CONSTANTS
    Lease = {l1}
    Caller = {main, h1, h2}
    Main = main
    Target <- Targets
    RequestTarget <- OneTarget
    InitialDrivers <- OnlyGeneric
    Registrations <- Nobody
    FailingDrivers <- Nobody
    RequestTTL <- Lifetimes
    MinTTL = 1
    MaxTTL = 2
    DefaultTTL = 1
    MaxRenewals = 0
    MaxTime = 1
    None = None
    Files <- SomeFiles
    Environments <- SomeEnvironments
    FlagSets <- SomeFlags
    Messages <- MessagesOfOne
    Posts <- SomePosts
    MaxMessages = 3
INVARIANTS
    LastLayerWins
    OnlyCleanRequestsRun
    RecordsTellTheCall
    RevokedAnswersHold
    ExitLeavesNoSecret
CHECK_DEADLOCK FALSE
SYMMETRY HandlerSymmetry
