SPECIFICATION Spec
CONSTANTS
    Tool <- AllTools
    Forbidden <- DenyList
    Listed <- AllowList
    Disabled <- Off
    Limited <- WithLimit
    MaxPerMin <- TwoPerMinute
    Minute = 3
    MaxTime = 7
    MaxCalls = 5
INVARIANTS
    WindowRespected
    RefusalsAreDue
    HistoryBounded
