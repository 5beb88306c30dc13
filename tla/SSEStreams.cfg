SPECIFICATION FairSpec
CONSTANTS
    Session = {s1}
    Post = {p1, p2}
    Kind <- AllKinds
    Capacity = 1
    MayStop = TRUE
    None = None
INVARIANTS
    StreamCarriesItsResponses
    NothingPassesUnlogged
    LostOnlyToLeavers
PROPERTIES
    EveryPostEnds
CHECK_DEADLOCK FALSE
