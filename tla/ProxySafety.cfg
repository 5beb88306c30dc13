SPECIFICATION FairSpec
CONSTANTS
    Peers <- ManyPeers
    MaxUnasked = 1
    PipeSize = 1
    StderrSize = 1
INVARIANTS
    ForwardsWhatPasses
    OneAnswerPerRequest
    DeliversInOrder
    NothingPassesUnlogged
PROPERTIES
    EveryRequestAnswered
    EndsWithItsPeers
CHECK_DEADLOCK FALSE
