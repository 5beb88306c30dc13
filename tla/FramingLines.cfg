SPECIFICATION FairSpec
CONSTANTS
    Length <- Lengths
    MaxLines = 3
    Buffer = 2
    MaxSize = 4
    MayCancel = TRUE
INVARIANTS
    ReadsEveryLine
    CancelLosesOneLine
PROPERTIES
    CancelledCallerEnds
CHECK_DEADLOCK FALSE
