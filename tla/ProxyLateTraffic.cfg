SPECIFICATION Spec
CONSTANTS
    Peers <- LeavingPeer
    MaxUnasked = 1
    PipeSize = 1
    StderrSize = 1
INVARIANTS
    EverythingPassedIsLogged
CHECK_DEADLOCK FALSE
