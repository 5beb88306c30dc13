SPECIFICATION Spec
CONSTANTS
    Event = {e1, e2, e3, e4}
    Gateway = {g1, g2}
    MaxOpen = 2
    WriteFaults <- AllFaults
    SyncMayFail = TRUE
    PowerMayFail = TRUE
    None = None
INVARIANTS
    SoundLedgerVerifies
    DamageIsReported
    AcknowledgedEventsKept
    EditsAreReported
PROPERTIES
    ImplementsEventLog
SYMMETRY LedgerSymmetry
