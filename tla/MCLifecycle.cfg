SPECIFICATION Spec
CHECK_DEADLOCK FALSE
CONSTANTS
    Proc = {p1, p2}
    Managed = {m1}
    External = {e1}
    None = None
    MaxMinted = 3
    MaxFaults = 2
INVARIANTS
    TypeOK
    ReadyIsComplete
    RunsComplete
    SealedIsRegistered
    UncheckedIsResumable
    StagingIsKept
PROPERTIES
    ForeignUntouched
    SelectionStaysReady
