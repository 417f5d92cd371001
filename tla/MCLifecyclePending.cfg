SPECIFICATION Spec
CHECK_DEADLOCK FALSE
CONSTANTS
    Proc = {p1, p2}
    Managed = {m1}
    External = {e1}
    None = None
    MaxMinted = 3
    MaxFaults = 2
INVARIANT PendingIsRemovable
