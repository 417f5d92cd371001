SPECIFICATION Spec
CONSTANTS
    Proc = {p1}
    File = {f1}
    Digest = {d1, d2}
    Absent = Absent
    Foreign = Foreign
    NoProc = NoProc
    MaxGeneration = 3
INVARIANT OwnershipEvidence
