SPECIFICATION Spec
CONSTANTS
    Proc = {p1, p2}
    File = {f1, f2}
    Digest = {d1, d2}
    Absent = Absent
    Foreign = Foreign
    NoProc = NoProc
    MaxGeneration = 4
SYMMETRY Symmetry
INVARIANTS
    TypeOK
    SnapshotIsCurrent
    WriteAhead
PROPERTIES
    CleanupSparesRouted
    ForeignSurvives
    EvidenceLostOnlyByRewrite
    ImplementsRoutingIndex
