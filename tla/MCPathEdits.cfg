SPECIFICATION Spec
CONSTANTS
    a = a
    b = b
    Proc = {p1, p2}
    Bin = Bin
    Shims = Shims
    Store = Store
    Other = {a, b}
    None = None
    Initial <- MCInitial
    MaxLength = 5
    MaxFailures = 1
    MaxEdits = 1
SYMMETRY Symmetry
INVARIANTS
    TypeOK
    AddedIsClaimed
    ClaimsAreOurs
    StoreIsRecoverable
    RestoredInPlace
    RemoveIsComplete
PROPERTIES
    OthersKept
