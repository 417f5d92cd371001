SPECIFICATION Spec
CONSTANTS
    work = work
    home = home
    elsewhere = elsewhere
    None = None
    Editor = {e1, e2}
    Key = {"runtimes_dir", "cache_dir"}
    Default <- MCDefault
    Overridable = {"cache_dir"}
    Directory <- MCDirectory
    MaxSettings = 2
    Pid = {n1, n2, n3}
    MaxClock = 2
    MaxSpawns = 2
    MaxCommands = 2
    MaxChanges = 1
    Directories <- MCDirectories
    Wanted <- MCWanted
    Local <- MCLocal
    Saved <- MCSaved
    Initial <- MCInitial
    Later <- MCLater
    Mixes <- MCMixes
    Caller = {c1, c2}
    Runtime = {r1, r2}
    Programs <- MCPrograms
    Shipped <- MCShipped
    MaxWrites = 2
SYMMETRY Symmetry
INVARIANTS
    TypeOK
    NoStranger
    ResolutionIsExact
    SettingsLoad
    TypedIsRun
    FreshWhenQuiet
PROPERTIES
    PinsAreStable
CHECK_DEADLOCK FALSE
