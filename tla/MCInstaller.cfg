SPECIFICATION Spec
CONSTANTS
    Program = {build, program}
    Shim = {shim}
    Registry = registry
    BuildInfo = build
    Added = {program}
    Cli = {c1, c2}
    Absent = Absent
    MaxVersion = 1
    MaxEdits = 2
    MaxFaults = 3
    TornKills = TRUE
INVARIANTS
    TypeOK
    NoMixedRun
    ReplacedIsRecoverable
    VersionAgrees
PROPERTIES
    CommittedStands
    EditsSurvive
