SPECIFICATION FairSpec
CONSTANTS
    Program = {build, program}
    Shim = {shim}
    Registry = registry
    BuildInfo = build
    Added = {program}
    Cli = {c1}
    Absent = Absent
    MaxVersion = 1
    MaxEdits = 1
    MaxFaults = 1
    TornKills = FALSE
PROPERTY EventuallyAdmitted
