SPECIFICATION Spec
CONSTANTS
    page1 = page1
    page2 = page2
    version = version
    small = small
    large = large
    Proc = {p1, p2}
    Page = {page1, page2}
    FirstPage = page1
    Version = {version}
    Body = {small, large}
    Length <- MCLength
    MaxGeneration = 3
    Document <- MCDocument
    Elsewhere = Elsewhere
    None = None
    MaxEvents = 2
INVARIANTS
    TypeOK
    UnpackedIsSigned
    NoSplice
PROPERTIES
    RetriesSucceed
