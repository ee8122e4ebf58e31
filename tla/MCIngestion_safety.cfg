SPECIFICATION Spec
CONSTANTS
    NoDoc = NoDoc
    d1 = d1
    d2 = d2
    d3 = d3
    r1 = r1
    r2 = r2
    r3 = r3
    Docs = {d1, d2}
    Requests = {r1, r2}
    ContentKey <- SameContents
    Logged = {"uploaded", "deleted"}
    BatchLimit = 1
    MaxCrashes = 1
SYMMETRY RequestSymmetry
INVARIANTS
    IInv
    NoStrandedWork
    AuditTellsLife
PROPERTIES
    RemovalIsFinal
    LibrarySpec
CHECK_DEADLOCK FALSE
