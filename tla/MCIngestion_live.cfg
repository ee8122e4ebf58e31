SPECIFICATION Spec
CONSTANTS
    NoDoc = NoDoc
    d1 = d1
    d2 = d2
    d3 = d3
    r1 = r1
    r2 = r2
    r3 = r3
    Docs = {d1, d2, d3}
    Requests = {r1}
    ContentKey <- SameContents
    Logged = {"uploaded", "deleted"}
    BatchLimit = 1
    MaxCrashes = 2
PROPERTIES
    QueueDrains
    RemovalErases
CHECK_DEADLOCK FALSE
