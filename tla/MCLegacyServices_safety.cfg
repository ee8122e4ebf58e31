SPECIFICATION Spec
CONSTANTS
    d1 = d1
    e1 = e1
    e2 = e2
    Docs = {d1}
    Parts <- TwoParts
    MaxCrashes = 2
    Files <- SomeFiles
    MaxPages = 3
    ChunkSize = 3
    ChunkOverlap = 1
    ParentSize = 5
    ChildSize = 3
    FamilyOverlap = 1
    MinGroup = 3
    MaxGroup = 5
    Events = {e1, e2}
    QueueSize = 1
    BatchSize = 2
    PartSize = 1
    MaxLosses = 1
    m1 = m1
    m2 = m2
    k1 = k1
    k2 = k2
    Letters = {m1, m2}
    NoLetter = noletter
    Readers = {k1, k2}
    ChannelPoolSize = 2
    Prefetch = 2
    MaxRetries = 1
    MaxTroubles = 2
    Scenes <- SomeScenes
    Lookups = {k1, k2}
    NoRow = {1}
    ExpireSeconds = 2
    LongestLoad = 1
    MaxVersion = 2
    MaxTime = 4
INVARIANTS
    ServicesInv
    EndIsRecorded
    TextIsChunked
    AckedIsKept
PROPERTIES
    WorkIsDone
CHECK_DEADLOCK FALSE
