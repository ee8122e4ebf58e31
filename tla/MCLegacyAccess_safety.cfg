SPECIFICATION Spec
CONSTANTS
    r1 = r1
    r2 = r2
    r3 = r3
    c1 = c1
    c2 = c2
    c3 = c3
    u1 = u1
    u2 = u2
    s1 = s1
    Requests = {r1, r2, r3}
    Loads <- TwoLoads
    Limit = 2
    Window = 3
    MaxTries = 3
    MaxStall = 1
    MaxClock <- Clocks
    MaxPieces = 3
    Calls = {c1, c2, c3}
    MaxTokens = 3
    Users = {u1, u2}
    Slugs = {s1}
    Changers = {c1, c2, c3}
    Visits = {r1, r2, r3}
    UserOf <- SomeUsers
    IpOf <- SameAddress
    NoIdentity = nobody
    WindowSeconds = 2
    PerUser = 1
    PerIp = 2
    OpenOnFailure = TRUE
    TickOf <- SomeTicks
    LongestWay = 1
    MaxSeconds = 4
INVARIANTS
    AccessInv
    AdmittedInWindow
    ToldIsHeard
    SpentStaysSpent
PROPERTIES
    ChangedWhileThere
    EveryRequestIsAnswered
CHECK_DEADLOCK FALSE
