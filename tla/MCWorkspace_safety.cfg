SPECIFICATION Spec
CONSTANTS
    c1 = c1
    c2 = c2
    q1 = q1
    q2 = q2
    d1 = d1
    d2 = d2
    l1 = l1
    l2 = l2
    m1 = m1
    p1 = p1
    p2 = p2
    NoConv = NoConv
    Convs = {c1, c2}
    Questions = {q1, q2}
    Earlier = {q1}
    MaxParts = 1
    MaxEvents = 3
    Docs = {d1}
    Loops = {l1, l2}
    MaxActions = 2
    MaxChanges = 1
    MaxFailures = 1
    MaxInFlight = 1
    Pages = {p1, p2}
    Members = {m1}
    Roles = {"admin", "member"}
    MaxClicks = 2
INVARIANTS
    PagesInv
    ShowsSelected
    CompletedIsSaved
    ChoicesHold
PROPERTIES
    EarlyEndIsTold
    QuestionsEnd
    ShowsLibrary
CHECK_DEADLOCK FALSE
