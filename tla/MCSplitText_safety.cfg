SPECIFICATION AllSpec
CONSTANTS
    p1 = p1
    p2 = p2
    p3 = p3
    p4 = p4
    p5 = p5
    Size = 5
    Overlap = 1
    MaxLength = 8
    Texts <- ShortTexts
    Library <- SmallLibrary
    Asked = {"x", "the"}
    Stop = {"the"}
    Contents <- SomeContents
    MaxTop = 2
    MaxLines = 3
    Passages = {p1, p2, p3, p4, p5}
    Own = {p1, p2, p3, p5}
    Embedded = {p1, p2, p3, p4}
    Opposite = {p3}
    Criteria <- Filters
    Weights = {0, 5, 10}
    TopKs = {1, 2}
    RrfK = 1
    Unit = 60
    MaxTopK = 3
    MaxChanges = 1
INVARIANTS
    SearchInv
    NoTextLost
    ToldIsGrounded
PROPERTIES
    Progress
CHECK_DEADLOCK FALSE
