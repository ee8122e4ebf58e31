SPECIFICATION Spec
CONSTANTS
    s1 = s1
    s2 = s2
    s3 = s3
    c1 = c1
    c2 = c2
    a = a
    b = b
    v1 = v1
    Streams = {s1}
    Convs = {c1}
    ConvOf <- OneConversation
    Docs = {a}
    Views = {}
    Configured = TRUE
    MaxTokens = 2
    MaxCrashes = 0
INVARIANTS
    CompletedIsWhole
CHECK_DEADLOCK FALSE
