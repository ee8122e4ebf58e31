SPECIFICATION Spec
CONSTANTS
    s1 = s1
    s2 = s2
    s3 = s3
    c1 = c1
    c2 = c2
    a = a
    b = b
    v1 = v1
    Streams = {s1, s2}
    Convs = {c1}
    ConvOf <- OneConversation
    Docs = {a}
    Views = {}
    Configured = TRUE
    MaxTokens = 1
    MaxCrashes = 0
PROPERTIES
    OpenedEnds
CHECK_DEADLOCK FALSE
