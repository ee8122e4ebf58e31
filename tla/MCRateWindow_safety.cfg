SPECIFICATION Spec
CONSTANTS
    k1 = k1
    k2 = k2
    k3 = k3
    Keys = {k1, k2, k3}
    Limit <- Limits
    Window = 2
    MaxKeys = 1
    LastInstant = 4
    Times <- Instants
INVARIANTS
    NeverOverLimit
PROPERTIES
    LimiterSpec
CHECK_DEADLOCK FALSE
