SPECIFICATION Spec
CONSTANTS
    NoUser = NoUser
    u1 = u1
    u2 = u2
    u3 = u3
    t1 = t1
    t2 = t2
    t3 = t3
    r1 = r1
    r2 = r2
    o1 = o1
    o2 = o2
    Users = {u1, u2, u3}
    Orgs = {o1, o2}
    OrgOf <- TwoOrgs
    Roles = {"admin", "member"}
    Tokens = {t1, t2}
    Requests = {r1, r2}
SYMMETRY Symmetries
INVARIANTS
    SessionIsOfAccount
    AdminLostOnlyByRace
    InactiveHasNoSession
CHECK_DEADLOCK FALSE
