SPECIFICATION Spec
CONSTANTS
    Callers = {c1, c2}
    Absent = Absent
    MaxAttempts = 2
    Life = 2
    Window = 3
    CallTime = 1
    RequestLimit = 2
    VerifyLimit = 3
    MaxTime = 3
    MaxCodes = 3
    MaxVersion = 1
    o = o
    People = {o, p}
    Owner = o
    Requests = {c1, c2}
    Keys = {k1, k2}
    None = None
    MaxGrants = 2
    MaxBumps = 1
    Webhooks = {c1, c2}
    Checkouts = {k1, k2}
    Customers = 2
    MaxEvents = 2
    MaxSecond = 2
    Says <- MCSays
INVARIANTS
    TypeOK
    CodesAndEntry
    PaidFor
PROPERTIES
    FencesRise
SYMMETRY Symmetry
CHECK_DEADLOCK FALSE
