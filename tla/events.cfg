SPECIFICATION MCSpec
CONSTANTS
    Callers = {a, b}
    Workers = {a, b}
    Cursors = {c1, c2}
    Events = {e1, e2}
    Feed <- MCFeed
    Identities = {i1, i2}
    Contents = {x, y, z}
    IdentityOf <- MCIdentityOf
    Providers = {1, 2}
    ProviderEvents = {p1, p2}
    ProviderOf <- MCProviderOf
    Rank <- MCRank
    None = None
    c1 = c1
    c2 = c2
    e1 = e1
    e2 = e2
    Start = Start
    Terminal = Terminal
    MaxPages = 2
    MaxFaults = 1
    MaxBootstraps = 1
    p1 = p1
    p2 = p2
    x = x
    y = y
    z = z
    i1 = i1
    i2 = i2
    Ids = {v1, v2}
    MaxRevision = 2
    MaxCalls = 3
INVARIANTS
    TypeOK
    CheckpointIsCovered
    EventsAgree
PROPERTIES
    IsCursorWalk
    EventsRise
SYMMETRY Symmetry
CHECK_DEADLOCK FALSE
