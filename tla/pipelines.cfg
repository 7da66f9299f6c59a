SPECIFICATION Spec
CONSTANTS
    None = None
    MaxSweeps = 2
    CatalogRows = {1, 2, 3, 4}
    Snapshots = {s1, s2, off}
    TrueSnapshot = s1
    SnapshotRows <- MCSnapshotRows
    HasPlan <- MCHasPlan
    Chunk = 2
    CatalogFaults = 3
    Leagues = {1, 2, 3}
    EventRows = {1, 2, 3, 4, 5}
    LeagueOf <- MCLeagueOf
    Catalogs = {c1, c2}
    PlanOf <- MCPlanOf
    PageSize = 2
    MaxPartitions = 3
    EventFaults = 2
    OddsCursors = {k1, k2}
    Initial = Initial
    End = End
    OddsRows = {1, 2, 3}
    OddsFeed <- MCOddsFeed
    OddsFaults = 2
    s1 = s1
    s2 = s2
    off = off
    k1 = k1
    k2 = k2
    Workers = {w}
    c1 = c1
    c2 = c2
    e1 = e1
    e2 = e2
    Cursors = {c1, c2}
    WalkEvents = {e1, e2}
    Start = Start
    Terminal = Terminal
    Feed <- MCFeed
    MaxPages = 2
    WalkFaults = 3
    MaxBootstraps = 1
    Runs = {w1, w2}
    LastPage = 2
    Bets = {1, 2}
    EventOf <- MCEventOf
    MaxResultOf <- MCMaxResultOf
    MaxResult = 2
    GradingFaults = 1
    StartsAt = 2
    PriceAge = 1
    EventAge = 1
    Statuses = {"qualified", "disqualified", "stale", "suspended"}
    LastTime = 2
    MaxCandidates = 2
    LifeFaults = 1
INVARIANTS
    TypeOK
    LandedIsWhole
PROPERTIES
    PublishedCoversCatalog
    PublishesGenerations
    GradesStand
    OpportunitiesEnd
    PipelinesConverge
CHECK_DEADLOCK FALSE
