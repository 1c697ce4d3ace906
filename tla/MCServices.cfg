CONSTANTS
    Procs = {p1, p2}
    Day = 3
    Lease = 1
    MaxAge = 2
    MaxCrashes = 1
    MaxChanges = 2
    None = None
    Webs = {w1, w2}
    Agents = {a1, a2}
    Workers = {w1}
    GoogleUsers = {u1, u2}
    GoogleAccounts = {g1, g2}
    Flows = {f1, f2}
    MaxLayers = 2
    MaxTurns = 2
    PlanLimits <- MCPlanLimits
    MaxPurchases = 1
    MaxEvents = 4
    MaxFailures = 1
    Suffixes = 1
    MaxTenants = 2
    Kinds = {"github", "wordpress"}
    Secrets = {v1}
    MaxForms = 2
    PageWords = {60, 2000}
    ListItems = {0}
    Fragile = {"technical", "images"}
    Audits = {a1, a2, a3}
    Measures = {1, 2}
    MaxKills = 1
    Bases = {b1, b2}
    MaxUrls = 2
    Batch = 1
    Every = 1
    MaxJobDeaths = 1
    MaxMoves = 2
    Keywords = {k1}
    Paths = {b1, b2}
    MaxClusters = 2
    MaxDeaths = 1
    AuditUrls = {v1}
    Callers = {c1, c2}
    MaxRunning = 1
    MaxAttempts = 2
    AuditLease = 3
    Deadline = 2
    Limit = 1
    MaxHour = 3
SPECIFICATION ServicesSpec
INVARIANTS TypesOK ClaimIsExclusive RowIsOneGrant PaidIsServed RowsAreOwn CredentialsReadBack ReportIsTrue CoverageIsTrue RateHolds
PROPERTIES PausedForCause EnabledReturns ClientsWithinPlan StableScore OneIntentOnePage
CHECK_DEADLOCK FALSE
