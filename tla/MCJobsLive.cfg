CONSTANTS
    Jobs = {j1, j2}
    NoJob = NoJob
    d1 = d1
    w1 = w1
    w2 = w2
    t1 = t1
    Agents = {w1}
    Tenants = {t1}
    TenantOf <- MCTenantOf
    Directors = {}
    Writers = {w1}
    SeoWorkers = {s1}
    DirWorkers = {}
    Callers = {c1}
    MaxQueued = 1
    MaxAgents = 1
    MaxDirectors = 1
    MaxCalls = 1
    Reports = {"working", "done", "error", "idle"}
    MaxStops = 1
    MaxFaults = 1
SPECIFICATION LiveSpec
INVARIANTS TypeOK
PROPERTIES JobsEnd
