CONSTANTS
    Jobs = {j1, j2}
    NoJob = NoJob
    w1 = w1
    w2 = w2
    r2 = r2
    t1 = t1
    t2 = t2
    Agents = {w1, w2, r2}
    Tenants = {t1, t2}
    TenantOf <- MCTenantOf
    Directors = {}
    Writers = {w1, w2, r2}
    SeoWorkers = {s1, s2}
    DirWorkers = {}
    Callers = {c1}
    MaxQueued = 1
    MaxAgents = 1
    MaxDirectors = 1
    MaxCalls = 0
    Reports = {}
    MaxStops = 0
    MaxFaults = 2
SYMMETRY Symmetry
SPECIFICATION Spec
INVARIANTS Exclusion StartingHasJob
PROPERTIES SlotsSpec
