CONSTANTS
    Audits = {a1, a2}
    Urls = {u1}
    Clients = {c1}
    None = None
    Workers = {w1, w2}
    MaxRunning = 1
    MaxAttempts = 2
    Lease = 2
    Deadline = 1
    Limit = 3
    MaxHour = 1
SPECIFICATION LiveSpec
INVARIANTS TypeOK ReportAgrees NoOverlap WorkWithinLimit
PROPERTIES EndedIsFinal AuditsEnd
