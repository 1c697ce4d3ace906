CONSTANTS
    Pages = {p1}
    NoPage = NoPage
    Attempts = {a1, a2}
    NoAttempt = NoAttempt
    Publishers = {w1}
    Schedulers = {s1}
    GitHub = TRUE
    MaxText = 2
    MaxPerDay = 2
    MaxFaults = 1
SPECIFICATION GitHubLiveSpec
PROPERTIES AwaitedIsSettled
