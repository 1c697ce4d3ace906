CONSTANTS
    Pages = {p1}
    NoPage = NoPage
    Attempts = {a1, a2}
    NoAttempt = NoAttempt
    Publishers = {w1, w2}
    Schedulers = {s1}
    GitHub = TRUE
    MaxText = 2
    MaxPerDay = 1
    MaxFaults = 2
SPECIFICATION PublishersSpec
SYMMETRY PublicationSymmetry
INVARIANTS OneInProgress PublishedWasFound SendsWhatIsApproved WithinQuota CreatedOnce
PROPERTIES ReviewSpec
