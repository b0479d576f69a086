CONSTANTS
    w1 = w1
    w2 = w2
    m1 = m1
    m2 = m2
    r1 = r1
    r2 = r2
    None = None
    MaxRetry = 0
    FaultKinds = {"abort", "badconn", "unrecorded"}
    MaxFaults = 1
    MaxResends = 1
    MaxAge = 2
    Workers = {w1, w2}
    Mails = {m1}
    Recipients = {r1, r2}
    Linked = {}
    LowPriority = {m1}
SPECIFICATION Spec
SYMMETRY Symmetry
CHECK_DEADLOCK FALSE
INVARIANT DuplicatesOnlyFromKnownWindows
INVARIANT SentRowsWereDelivered
INVARIANT SentMailsAreComplete
PROPERTY ImplementsMailing
