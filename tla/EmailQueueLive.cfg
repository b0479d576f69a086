CONSTANTS
    w1 = w1
    w2 = w2
    m1 = m1
    m2 = m2
    r1 = r1
    r2 = r2
    None = None
    MaxRetry = 1
    FaultKinds = {"badconn"}
    MaxFaults = 1
    MaxResends = 0
    MaxAge = 1
    Workers = {w1}
    Mails = {m1, m2}
    Recipients = {r1, r2}
    Linked = {m1, m2}
    LowPriority = {}
SPECIFICATION FairSpec
CHECK_DEADLOCK FALSE
INVARIANT TypeOK
INVARIANT AtMostOnce
INVARIANT SendingHasASender
INVARIANT SummaryIsRight
PROPERTY EveryMailSettles
PROPERTY DeliverySettles
