CONSTANTS
    w1 = w1
    w2 = w2
    m1 = m1
    m2 = m2
    r1 = r1
    r2 = r2
    None = None
    MaxRetry = 1
    FaultKinds = {}
    MaxFaults = 0
    MaxResends = 0
    MaxAge = 0
    Workers = {w1, w2}
    Mails = {m1}
    Recipients = {r1}
    Linked = {}
    LowPriority = {}
SPECIFICATION Spec
CHECK_DEADLOCK FALSE
INVARIANT OneSenderAtATime
