CONSTANTS
    a1 = a1
    a2 = a2
    b1 = b1
    Tabs = {t1, t2}
    Docs = {a1, a2, b1}
    DocType <- DocTypes
    None = None
    MaxMoves = 3
    MaxConnects = 1
    Unanswered = {b1}
    MaxEvents = 1
SPECIFICATION Spec
SYMMETRY Symmetry
CHECK_DEADLOCK FALSE
INVARIANT TypeOK
INVARIANT ViewersAreCurrent
INVARIANT GhostsAreKnown
INVARIANT FormsAreWatched
PROPERTY ImplementsFeed
