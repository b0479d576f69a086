CONSTANTS
    a1 = a1
    a2 = a2
    b1 = b1
    Tabs = {t1}
    Docs = {a1, b1}
    DocType <- DocTypes
    None = None
    MaxMoves = 2
    MaxConnects = 1
    Unanswered = {}
    MaxEvents = 0
SPECIFICATION Spec
CHECK_DEADLOCK FALSE
INVARIANT OpenDocsAreReconnected
