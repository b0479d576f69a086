CONSTANTS
    Requests = {p1, p2}
    NoRow = NoRow
    None = None
    Reuse = {"db_set"}
    MaxClock = 4
SPECIFICATION Spec
CHECK_DEADLOCK FALSE
INVARIANT NoLostUpdate
