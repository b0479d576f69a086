CONSTANTS
    Requests = {p1, p2, p3}
    NoRow = NoRow
    None = None
    Reuse = {}
    MaxClock = 3
SPECIFICATION Spec
SYMMETRY Symmetry
CHECK_DEADLOCK FALSE
INVARIANT NoLostUpdate
PROPERTY DocstatusMovesForward
PROPERTY FrozenWhileSubmitted
PROPERTY ImplementsStore
