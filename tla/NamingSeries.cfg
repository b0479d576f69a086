CONSTANTS
    Requests = {p1, p2, p3}
    Others = {}
    None = None
    MaxNumber = 3
SPECIFICATION Spec
SYMMETRY Symmetry
CHECK_DEADLOCK FALSE
INVARIANT FreshNumber
INVARIANT NewNumbersAreHighest
INVARIANT NoGaps
