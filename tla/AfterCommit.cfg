CONSTANTS
    Processes = {p1, p2}
    Kinds = {"request", "batch", "job"}
    Faults = {"pubsub", "queue", "crash"}
    MaxWrites = 2
SPECIFICATION Spec
SYMMETRY Symmetry
CHECK_DEADLOCK FALSE
INVARIANT TypeOK
INVARIANT NoJobIsForgotten
INVARIANT OnlyRaisedCommitsRepeat
INVARIANT JobsAreInOnePlace
PROPERTY ImplementsOutbox
