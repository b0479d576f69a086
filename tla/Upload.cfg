SPECIFICATION FairSpec

CONSTANTS
    x = x
    y = y
    s1 = s1
    s2 = s2
    g1 = g1
    g2 = g2
    nA = nA
    nB = nB
    Batches = {x, y}
    Files = {s1, s2, g1, g2}
    Plan <- Plans
    Big = {g1, g2}
    Name <- FileNames
    MaxBreaks = 1
    None = None

CHECK_DEADLOCK FALSE

INVARIANT TypeOK
INVARIANT ContentIsKept
INVARIANT AttachedOnce
INVARIANT NoneIsSkipped
INVARIANT BatchGoesOn
PROPERTY UploaderIsFreed
PROPERTY Settles
