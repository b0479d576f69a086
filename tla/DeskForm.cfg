CONSTANTS
    Docs = {d1}
    New = New
    None = None
    Changes = {c1}
    Links = {c1}
    Slots = {s1,s2}
    MaxVersion = 2
SPECIFICATION Spec
SYMMETRY Symmetry
CHECK_DEADLOCK FALSE
INVARIANT TypeOK
INVARIANT OneSaveAtATime
INVARIANT ChangesAreKept
INVARIANT QuietCopiesAreFresh
INVARIANT InsertedOnce
PROPERTY NoLostUpdate
