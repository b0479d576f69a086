CONSTANTS
    Docs = {d1, d2}
    New = New
    None = None
    Changes = {}
    Links = {}
    Slots = {s1}
    MaxVersion = 1
SPECIFICATION Spec
CHECK_DEADLOCK FALSE
PROPERTY ConfirmedIsSent
