SPECIFICATION Spec
CONSTANTS
    n1 = n1
    n2 = n2
    chat = chat
    Notes = {n1, n2}
    NoNote = NoNote
    Tools = {chat}
    Hidden = {n2}
    MaxTexts = 3
    Sizes <- TextSizes
    Extra = 2
    Spare = 2
    MaxFailures = 1
    MaxRestarts = 1
CHECK_DEADLOCK FALSE
INVARIANTS TypeOK IndexIsCurrent NobodyIsCrowdedOut
