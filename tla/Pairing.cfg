SPECIFICATION Spec
CONSTANTS
    Devices = {phone, desktop}
    Codes = {c1, c2, c3}
    MaxPending = 2
    MaxIds = 3
    MaxRevokes = 1
    MaxRestarts = 1
SYMMETRY Symmetry
INVARIANTS TypeOK CodesPairOnce RegisterIsKept
CHECK_DEADLOCK FALSE
