SPECIFICATION Spec
CONSTANTS
    d1 = d1
    d2 = d2
    p1 = p1
    p2 = p2
    e1 = e1
    e2 = e2
    e3 = e3
    e4 = e4
    Devices = {d1, d2}
    Paths = {p1, p2}
    Edits = {e1, e2, e3}
    InitialPaths = {p1}
    LegacyPaths = {}
    AgentPaths = {}
    StalePaths = {}
    MaxFailures = 1
SYMMETRY Symmetry
INVARIANTS UploadInvariant PullInvariant
PROPERTIES NoSilentOverwrite
