SPECIFICATION EditorSpec
CONSTANTS
    d1 = d1
    d2 = d2
    p1 = p1
    e1 = e1
    e2 = e2
    e3 = e3
    Devices = {d1, d2}
    Paths = {p1}
    Edits = {e1, e2, e3}
    InitialPaths = {p1}
    LegacyPaths = {}
    AgentPaths = {}
    StalePaths = {}
    MaxFailures = 0
SYMMETRY Symmetry
PROPERTIES NoSilentOverwrite
