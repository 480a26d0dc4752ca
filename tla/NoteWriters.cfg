SPECIFICATION Spec
CONSTANTS
    Notes = {n1}
    NoPath = NoPath
    MaxTexts = 2
    MaxDeletes = 1
    MaxImages = 2
    MaxCalls = 1
    MaxRestarts = 1
INVARIANTS TypeOK SkippedNotesWereRead ImagesAreAskedFor
PROPERTIES RestoresAreWhole
CHECK_DEADLOCK FALSE
