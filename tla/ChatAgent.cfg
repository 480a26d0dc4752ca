SPECIFICATION Spec
CONSTANTS
    Tools = {"generate_image", "create_note", "other"}
    MaxIterations = 2
    MaxCalls = 2
    MaxCrashes = 1
INVARIANTS TypeOK ShownImagesAreMade LedgerKeepsUp
PROPERTIES KeepsPromise
