CONSTANTS
    Worker = {handler, watcher}
    Handler = handler
    Key <- MCKey
    Flag = {"f", "g"}
    Variant = {"on", "off"}
    Asked <- MCAsked
    NoDoc = NoDoc
    Profiles <- MCProfiles
    ForgeWired = TRUE
    MaxFaults = 1
    MaxRuns = 3
    MaxEdits = 1
SPECIFICATION Spec
INVARIANTS
    TypeOK
    WithdrawnStaysShut
    BoundRunsDispatch
    ValidatedFloorsHold
PROPERTIES
    KeepsReviewPromise
    
CHECK_DEADLOCK FALSE
