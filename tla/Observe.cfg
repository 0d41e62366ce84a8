SPECIFICATION Spec
CONSTANTS
    Tools = {"harvest", "incident", "corpus"}
    MaxDetections <- MCMaxDetections
    MaxRuns = 2
    MaxStored <- MCMaxStored
    MaxPoison = 1
    Authored <- MCAuthored
    Repeat = 2
    MaxFaults = 1
    Batch = 2
    MaxSnapshots = 1
    Artifacts <- MCArtifacts
    CorpusVersion = 3
    MaxMines = 2
    MaxUnread = 1
INVARIANTS TypeOK RigPutBack RowsOwnTheirRuns  
 
CHECK_DEADLOCK FALSE
