SPECIFICATION Spec
CONSTANTS
    Origin = "cart"
    Tier = "gold"
    Signal = 8
    Velocity = "accelerating"
    Class <- MCClass
    Tools <- MCTools
    Queries <- MCQueries
    Index <- MCIndex
    Catalog <- MCCatalog
    Completions <- MCCompletions
    Views <- MCViews
    Apps <- MCApps
    Policies <- MCPolicies
    Cases <- MCCases
    Objects <- MCObjects
    Lookback = 2
    MaxSteps = 2
    MaxRuns = 2
    MaxFaults = 1
INVARIANTS
    TypeOK
    ApprovedIsGrounded
    ChangesOnlyRaise

    
CHECK_DEADLOCK FALSE
