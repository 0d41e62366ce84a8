CONSTANTS
    Watch <- MCWatch
    Object <- MCObject
    Windows <- MCWindows
    Hold = 1
    FreshnessBound = 1
    MinSamples = 3
    MaxFaults = 2
SPECIFICATION Spec
INVARIANTS TypeOK SilenceExplained
 
