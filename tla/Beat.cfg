CONSTANTS
    Environments <- MCEnvironments
    Malformed <- MCMalformed
    MaxFaults = 2
SPECIFICATION Spec
INVARIANTS TypeOK  ExitDrains
PROPERTIES LostBrokerExits LateDropSeen
