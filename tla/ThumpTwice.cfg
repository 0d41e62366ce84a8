CONSTANTS
    Fingerprint = {fp1}
    r1 = r1
    r2 = r2
    r3 = r3
    mutate = mutate
    release = release
    retired = retired
    Run = {r1}
    NoRun = NoRun
    Contract = {mutate, release, retired}
    ContractOf <- OneMutation
    Catalogued = {mutate}
    Releases = {}
    RestoreOnSuccess = {}
    HoldOnMiss = {}
    LiveExecutor = TRUE
    HasReversal = TRUE
    MaxDeliver = 2
    MaxFaults = 1
    MaxDecisions = 1

SPECIFICATION Spec

INVARIANTS
    OneActionPerGrant

CHECK_DEADLOCK FALSE
