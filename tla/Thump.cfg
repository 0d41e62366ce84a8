CONSTANTS
    Fingerprint = {fp1}
    r1 = r1
    r2 = r2
    r3 = r3
    mutate = mutate
    release = release
    retired = retired
    Run = {r1, r2, r3}
    NoRun = NoRun
    Contract = {mutate, release, retired}
    ContractOf <- OneOfEach
    Catalogued = {mutate, release}
    Releases = {release}
    RestoreOnSuccess = {release}
    HoldOnMiss = {}
    LiveExecutor = TRUE
    HasReversal = TRUE
    MaxDeliver = 2
    MaxFaults = 2
    MaxDecisions = 1

SPECIFICATION FairSpec

INVARIANTS
    TypeOK
    DisarmStops
    ActsOnlyOnGrants
    ActsOncePerDelivery

PROPERTIES
    ActionsReported

CHECK_DEADLOCK FALSE
