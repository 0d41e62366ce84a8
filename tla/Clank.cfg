CONSTANTS
    f1 = f1
    f2 = f2
    Fingerprint = {f1, f2}
    Run = {1, 2, 3, 4, 5, 6}
    NoRun = NoRun
    FpOf <- Alternating
    MaxDeliver = 2
    MaxFaults = 1
    MaxCases = 2
    MaxDetections = 2
    MaxAnswers = 1

SPECIFICATION FairSpec

INVARIANTS
    TypeOK
    UnansweredStaysOpen


    

CHECK_DEADLOCK FALSE
