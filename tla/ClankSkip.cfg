CONSTANTS
    f1 = f1
    f2 = f2
    Fingerprint = {f1}
    Run = {1, 2}
    NoRun = NoRun
    FpOf <- Two
    MaxDeliver = 2
    MaxFaults = 1
    MaxCases = 2
    MaxDetections = 1
    MaxAnswers = 0

SPECIFICATION FairSpec

PROPERTIES
    RecordedSetsDelivered

CHECK_DEADLOCK FALSE
