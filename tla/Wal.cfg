CONSTANTS
    SegmentLines = 2
    MaxAppends = 3
    MaxFaults = 2
SPECIFICATION FairSpec
INVARIANTS TypeOK SealedKept KeptUnlessRaced
PROPERTIES SegmentsShip
CHECK_DEADLOCK FALSE
