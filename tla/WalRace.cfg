CONSTANTS
    SegmentLines = 2
    MaxAppends = 3
    MaxFaults = 1
SPECIFICATION Spec
INVARIANTS RecordsKept
CHECK_DEADLOCK FALSE
