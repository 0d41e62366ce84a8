CONSTANTS
    Fingerprint = {f1}
    r1 = r1
    r2 = r2
    Run = {r1, r2}
    NoRun = NoRun
    MaxDeliver = 2
    MaxFaults = 1
    MaxApprovals = 1
    Judgement <- HoldAndReject
SPECIFICATION FairSpec
INVARIANTS TypeOK GrantsEarned
PROPERTIES ProposalsAnswered 
CHECK_DEADLOCK FALSE
