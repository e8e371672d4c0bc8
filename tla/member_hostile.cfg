CONSTANTS
    Members = {1, 2, 3}
    MaxRuns = 2
    MaxChanges = 1
    PageLimit = 1
    Limit = 1
    InitialSource <- TwoMembers
    Env = {"withdraw", "crash", "storeError", "ackLoss", "slowPrune"}
SPECIFICATION Spec
INVARIANTS
    TiersFitMembers
    MemberListingNoRepeats
CHECK_DEADLOCK FALSE
