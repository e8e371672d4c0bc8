CONSTANTS
    Members = {1, 2, 3}
    MaxRuns = 3
    MaxChanges = 1
    PageLimit = 1
    Limit = 1
    InitialSource <- TwoMembers
    Env = {"withdraw", "crash", "storeError"}
SPECIFICATION Spec
INVARIANTS
    MemberTypeOK
    MemberRunsExclusive
    MemberListingWhole
    QuietRunPublishes
PROPERTY MembersPublishedWhole
CHECK_DEADLOCK FALSE
