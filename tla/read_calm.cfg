CONSTANTS
    w1 = w1
    Products = {1, 2, 3}
    Workers = {w1}
    MaxRuns = 3
    MaxChanges = 2
    PageLimit = 1
    InitialSource <- TwoRows
    Env = {}
    Limit = 1
    Barcode = 3
SPECIFICATION FairReadSpec
INVARIANTS
    ReadTypeOK
    ListingWhole
    TotalsAgree
    ScanNotOlder
    ScanTrue
    PublishedHoldsSteadyRows
    PreviousSnapshotKept
    SnapshotsBounded
    StatusTruthful
PROPERTY ListingEnds
CHECK_DEADLOCK FALSE
