CONSTANTS
    w1 = w1
    w2 = w2
    a = a
    b = b
    c = c
    Products = {a, b}
    Workers = {w1}
    MaxRuns = 3
    MaxChanges = 2
    PageLimit = 1
    InitialSource <- TwoRows
    Env = {"withdraw", "crash", "storeError"}
SPECIFICATION FairSpec
INVARIANTS
    TypeOK
    SyncInv
    OneRunAtATime
    ActiveSnapshotFull
    PrintDescribesActive
    CatchSparesActive
PROPERTIES
    CatalogCatchesUp
    PublishesAtomically
CHECK_DEADLOCK FALSE
