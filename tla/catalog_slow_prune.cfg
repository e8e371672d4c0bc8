CONSTANTS
    w1 = w1
    w2 = w2
    a = a
    b = b
    c = c
    Products = {a, b, c}
    Workers = {w1}
    MaxRuns = 3
    MaxChanges = 1
    PageLimit = 1
    InitialSource <- TwoRows
    Env = {"slowPrune"}
SPECIFICATION Spec
INVARIANT ActiveSnapshotFull
CHECK_DEADLOCK FALSE
