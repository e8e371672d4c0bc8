CONSTANTS
    w1 = w1
    Products = {1, 2}
    Workers = {w1}
    MaxRuns = 2
    MaxChanges = 0
    PageLimit = 1
    InitialSource <- TwoRows
    Env = {"bootstrap"}
    Limit = 1
    Barcode = 1
SPECIFICATION ReadSpec
INVARIANT TotalsAgree
CHECK_DEADLOCK FALSE
