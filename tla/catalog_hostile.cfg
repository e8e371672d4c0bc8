CONSTANTS
    w1 = w1
    w2 = w2
    a = a
    b = b
    c = c
    Products = {a, b}
    Workers = {w1, w2}
    MaxRuns = 2
    MaxChanges = 1
    PageLimit = 1
    InitialSource <- OneRow
    Env = {"withdraw", "bootstrap", "crash", "storeError", "ackLoss", "lockLoss", "slowPrune"}
SYMMETRY Alike
SPECIFICATION Spec
INVARIANT ActiveWholeOrShort
CHECK_DEADLOCK FALSE
