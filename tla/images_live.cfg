CONSTANTS
    c1 = c1
    c2 = c2
    Order <- TwoConfigs
    Products = {1}
    Eager = 1
    MaxChanges = 0
    MaxFaults = 1
    MaxQueue = 1
    Env = {}
SPECIFICATION FairSpec
INVARIANT
    CompleteStoredAll
PROPERTIES
    ImagesCatchUp
CHECK_DEADLOCK FALSE
