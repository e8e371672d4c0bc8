CONSTANTS
    c1 = c1
    c2 = c2
    Order <- TwoConfigs
    Products = {1}
    Eager = 1
    MaxChanges = 1
    MaxFaults = 0
    MaxQueue = 1
    Env = {"html"}
SPECIFICATION Spec
INVARIANTS
    ImagesTypeOK
    NoStaleImage
    TotalDescribesActive
CHECK_DEADLOCK FALSE
