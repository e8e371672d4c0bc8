CONSTANTS
    r1 = r1
    r2 = r2
    b1 = b1
    Requests = {r1, r2}
    Worker = Worker
    MaxSessions = 2
    Asked = {1}
    Bodies = {b1}
SYMMETRY Alike
SPECIFICATION Spec
INVARIANTS
    PosTypeOK
    ClosedTruthful
PROPERTIES
    PassMakesCurrent
    ReplayAnswered
CHECK_DEADLOCK FALSE
