CONSTANTS
    r1 = r1
    r2 = r2
    Requests = {r1, r2}
    MaxDevices = 2
    MaxTokens = 3
SYMMETRY Alike
SPECIFICATION Spec
INVARIANTS
    AuthTypeOK
    NothingAfterLogout
    ReuseRefused
    RevokedForAReason
PROPERTIES
    LoggedOutIsFinal
CHECK_DEADLOCK FALSE
