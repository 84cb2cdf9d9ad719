SPECIFICATION Spec
CONSTANTS
    Users = {u1}
    SessionIds = {s1, s2, s3}
    TokenIds = {t1}
    Requests = {r1, r2}
    None = none
    SessionLife = 1
    TokenLife = 1
    RecoveryWindow = 1
    Retention = 1
    MaxTime = 2
    MaxRequests = 5
SYMMETRY IdSymmetry
CHECK_DEADLOCK FALSE
INVARIANTS IdInv TokenConsumedOnce
PROPERTIES OwnDeviceEnds EndIsFinal
