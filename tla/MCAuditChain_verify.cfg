SPECIFICATION AuditSpec
CONSTANTS
    Writers = {w1, w2, w3}
    Ids = {1, 2, 3}
    MaxTime = 2
    Skew = 0
    NoEvent = NoEvent
SYMMETRY Interchangeable
CHECK_DEADLOCK FALSE
INVARIANTS ChainVerifies
