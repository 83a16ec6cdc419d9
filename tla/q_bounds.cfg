SPECIFICATION Spec
CONSTANTS
    Jobs = {j1, j2, j3}
    Requests = {r1, r2}
    Workers = {w1, w2}
    MaxLength = 2
    MaxRetries = 2
    MaxFaults = 1
INVARIANTS
    TypeOK
    LengthBound
    LeakBound
    AckIsEarned
PROPERTY DeliverySafe
SYMMETRY Symmetry
CHECK_DEADLOCK FALSE
