SPECIFICATION FairSpec
CONSTANTS
    Jobs = {j1, j2}
    Requests = {r1}
    Workers = {w1, w2}
    MaxLength = 2
    MaxRetries = 2
    MaxFaults = 1
PROPERTY DeliveryDelivered
CHECK_DEADLOCK FALSE
