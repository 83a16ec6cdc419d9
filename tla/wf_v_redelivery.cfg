SPECIFICATION Spec
CONSTANTS
    Handlers = {h1}
    Workers = {w1}
    Operations = {"analyze"}
    MaxRetries = 1
    QueueMax = 2
    MaxTasks = 1
    MaxPlans = 2
    MaxFaults = 1
PROPERTY RedeliveryIsIdempotent
