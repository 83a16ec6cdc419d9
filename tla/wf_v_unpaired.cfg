SPECIFICATION Spec
CONSTANTS
    Handlers = {h1}
    Workers = {w1}
    Operations = {"analyze", "correct", "retry"}
    MaxRetries = 1
    QueueMax = 2
    MaxTasks = 3
    MaxPlans = 2
    MaxFaults = 0
INVARIANT RevisionIsPaired
