SPECIFICATION FairSpec
CONSTANTS
    Handlers = {h1}
    Workers = {w1}
    Operations = {"analyze", "correct", "approve", "reject", "retry", "apply"}
    MaxRetries = 2
    QueueMax = 2
    MaxTasks = 2
    MaxPlans = 2
    MaxFaults = 1
INVARIANTS
    NoStuckSession
    NoLostTask
    RowsMatchStream
PROPERTIES
    TaskSettles
    SessionSettles
