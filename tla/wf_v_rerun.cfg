SPECIFICATION Spec
CONSTANTS
    Handlers = {h1, h2}
    Workers = {w1}
    Operations = {"analyze", "retry"}
    MaxRetries = 2
    QueueMax = 2
    MaxTasks = 2
    MaxPlans = 1
    MaxFaults = 0
INVARIANT DeadLetterCanBeRerun
