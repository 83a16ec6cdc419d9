SPECIFICATION Spec
CONSTANTS
    Handlers = {h1, h2}
    Workers = {w1}
    MaxRetries = 1
    QueueMax = 2
    MaxTasks = 3
    MaxPlans = 2
    MaxFaults = 0
    Operations = {"analyze", "correct", "approve", "reject", "retry", "apply"}
SYMMETRY Symmetry
INVARIANTS
    TypeOK
    PlanReady
    CodeReady
PROPERTY CompletedIsFinal
