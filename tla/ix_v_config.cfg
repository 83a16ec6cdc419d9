SPECIFICATION Spec
CONSTANTS
    Callers = {c1}
    MaxJobs = 2
    MaxHead = 1
    MaxConfig = 1
    MaxFaults = 0
INVARIANT ConfigIsIndexed
