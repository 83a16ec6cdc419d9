SPECIFICATION FairSpec
CONSTANTS
    Callers = {c1}
    MaxJobs = 3
    MaxHead = 2
    MaxConfig = 1
    MaxFaults = 1
INVARIANTS
    TypeOK
    SingleFlight
    NoLostWakeup
    IndexNeverOlder
    ReadyIsFresh
PROPERTY WaitEnds
