\* Registrations, deliveries, and the reports pushes make.
CONSTANTS
    Admins = {a1, a2}
    Receivers = {r1, r2}
    MaxHead = 2
    Config <- MCConfig
    Findings <- MCFindings
    Named = {"push", "issue"}
    Window = 1
    MaxSecrets = 2
    MaxDisables = 1
    MaxSent = 1
    MaxEvents = 2
    MaxIncidents = 1
SPECIFICATION FairSpec
CHECK_DEADLOCK FALSE
INVARIANTS
    TypeOK
    ProcessedOnce
    StatusIsTrue
    ActiveSecretIsNewest
    RunHasEachFinding
PROPERTY EventSettles
