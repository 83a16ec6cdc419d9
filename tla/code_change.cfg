\* An issue from its files to its pull request.
CONSTANTS
    Files <- MCFiles
    Vendored <- MCVendored
    Initial <- MCInitial
    MaxHead = 2
    MaxFaults = 1
    Assets <- MCAssets
    Binary <- MCBinary
    Large <- MCLarge
    Yamls <- MCYamls
    Remains <- MCRemains
    Workers = {w1, w2}
    FileLimit = 2
    TreeLimit = 6
    Text <- MCText
    MaxOperations = 2
    MaxFiles = 3
    MaxChars = 200
    Requests = {r1, r2}
    Apis = {"commits", "contents"}
    Replies <- MCReplies
    Rest <- MCRest
SPECIFICATION Spec
SYMMETRY Symmetry
INVARIANTS
    TypeOK
    ReadIsComplete
    ErrorIsFirst
    
    AppliedIsReal
    
PROPERTY PullRequestSafe
