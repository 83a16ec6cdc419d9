\* Sessions and connections of two accounts.
CONSTANTS
    a1 = a1
    a2 = a2
    t1 = t1
    t2 = t2
    x1 = x1
    r1 = r1
    r2 = r2
    Accounts = {a1, a2}
    Tokens = {t1, t2}
    Owner <- MCOwner
    Repos = {r1, r2}
    Addresses = {x1}
    Located <- MCLocated
    Requests = {q1, q2}
    None = None
    MaxArrivals = 3
    MaxSessions = 2
    MaxRows = 2
    MaxKey = 2
SPECIFICATION Spec
SYMMETRY Symmetry
CHECK_DEADLOCK FALSE
INVARIANTS
    TypeOK
    StoredTokenIsOwn
    ClientIsAuthorized
PROPERTIES
    RowKeepsRepository
    UseNeverRevives
