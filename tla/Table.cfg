SPECIFICATION TableSpec
CONSTANTS
    c1 = c1
    c2 = c2
    c3 = c3
    s1 = s1
    s2 = s2
    s3 = s3
    a = a
    b = b
    Clients = {c1, c2, c3}
    Sessions = {s1, s2, s3}
    MaxPoolSize = 2
    MinPoolSize = 1
    MaxQueue = 1
    Faults = {}
    Expired = Expired
    NoSession = NoSession
    Databases = {a, b}
    NoDatabase = NoDatabase
    UseFails = TRUE
SYMMETRY Symmetry
INVARIANT ContextFollows
CHECK_DEADLOCK FALSE
