SPECIFICATION Spec
CONSTANTS
    c1 = c1
    c2 = c2
    c3 = c3
    s1 = s1
    s2 = s2
    s3 = s3
    Clients = {c1, c2, c3}
    Sessions = {s1,s2,s3}
    MaxPoolSize = 2
    MinPoolSize = 1
    MaxQueue = 2
    Faults = {}
    Expired = Expired
    NoSession = NoSession
INVARIANT MaxSizeKept
CHECK_DEADLOCK FALSE
