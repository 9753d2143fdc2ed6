SPECIFICATION Spec
CONSTANTS
    c1 = c1
    c2 = c2
    s1 = s1
    s2 = s2
    Clients = {c1,c2}
    Sessions = {s1,s2}
    MaxPoolSize = 2
    MinPoolSize = 1
    MaxQueue = 2
    Faults = {}
    Expired = Expired
    NoSession = NoSession
INVARIANT Exclusive
CHECK_DEADLOCK FALSE
