SPECIFICATION FairSpec
CONSTANTS
    c1 = c1
    c2 = c2
    c3 = c3
    s1 = s1
    s2 = s2
    s3 = s3
    Clients = {c1,c2,c3}
    Sessions = {s1,s2,s3}
    MaxPoolSize = 2
    MinPoolSize = 2
    MaxQueue = 2
    Faults = {"timeout", "close"}
    Expired = Expired
    NoSession = NoSession
INVARIANT Exclusive
INVARIANT ActiveExact
PROPERTY EveryCallSettles
CHECK_DEADLOCK FALSE
