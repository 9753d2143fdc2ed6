SPECIFICATION Spec
CONSTANTS
    c1 = c1
    c2 = c2
    c3 = c3
    s1 = s1
    s2 = s2
    s3 = s3
    s4 = s4
    Clients = {c1,c2,c3}
    Sessions = {s1,s2,s3,s4}
    MaxPoolSize = 2
    MinPoolSize = 1
    MaxQueue = 2
    Faults = {"timeout", "loss", "cleanup", "close"}
    Expired = Expired
    NoSession = NoSession
SYMMETRY Symmetry
INVARIANT TypeOK
INVARIANT CapacityBound
INVARIANT WaitersWait
INVARIANT OpenIsPooled
INVARIANT NoLostWakeup
INVARIANT PermitsConserved
PROPERTY NoBarging
PROPERTY ImplementsAllocator
CHECK_DEADLOCK FALSE
