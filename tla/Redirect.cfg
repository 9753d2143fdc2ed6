SPECIFICATION RedirectSpec
CONSTANTS
    c1 = c1
    c2 = c2
    s1 = s1
    s2 = s2
    s3 = s3
    e1 = e1
    e2 = e2
    d1 = d1
    d2 = d2
    Clients = {c1, c2}
    Sessions = {s1, s2, s3}
    MaxPoolSize = 1
    MinPoolSize = 1
    MaxQueue = 1
    MaxIdle = 2
    MaxDetours = 1
    Faults = {"timeout", "loss", "cleanup", "close"}
    Expired = Expired
    NoSession = NoSession
    Devices = {d1, d2}
    Endpoints = {e1, e2}
    NodeUrls <- OneNode
    NoEndpoint = NoEndpoint
    NoDevice = NoDevice
    EmptyDevice = EmptyDevice
    CacheSize = 1
SYMMETRY Symmetry
INVARIANT RedirectTypeOK
INVARIANT OwnAdvice
INVARIANT RedirectPooled
INVARIANT SharingConfined
CHECK_DEADLOCK FALSE
