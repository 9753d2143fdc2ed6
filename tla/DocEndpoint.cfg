SPECIFICATION RedirectSpec
CONSTANTS
    c1 = c1
    s1 = s1
    s2 = s2
    e1 = e1
    e2 = e2
    d1 = d1
    Clients = {c1}
    Sessions = {s1, s2}
    MaxPoolSize = 1
    MinPoolSize = 1
    MaxQueue = 1
    MaxIdle = 3
    MaxDetours = 0
    Faults = {}
    Expired = Expired
    NoSession = NoSession
    Devices = {d1}
    Endpoints = {e1, e2}
    NodeUrls <- Nodes
    NoEndpoint = NoEndpoint
    NoDevice = NoDevice
    EmptyDevice = EmptyDevice
    CacheSize = 1
INVARIANT EndpointHonoured
CHECK_DEADLOCK FALSE
