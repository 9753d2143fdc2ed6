SPECIFICATION SumSpec
CONSTANTS
    N = 7
    Concurrency = 3
    BatchSize = 5
    Calls = {1, 2, 3}
    ItemCount <- ItemCounts
    Width <- Widths
    Permits = 2
    GaveUp = GaveUp
    Tasks = {t1, t2, t3, t4}
    Limit = 2
    Clients = {c1, c2, c3}
    Sessions = {s1, s2, s3, s4}
    MaxPoolSize = 2
    MinPoolSize = 1
    MaxQueue = 3
    Faults = {}
    Expired = Expired
    NoSession = NoSession
    Devices = {d1, d2, d3, d4}
    Endpoints = {e1, e2}
    NoEndpoint = NoEndpoint
    EmptyDevice = EmptyDevice
    CacheSize = 3
INVARIANT TypeOK
INVARIANT EachItemOnce
INVARIANT BatchOrder
INVARIANT FullReport
INVARIANT SessionsBack
INVARIANT ItemsOnce
INVARIANT SemaphoreExact
INVARIANT CacheSound
PROPERTY StopsStarting
PROPERTY ExecutorReturns
PROPERTY ParallelCallsEnd
PROPERTY Admitted
PROPERTY WaiterServed
CHECK_DEADLOCK FALSE
