SPECIFICATION SumSpec
CONSTANTS
    c1 = c1
    c2 = c2
    MaxOpens = 3
    Closers = {c1, c2}
    Readers = {c1, c2}
    Owner = owner
    Rows = 3
    Fetch = 2
    MaxRows = 2
    Sessions = {s1, s2}
    Pools = {p1}
    Directly = directly
    Events = {sigint, uncaught, beforeExit}
    BeforeExit = beforeExit
    Unlimited = FALSE
    Day = 4
    MaxInt32 = 3
    PoolFrom = 16
    SizeClasses = {16, 64}
    Null = Null
    Undefined = Undefined
    Infinite = Infinite
    TabletRequests <- SomeTablets
    BlockResults <- SomeBlocks
    DataSets <- SomeTables
    Mappings <- SomeMappings
INVARIANT TypeOK
INVARIANT OpenMeansUp
INVARIANT SocketOwned
INVARIANT RpcExact
INVARIANT RowsInOrder
INVARIANT SessionBackOnce
INVARIANT CleanupOnce
INVARIANT RoundTrip
INVARIANT CodecSound
PROPERTY LostIsLost
PROPERTY Settles
CHECK_DEADLOCK FALSE
