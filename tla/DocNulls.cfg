SPECIFICATION CodecSpec
CONSTANTS
    Day = 4
    MaxInt32 = 3
    PoolFrom = 16
    SizeClasses = {16, 64}
    Null = Null
    Undefined = Undefined
    Infinite = Infinite
    TabletRequests <- SomeTablets
    BlockResults <- SomeBlocks
    DataSets <- SomeTables
    Mappings <- SomeMappings
INVARIANT NullsKept
CHECK_DEADLOCK FALSE
