SPECIFICATION Spec
CONSTANTS
    N = 4
    Concurrency = 2
    BatchSize = 4
INVARIANT SuccessCountExact
CHECK_DEADLOCK FALSE
