CONSTANTS
    r1 = r1
    r2 = r2
    Requests <- MCRequests
    N = 2
    Self = 0
    PoolSize = 2
    BatchSize = 2
    StartView = 0
    StartSeq = 1
    MaxView = 2
    MaxSeq = 3
SPECIFICATION Spec
INVARIANT
    NoWaitOnDecidingView
CHECK_DEADLOCK FALSE
