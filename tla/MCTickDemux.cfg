CONSTANTS
    poolClock = poolClock
    leaderClock = leaderClock
    viewChangerClock = viewChangerClock
    Consumers <- MCConsumers
    VC = viewChangerClock
    MaxTicks = 3
SPECIFICATION FairSpec
INVARIANT TypeOK
PROPERTIES
    TickFanoutRefined
    StopReturns
CHECK_DEADLOCK FALSE
