CONSTANTS
    poolClock = poolClock
    leaderClock = leaderClock
    viewChangerClock = viewChangerClock
    Consumers <- MCConsumers
    VC = viewChangerClock
    MaxTicks = 3
SPECIFICATION FairSpecVCMayBlock
PROPERTY StopReturns
CHECK_DEADLOCK FALSE
