SPECIFICATION AioFairSpec
CONSTANTS
    N = 2
    Requests = {r1, r2}
    Budget <- MixedBudget
    ConnectTimeout = 1
    ConnectError = "CommandTimeout"
    MaxTime = 8
    MaxHeld = 0
    Environments = {{"elect"}, {"open"}}
CONSTRAINT NoOrphans
INVARIANTS
    AioExecutedAsReported
    QueueAccounted
PROPERTY AioLeaderAccepts
CHECK_DEADLOCK FALSE
