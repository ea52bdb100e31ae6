SPECIFICATION AioFairSpec
CONSTANTS
    Requests = {r1, r2}
    Conns = {c1, c2}
    Openers = {o1}
    Closers = {}
    NoConn = NoConn
    ExtraData = FALSE
    MayCancel = TRUE
INVARIANT NoLockCycle
PROPERTY AioCallReturns
PROPERTY LostConnectionDropped
CHECK_DEADLOCK FALSE
