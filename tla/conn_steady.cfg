SPECIFICATION UntimedSpec
CONSTANTS
    Requests = {r1, r2}
    Conns = {c1, c2}
    Openers = {o1}
    Closers = {}
    NoConn = NoConn
    ExtraData = FALSE
INVARIANT NoLockCycle
INVARIANT SoleReader
INVARIANT WaiterWatched
INVARIANT InitTypeOfWriter
PROPERTY HealthyWriterKept
PROPERTY NobodyStuck
PROPERTY LossWakesWaiters
PROPERTY LostConnectionDropped
CHECK_DEADLOCK FALSE
