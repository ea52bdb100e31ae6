SPECIFICATION AioSpec
CONSTANTS
    Requests = {r1}
    Conns = {c1}
    Openers = {o1}
    Closers = {}
    NoConn = NoConn
    ExtraData = FALSE
    MayCancel = TRUE
INVARIANT FramesWhole
CHECK_DEADLOCK FALSE
