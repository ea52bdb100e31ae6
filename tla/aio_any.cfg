SPECIFICATION AioSpec
CONSTANTS
    Requests = {r1, r2}
    Conns = {c1}
    Openers = {o1}
    Closers = {k1}
    NoConn = NoConn
    ExtraData = TRUE
    MayCancel = TRUE
SYMMETRY Symmetry
INVARIANT AioTypeOK
INVARIANT AioWakeToken
PROPERTY AioRRSpec
CHECK_DEADLOCK FALSE
