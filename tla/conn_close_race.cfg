SPECIFICATION Spec
CONSTANTS
    Requests = {r1}
    Conns = {c1}
    Openers = {o1}
    Closers = {k1}
    NoConn = NoConn
    ExtraData = FALSE
INVARIANT ClosedMeansNoSocket
CHECK_DEADLOCK FALSE
