SPECIFICATION Spec
CONSTANTS
    Requests = {r1, r2}
    Conns = {c1, c2}
    Openers = {o1}
    Closers = {k1}
    NoConn = NoConn
    ExtraData = TRUE
SYMMETRY Symmetry
INVARIANT TypeOK
INVARIANT WakeToken
INVARIANT WireInv
PROPERTY RRSpec
CHECK_DEADLOCK FALSE
