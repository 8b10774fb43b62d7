SPECIFICATION Spec
CONSTANTS
    c1 = c1
    c2 = c2
    Conn = {c1, c2}
    Srv = Srv
    Lsn = Lsn
    None = None
    MaxSession = 2
    MaxSend = 2
    MaxReq = 3
    Chunks = 2
    IovMax = 2
    Env = {"fin"}
INVARIANTS
    OwnRepliesInOrder
    NoIdleHalfClosed
    FreedOnce
SYMMETRY ConnSymmetry
CHECK_DEADLOCK FALSE
