SPECIFICATION Spec
CONSTANTS
    c1 = c1
    c2 = c2
    Conn = {c1, c2}
    Srv = Srv
    Lsn = Lsn
    None = None
    MaxSession = 2
    MaxSend = 1
    MaxReq = 2
    Chunks = 1
    IovMax = 2
    Env = {"burst"}
INVARIANTS
    OwnRepliesInOrder
CHECK_DEADLOCK FALSE
