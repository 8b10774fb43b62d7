SPECIFICATION FairSpec
CONSTANTS
    c1 = c1
    c2 = c2
    Conn = {c1, c2}
    Srv = Srv
    Lsn = Lsn
    None = None
    MaxSession = 2
    MaxSend = 1
    MaxReq = 2
    Chunks = 2
    IovMax = 2
    Env = {"fin"}
PROPERTIES
    ResponseDelivered
    RequestWritten
    ConnectionAccepted
    LoneRequestAnswered
CHECK_DEADLOCK FALSE
