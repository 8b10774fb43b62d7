SPECIFICATION FairSpec
CONSTANTS
    c1 = c1
    Conn = {c1}
    Srv = Srv
    Lsn = Lsn
    None = None
    MaxSession = 1
    MaxSend = 2
    MaxReq = 2
    Chunks = 1
    IovMax = 2
    Env = {"fill"}
PROPERTIES
    ResponseDelivered
CHECK_DEADLOCK FALSE
