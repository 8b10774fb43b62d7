SPECIFICATION Spec
CONSTANTS
    c1 = c1
    Conn = {c1}
    Srv = Srv
    Lsn = Lsn
    None = None
    MaxSession = 1
    MaxSend = 2
    MaxReq = 2
    Chunks = 1
    IovMax = 2
    Env = {"burst", "fill", "srvfin", "srvreset", "stray", "acceptfail"}
INVARIANTS
    ServerOutputArmed
CHECK_DEADLOCK FALSE
