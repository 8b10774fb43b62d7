SPECIFICATION FairSpec
CONSTANTS
    Pools <- MCPools
    Rlimit = {1, 4}
    RESERVED_FDS = 2
    UintMod = 16
INVARIANT
    ServesWhole
PROPERTY
    StartupEnds
CHECK_DEADLOCK FALSE
