SPECIFICATION Spec
CONSTANTS
    NServer = 3
    RANDOM_CONTINUUM_ADDITION = 4
    server_failure_limit = 2
    server_retry_timeout = 1
    MaxTime = 2
INVARIANTS
    LiveServersHaveSlots
    InUntilFailure
    RebuildInTime
    SlotsSuffice
CHECK_DEADLOCK FALSE
