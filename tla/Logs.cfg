SPECIFICATION LogsSpec
CONSTANTS
    PoolSize = 2
    MaxLine = 2
    MaxCached = 3
    MaxLoop = 2
    Level = {1, 2}
CHECK_DEADLOCK FALSE
INVARIANTS
    LogsOK
    LinesWhole
    JoinSeesAll
