SPECIFICATION Spec
CONSTANTS
    l1 = l1
    Listener = {l1}
    Fd <- TwoSockets
    MaxConns <- OneOnly
    CounterMod = 4
    PoolSize = 1
    MaxEvents = 2
    ReadSize <- OneOrTwo
    WriteSize <- Two
    MaxMade = 2
    MaxSent = 2
    MaxCalls = 3
    MaxReset = 0
INVARIANT LoopSurvives
