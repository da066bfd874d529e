SPECIFICATION IpcSpec
CONSTANTS
    c1 = c1  c2 = c2  u1 = u1  u2 = u2  a = a  b = b  f = f  g = g
    NoProcess = NoProcess
    Creator = {c1, c2}
    User = {u1}
    Size = {1, 2}
    MinSize = 1
    MaxObject = 2
    MaxKill = 1
    Peer = {a, b}
    Urgency = {1, 2}
    MaxMsg = 2
    MaxSent = 2
    MaxQueue = 2
    File = {f, g}
    SumSmall = 4
    SumMax = 5
    Padding = 1
    Header = 2
    MaxArray = 6
    MaxOpen = 5
    MaxPassed = 2
    Sharer = {a, b}
    Bytes = {1, 2}
    MaxSegment = 2
    MaxClosed = 3
CHECK_DEADLOCK FALSE
INVARIANTS
    ShmOK
    MemoryThere
    QueuesOK
    PipeOK
    SegmentsOK
    FileHoldsMapping
PROPERTIES
    TakesTheFirst
    EndsWithItsQueue
