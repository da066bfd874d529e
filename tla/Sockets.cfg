SPECIFICATION FairSpec
CONSTANTS
    Sum = 2
    Talking = {1}
    Total = 2
    Capacity = 1
    SegSize = {0, 1}
    MaxFd = 2
    MaxOther = 2
CHECK_DEADLOCK FALSE
INVARIANTS
    SocketsOK
    StreamInOrder
PROPERTIES
    NobodyKeptWaiting
    CallsEnd
