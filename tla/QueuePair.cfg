SPECIFICATION FairSpec
CONSTANTS
    p1 = p1  p2 = p2  g1 = g1  g2 = g2  s1 = s1
    NoThread = NoThread
    Putter = {p1}
    Getter = {g1}
    Stopper = {}
    Mode = {"forever"}
    MaxCrash = 0
    Total = 9
    HeaderSize = 3
    Message <- EveryCut
INVARIANT NeverCorrupt
PROPERTIES
    FifoSpec
    EveryCallReturns
