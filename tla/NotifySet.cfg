SPECIFICATION FairSpec
CONSTANTS
    p1 = p1  p2 = p2  i1 = i1  s1 = s1
    NoThread = NoThread
    Popper = {p1, p2}
    Inserter = {i1}
    Stopper = {s1}
    Element = {1, 2}
    Garbage <- AnyMemory
    MaxInsert = 2
    MaxWait = 3
INVARIANTS
    SetOK
    WaitersCounted
PROPERTY NobodySleepsBeside
