SPECIFICATION FairSpec
CONSTANTS
    g1 = g1  g2 = g2  p1 = p1  s1 = s1  a = a  b = b
    NoThread = NoThread
    Getter = {g1, g2}
    Putter = {p1}
    Stopper = {s1}
    Element = {a, b}
    FastFind = TRUE
    MaxPut = 3
    MaxWait = 3
INVARIANTS
    SleepersCounted
    FrontExists
    InOrder
    FindSound
PROPERTY EveryElementTaken
