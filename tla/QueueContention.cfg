SPECIFICATION Spec
CONSTANTS
    p1 = p1  p2 = p2  g1 = g1  g2 = g2  s1 = s1
    NoThread = NoThread
    Putter = {p1, p2}
    Getter = {g1, g2}
    Stopper = {}
    Mode = {"forever"}
    MaxCrash = 0
    Total = 12
    HeaderSize = 2
    Message <- TwoMessages
SYMMETRY Symmetry
INVARIANT NeverAllAsleep
PROPERTY RingContract
