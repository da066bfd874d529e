SPECIFICATION Spec
CONSTANTS
    p1 = p1  p2 = p2  g1 = g1  g2 = g2  s1 = s1
    NoThread = NoThread
    Putter = {p1}
    Getter = {g1}
    Stopper = {s1}
    Mode = {"forever", "now", "timed"}
    MaxCrash = 1
    Total = 5
    HeaderSize = 2
    Message <- MixedMessages
CHECK_DEADLOCK FALSE
INVARIANTS
    ThreadsOK
    NoMissedWakeup
