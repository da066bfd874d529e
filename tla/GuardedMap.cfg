SPECIFICATION FairSpec
CONSTANTS
    t1 = t1  t2 = t2  t3 = t3
    NoThread = NoThread
    Thread = {t1, t2}
    Key = {1, 2}
    MaxObject = 2
PROPERTIES
    ActsAtomically
    CallsReturn
