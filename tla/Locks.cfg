SPECIFICATION FairSpec
CONSTANTS
    u1 = u1  u2 = u2  u3 = u3
    User = {u1, u2, u3}
    MaxSignal = 1
    MaxKill = 1
    MaxUnlink = 1
CHECK_DEADLOCK FALSE
INVARIANTS
    LocksOK
    MutualExclusion
PROPERTY LockReturns
