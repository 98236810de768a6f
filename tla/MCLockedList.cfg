SPECIFICATION LockedSpec
CONSTANTS
    Node = {x, y, z}
    Anchor = anchor
    Ops <- AllOps
    task1 = task1
    task2 = task2
    irq1 = irq1
    Ctx <- MCCtx
    Proc <- MCCtx
    Above <- MCAbove
    M = 4
INVARIANTS
    MutualExclusion RingWhole NoSpin
PROPERTIES
    IsDeque FifoOrder LockGranted
