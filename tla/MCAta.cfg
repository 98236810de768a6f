SPECIFICATION AtaSpec
CONSTANTS
    Task = {idle, d, a, b}
    Idle = idle
    TimeSlice = 1
    MaxJiffies = 1
    MaxNest = 2
    Completion = {a, b}
    NoCompletion = none
    UINT_MAX = 2
    Daemon = d
    Requester = {a, b}
    NoTask = notask
    MaxSectors = 2
SYMMETRY Symmetry
CONSTRAINT NestedInHandler
INVARIANTS
    NodeAlive RequestOnce ClearsItsOwn HandlerFindsRequest AllSectors
PROPERTIES
    SchedSpec
CHECK_DEADLOCK FALSE
