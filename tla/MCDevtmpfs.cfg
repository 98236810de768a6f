SPECIFICATION DevtmpfsSpec
CONSTANTS
    Task = {idle, d, a, b, s}
    Idle = idle
    TimeSlice = 1
    MaxJiffies = 1
    MaxNest = 1
    Completion = {a, b, setup, r1, r2}
    NoCompletion = none
    UINT_MAX = 2
    Kthreadd = d
    Creator = {a, b}
    Child = {s}
    None = none
    Error = error
    Init = a
    Submitter = {a, b}
    setup_done = setup
    Req = {r1, r2}
CONSTRAINT CreationFirst
SYMMETRY Symmetry
INVARIANTS
    RequestInOnePlace CreateAlive ResultReady StoppedUntilWoken
    NodeRequestInOnePlace NoRequestStranded
CHECK_DEADLOCK FALSE
