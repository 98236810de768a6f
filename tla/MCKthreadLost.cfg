SPECIFICATION FairKthreadSpec
CONSTANTS
    Task = {idle, d, a, b, t}
    Idle = idle
    TimeSlice = 1
    MaxJiffies = 1
    MaxNest = 1
    Completion = {a, b}
    NoCompletion = none
    UINT_MAX = 2
    Kthreadd = d
    Creator = {a, b}
    Child = {t}
    None = none
    Error = error
PROPERTIES
    CreatorReturns
