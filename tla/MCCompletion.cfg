SPECIFICATION CompletionSpec
CONSTANTS
    Task = {idle, a, b, c}
    Idle = idle
    TimeSlice = 1
    MaxJiffies = 1
    MaxNest = 1
    Completion = {x}
    NoCompletion = none
    UINT_MAX = 2
SYMMETRY Symmetry
INVARIANTS
    ListHoldsWaiters UnlinkedAwake CompletionsHaveTakers
PROPERTIES
    SchedSpec
