SPECIFICATION SchedSpec
CONSTANTS
    Task = {idle, a, b, c}
    Idle = idle
    TimeSlice = 2
    MaxJiffies = 3
    MaxNest = 1
SYMMETRY Symmetry
INVARIANTS
    QueueExclusive RunnableIffQueued IdleAvailable DeadStaysOff PreemptBalanced
PROPERTIES
    SleeperLeaves
