SPECIFICATION ProcessSpec
CONSTANTS
    Task = {idle, i, k, a, b, c}
    Idle = idle
    Initd = i
    Kthreadd = k
    Files = {f1, f2, f3, f4}
    Fs = {g1, g2, g3}
    NULL = null
    IDR_SIZE = 5
    RESERVED_PIDS = 3
SYMMETRY Symmetry
INVARIANTS
    FilesCounted FsCounted
CHECK_DEADLOCK FALSE
