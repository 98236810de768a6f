SPECIFICATION SlubSpec
CONSTANTS
    Frame <- Memory
    MaxOrder = 1
    Task = {a, b}
    SlabOrder = 0
    Objects = 2
    MinPartial = 2
    LargeOrder = 1
    NoSlab = none
SYMMETRY Symmetry
INVARIANTS FreelistExact SlabNotLost KmallocFits
CHECK_DEADLOCK FALSE
