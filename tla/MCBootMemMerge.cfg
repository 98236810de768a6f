SPECIFICATION BootSpec
CONSTANTS
    PhysMax = 32
    PageSize = 2
    MaxRegions = 9
    Reserves <- Apart
    E820 <- Maps
    Allocs <- Early
    MaxAllocs = 2
    MaxPfn = 8
    MaxOrder = 2
    NrZones = 5
    ZoneEnd <- TwoZones
    Requests <- Mixed
    MaxHeld = 4
INVARIANTS
    RegionsMinimal
CHECK_DEADLOCK FALSE
