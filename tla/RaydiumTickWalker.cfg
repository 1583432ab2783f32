CONSTANTS
    TicksPerArray = 2
    TickSpacing = 2
    LowTick <- MCLowTick
    HighTick = 7
    MaxArrays = 3
SPECIFICATION Spec
INVARIANTS
    NextIsNearest
    LoadsAdvance
