SPECIFICATION BackendSpec
CONSTANTS
    Duplex = FALSE
    ChunkUnits = 3
    MaxChunks = 2
    MaxUnits = 4
    SideSizes = {2}
    TailUnits = 1
    Hopper = 1
    Faults = {}
    MaxSheets = 1
    Cancelers = {c1}
    Probers = {p1}
INVARIANT SingleActiveCommand
