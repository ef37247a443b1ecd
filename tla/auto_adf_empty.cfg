SPECIFICATION LoopsSpec
CONSTANTS
    Duplex = TRUE
    ChunkUnits = 3
    MaxChunks = 2
    MaxUnits = 4
    SideSizes = {2}
    TailUnits = 1
    Hopper = 3
    Faults = {"refused"}
    Modes = {"auto"}
    SheetCount = 3
INVARIANT AutoStopsAtEmptyFeeder
CHECK_DEADLOCK FALSE
