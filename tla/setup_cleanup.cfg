SPECIFICATION LoopsSpec
CONSTANTS
    Duplex = TRUE
    ChunkUnits = 3
    MaxChunks = 2
    MaxUnits = 4
    SideSizes = {2}
    TailUnits = 1
    Hopper = 1
    Faults = {"request lost"}
    Modes = {"setup"}
    SheetCount = 1
INVARIANT SetupCleansUp
CHECK_DEADLOCK FALSE
