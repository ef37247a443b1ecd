SPECIFICATION LoopsSpec
CONSTANTS
    Duplex = TRUE
    ChunkUnits = 3
    MaxChunks = 2
    MaxUnits = 4
    SideSizes = {2}
    TailUnits = 1
    Hopper = 1
    Faults = {"reply lost", "reply cut", "save fails"}
    Modes = {"sheet"}
    SheetCount = 1
INVARIANT ReleaseAlwaysAttempted
CHECK_DEADLOCK FALSE
