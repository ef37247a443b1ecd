SPECIFICATION FairLoopsSpec
CONSTANTS
    Duplex = TRUE
    ChunkUnits = 3
    MaxChunks = 2
    MaxUnits = 4
    SideSizes = {2, 3}
    TailUnits = 1
    Hopper = 2
    Faults = {"refused", "request lost", "reply lost", "reply cut", "save fails"}
    Modes = {"sheet", "batch", "auto", "setup"}
    SheetCount = 3
INVARIANTS LoopsTypeOK PdfInOrder BatchAllOrNothing SheetsSettle
PROPERTY ToolEnds
CHECK_DEADLOCK FALSE
