SPECIFICATION FairBackendSpec
CONSTANTS
    Duplex = TRUE
    ChunkUnits = 3
    MaxChunks = 2
    MaxUnits = 4
    SideSizes = {2, 3}
    TailUnits = 1
    Hopper = 2
    Faults = {"refused", "request lost", "reply lost", "reply cut", "save fails",
              "crash"}
    MaxSheets = 2
    Cancelers = {c1}
    Probers = {p1}
INVARIANTS BackendTypeOK StreamWithinLimit DebtSettled NextCaptureRecovers
PROPERTIES ImplementsPageSource BackendEnds
