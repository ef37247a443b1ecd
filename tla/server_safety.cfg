SPECIFICATION MCSpec
CONSTANTS
    Scenarios = {"slot", "overlap", "eviction", "status", "bytes", "delivery"}
    MAX_RETAINED_JOBS = 2
    MaxJobs = 3
    MaxPages = 3
    Detection = {TRUE, FALSE}
    HasOcrWriter = TRUE
    Deleters = {d1, d2}
    Readers = {r1, r2}
    Pollers = {p1}
INVARIANTS
    TypeOK OneJobAtATime BackendNeverContended RetentionBounded CancelWins
    OcrSeesAllBytes ExitReleasesBytes
    PagesConserved CompletedIsWhole  PagesReachOneClient
    ServerTypeOK StatusShowsOneJob
PROPERTIES TerminalIsFinal DrivesPageSource ImplementsScanner
SYMMETRY MCThreadSymmetry
