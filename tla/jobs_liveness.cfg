SPECIFICATION FairMCSpec
CONSTANTS
    Scenarios = {"overlap", "delivery"}
    MAX_RETAINED_JOBS = 1
    MaxJobs = 2
    MaxPages = 2
    Detection = {TRUE, FALSE}
    HasOcrWriter = TRUE
    Deleters = {d1}
    Readers = {}
    Pollers = {}
PROPERTIES EveryJobEnds DeletedBytesReleased
