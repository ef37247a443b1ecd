SPECIFICATION ServerSpec
CONSTANTS
    MAX_RETAINED_JOBS = 2
    MaxJobs = 2
    MaxPages = 0
    Detection = {FALSE}
    HasOcrWriter = FALSE
    Deleters = {d1}
    Readers = {}
    Pollers = {}
PROPERTY CancelNeverHitsLaterJob
