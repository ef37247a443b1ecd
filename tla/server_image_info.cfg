SPECIFICATION ServerSpec
CONSTANTS
    MAX_RETAINED_JOBS = 2
    MaxJobs = 1
    MaxPages = 1
    Detection = {FALSE}
    HasOcrWriter = FALSE
    Deleters = {}
    Readers = {r1}
    Pollers = {p1}
INVARIANT ImageInfoAnswers
