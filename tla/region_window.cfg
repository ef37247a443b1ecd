SPECIFICATION RequestEdgesSpec
CONSTANTS
    Jobs = {j1, j2}
    Invocations <- MCInvocations
    Requests <- MCRequests
    Number <- MCNumber
    Lengths <- MCLengths
    Bodies <- MCBodies
    Paddings <- MCPaddings
    Chunks = {1, 3}
    CandidateLists <- MCCandidateLists
    Scanners = {1, 2}
    Malformed = {4}
    Workers = 2
INVARIANT RegionIsWindow
CHECK_DEADLOCK FALSE
