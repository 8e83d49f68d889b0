CONSTANTS
    c1 = c1
    c2 = c2
    ip1 = ip1
    NoEntry = NoEntry
    Callers = {c1, c2}
    Requests = {"start", "stop", "ping", "signal"}
    MaxRuns = 1
    KeptReports = 1
    IPs = {ip1}
    Bits = {24}
    GnbBits = 24
    PlanLen = 0
    Allocations = {"all"}
    Unpinned = "all"
    Timed = TRUE
    UndoFails = TRUE
SPECIFICATION MCSpec
INVARIANTS StopReasonGiven ReportsKept CpusGivenBack
PROPERTIES StopsEnd RequestsReturn
CHECK_DEADLOCK FALSE
