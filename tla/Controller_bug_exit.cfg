\* A run launched after Shutdown read current outlives it.
CONSTANTS
    c1 = c1
    ip1 = ip1
    ip2 = ip2
    NoEntry = NoEntry
    Callers = {c1}
    Requests = {"start", "signal"}
    MaxRuns = 1
    KeptReports = 1
    IPs = {ip1, ip2}
    Bits = {24}
    GnbBits = 24
    PlanLen = 1
    Allocations = {"all"}
    Unpinned = "all"
    Timed = FALSE
    UndoFails = FALSE
SPECIFICATION Spec
INVARIANTS ExitRestoresHost
CHECK_DEADLOCK FALSE
