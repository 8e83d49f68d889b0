\* Two clients start, stop, ping and bench on a host whose addresses may clash with
\* theirs.  The instance ends when its one run is over.
CONSTANTS
    c1 = c1
    c2 = c2
    ip1 = ip1
    ip2 = ip2
    NoEntry = NoEntry
    Callers = {c1, c2}
    Requests = {"start", "stop", "ping", "bench"}
    MaxRuns = 1
    KeptReports = 1
    IPs = {ip1, ip2}
    Bits = {24, 32}
    GnbBits = 24
    PlanLen = 1
    Allocations = {"all"}
    Unpinned = "all"
    Timed = FALSE
    UndoFails = FALSE
SPECIFICATION Spec
SYMMETRY Symmetry
CHECK_DEADLOCK FALSE
INVARIANTS TypeOK OneUser  EngineHasAddresses
 
