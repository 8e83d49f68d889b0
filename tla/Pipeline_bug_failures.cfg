\* A UE without a PDU session cannot deregister either.
CONSTANTS
    g1 = g1
    g2 = g2
    u1 = u1
    u2 = u2
    u3 = u3
    None = None
    Gnbs = {g1}
    Tp = {u1}
    Cp = {}
    GnbOf <- CycleGnb
    Retries <- CycleRetries
    MaxInFlight <- CycleInFlight
    MayLose = {}
SPECIFICATION CyclesSpec
INVARIANTS FailureListMatches
CHECK_DEADLOCK FALSE
