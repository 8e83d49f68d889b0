CONSTANTS
    g1 = g1
    g2 = g2
    u1 = u1
    u2 = u2
    u3 = u3
    None = None
    Gnbs = {g1}
    Tp = {u1}
    Cp = {u3}
    GnbOf <- CycleGnb
    Retries <- CycleRetries
    MaxInFlight <- CycleInFlight
    MayLose = {g1}
SPECIFICATION MCSpec
INVARIANTS OnePlaceEach  AllDoneWhenStopped CyclesAfterLoad
PROPERTIES RunsEnd
CHECK_DEADLOCK FALSE
