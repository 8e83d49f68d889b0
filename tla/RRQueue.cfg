\* Three gNBs, one with two UEs; two pushers and the dispatcher.
CONSTANTS
    g1 = g1
    g2 = g2
    g3 = g3
    u1 = u1
    u2 = u2
    u3 = u3
    u4 = u4
    u5 = u5
    p1 = p1
    p2 = p2
    Gnbs = {g1, g2, g3}
    Ues = {u1, u2, u3, u5}
    GnbOf <- Spread
    Pushers = {p1, p2}
    Reclaim = 2
SPECIFICATION FairSpec
CHECK_DEADLOCK FALSE
INVARIANTS TurnsKept NoSleepOnWork
PROPERTIES AllHandedOut ImplementsTurnQueue
