CONSTANTS
    t1 = t1
    t2 = t2
    Testers = {t1, t2}
    Active = {t1}
    Gnbs = 2
    PageSize = 1
    Sockets = {1, 2}
    MaxFrames = 1
    MaxEvents = 3
    NoSnapshot = NoSnapshot
    NoSocket = NoSocket
SPECIFICATION FairSpec
CHECK_DEADLOCK FALSE
INVARIANTS OneStreamAtMost PageExists NoChangeMissed
PROPERTIES EndIsSeen
