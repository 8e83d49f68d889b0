\* One UE, two readers of its uplink, Stop at any moment, after which the engine is over.
CONSTANTS
    u1 = u1
    sUl = sUl
    sDl = sDl
    r1 = r1
    r2 = r2
    rDl = rDl
    None = None
    Ues = {u1}
    UlSenders = {sUl}
    DlSenders = {sDl}
    UlReaders = {r1, r2}
    DlReaders = {rDl}
    UlShard <- OneUlShard
    DlShard <- OneDlShard
    N3Reader <- OneGnb
    UlPackets = 2
    DlPackets = 1
    MaxSeq <- Packets
    MaxBatch = 2
    MaxTicks = 1
    HistoryPoints = 2
SPECIFICATION Spec
INVARIANTS NewestSeen OwnPacketsKnown NoFlowBehind NothingUncounted
PROPERTIES HaltedAtOnce
