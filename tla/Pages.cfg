SPECIFICATION Spec
CONSTANTS
    Items = {1, 2, 3}
    Finds = {{1, 2, 3}, {2, 3}}
    PageRows = 2
    Limit = 2
    Testers = {"d", "t1"}
    BuiltIn = {"d"}
    DefaultTester = "d"
    Names = {1, 2}
    Ids = {"p1", "p2"}
    Ifaces = {"lo", "eth0", "ens1"}
    IfacesOf <- IfacesOfTester
    Planes = {"n2"}
    LastCpu = 3
    Allowed = {0, 1, 2}
    Nodes <- TwoNodes
    Typed <- TypedLists
    Slices = {"s1", "s2"}
    Dnns = {"d1", "d2"}
    Filters = {1}
    Fields = {1, 2}
    LastImsi = 2
    AddCounts = {1, 2}
    Ues = {"u1", "u2"}
    Retries = 1
    Causes = {"a", "b"}
    ChartPoints = 4
    Times = {0, 1, 2, 3, 4, 5, 7, 8, 9, 16, 17, 59, 60, 61, 240, 250, 299, 300, 3600, 86400, 1000000}
    Peaks = {1, 2, 3, 4, 5, 8, 9, 10, 11, 1000, 1001, 2000, 2001, 4001}
    Widths = {60, 140, 141, 210, 700, 999}
    LastTick = 9
    MaxMessages = 3
    ImageEvents = 3
    SubsEvents = 4
    FormEvents = 2
    SetupEvents = 2
    FleetEvents = 2
    ProfilesEvents = 4
    HistoryEvents = 5
    HostEvents = 3
    LogEvents = 2
    None = None
CHECK_DEADLOCK FALSE
INVARIANTS ItemsOnce TicksAreListed  
PROPERTIES NothingLost NothingUndone
