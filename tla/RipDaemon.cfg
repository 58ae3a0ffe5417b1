SPECIFICATION Spec
CONSTANTS
    p1 = p1
    p2 = p2
    a = a
    b = b
    NoRoute = NoRoute
    NoMsg = NoMsg
    BadLine = BadLine
    Prefix = {p1, p2}
    Addr = {a, b}
    TableSize = 3
    Unreachable = 4
    RouteTimeout = 2
    WireMetrics = {1, 4}
    MaxEntries = 2
    MaxInbox = 1
    BootFiles <- SmallFiles
INVARIANTS
    TypeOK
    WakesForEveryExpiry
    NothingUnannounced
PROPERTIES
    NoNewDuplicates
    OnlyExpiredRoutesGo
CHECK_DEADLOCK FALSE
