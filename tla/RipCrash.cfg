SPECIFICATION Spec
CONSTANTS
    p1 = p1
    p2 = p2
    a = a
    b = b
    NoRoute = NoRoute
    NoMsg = NoMsg
    BadLine = BadLine
    Prefix = {p1, p2}
    Addr = {a, b}
    TableSize = 2
    Unreachable = 4
    RouteTimeout = 1
    WireMetrics = {1, 4}
    MaxEntries = 1
    MaxInbox = 1
    BootFiles <- SmallFiles
INVARIANT ComparedRouteExists
CHECK_DEADLOCK FALSE
