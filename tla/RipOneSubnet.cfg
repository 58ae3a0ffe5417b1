SPECIFICATION HSpec
CONSTANTS
    p1 = p1
    a = a
    b = b
    NoRoute = NoRoute
    NoMsg = NoMsg
    BadLine = BadLine
    Silent = Silent
    Prefix = {p1}
    Addr = {a, b}
    TableSize = 2
    Unreachable = 4
    RouteTimeout = 2
    WireMetrics = {1, 2, 4}
    MaxEntries = 2
    MaxInbox = 1
    BootFiles <- OneSubnetFiles
INVARIANTS
    NoWorseThanNextHop
PROPERTIES
    SilenceForgets
CHECK_DEADLOCK FALSE
