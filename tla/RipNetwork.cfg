SPECIFICATION Spec
CONSTANTS
    p = p
    q = q
    a = a
    b = b
    c = c
    gw = gw
    NoRoute = NoRoute
    Idle = Idle
    Nobody = Nobody
    Prefix = {p, q}
    Addr = {a, b, c, gw}
    TableSize = 2
    Unreachable = 4
    RouteTimeout = 1
    Daemons = {a, b}
    Client = c
    GroupHop <- Gateways
    Heard = {Nobody}
    BootTables <- SomeTables
    ClientEntries <- SomeEntries
    MaxInbox = 2
    MaxRestarts = 1
    MaxAsks = 2
INVARIANTS
    TypeOK
    MetricHasOrigin
    NoneAboveInfinity
    NeighbourBelieves
PROPERTIES
    ClientServed
    UpdatesSettle
CHECK_DEADLOCK FALSE
