SPECIFICATION Spec
CONSTANTS
    Octets = 2
    OctetBits = 2
    TableSize = 3
    NoRoute = NoRoute
    BadLine = BadLine
    Routes <- SomeRoutes
    Files <- SomeFiles
INVARIANT NoDuplicatesRead
CHECK_DEADLOCK FALSE
