SPECIFICATION Spec
CONSTANTS
    Octets = 2
    OctetBits = 2
    TableSize = 3
    NoRoute = NoRoute
    BadLine = BadLine
    Routes <- SomeRoutes
    Files <- SomeFiles
INVARIANTS
    TypeOK
    LookupMostSpecific
    WrittenComesBack
PROPERTIES
    AddNeverDivertsSpecific
