SPECIFICATION Spec
CONSTANTS
    srv = srv
    c1 = c1
    c2 = c2
    eth0 = eth0
    NoName = NoName
    NoFile = NoFile
    Nobody = Nobody
    Heard = {c1}
    None = None
    Names = {eth0}
    Texts <- AllTexts
    Layers = {"eth", "ip", "udp", "arp"}
    Server = srv
    Clients = {c1, c2}
    IpOf <- Addresses
    FilesOf <- SomeFiles
    Targets <- SomeTargets
    Lengths <- SomeLengths
    Patience <- SomePatience
    MaxRuns <- SomeRuns
    MaxRx = 2
INVARIANTS
    TypeOK
    AnswersOwnRequests
    EchoHasLength
    HeaderVerifies
    AsksAsItself
PROPERTIES
    ClientsEnd
CHECK_DEADLOCK FALSE
