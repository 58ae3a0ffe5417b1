SPECIFICATION Spec
CONSTANTS
    srv = srv
    c1 = c1
    c2 = c2
    eth0 = eth0
    NoName = NoName
    NoFile = NoFile
    Nobody = Nobody
    Heard = {}
    None = None
    Names = {eth0}
    Texts <- AllTexts
    Layers = {"ip"}
    Server = srv
    Clients = {c1, c2}
    IpOf <- Addresses
    FilesOf <- ShippedFiles
    Targets <- SomeTargets
    Lengths <- SomeLengths
    Patience <- SomePatience
    MaxRuns <- SomeRuns
    MaxRx = 2
INVARIANT EchoIsRequest
CHECK_DEADLOCK FALSE
