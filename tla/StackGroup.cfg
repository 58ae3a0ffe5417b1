SPECIFICATION Spec
CONSTANTS
    me = me
    gw = gw
    peer = peer
    all = all
    zeroed = zeroed
    NoRoute = NoRoute
    None = None
    Octets = 1
    OctetBits = 3
    TableSize = 2
    Mac = {me, gw, peer, all, zeroed}
    MyMac = me
    ZeroFirstOctet = {zeroed}
    GroupMacs = {all}
    MyIP <- Me
    GroupIPs = {{2, 3}}
    MyPort = 1
    Frames <- PeerFrames
    RouteTables <- SomeTables
    Destinations = {{1, 3}, {2}}
    Lengths = {5}
    Timeouts <- SomeTimeouts
    ArpTimeout = 2
    MaxRx = 2
INVARIANT TakesOwnFramesOnly
CHECK_DEADLOCK FALSE
