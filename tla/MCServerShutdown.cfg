CONSTANTS
    MAX_CLIENTS = 2
    MAX_PACKET_SIZE = 2
    WorldBytes = 3
    Peers <- TwoPeers
    Addrs <- MCAddrs
    AddrOf <- TwoApart
    Usernames <- OneName
    Ptrs <- MCPtrs
    NULL = NULL
    NetMaxPlayers = 2
    ConsoleMaxPlayers <- NoValues
    p1 = p1
    p2 = p2
    p3 = p3
    a1 = a1
    a2 = a2
    a3 = a3
    bob = bob
    o1 = o1
    o2 = o2
    o3 = o3
    o4 = o4
SPECIFICATION ServerSpec
INVARIANTS ShutdownReachesAll
\* The server stops for good: dead, or after a fault.
CHECK_DEADLOCK FALSE
