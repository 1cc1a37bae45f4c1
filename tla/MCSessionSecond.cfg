CONSTANTS
    MAX_CLIENTS = 2
    MAX_PACKET_SIZE = 2
    WorldBytes = 5
    Peers <- WithGuest
    Addrs <- MCAddrs
    AddrOf <- OwnAddrs
    Usernames <- MCUsernames
    Ptrs <- MCPtrs
    NULL = NULL
    NetMaxPlayers = 2
    ConsoleMaxPlayers <- NoValues
    Me = p1
    PlayerName = bob
    GarbageSizes <- OtherSizes
    NoMsg = NoMsg
    Unset = Unset
    ServerMsgs <- MCServerMsgs
    Networks <- InOrder
    p1 = p1
    p2 = p2
    a1 = a1
    a2 = a2
    bob = bob
    o1 = o1
    o2 = o2
SPECIFICATION SessionSpec
PROPERTIES Joins
\* Either side may stop for good.
CHECK_DEADLOCK FALSE
