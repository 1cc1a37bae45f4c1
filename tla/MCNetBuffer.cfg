CONSTANTS
    NET_BUFFER_SIZE = 3
    MsgTypes <- MCMsgTypes
    Payloads <- MCPayloads
    NULL = NULL
    Uninit = Uninit
    MaxArrivals = 5
    hello = hello
    rpc = rpc
    p1 = p1
    p2 = p2
    p3 = p3
    p4 = p4
    p5 = p5
SPECIFICATION Spec
INVARIANTS BufferedPayloadsOwned PayloadsAccounted
PROPERTIES ImplementsStack DrainsWhenQuiet
