CONSTANTS
    MAX_CLIENTS = 4
    Players <- MCPlayers
    Names <- MCNames
    NameOf <- MCNameOf
    Ptrs <- MCPtrs
    NULL = NULL
    p1 = p1
    p2 = p2
    p3 = p3
    a1 = a1
    a2 = a2
    o1 = o1
    o2 = o2
    o3 = o3
    o4 = o4
SPECIFICATION Spec
INVARIANTS OneStaleSlot CountCoversOthers NoBoundsFault ExactForTwo
\* A heap fault ends the program.
CHECK_DEADLOCK FALSE
