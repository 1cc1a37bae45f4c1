CONSTANTS
    Threads <- MCThreads
    Ptrs <- MCPtrs
    Sizes = {4, 24}
    PointerSize = 8
    SizeLimit = 64
    MaxCalls = 5
    main = main
    input = input
    o1 = o1
    o2 = o2
    o3 = o3
SPECIFICATION Spec
INVARIANTS CountExact RamExact AlarmOnlyByRace
\* The calls of a run are bounded, and an alarm ends the program.
CHECK_DEADLOCK FALSE
