CONSTANTS
    Seeds <- MCSeeds
    WorldBytes = 3
    ChunkBytes = 2
    s1 = s1
    s2 = s2
SPECIFICATION FileSpec
INVARIANTS SaveIsWhole NeverMixed
