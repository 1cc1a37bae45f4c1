CONSTANTS
    TILE_SIZE = 8
    MaxShift = 9
    heightData <- MCHeightData
    Sizes <- MCSizes
    ScreenRows = {19, 40}
    Unset = Unset
SPECIFICATION Spec
INVARIANTS LayersOrdered UnsetOnlyAtBorders FramesComplete
PROPERTIES GenerationEnds
\* Without a map nothing more happens; a frame may crash.
CHECK_DEADLOCK FALSE
