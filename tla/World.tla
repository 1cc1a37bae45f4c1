-------------------------------- MODULE World --------------------------------
(***************************************************************************)
(* The world of a server (class WorldGenerator, world/): the terrain of    *)
(* one column of tiles, the loop that divides the quadtree, and the frames *)
(* that draw the column.                                                   *)
(*                                                                         *)
(* The rows of a layer are moved up by the same number of tiles in a       *)
(* column, the noise there, rounded up; each layer has noise of its own.   *)
(* The block of tiles is not cleared when it is allocated.                 *)
(***************************************************************************)
EXTENDS Integers

CONSTANTS
    TILE_SIZE,      \* pixels of a tile
    MaxShift,       \* NOISE_MAX_VARIANCE / TILE_SIZE
    heightData,     \* the tile of each layer, by its first row
    Sizes,          \* what mapSizeX and mapSizeY can be, in tiles
    ScreenRows,     \* rows of tiles a screen can show
    Unset           \* a byte nobody has written

Air == 0
NumTiles == 8

\* The points of a line of noise.
NOISE_STEPS == 36

\* Worlds are as high as their layers and the noise need, and wide enough
\* for a step of noise to be a tile: in a narrower one the length of a step,
\* by which the progress in it is divided, is 0.
ASSUME WorldAssumption ==
    /\ TILE_SIZE \in Nat \ {0} /\ MaxShift \in Nat
    /\ heightData \in [DOMAIN heightData -> 0 .. NumTiles - 1]
    /\ DOMAIN heightData \subseteq Nat
    /\ 0 \in DOMAIN heightData /\ heightData[0] = Air
    /\ \A b \in DOMAIN heightData \ {0} : b >= MaxShift
    /\ \A b, c \in DOMAIN heightData : b < c => b + MaxShift <= c /\ heightData[b] < heightData[c]
    /\ Sizes \subseteq (Nat \ {0}) \X Nat
    /\ \A size \in Sizes :
        /\ size[1] >= NOISE_STEPS /\ size[2] > TILE_SIZE
        /\ \A b \in DOMAIN heightData : b < size[2] => b + MaxShift <= size[2]
        /\ \E b \in DOMAIN heightData :
                b \in 1 .. size[2] - 1 /\ b % TILE_SIZE = 0 /\ heightData[b] # Air
    /\ ScreenRows \subseteq Nat
    /\ Unset \notin 0 .. NumTiles - 1

VARIABLES
    phase,          \* "start", "rows", "quadtree", "ready", "no map"
    size,
    y,              \* row loop
    currentTile,
    shift,          \* the noise of the layer, in rows
    column,         \* tileData, one column
    scale,          \* currentQuadScaleX, currentQuadScaleY
    screen,         \* rows that the screen shows
    garbage,        \* what unwritten bytes hold: "tile", "null" or "outside"
    texture         \* "unlocked", "locked" or "crash"

vars == <<phase, size, y, currentTile, shift, column, scale, screen, garbage, texture>>

Height == size[2]
Rows == 0 .. Height - 1

Init ==
    /\ phase = "start"
    /\ size \in Sizes
    /\ y = 0 /\ currentTile = Air /\ shift = 0
    /\ column = [r \in Rows |-> Unset]
    /\ scale = size
    /\ screen \in ScreenRows
    /\ garbage \in {"tile", "null", "outside"}
    /\ texture = "unlocked"

-----------------------------------------------------------------------------
\* With a map: Deserialise asks OpenWorldFile not to create the file, which
\* then opens none, and the server runs without a world.
LoadMap ==
    /\ phase = "start"
    /\ phase' = "no map"
    /\ UNCHANGED <<size, y, currentTile, shift, column, scale, screen, garbage, texture>>

\* Without one, generation begins with a first roll of noise.
NewMap ==
    /\ phase = "start"
    /\ phase' = "rows"
    /\ shift' \in 0 .. MaxShift
    /\ UNCHANGED <<size, y, currentTile, column, scale, screen, garbage, texture>>

SetMap == LoadMap \/ NewMap

\* The first layer that the coarse loop meets.
FirstGroundY ==
    LET G == {b \in DOMAIN heightData :
                b > 0 /\ b < Height /\ b % TILE_SIZE = 0 /\ heightData[b] # Air}
    IN  CHOOSE b \in G : \A c \in G : b <= c

NewLayer == y > 0 /\ y \in DOMAIN heightData /\ heightData[y] # currentTile

\* The noise is rolled again where a layer begins.
Shifts == IF NewLayer THEN 0 .. MaxShift ELSE {shift}

\* (mutant) The layer is moved down.
AdjustedY_Down(s) ==
    LET row == IF y >= FirstGroundY THEN y + s ELSE y
    IN  IF row > Height - TILE_SIZE THEN Height - TILE_SIZE ELSE row

\* (mutant) The sky is moved too, and a row below 0 is a large number.
AdjustedY_SkyToo(s) ==
    IF y < s \/ y - s > Height - TILE_SIZE THEN Height - TILE_SIZE ELSE y - s

\* The row that is written; the last rows are never reached.
AdjustedY(s) ==
    LET row == IF y >= FirstGroundY THEN y - s ELSE y
    IN  IF row > Height - TILE_SIZE THEN Height - TILE_SIZE ELSE row

RowsDone == y >= Height

\* A row of the second loop of CreateGenerateWorld.
GenerateRow ==
    /\ phase = "rows" /\ ~RowsDone
    /\ \E s \in Shifts :
        /\ shift' = s
        /\ currentTile' = IF NewLayer THEN heightData[y] ELSE currentTile
        /\ column' = [column EXCEPT ![AdjustedY(s)] = currentTile']
    /\ y' = y + 1
    /\ UNCHANGED <<phase, size, scale, screen, garbage, texture>>

FinishRows ==
    /\ phase = "rows" /\ RowsDone
    /\ phase' = "quadtree"
    /\ UNCHANGED <<size, y, currentTile, shift, column, scale, screen, garbage, texture>>

\* (mutant) The sides are halved together.
Halved_Together(pair) ==
    [i \in 1 .. 2 |-> IF pair[1] > TILE_SIZE /\ pair[2] > TILE_SIZE
                      THEN pair[i] \div 2 ELSE pair[i]]

\* Each side as long as it is longer than a tile.
Halved(pair) ==
    [i \in 1 .. 2 |-> IF pair[i] > TILE_SIZE THEN pair[i] \div 2 ELSE pair[i]]

\* The children of the root are divided again and again.
DivideQuads ==
    /\ phase = "quadtree"
    /\ IF scale[1] >= TILE_SIZE \/ scale[2] >= TILE_SIZE
       THEN scale' = Halved(scale) /\ UNCHANGED phase
       ELSE phase' = "ready" /\ UNCHANGED scale
    /\ UNCHANGED <<size, y, currentTile, shift, column, screen, garbage, texture>>

Visible == {r \in Rows : r < screen}

\* A byte that is no tile ends the frame with the texture locked; the first
\* number after the tiles is looked up as a null tile.
FrameResult ==
    IF \E r \in Visible : column[r] = Unset
    THEN CASE garbage = "tile" -> "unlocked"
           [] garbage = "outside" -> "locked"
           [] garbage = "null" -> "crash"
    ELSE "unlocked"

Render ==
    /\ phase = "ready" /\ texture # "crash"
    /\ texture' = FrameResult
    /\ UNCHANGED <<phase, size, y, currentTile, shift, column, scale, screen, garbage>>

Next == SetMap \/ GenerateRow \/ FinishRows \/ DivideQuads \/ Render

\* The server generates its world before it does anything else.
Fairness == WF_vars(GenerateRow \/ FinishRows \/ DivideQuads)

Spec == Init /\ [][Next]_vars /\ Fairness

-----------------------------------------------------------------------------
TypeOK ==
    /\ phase \in {"start", "rows", "quadtree", "ready", "no map"}
    /\ size \in Sizes
    /\ y \in 0 .. Height
    /\ currentTile \in 0 .. NumTiles - 1
    /\ shift \in 0 .. MaxShift
    /\ column \in [Rows -> (0 .. NumTiles - 1) \cup {Unset}]
    /\ scale \in [1 .. 2 -> Nat]
    /\ screen \in ScreenRows
    /\ garbage \in {"tile", "null", "outside"}
    /\ texture \in {"unlocked", "locked", "crash"}

Generated == phase \in {"quadtree", "ready"}

\* Whatever the noise of each layer, no tile ends up below a tile of a deeper
\* layer: the overlap of two layers is overwritten by the deeper one
\* (CreateGenerateWorld, world_generator.cpp:164-228).
LayersOrdered ==
    Generated =>
        \A r1, r2 \in Rows : r1 < r2 /\ column[r1] # Unset /\ column[r2] # Unset
                                => column[r1] <= column[r2]

Ground == {b \in DOMAIN heightData : b > FirstGroundY}

\* A tile that was never written lies just above the border of two layers of
\* ground, where the upper layer was moved further, or at the bottom.
UnsetOnlyAtBorders ==
    Generated =>
        \A r \in Rows : column[r] = Unset =>
            \/ \E b \in Ground : r \in b - MaxShift .. b - 1
            \/ r > Height - TILE_SIZE \/ r >= Height - MaxShift

\* A screen that ends above the second layer of ground, and above the last
\* rows, is always drawn to the end and unlocked (Render,
\* world_generator.cpp:316-320, 370).
FramesComplete ==
    /\ \A b \in Ground \cup {Height} : screen + MaxShift <= b
    /\ screen + TILE_SIZE <= Height
    => texture = "unlocked"

\* Halved again and again, a side becomes exactly one tile.
Sticks(n) == \E k \in 0 .. 20 : n \div (2 ^ k) = TILE_SIZE

\* The division ends, unless a side comes to be exactly one tile: it is then
\* not halved any more and still long enough to go on
\* (CreateGenerateQuadtree, world_generator.cpp:246-265).
GenerationEnds ==
    (phase = "quadtree") ~> (phase = "ready" \/ Sticks(size[1]) \/ Sticks(size[2]))
=============================================================================
