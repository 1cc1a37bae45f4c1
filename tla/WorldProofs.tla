----------------------------- MODULE WorldProofs -----------------------------
(***************************************************************************)
(* Theorems about World, for all layers, tile sizes, noise and worlds, and *)
(* about WorldFile, for worlds of any size and any number of saves and     *)
(* lives of the program.                                                   *)
(***************************************************************************)
EXTENDS World, WorldFile, WellFoundedInduction, SequenceTheorems, TLAPS

\* By how many rows the last row was moved up.
Moved == IF y > FirstGroundY THEN shift ELSE 0

Written(r) == column[r] # Unset

AtBorder(r) == \/ \E b \in Ground : r \in b - MaxShift .. b - 1
               \/ r > Height - TILE_SIZE

\* The rows of the layer that begins at row B are being written.  What the
\* layers before it wrote lies above B; a row of them that is still below the
\* tiles of this one is yet to be overwritten.
LayerInv(B) ==
    /\ heightData[B] = currentTile
    /\ B = 0 \/ B < y
    /\ \A c \in DOMAIN heightData : c < y => c <= B
    /\ \A r \in Rows : Written(r) =>
        /\ r < y /\ r <= Height - TILE_SIZE
        /\ column[r] <= currentTile
        /\ column[r] = currentTile \/ r < B
    /\ \A r1, r2 \in Rows :
        r1 < r2 /\ Written(r1) /\ Written(r2) /\ column[r1] > column[r2]
            => r2 >= y - Moved /\ r2 < B
    /\ \A r \in Rows : ~Written(r) /\ r < y - Moved => AtBorder(r)

RowsInv == \E B \in DOMAIN heightData : LayerInv(B)

StartInv == y = 0 /\ currentTile = Air /\ \A r \in Rows : ~Written(r)

\* A frame that did not end met a tile that was not written.
FrameInv ==
    texture # "unlocked" => phase = "ready" /\ \E r \in Visible : ~Written(r)

IInv ==
    /\ TypeOK
    /\ phase = "start" => StartInv
    /\ phase = "rows" => RowsInv
    /\ LayersOrdered
    /\ UnsetOnlyAtBorders
    /\ FrameInv
-----------------------------------------------------------------------------
(* Lemmas *)

LEMMA LeastOf ==
  ASSUME NEW T \in SUBSET Nat, T # {}
  PROVE  \E m \in T : \A n \in T : m <= n
<1> DEFINE Less == OpToRel(<, Nat)
<1>1. Less = {ss \in Nat \X Nat : ss[1] < ss[2]}
  BY DEF OpToRel
<1>2. IsWellFoundedOn(Less, Nat)
  BY NatLessThanWellFounded
<1> HIDE DEF Less
<1>3. \E m \in T : \A n \in T : <<n, m>> \notin Less
  BY <1>2, WFMin
<1>4. \A m, n \in Nat : <<n, m>> \notin Less => m <= n
  BY <1>1
<1>5. QED
  BY <1>3, <1>4

\* A layer begins at a row, and a tile is a number.
LEMMA LayerRows == DOMAIN heightData \subseteq Nat /\ 0 .. NumTiles - 1 \subseteq Nat
  BY WorldAssumption DEF NumTiles

\* What the assumptions say of a world of some size.
LEMMA SizeFacts ==
  ASSUME size \in Sizes
  PROVE  /\ Height \in Nat /\ Height > TILE_SIZE
         /\ FirstGroundY \in DOMAIN heightData
         /\ FirstGroundY \in Nat /\ 0 < FirstGroundY /\ FirstGroundY < Height
         /\ MaxShift <= FirstGroundY
         /\ \A b \in DOMAIN heightData : b < Height => b + MaxShift <= Height
<1> DEFINE G == {b \in DOMAIN heightData :
                  b > 0 /\ b < Height /\ b % TILE_SIZE = 0 /\ heightData[b] # Air}
<1>1. Height \in Nat /\ Height > TILE_SIZE
  BY WorldAssumption DEF Height
<1>2. G \in SUBSET Nat
  BY WorldAssumption
<1>3. G # {}
  BY <1>1, WorldAssumption DEF Height
<1>4. \E m \in G : \A n \in G : m <= n
  BY <1>2, <1>3, LeastOf
<1>5. FirstGroundY \in G
  BY <1>4 DEF FirstGroundY
<1>6. \A b \in DOMAIN heightData : b < Height => b + MaxShift <= Height
  BY WorldAssumption DEF Height
<1>7. QED
  BY <1>1, <1>2, <1>5, <1>6, WorldAssumption

\* The types that the steps need.
LEMMA TypeFacts ==
  ASSUME TypeOK
  PROVE  /\ size \in Sizes /\ Height \in Nat
         /\ y \in Nat /\ y <= Height
         /\ currentTile \in 0 .. NumTiles - 1
         /\ shift \in 0 .. MaxShift
         /\ TILE_SIZE \in Nat \ {0} /\ MaxShift \in Nat
         /\ Rows \subseteq Nat
         /\ \A r \in Rows : Written(r) => column[r] \in 0 .. NumTiles - 1
<1>1. size \in Sizes /\ y \in 0 .. Height
  BY DEF TypeOK
<1>2. Height \in Nat
  BY <1>1, SizeFacts
<1>3. column \in [Rows -> (0 .. NumTiles - 1) \cup {Unset}]
  BY DEF TypeOK
<1>4. \A r \in Rows : Written(r) => column[r] \in 0 .. NumTiles - 1
  BY <1>3 DEF Written
<1>5. Rows \subseteq Nat
  BY <1>2 DEF Rows
<1>6. currentTile \in 0 .. NumTiles - 1 /\ shift \in 0 .. MaxShift
  BY DEF TypeOK
<1>7. QED
  BY <1>1, <1>2, <1>4, <1>5, <1>6, WorldAssumption

\* The row that is written is one of the world, and not below its own.
LEMMA AdjustedRow ==
  ASSUME TypeOK, y < Height, NEW s \in 0 .. MaxShift
  PROVE  /\ AdjustedY(s) \in Rows
         /\ AdjustedY(s) <= Height - TILE_SIZE
         /\ AdjustedY(s) <= y
<1>1. /\ MaxShift \in Nat /\ TILE_SIZE \in Nat \ {0}
      /\ Height \in Nat /\ Height > TILE_SIZE
      /\ FirstGroundY \in Nat /\ MaxShift <= FirstGroundY
  BY TypeFacts, SizeFacts
<1>2. y \in Nat
  BY TypeFacts
<1>3. QED
  BY <1>1, <1>2 DEF AdjustedY, Rows

-----------------------------------------------------------------------------
(* A row *)

\* As LayerInv, when row y of the layer that begins at B is about to be
\* written with tile t, moved up by m rows.
Entered(B, t, m) ==
    /\ heightData[B] = t
    /\ B = 0 \/ B <= y
    /\ \A c \in DOMAIN heightData : c <= y => c <= B
    /\ \A r \in Rows : Written(r) =>
        /\ r < y /\ r <= Height - TILE_SIZE
        /\ column[r] <= t
        /\ column[r] = t \/ r < B
    /\ \A r1, r2 \in Rows :
        r1 < r2 /\ Written(r1) /\ Written(r2) /\ column[r1] > column[r2]
            => r2 >= y - m /\ r2 < B
    /\ \A r \in Rows : ~Written(r) /\ r < y - m => AtBorder(r)

\* A layer begins where the one before it is in order.
LEMMA LayerBegins ==
  ASSUME TypeOK, RowsInv, y < Height, NEW s \in Shifts
  PROVE  \E B \in DOMAIN heightData :
            Entered(B, IF NewLayer THEN heightData[y] ELSE currentTile,
                    IF y >= FirstGroundY THEN s ELSE 0)
<1> DEFINE m == IF y >= FirstGroundY THEN s ELSE 0
<1>1. PICK B \in DOMAIN heightData : LayerInv(B)
  BY DEF RowsInv
<1>2. /\ y \in Nat /\ B \in Nat /\ Height \in Nat /\ TILE_SIZE \in Nat /\ MaxShift \in Nat
      /\ currentTile \in Nat /\ Rows \subseteq Nat
      /\ FirstGroundY \in Nat
      /\ \A r \in Rows : Written(r) => column[r] \in Nat
  BY TypeFacts, SizeFacts, LayerRows
<1>3. CASE NewLayer
  <2>1. y \in DOMAIN heightData /\ B < y /\ heightData[B] = currentTile
    BY <1>1, <1>2, <1>3 DEF NewLayer, LayerInv
  <2>2. /\ currentTile < heightData[y] /\ B + MaxShift <= y
        /\ heightData[y] \in 0 .. NumTiles - 1
    BY <2>1, WorldAssumption
  <2>3. s \in 0 .. MaxShift /\ m \in 0 .. MaxShift
    BY <1>2, <1>3, WorldAssumption DEF Shifts
  <2>4. Moved \in 0 .. MaxShift
    BY <1>2, TypeFacts DEF Moved
  <2>5. \A r \in Rows : Written(r) =>
            /\ r < y /\ r <= Height - TILE_SIZE
            /\ column[r] <= heightData[y]
    BY <1>1, <1>2, <2>1, <2>2 DEF LayerInv, NumTiles
  <2>6. \A r1, r2 \in Rows :
            r1 < r2 /\ Written(r1) /\ Written(r2) => ~(column[r1] > column[r2])
    <3> SUFFICES ASSUME NEW r1 \in Rows, NEW r2 \in Rows,
                        r1 < r2, Written(r1), Written(r2), column[r1] > column[r2]
                 PROVE  FALSE
      OBVIOUS
    <3>1. r2 >= y - Moved /\ r2 < B
      BY <1>1 DEF LayerInv
    <3>2. QED
      BY <1>2, <2>1, <2>2, <2>4, <3>1
  <2>7. \A r \in Rows : ~Written(r) /\ r < y - m => AtBorder(r)
    <3> SUFFICES ASSUME NEW r \in Rows, ~Written(r), r < y - m
                 PROVE  AtBorder(r)
      OBVIOUS
    <3>1. CASE r < y - Moved
      BY <1>1, <3>1 DEF LayerInv
    <3>2. CASE ~(r < y - Moved)
      <4>1. y > FirstGroundY /\ r < y
        BY <1>2, <2>3, <2>4, <3>2 DEF Moved
      <4>2. y \in Ground
        BY <1>2, <2>1, <4>1 DEF Ground
      <4>3. r \in y - MaxShift .. y - 1
        BY <1>2, <2>4, <3>2, <4>1
      <4>4. QED
        BY <4>2, <4>3 DEF AtBorder
    <3>3. QED
      BY <3>1, <3>2
  <2>8. Entered(y, heightData[y], m)
    BY <1>2, <2>1, <2>5, <2>6, <2>7 DEF Entered
  <2>9. QED
    BY <1>3, <2>1, <2>8
<1>4. CASE ~NewLayer
  <2>1. y # FirstGroundY
    <3>1. ASSUME y = FirstGroundY PROVE FALSE
      <4>1. y \in DOMAIN heightData /\ y > 0 /\ B < y
        BY <1>1, <1>2, <3>1, TypeFacts, SizeFacts DEF LayerInv
      <4>2. heightData[B] < heightData[y]
        BY <4>1, WorldAssumption
      <4>3. QED
        BY <1>1, <1>2, <1>4, <4>1, <4>2 DEF LayerInv, NewLayer
    <3>2. QED
      BY <3>1
  <2>2. s = shift /\ m = Moved
    BY <1>2, <1>4, <2>1 DEF Shifts, Moved
  <2>3. \A c \in DOMAIN heightData : c <= y => c <= B
    <3>1. ASSUME y \in DOMAIN heightData, B < y PROVE FALSE
      <4>1. heightData[B] < heightData[y]
        BY <3>1, WorldAssumption
      <4>2. QED
        BY <1>1, <1>2, <1>4, <3>1, <4>1 DEF LayerInv, NewLayer
    <3>2. \A c \in DOMAIN heightData : c \in Nat
      BY WorldAssumption
    <3>3. QED
      BY <1>1, <1>2, <3>1, <3>2 DEF LayerInv
  <2>4. Entered(B, currentTile, m)
    BY <1>1, <1>2, <2>2, <2>3 DEF LayerInv, Entered
  <2>5. QED
    BY <1>4, <2>4
<1>5. QED
  BY <1>3, <1>4

\* What a row moved up leaves: the last step of a layer's invariant.
LEMMA RowWritten ==
  ASSUME TypeOK, TypeOK', y < Height, NEW s \in 0 .. MaxShift,
         NEW t \in 0 .. NumTiles - 1, NEW B \in DOMAIN heightData,
         Entered(B, t, IF y >= FirstGroundY THEN s ELSE 0),
         currentTile' = t, shift' = s, y' = y + 1, UNCHANGED size,
         column' = [column EXCEPT ![AdjustedY(s)] = t]
  PROVE  LayerInv(B)'
<1> DEFINE m == IF y >= FirstGroundY THEN s ELSE 0
           a == AdjustedY(s)
<1>1. /\ y \in Nat /\ B \in Nat /\ Height \in Nat /\ TILE_SIZE \in Nat
      /\ Rows \subseteq Nat /\ FirstGroundY \in Nat
      /\ s \in Nat /\ m \in Nat /\ t \in Nat /\ t # Unset
  BY TypeFacts, SizeFacts, WorldAssumption DEF NumTiles
<1>2. Height' = Height /\ Rows' = Rows /\ FirstGroundY' = FirstGroundY
  BY DEF Height, Rows, FirstGroundY
<1>3. Moved' = m
  BY <1>1, <1>2 DEF Moved
<1>4. a \in Rows /\ a <= Height - TILE_SIZE /\ a <= y
  BY AdjustedRow
<1>5. a = y - m \/ (a = Height - TILE_SIZE /\ Height - TILE_SIZE < y - m)
  BY <1>1 DEF AdjustedY
<1>6. /\ column'[a] = t
      /\ \A r \in Rows : r # a => column'[r] = column[r]
  <2>1. column' = [column EXCEPT ![a] = t]
    OBVIOUS
  <2>2. DOMAIN column = Rows
    BY DEF TypeOK
  <2> HIDE DEF a
  <2>3. QED
    BY <1>4, <2>1, <2>2
<1>7. \A r \in Rows : /\ Written(r)' <=> r = a \/ Written(r)
                      /\ Written(r) => column[r] \in Nat
  BY <1>1, <1>6, TypeFacts DEF Written, NumTiles
<1> HIDE DEF m, a
<1>8. \A r \in Rows : Written(r)' =>
        /\ r < y' /\ r <= Height - TILE_SIZE
        /\ column'[r] <= t
        /\ column'[r] = t \/ r < B
  BY <1>1, <1>4, <1>6, <1>7 DEF Entered, m
<1>9. ASSUME NEW r1 \in Rows, NEW r2 \in Rows, r1 < r2,
             Written(r1)', Written(r2)', column'[r1] > column'[r2]
      PROVE  r2 >= y' - m /\ r2 < B
  <2>1. column'[r2] # t /\ r2 # a
    BY <1>1, <1>6, <1>7, <1>8, <1>9
  <2>2. r2 < B /\ r2 <= Height - TILE_SIZE
    BY <1>8, <1>9, <2>1
  <2>3. CASE r1 = a
    BY <1>1, <1>5, <1>9, <2>2, <2>3
  <2>4. CASE r1 # a
    <3>1. r2 >= y - m
      BY <1>6, <1>7, <1>9, <2>1, <2>4 DEF Entered, m
    <3>2. QED
      BY <1>1, <1>4, <1>5, <2>1, <2>2, <3>1
  <2>5. QED
    BY <2>3, <2>4
<1>10. ASSUME NEW r \in Rows, ~Written(r)', r < y' - m
       PROVE  AtBorder(r)
  <2>1. r # a /\ ~Written(r)
    BY <1>7, <1>10
  <2>2. CASE r < y - m
    BY <2>1, <2>2 DEF Entered, m
  <2>3. CASE ~(r < y - m)
    BY <1>1, <1>5, <1>10, <2>1, <2>3 DEF AtBorder
  <2>4. QED
    BY <2>2, <2>3
<1>11. \A r \in Rows : AtBorder(r) => AtBorder(r)'
  BY <1>2 DEF AtBorder, Ground
<1>12. /\ heightData[B] = currentTile'
       /\ B = 0 \/ B < y'
       /\ \A c \in DOMAIN heightData : c < y' => c <= B
  BY <1>1, WorldAssumption DEF Entered
<1>13. QED
  BY <1>2, <1>3, <1>8, <1>9, <1>10, <1>11, <1>12 DEF LayerInv

-----------------------------------------------------------------------------
(* Steps *)

LEMMA GenerateRowKeepsTypes ==
  ASSUME TypeOK, GenerateRow
  PROVE  TypeOK'
<1>1. PICK s \in Shifts :
        /\ shift' = s
        /\ currentTile' = IF NewLayer THEN heightData[y] ELSE currentTile
        /\ column' = [column EXCEPT ![AdjustedY(s)] = currentTile']
  BY DEF GenerateRow
<1>2. /\ y < Height /\ y' = y + 1
      /\ UNCHANGED <<phase, size, scale, screen, garbage, texture>>
  BY TypeFacts DEF GenerateRow, RowsDone
<1>3. s \in 0 .. MaxShift
  BY <1>1, TypeFacts DEF Shifts
<1>4. currentTile' \in 0 .. NumTiles - 1
  BY <1>1, TypeFacts, WorldAssumption DEF NewLayer
<1>5. Height' = Height /\ Rows' = Rows
  BY <1>2 DEF Height, Rows
<1>6. column' \in [Rows -> (0 .. NumTiles - 1) \cup {Unset}]
  BY <1>1, <1>4 DEF TypeOK
<1>7. y' \in 0 .. Height
  BY <1>2, TypeFacts
<1>8. QED
  BY <1>1, <1>2, <1>3, <1>4, <1>5, <1>6, <1>7 DEF TypeOK

LEMMA GenerateRowKeepsLayers ==
  ASSUME TypeOK, RowsInv, GenerateRow
  PROVE  RowsInv'
<1>1. PICK s \in Shifts :
        /\ shift' = s
        /\ currentTile' = IF NewLayer THEN heightData[y] ELSE currentTile
        /\ column' = [column EXCEPT ![AdjustedY(s)] = currentTile']
  BY DEF GenerateRow
<1>2. y < Height /\ y' = y + 1 /\ UNCHANGED size
  BY TypeFacts DEF GenerateRow, RowsDone
<1>3. s \in 0 .. MaxShift
  BY TypeFacts DEF Shifts
<1>4. TypeOK'
  BY GenerateRowKeepsTypes
<1>5. currentTile' \in 0 .. NumTiles - 1
  BY <1>4 DEF TypeOK
<1>6. PICK B \in DOMAIN heightData :
        Entered(B, currentTile', IF y >= FirstGroundY THEN s ELSE 0)
  BY <1>1, <1>2, LayerBegins
<1>7. LayerInv(B)'
  BY <1>1, <1>2, <1>3, <1>4, <1>5, <1>6, RowWritten
<1>8. QED
  BY <1>7 DEF RowsInv

\* After the last row the layers are in order, and what was not written lies
\* at a border.
LEMMA RowsInOrder ==
  ASSUME TypeOK, RowsInv, y = Height
  PROVE  /\ \A r1, r2 \in Rows :
              r1 < r2 /\ Written(r1) /\ Written(r2) => column[r1] <= column[r2]
         /\ \A r \in Rows : ~Written(r) => AtBorder(r) \/ r >= Height - MaxShift
<1>1. PICK B \in DOMAIN heightData : LayerInv(B)
  BY DEF RowsInv
<1>2. /\ Height \in Nat /\ Height > TILE_SIZE /\ TILE_SIZE \in Nat /\ MaxShift \in Nat
      /\ Rows \subseteq Nat /\ B \in Nat
      /\ \A r \in Rows : Written(r) => column[r] \in Nat
  BY TypeFacts, SizeFacts, LayerRows
<1>3. Moved \in 0 .. MaxShift
  BY <1>2, TypeFacts DEF Moved
<1>4. B + MaxShift <= Height
  BY <1>1, <1>2, TypeFacts, SizeFacts DEF LayerInv
<1>5. ASSUME NEW r1 \in Rows, NEW r2 \in Rows, r1 < r2, Written(r1), Written(r2)
      PROVE  column[r1] <= column[r2]
  <2>1. column[r1] > column[r2] => r2 >= y - Moved /\ r2 < B
    BY <1>1, <1>5 DEF LayerInv
  <2>2. QED
    BY <1>2, <1>3, <1>4, <1>5, <2>1
<1>6. ASSUME NEW r \in Rows, ~Written(r)
      PROVE  AtBorder(r) \/ r >= Height - MaxShift
  BY <1>1, <1>2, <1>3, <1>6 DEF LayerInv
<1>7. QED
  BY <1>5, <1>6

\* A frame over what the layers left.
LEMMA FrameKept ==
  ASSUME IInv, Render
  PROVE  FrameInv'
<1>1. phase = "ready" /\ UNCHANGED <<phase, size, column, screen>> /\ texture' = FrameResult
  BY DEF Render
<1>2. FrameResult # "unlocked" => \E r \in Visible : ~Written(r)
  BY DEF FrameResult, Written
<1>3. Visible' = Visible /\ \A r \in Visible : Written(r)' = Written(r)
  BY <1>1 DEF Visible, Rows, Height, Written
<1>4. QED
  BY <1>1, <1>2, <1>3 DEF FrameInv

\* The loops of the terrain.
LEMMA TerrainKeepsIInv ==
  ASSUME IInv, SetMap \/ GenerateRow \/ FinishRows
  PROVE  IInv'
<1>1. TypeOK /\ FrameInv
  BY DEF IInv
<1>2. texture = "unlocked" \/ phase = "ready"
  BY <1>1 DEF FrameInv
<1>3. CASE LoadMap
  <2>1. phase' = "no map" /\ UNCHANGED <<size, y, currentTile, shift, column, scale, screen, garbage, texture>>
    BY <1>3 DEF LoadMap
  <2>2. TypeOK'
    BY <1>1, <2>1 DEF TypeOK, Rows, Height
  <2>3. FrameInv'
    BY <1>2, <1>3, <2>1 DEF LoadMap, FrameInv
  <2>4. QED
    BY <2>1, <2>2, <2>3 DEF IInv, LayersOrdered, UnsetOnlyAtBorders, Generated
<1>4. CASE NewMap
  <2>1. /\ phase = "start" /\ phase' = "rows" /\ shift' \in 0 .. MaxShift
        /\ UNCHANGED <<size, y, currentTile, column, scale, screen, garbage, texture>>
    BY <1>4 DEF NewMap
  <2>2. TypeOK'
    BY <1>1, <2>1 DEF TypeOK, Rows, Height
  <2>3. StartInv
    BY <2>1 DEF IInv
  <2>4. LayerInv(0)'
    <3>1. /\ 0 \in DOMAIN heightData /\ heightData[0] = currentTile'
          /\ \A c \in DOMAIN heightData : ~(c < y')
      BY <2>1, <2>3, WorldAssumption DEF StartInv
    <3>2. Rows' = Rows /\ \A r \in Rows : ~Written(r)'
      BY <2>1, <2>3 DEF StartInv, Written, Rows, Height
    <3>3. y' = 0 /\ Moved' = 0 /\ Rows \subseteq Nat
      BY <1>1, <2>1, <2>2, <2>3, TypeFacts, SizeFacts DEF StartInv, Moved, FirstGroundY, Height
    <3>4. QED
      BY <3>1, <3>2, <3>3 DEF LayerInv
  <2>5. RowsInv'
    BY <2>4, WorldAssumption DEF RowsInv
  <2>6. FrameInv'
    BY <1>2, <2>1 DEF FrameInv
  <2>7. QED
    BY <2>1, <2>2, <2>5, <2>6 DEF IInv, LayersOrdered, UnsetOnlyAtBorders, Generated
<1>5. CASE GenerateRow
  <2>1. phase = "rows" /\ UNCHANGED <<phase, texture>>
    BY <1>5 DEF GenerateRow
  <2>2. TypeOK'
    BY <1>1, <1>5, GenerateRowKeepsTypes
  <2>3. RowsInv'
    BY <1>1, <1>5, <2>1, GenerateRowKeepsLayers DEF IInv
  <2>4. FrameInv'
    BY <1>2, <2>1 DEF FrameInv
  <2>5. QED
    BY <2>1, <2>2, <2>3, <2>4 DEF IInv, LayersOrdered, UnsetOnlyAtBorders, Generated
<1>6. CASE FinishRows
  <2>1. /\ phase = "rows" /\ phase' = "quadtree" /\ y = Height
        /\ UNCHANGED <<size, y, currentTile, shift, column, scale, screen, garbage, texture>>
    BY <1>1, <1>6, TypeFacts DEF FinishRows, RowsDone
  <2>2. TypeOK'
    BY <1>1, <2>1 DEF TypeOK, Rows, Height
  <2>3. RowsInv
    BY <2>1 DEF IInv
  <2>4. /\ Rows' = Rows /\ Height' = Height
        /\ \A r \in Rows : Written(r)' = Written(r) /\ AtBorder(r)' = AtBorder(r)
    BY <2>1 DEF Rows, Height, Written, AtBorder, Ground, FirstGroundY
  <2>5. LayersOrdered'
    BY <1>1, <2>1, <2>3, <2>4, RowsInOrder DEF LayersOrdered, Written
  <2>6. UnsetOnlyAtBorders'
    <3>1. \A r \in Rows : column[r] = Unset => AtBorder(r) \/ r >= Height - MaxShift
      BY <1>1, <2>1, <2>3, RowsInOrder DEF Written
    <3>2. Ground' = Ground
      BY <2>1 DEF Ground, FirstGroundY, Height
    <3>3. QED
      BY <2>1, <2>4, <3>1, <3>2 DEF UnsetOnlyAtBorders, AtBorder
  <2>7. FrameInv'
    BY <1>2, <2>1 DEF FrameInv
  <2>8. QED
    BY <2>1, <2>2, <2>5, <2>6, <2>7 DEF IInv
<1>7. QED
  BY <1>3, <1>4, <1>5, <1>6 DEF SetMap

\* What comes after it leaves the column alone.
LEMMA SameColumn ==
  ASSUME IInv, phase' = phase \/ (Generated /\ Generated'),
         UNCHANGED <<size, y, currentTile, shift, column>>, TypeOK', FrameInv'
  PROVE  IInv'
<1>1. /\ Rows' = Rows /\ Height' = Height /\ Ground' = Ground
      /\ \A r \in Rows : Written(r)' = Written(r) /\ AtBorder(r)' = AtBorder(r)
      /\ Moved' = Moved
  BY DEF Rows, Height, Written, AtBorder, Ground, FirstGroundY, Moved
<1>2. LayersOrdered' /\ UnsetOnlyAtBorders'
  BY <1>1 DEF IInv, LayersOrdered, UnsetOnlyAtBorders, Generated
<1>3. StartInv => StartInv'
  BY <1>1 DEF StartInv
<1>4. RowsInv => RowsInv'
  <2>1. ASSUME NEW B \in DOMAIN heightData, LayerInv(B) PROVE LayerInv(B)'
    <3>1. y' = y /\ currentTile' = currentTile /\ column' = column
      OBVIOUS
    <3>2. Rows' = Rows /\ Height' = Height /\ Moved' = Moved
      BY <1>1
    <3>3. \A r \in Rows : AtBorder(r) => AtBorder(r)'
      BY <1>1
    <3>4. QED
      BY <2>1, <3>1, <3>2, <3>3 DEF LayerInv, Written
  <2>2. QED
    BY <2>1 DEF RowsInv
<1>5. phase' \in {"start", "rows"} => phase' = phase
  BY DEF Generated
<1>6. QED
  <2>1. phase' = "start" => StartInv'
    BY <1>3, <1>5 DEF IInv
  <2>2. phase' = "rows" => RowsInv'
    BY <1>4, <1>5 DEF IInv
  <2>3. QED
    BY <1>2, <2>1, <2>2 DEF IInv

LEMMA LaterKeepsIInv ==
  ASSUME IInv, DivideQuads \/ Render \/ UNCHANGED vars
  PROVE  IInv'
<1>1. TypeOK /\ FrameInv
  BY DEF IInv
<1>2. CASE DivideQuads
  <2>1. /\ phase = "quadtree" /\ phase' \in {"quadtree", "ready"}
        /\ scale' \in {scale, Halved(scale)}
        /\ UNCHANGED <<size, y, currentTile, shift, column, screen, garbage, texture>>
    BY <1>2 DEF DivideQuads
  <2>2. scale' \in [1 .. 2 -> Nat]
    <3>1. \A n \in Nat : n \div 2 \in Nat
      OBVIOUS
    <3>2. QED
      BY <1>1, <2>1, <3>1 DEF TypeOK, Halved
  <2>3. TypeOK'
    BY <1>1, <2>1, <2>2 DEF TypeOK, Rows, Height
  <2>4. FrameInv'
    BY <1>1, <2>1 DEF FrameInv
  <2>5. QED
    BY <2>1, <2>3, <2>4, SameColumn DEF Generated
<1>3. CASE Render
  <2>1. /\ phase = "ready" /\ texture' = FrameResult
        /\ UNCHANGED <<phase, size, y, currentTile, shift, column, scale, screen, garbage>>
    BY <1>3 DEF Render
  <2>2. FrameResult \in {"unlocked", "locked", "crash"}
    <3>1. garbage \in {"tile", "null", "outside"}
      BY <1>1 DEF TypeOK
    <3>2. QED
      BY <3>1 DEF FrameResult
  <2>3. TypeOK'
    BY <1>1, <2>1, <2>2 DEF TypeOK, Rows, Height
  <2>4. FrameInv'
    BY <1>3, FrameKept
  <2>5. QED
    BY <2>1, <2>3, <2>4, SameColumn DEF Generated
<1>4. CASE UNCHANGED vars
  <2>1. UNCHANGED <<phase, size, y, currentTile, shift, column, scale, screen, garbage, texture>>
    BY <1>4 DEF vars
  <2>2. TypeOK' /\ FrameInv'
    BY <1>1, <2>1 DEF TypeOK, FrameInv, Rows, Height, Visible, Written
  <2>3. QED
    BY <2>1, <2>2, SameColumn DEF Generated
<1>5. QED
  BY <1>2, <1>3, <1>4

-----------------------------------------------------------------------------
(* Theorems *)

LEMMA IInvHolds == Spec => []IInv
<1>1. Init => IInv
  <2> SUFFICES ASSUME Init PROVE IInv
    OBVIOUS
  <2>1. /\ phase = "start" /\ size \in Sizes /\ y = 0 /\ currentTile = Air /\ shift = 0
        /\ column = [r \in Rows |-> Unset] /\ scale = size /\ screen \in ScreenRows
        /\ garbage \in {"tile", "null", "outside"} /\ texture = "unlocked"
    BY DEF Init
  <2>2. scale \in [1 .. 2 -> Nat]
    BY <2>1, WorldAssumption
  <2>3. y \in 0 .. Height /\ shift \in 0 .. MaxShift /\ currentTile \in 0 .. NumTiles - 1
    BY <2>1, SizeFacts, WorldAssumption DEF Air, NumTiles
  <2>4. TypeOK
    BY <2>1, <2>2, <2>3 DEF TypeOK
  <2>5. StartInv
    BY <2>1 DEF StartInv, Written
  <2>6. QED
    BY <2>1, <2>4, <2>5 DEF IInv, LayersOrdered, UnsetOnlyAtBorders, Generated, FrameInv
<1>2. IInv /\ [Next]_vars => IInv'
  BY TerrainKeepsIInv, LaterKeepsIInv DEF Next
<1>3. QED
  BY <1>1, <1>2, PTL DEF Spec

\* Whatever the noise, the row the next tile is moved to is one of the world.
RowInside == phase = "rows" /\ ~RowsDone => \A s \in Shifts : AdjustedY(s) \in Rows

\* For every world that is high enough for its layers: the types, and every
\* row that a tile is moved to lies in the block (CreateGenerateWorld,
\* world_generator.cpp:215-222).
THEOREM TypeCorrect == Spec => [](TypeOK /\ RowInside)
<1>1. IInv => TypeOK /\ RowInside
  <2> SUFFICES ASSUME IInv PROVE TypeOK /\ RowInside
    OBVIOUS
  <2>1. TypeOK
    BY DEF IInv
  <2>2. y \in Nat /\ Height \in Nat
    BY <2>1, TypeFacts
  <2>3. Shifts \subseteq 0 .. MaxShift
    BY <2>1, TypeFacts DEF Shifts
  <2>4. ASSUME ~RowsDone, NEW s \in Shifts PROVE AdjustedY(s) \in Rows
    <3>1. y < Height /\ s \in 0 .. MaxShift
      BY <2>2, <2>3, <2>4 DEF RowsDone
    <3>2. QED
      BY <2>1, <3>1, AdjustedRow
  <2>5. QED
    BY <2>1, <2>4 DEF RowInside
<1>2. QED
  BY <1>1, IInvHolds, PTL

\* For all layers and whatever the noise: no tile below one of a deeper layer
\* (CreateGenerateWorld, world_generator.cpp:164-228).
THEOREM LayersCorrect == Spec => []LayersOrdered
<1>1. IInv => LayersOrdered
  BY DEF IInv
<1>2. QED
  BY <1>1, IInvHolds, PTL

\* For all layers and whatever the noise: tiles are left out only above the
\* borders of ground layers and at the bottom (world_generator.cpp:206-216).
THEOREM BordersCorrect == Spec => []UnsetOnlyAtBorders
<1>1. IInv => UnsetOnlyAtBorders
  BY DEF IInv
<1>2. QED
  BY <1>1, IInvHolds, PTL

\* For all layers and whatever unwritten bytes hold: a screen above the second
\* layer of ground and the last rows is drawn to the end (Render,
\* world_generator.cpp:316-320, 370).
THEOREM FramesCorrect == Spec => []FramesComplete
<1>1. IInv => FramesComplete
  <2> SUFFICES ASSUME IInv, screen + TILE_SIZE <= Height, texture # "unlocked",
                      \A b \in Ground \cup {Height} : screen + MaxShift <= b
               PROVE  FALSE
    BY DEF FramesComplete
  <2>1. PICK r \in Visible : ~Written(r)
    BY DEF IInv, FrameInv
  <2>2. Generated
    BY DEF IInv, FrameInv, Generated
  <2>3. TypeOK
    BY DEF IInv
  <2>4. r \in Rows /\ r < screen
    BY <2>1 DEF Visible
  <2>5. /\ screen \in Nat /\ r \in Nat /\ Height \in Nat
        /\ TILE_SIZE \in Nat /\ MaxShift \in Nat
    <3>1. screen \in Nat
      BY <2>3, WorldAssumption DEF TypeOK
    <3>2. QED
      BY <2>3, <2>4, <3>1, TypeFacts
  <2>6. \/ \E b \in Ground : r \in b - MaxShift .. b - 1
        \/ r > Height - TILE_SIZE \/ r >= Height - MaxShift
    BY <2>1, <2>2, <2>4 DEF IInv, UnsetOnlyAtBorders, Written
  <2>7. Ground \subseteq Nat
    BY WorldAssumption DEF Ground
  <2>8. QED
    BY <2>4, <2>5, <2>6, <2>7
<1>2. QED
  BY <1>1, IInvHolds, PTL
-----------------------------------------------------------------------------
(* The turns of the generation *)

Generating == phase \in {"rows", "quadtree"}

\* What a generation has left at most: a turn for each row and one to leave
\* the loop, then the sides of a quad and one to leave that loop.
TurnsLeft ==
    (IF phase = "rows" THEN Height - y + 1 ELSE 0)
    + scale[1] + scale[2] + (IF Generating THEN 1 ELSE 0)

\* m is reached from n by halving it some number of times.
HalvedTo(n, m) ==
    \E k \in Nat : \E h \in [0 .. k -> Nat] :
        /\ h[0] = n /\ h[k] = m
        /\ \A j \in 1 .. k : h[j] = h[j - 1] \div 2

\* The loop of CreateGenerateQuadtree goes round without dividing anything.
QuadsStuck ==
    /\ phase = "quadtree"
    /\ scale[1] >= TILE_SIZE \/ scale[2] >= TILE_SIZE
    /\ Halved(scale) = scale

\* The sides come from those of the world.
SidesInv == \A i \in 1 .. 2 : HalvedTo(size[i], scale[i])

LEMMA SideFacts ==
  ASSUME TypeOK
  PROVE  /\ \A i \in 1 .. 2 : scale[i] \in Nat /\ size[i] \in Nat
         /\ scale \in [1 .. 2 -> Nat]
         /\ TILE_SIZE \in Nat \ {0}
<1>1. size \in (Nat \ {0}) \X Nat
  BY WorldAssumption DEF TypeOK
<1>2. scale \in [1 .. 2 -> Nat]
  BY DEF TypeOK
<1>3. \A i \in 1 .. 2 : i = 1 \/ i = 2
  OBVIOUS
<1>4. QED
  BY <1>1, <1>2, <1>3, WorldAssumption

\* A number halved no time is itself, and once more is one time more.
LEMMA HalvedOnce ==
  ASSUME NEW n \in Nat, NEW m \in Nat
  PROVE  /\ HalvedTo(n, n)
         /\ HalvedTo(n, m) => HalvedTo(n, m \div 2)
<1>1. HalvedTo(n, n)
  <2> DEFINE h == [j \in 0 .. 0 |-> n]
  <2>1. h \in [0 .. 0 -> Nat] /\ h[0] = n
    OBVIOUS
  <2>2. \A j \in 1 .. 0 : FALSE
    OBVIOUS
  <2> HIDE DEF h
  <2>3. QED
    BY <2>1, <2>2 DEF HalvedTo
<1>2. ASSUME HalvedTo(n, m) PROVE HalvedTo(n, m \div 2)
  <2>1. PICK k \in Nat : \E h \in [0 .. k -> Nat] :
          h[0] = n /\ h[k] = m /\ \A j \in 1 .. k : h[j] = h[j - 1] \div 2
    BY <1>2 DEF HalvedTo
  <2>2. PICK h \in [0 .. k -> Nat] :
          h[0] = n /\ h[k] = m /\ \A j \in 1 .. k : h[j] = h[j - 1] \div 2
    BY <2>1
  <2> DEFINE g == [j \in 0 .. k + 1 |-> IF j <= k THEN h[j] ELSE m \div 2]
  <2>3. m \div 2 \in Nat
    OBVIOUS
  <2>4. g \in [0 .. k + 1 -> Nat] /\ k + 1 \in Nat
    <3>1. \A j \in 0 .. k + 1 : j <= k => j \in 0 .. k
      OBVIOUS
    <3>2. QED
      BY <2>3, <3>1
  <2>5. g[0] = n /\ g[k] = m /\ g[k + 1] = m \div 2
    <3>1. 0 \in 0 .. k + 1 /\ k \in 0 .. k + 1 /\ k + 1 \in 0 .. k + 1 /\ 0 <= k /\ ~(k + 1 <= k)
      OBVIOUS
    <3>2. QED
      BY <2>2, <3>1
  <2>6. \A j \in 1 .. k + 1 : g[j] = g[j - 1] \div 2
    <3> SUFFICES ASSUME NEW j \in 1 .. k + 1 PROVE g[j] = g[j - 1] \div 2
      OBVIOUS
    <3>1. CASE j = k + 1
      <4>1. j - 1 = k
        BY <3>1
      <4> HIDE DEF g
      <4>2. QED
        BY <2>5, <3>1, <4>1
    <3>2. CASE j # k + 1
      <4>1. j \in 1 .. k /\ j - 1 \in 0 .. k /\ j \in 0 .. k + 1 /\ j - 1 \in 0 .. k + 1
            /\ j <= k /\ j - 1 <= k
        BY <3>2
      <4>2. g[j] = h[j] /\ g[j - 1] = h[j - 1]
        BY <4>1
      <4> HIDE DEF g
      <4>3. QED
        BY <2>2, <4>1, <4>2
    <3>3. QED
      BY <3>1, <3>2
  <2> HIDE DEF g
  <2>7. QED
    BY <2>4, <2>5, <2>6 DEF HalvedTo
<1>3. QED
  BY <1>1, <1>2

LEMMA SidesHold == Spec => []SidesInv
<1>1. Init => SidesInv
  <2> SUFFICES ASSUME Init PROVE SidesInv
    OBVIOUS
  <2>1. size \in (Nat \ {0}) \X Nat /\ scale = size
    BY WorldAssumption DEF Init
  <2>2. \A i \in 1 .. 2 : size[i] \in Nat
    BY <2>1
  <2>3. QED
    BY <2>1, <2>2, HalvedOnce DEF SidesInv
<1>2. TypeOK /\ SidesInv /\ [Next]_vars => SidesInv'
  <2> SUFFICES ASSUME TypeOK, SidesInv, [Next]_vars PROVE SidesInv'
    OBVIOUS
  <2>1. size' = size
    BY DEF Next, SetMap, LoadMap, NewMap, GenerateRow, FinishRows, DivideQuads, Render, vars
  <2>2. CASE scale' = scale
    BY <2>1, <2>2 DEF SidesInv
  <2>3. CASE scale' = Halved(scale)
    <3> SUFFICES ASSUME NEW i \in 1 .. 2 PROVE HalvedTo(size[i], scale'[i])
      BY <2>1 DEF SidesInv
    <3>1. scale'[i] \in {scale[i], scale[i] \div 2}
      BY <2>3 DEF Halved
    <3>2. HalvedTo(size[i], scale[i]) /\ size[i] \in Nat /\ scale[i] \in Nat
      BY SideFacts DEF SidesInv
    <3>3. HalvedTo(size[i], scale[i] \div 2)
      BY <3>2, HalvedOnce
    <3>4. QED
      BY <3>1, <3>2, <3>3
  <2>4. QED
    BY <2>2, <2>3
    DEF Next, SetMap, LoadMap, NewMap, GenerateRow, FinishRows, DivideQuads, Render, vars
<1>3. QED
  BY <1>1, <1>2, TypeCorrect, PTL DEF Spec

\* The division that halves nothing and goes on all the same has a side of
\* exactly one tile, to which halving the world's side leads: no other size
\* keeps CreateGenerateQuadtree from its end (world_generator.cpp:246-265).
THEOREM StuckOnlyAtTile ==
    Spec => [](QuadsStuck => \E i \in 1 .. 2 : HalvedTo(size[i], TILE_SIZE))
<1>1. ASSUME TypeOK, SidesInv, QuadsStuck
      PROVE  \E i \in 1 .. 2 : HalvedTo(size[i], TILE_SIZE)
  <2>1. PICK i \in 1 .. 2 : scale[i] >= TILE_SIZE
    BY <1>1 DEF QuadsStuck
  <2>2. scale[i] \in Nat /\ TILE_SIZE \in Nat \ {0}
    BY <1>1, SideFacts
  <2>3. Halved(scale)[i] = IF scale[i] > TILE_SIZE THEN scale[i] \div 2 ELSE scale[i]
    BY DEF Halved
  <2>4. scale[i] \div 2 < scale[i]
    BY <2>1, <2>2
  <2>5. scale[i] = TILE_SIZE
    BY <1>1, <2>1, <2>2, <2>3, <2>4 DEF QuadsStuck
  <2>6. QED
    BY <1>1, <2>5 DEF SidesInv
<1>2. QED
  BY <1>1, TypeCorrect, SidesHold, PTL

\* No side becomes longer, and one at least shorter unless all is stuck.
LEMMA SidesShorten ==
  ASSUME TypeOK
  PROVE  /\ Halved(scale) \in [1 .. 2 -> Nat]
         /\ \A i \in 1 .. 2 : Halved(scale)[i] <= scale[i]
         /\ Halved(scale) # scale => \E i \in 1 .. 2 : Halved(scale)[i] < scale[i]
<1>1. \A i \in 1 .. 2 : scale[i] \in Nat /\ scale \in [1 .. 2 -> Nat] /\ TILE_SIZE \in Nat \ {0}
  BY SideFacts
<1>2. ASSUME NEW i \in 1 .. 2
      PROVE  /\ Halved(scale)[i] \in Nat /\ Halved(scale)[i] <= scale[i]
             /\ Halved(scale)[i] # scale[i] => Halved(scale)[i] < scale[i]
  <2>1. Halved(scale)[i] = IF scale[i] > TILE_SIZE THEN scale[i] \div 2 ELSE scale[i]
    BY DEF Halved
  <2>2. scale[i] \in Nat /\ TILE_SIZE \in Nat \ {0}
    BY <1>1
  <2>3. scale[i] > TILE_SIZE => scale[i] \div 2 \in Nat /\ scale[i] \div 2 < scale[i]
    BY <2>2
  <2>4. QED
    BY <2>1, <2>2, <2>3
<1>3. Halved(scale) = [i \in 1 .. 2 |-> Halved(scale)[i]]
  BY DEF Halved
<1>4. (\A i \in 1 .. 2 : Halved(scale)[i] = scale[i]) => Halved(scale) = scale
  BY <1>1, <1>3
<1>5. QED
  BY <1>2, <1>3, <1>4

\* Every turn of the two loops of CreateGenerateWorld and
\* CreateGenerateQuadtree leaves fewer to do: whatever the noise is, a
\* generation whose turns go on comes to its end, and that the division may
\* get stuck is all that GenerationEnds has to except.
THEOREM GenerationAdvances ==
    Spec => [][Generating => TurnsLeft \in Nat /\ TurnsLeft' < TurnsLeft]_vars
<1> DEFINE Advances == Generating => TurnsLeft \in Nat /\ TurnsLeft' < TurnsLeft
<1>1. TypeOK /\ TypeOK' /\ [Next]_vars => [Advances]_vars
  <2> SUFFICES ASSUME TypeOK, TypeOK', Next, Generating, vars' # vars
               PROVE  TurnsLeft \in Nat /\ TurnsLeft' < TurnsLeft
    OBVIOUS
  <2>1. /\ scale[1] \in Nat /\ scale[2] \in Nat /\ Height \in Nat /\ y \in 0 .. Height
        /\ scale'[1] \in Nat /\ scale'[2] \in Nat
    <3>1. scale \in [1 .. 2 -> Nat] /\ y \in 0 .. Height
      BY DEF TypeOK
    <3>2. scale' \in [1 .. 2 -> Nat]
      BY DEF TypeOK
    <3>3. 1 \in 1 .. 2 /\ 2 \in 1 .. 2
      OBVIOUS
    <3>4. QED
      BY <3>1, <3>2, <3>3, TypeFacts
  <2>2. TurnsLeft \in Nat
    BY <2>1 DEF TurnsLeft, Generating
  <2>3. CASE GenerateRow
    <3>1. phase = "rows" /\ phase' = "rows" /\ y' = y + 1 /\ Height' = Height /\ scale' = scale
      BY <2>3 DEF GenerateRow, Height
    <3>2. QED
      BY <2>1, <2>2, <3>1 DEF TurnsLeft, Generating
  <2>4. CASE FinishRows
    <3>1. phase = "rows" /\ phase' = "quadtree" /\ scale' = scale
      BY <2>4 DEF FinishRows
    <3>2. QED
      BY <2>1, <2>2, <3>1 DEF TurnsLeft, Generating
  <2>5. CASE DivideQuads
    <3>1. CASE phase' = "ready" /\ scale' = scale
      BY <2>1, <2>2, <2>5, <3>1 DEF DivideQuads, TurnsLeft, Generating
    <3>2. CASE phase' = phase /\ scale' = Halved(scale)
      <4>1. scale' # scale
        BY <2>5, <3>2 DEF DivideQuads, vars
      <4>2. /\ scale'[1] <= scale[1] /\ scale'[2] <= scale[2]
            /\ scale'[1] < scale[1] \/ scale'[2] < scale[2]
        <5>1. \A i \in 1 .. 2 : i = 1 \/ i = 2
          OBVIOUS
        <5>2. 1 \in 1 .. 2 /\ 2 \in 1 .. 2
          OBVIOUS
        <5>3. QED
          BY <3>2, <4>1, <5>1, <5>2, SidesShorten
      <4>3. phase = "quadtree" /\ phase' = "quadtree"
        BY <2>5, <3>2 DEF DivideQuads
      <4>4. QED
        BY <2>1, <2>2, <4>2, <4>3 DEF TurnsLeft, Generating
    <3>3. QED
      BY <2>5, <3>1, <3>2 DEF DivideQuads
  <2>6. QED
    BY <2>3, <2>4, <2>5 DEF Next, SetMap, LoadMap, NewMap, Render, Generating
<1>2. QED
  BY <1>1, TypeCorrect, PTL DEF Spec

-----------------------------------------------------------------------------
(* The file of a world *)

\* A world that a save can find, and what a file is made of.
Worlds == [seed : Seeds, size : Nat, got : Nat]
Parts == {"header", "tile", "unset"} \X Seeds \X Nat

FileTypeOK ==
    /\ up \in BOOLEAN /\ complete \in BOOLEAN /\ bad \in BOOLEAN
    /\ world \in Worlds /\ saved \in Worlds
    /\ file \in {"null", "open", "failed", "dangling"}
    /\ saving \in {"idle", "load", "header", "tiles", "close"}
    /\ stream \in Seq(Parts) /\ disk \in Seq(Parts)

\* What was written to the open stream so far.
Streamed == CASE saving = "header" -> <<>>
              [] saving = "tiles" -> <<Header(world)>>
              [] OTHER -> FileOf(world)

\* An open stream is a save of the present world that has come to some point,
\* and holds a beginning of it: all that was written, unless a write failed.
OpenInv ==
    /\ saved = world /\ ~complete
    /\ saving \notin {"idle", "load"}
    /\ IsPrefix(stream, FileOf(world))
    /\ ~bad => stream = Streamed

\* A file is not open while nothing is saved, there is no handle while a map
\* is loaded, and what was saved last is in the file: all of it once the save
\* was finished, else a beginning.
FileInv ==
    /\ FileTypeOK
    /\ up /\ file = "null" => saving \in {"idle", "load"} /\ stream = <<>> /\ ~bad
    /\ up /\ saving = "load" => file = "null"
    /\ up /\ file = "open" => OpenInv
    /\ SaveIsWhole
    /\ NeverMixed

-----------------------------------------------------------------------------
(* Prefixes *)

LEMMA PrefixByIndex ==
  ASSUME NEW S, NEW s \in Seq(S), NEW t \in Seq(S)
  PROVE  IsPrefix(s, t) <=> Len(s) <= Len(t) /\ \A i \in 1 .. Len(s) : s[i] = t[i]
<1>1. Len(s) \in Nat /\ Len(t) \in Nat
  OBVIOUS
<1>2. SubSeq(s, 1, Len(s)) = s
  BY SubSeqFull
<1>3. ASSUME Len(s) <= Len(t)
      PROVE  SubSeq(t, 1, Len(s)) = s <=> \A i \in 1 .. Len(s) : s[i] = t[i]
  <2>1. /\ SubSeq(t, 1, Len(s)) \in Seq(S)
        /\ Len(SubSeq(t, 1, Len(s))) = Len(s)
        /\ \A i \in 1 .. Len(s) : SubSeq(t, 1, Len(s))[i] = t[i]
    BY <1>1, <1>3
  <2>2. ASSUME \A i \in 1 .. Len(s) : s[i] = t[i]
        PROVE  SubSeq(t, 1, Len(s)) = s
    <3>1. \A i \in 1 .. Len(s) : SubSeq(t, 1, Len(s))[i] = s[i]
      BY <2>1, <2>2
    <3>2. QED
      BY <2>1, <3>1, SeqEqual
  <2>3. QED
    BY <2>1, <2>2
<1>4. QED
  BY <1>1, <1>2, <1>3 DEF IsPrefix

LEMMA PrefixEnds ==
  ASSUME NEW S, NEW s \in Seq(S)
  PROVE  IsPrefix(<<>>, s) /\ IsPrefix(s, s)
<1>1. <<>> \in Seq(S) /\ Len(<<>>) = 0 /\ Len(s) \in Nat
  BY EmptySeq
<1>2. Len(<<>>) <= Len(s) /\ \A i \in 1 .. Len(<<>>) : <<>>[i] = s[i]
  BY <1>1
<1>3. IsPrefix(<<>>, s)
  BY <1>1, <1>2, PrefixByIndex
<1>4. Len(s) <= Len(s) /\ \A i \in 1 .. Len(s) : s[i] = s[i]
  BY <1>1
<1>5. IsPrefix(s, s)
  BY <1>4, PrefixByIndex
<1>6. QED
  BY <1>3, <1>5

LEMMA PrefixOfConcat ==
  ASSUME NEW S, NEW s \in Seq(S), NEW t \in Seq(S), NEW u \in Seq(S), IsPrefix(s, t)
  PROVE  IsPrefix(s, t \o u)
<1>1. /\ t \o u \in Seq(S) /\ Len(t \o u) = Len(t) + Len(u)
      /\ \A i \in 1 .. Len(t) + Len(u) : (t \o u)[i] = IF i <= Len(t) THEN t[i] ELSE u[i - Len(t)]
  BY ConcatProperties
<1>2. Len(s) <= Len(t) /\ \A i \in 1 .. Len(s) : s[i] = t[i]
  BY PrefixByIndex
<1>3. Len(s) \in Nat /\ Len(t) \in Nat /\ Len(u) \in Nat
  OBVIOUS
<1>4. Len(s) <= Len(t \o u) /\ \A i \in 1 .. Len(s) : s[i] = (t \o u)[i]
  BY <1>1, <1>2, <1>3
<1>5. QED
  BY <1>1, <1>4, PrefixByIndex

\* Flushing a part of a beginning of F over a file that is one leaves one;
\* flushing all of F leaves F.
LEMMA FlushKeepsPrefix ==
  ASSUME disk \in Seq(Parts), NEW s \in Seq(Parts), NEW F \in Seq(Parts),
         IsPrefix(disk, F), IsPrefix(s, F), NEW n \in 0 .. Len(s)
  PROVE  /\ Flushed(s, n) \in Seq(Parts)
         /\ IsPrefix(Flushed(s, n), F)
         /\ n = Len(F) => Flushed(s, n) = F
<1> DEFINE a == SubSeq(s, 1, n)
           b == SubSeq(disk, n + 1, Len(disk))
<1>1. Len(s) \in Nat /\ Len(disk) \in Nat /\ Len(F) \in Nat /\ n \in Nat /\ n <= Len(s)
  OBVIOUS
<1>2. /\ Len(disk) <= Len(F) /\ \A i \in 1 .. Len(disk) : disk[i] = F[i]
      /\ Len(s) <= Len(F) /\ \A i \in 1 .. Len(s) : s[i] = F[i]
  BY PrefixByIndex
<1>3. a \in Seq(Parts) /\ Len(a) = n /\ \A i \in 1 .. n : a[i] = s[i]
  <2>1. \A i \in 1 .. n : s[i] \in Parts
    BY <1>1, ElementOfSeq
  <2>2. QED
    BY <1>1, <2>1, SubSeqProperties
<1>4. /\ b \in Seq(Parts)
      /\ Len(b) = IF n < Len(disk) THEN Len(disk) - n ELSE 0
      /\ \A i \in 1 .. Len(b) : b[i] = disk[n + i]
  <2>1. \A i \in n + 1 .. Len(disk) : disk[i] \in Parts
    BY <1>1, ElementOfSeq
  <2>2. /\ b \in Seq(Parts)
        /\ Len(b) = IF n + 1 <= Len(disk) THEN Len(disk) - (n + 1) + 1 ELSE 0
        /\ \A i \in 1 .. Len(disk) - (n + 1) + 1 : b[i] = disk[(n + 1) + i - 1]
    BY <1>1, <2>1, SubSeqProperties
  <2> HIDE DEF b
  <2>3. QED
    BY <1>1, <2>2
<1> HIDE DEF a, b
<1>5. /\ a \o b \in Seq(Parts) /\ Len(a \o b) = Len(a) + Len(b)
      /\ \A i \in 1 .. Len(a) + Len(b) : (a \o b)[i] = IF i <= Len(a) THEN a[i] ELSE b[i - Len(a)]
  BY <1>3, <1>4, ConcatProperties
<1>6. Len(b) \in Nat /\ Len(a) + Len(b) <= Len(F) /\ Len(a) + Len(b) >= n
  BY <1>1, <1>2, <1>3, <1>4
<1>7. ASSUME NEW i \in 1 .. Len(a) + Len(b) PROVE (a \o b)[i] = F[i]
  <2>1. CASE i <= n
    <3>1. i \in 1 .. n /\ i \in 1 .. Len(s)
      BY <1>1, <1>7, <2>1
    <3>2. QED
      BY <1>2, <1>3, <1>5, <1>7, <2>1, <3>1
  <2>2. CASE i > n
    <3>1. i - n \in 1 .. Len(b) /\ i <= Len(disk)
      BY <1>1, <1>3, <1>4, <1>6, <1>7, <2>2
    <3>2. (a \o b)[i] = b[i - n]
      BY <1>1, <1>3, <1>5, <1>7, <2>2
    <3>3. b[i - n] = disk[n + (i - n)]
      BY <1>4, <3>1
    <3>4. n + (i - n) = i /\ i \in 1 .. Len(disk)
      BY <1>1, <1>7, <3>1
    <3>5. QED
      BY <1>2, <3>2, <3>3, <3>4
  <2>3. QED
    BY <1>1, <1>7, <2>1, <2>2
<1>8. IsPrefix(a \o b, F)
  BY <1>5, <1>6, <1>7, PrefixByIndex
<1>9. n = Len(F) => a \o b = F
  <2>1. ASSUME n = Len(F) PROVE Len(a) + Len(b) = Len(F)
    BY <1>1, <1>3, <1>6, <2>1
  <2>2. QED
    BY <1>5, <1>7, <2>1, SeqEqual
<1>10. QED
  BY <1>5, <1>8, <1>9 DEF Flushed, a, b

-----------------------------------------------------------------------------
(* Steps of a save *)

\* The files the program writes.
LEMMA FileOfType ==
  ASSUME NEW w \in Worlds
  PROVE  /\ <<Header(w)>> \in Seq(Parts)
         /\ Tiles(w) \in Seq(Parts)
         /\ FileOf(w) \in Seq(Parts)
<1>1. Header(w) \in Parts
  BY DEF Header, Parts, Worlds
<1>2. \A i \in Nat : Tile(w, i) \in Parts
  BY DEF Tile, Parts, Worlds
<1>3. w.size \in Nat
  BY DEF Worlds
<1>4. <<Header(w)>> \in Seq(Parts)
  BY <1>1
<1>5. Tiles(w) \in Seq(Parts)
  BY <1>2, <1>3 DEF Tiles
<1>6. QED
  BY <1>4, <1>5, ConcatProperties DEF FileOf

LEMMA InitInv ==
  FileInit => FileInv
<1> SUFFICES ASSUME FileInit PROVE FileInv
  OBVIOUS
<1>1. PICK s \in Seeds : world = NoWorld(s)
  BY DEF FileInit
<1>2. world \in Worlds /\ saved = world
  BY <1>1 DEF FileInit, NoWorld, Worlds
<1>3. FileTypeOK
  BY <1>2, EmptySeq DEF FileInit, FileTypeOK
<1>4. NeverMixed
  <2>1. FileOf(saved) \in Seq(Parts) /\ disk = <<>>
    BY <1>2, FileOfType DEF FileInit
  <2>2. QED
    BY <2>1, PrefixEnds DEF NeverMixed
<1>5. QED
  BY <1>3, <1>4 DEF FileInv, SaveIsWhole, FileInit

\* The start and the end of the program, and what a client receives.
LEMMA LifeKeepsInv ==
  ASSUME FileInv,
         \/ StartServer \/ StartClient \/ StartServerWithMap \/ Killed
         \/ ReceiveHeader \/ ReceiveChunk \/ UNCHANGED fileVars
  PROVE  FileInv'
<1>1. FileTypeOK /\ SaveIsWhole /\ NeverMixed
  BY DEF FileInv
<1>2. UNCHANGED <<disk, saved, complete>>
  BY DEF StartServer, StartClient, StartServerWithMap, NewLife, Killed,
         ReceiveHeader, ReceiveChunk, fileVars
<1>3. SaveIsWhole' /\ NeverMixed'
  BY <1>1, <1>2 DEF SaveIsWhole, NeverMixed
<1>4. CASE StartServer \/ StartClient \/ StartServerWithMap
  <2>1. NewLife /\ saving' \in {"idle", "load"}
    BY <1>4 DEF StartServer, StartClient, StartServerWithMap
  <2>2. world' \in Worlds
    <3>1. \A s \in Seeds : GeneratedWorld(s) \in Worlds /\ NoWorld(s) \in Worlds
      BY WorldFileAssumption DEF GeneratedWorld, NoWorld, Worlds
    <3>2. QED
      BY <1>4, <3>1 DEF StartServer, StartClient, StartServerWithMap
  <2>3. <<>> \in Seq(Parts)
    BY EmptySeq
  <2>4. QED
    BY <1>1, <1>2, <1>3, <2>1, <2>2, <2>3 DEF NewLife, FileInv, FileTypeOK
<1>5. CASE Killed
  BY <1>1, <1>2, <1>3, <1>5 DEF Killed, FileInv, FileTypeOK
<1>6. CASE ReceiveHeader \/ ReceiveChunk
  <2>1. /\ up /\ saving = "idle"
        /\ UNCHANGED <<up, file, saving, stream, bad>>
    BY <1>6 DEF ReceiveHeader, ReceiveChunk
  <2>2. world' \in Worlds
    <3>1. world \in Worlds /\ WorldBytes \in Nat
      BY <1>1, WorldFileAssumption DEF FileTypeOK
    <3>2. CASE ReceiveHeader
      BY <3>1, <3>2 DEF ReceiveHeader, Worlds
    <3>3. CASE ReceiveChunk
      <4>1. PICK n \in 1 .. ChunkBytes : world' = [world EXCEPT !.got = @ + n]
        BY <3>3 DEF ReceiveChunk
      <4>2. n \in Nat
        BY <4>1, WorldFileAssumption
      <4>3. QED
        BY <3>1, <4>1, <4>2 DEF Worlds
    <3>4. QED
      BY <1>6, <3>2, <3>3
  <2>3. file # "open"
    BY <2>1 DEF FileInv, OpenInv
  <2>4. QED
    BY <1>1, <1>2, <1>3, <2>1, <2>2, <2>3 DEF FileInv, FileTypeOK
<1>7. CASE UNCHANGED fileVars
  <2>1. UNCHANGED <<up, world, file, saving, stream, bad, disk, saved, complete>>
    BY <1>7 DEF fileVars
  <2>2. QED
    BY <1>1, <1>3, <2>1 DEF FileInv, FileTypeOK, OpenInv, Streamed
<1>8. QED
  BY <1>4, <1>5, <1>6, <1>7

\* Without tryCreate a null handle stays null.
LEMMA LoadKeepsInv ==
  ASSUME FileInv, Deserialise
  PROVE  FileInv'
<1>1. FileTypeOK /\ SaveIsWhole /\ NeverMixed /\ file = "null"
  BY DEF FileInv, Deserialise
<1>2. /\ UNCHANGED <<up, world, file, stream, bad, disk, saved, complete>>
      /\ saving' = "idle"
  BY <1>1 DEF Deserialise, OpenWorldFile
<1>3. SaveIsWhole' /\ NeverMixed'
  BY <1>1, <1>2 DEF SaveIsWhole, NeverMixed
<1>4. QED
  BY <1>1, <1>2, <1>3 DEF FileInv, FileTypeOK

LEMMA OpenKeepsInv ==
  ASSUME FileInv, OpenToSave
  PROVE  FileInv'
<1>1. FileTypeOK /\ SaveIsWhole /\ NeverMixed
  BY DEF FileInv
<1>2. /\ up /\ saving = "idle" /\ saving' = "header"
      /\ UNCHANGED <<up, world, stream, bad>>
      /\ file # "open"
  BY DEF OpenToSave, OpenWorldFile, FileInv, OpenInv
<1>3. \/ file = "null" /\ FilesystemOpen
      \/ file # "null" /\ UNCHANGED <<file, disk>>
  BY DEF OpenToSave, OpenWorldFile
<1>4. ASSUME file' = "open" PROVE FileInv'
  <2>1. disk' = <<>> /\ saved' = world /\ complete' = FALSE
    BY <1>2, <1>3, <1>4 DEF OpenToSave, FilesystemOpen, Truncated
  <2>2. stream = <<>> /\ bad = FALSE
    BY <1>2, <1>3, <1>4 DEF FileInv
  <2>3. FileTypeOK'
    BY <1>1, <1>2, <1>4, <2>1, EmptySeq DEF FileTypeOK
  <2>4. <<>> \in Seq(Parts) /\ FileOf(world) \in Seq(Parts)
    BY <1>1, EmptySeq, FileOfType DEF FileTypeOK
  <2>5. IsPrefix(<<>>, FileOf(world))
    BY <2>4, PrefixEnds
  <2>6. IsPrefix(stream', FileOf(world')) /\ IsPrefix(disk', FileOf(saved'))
    BY <1>2, <2>1, <2>2, <2>5
  <2>7. OpenInv'
    BY <1>2, <2>1, <2>2, <2>6 DEF OpenInv, Streamed
  <2>8. NeverMixed' /\ SaveIsWhole'
    BY <2>1, <2>6 DEF NeverMixed, SaveIsWhole
  <2>9. QED
    BY <1>2, <1>4, <2>3, <2>7, <2>8 DEF FileInv
<1>5. ASSUME file' # "open" PROVE FileInv'
  <2>1. UNCHANGED <<disk, saved, complete>> /\ file' \in {"failed", "dangling"}
    BY <1>1, <1>2, <1>3, <1>5 DEF OpenToSave, FilesystemOpen, FileTypeOK
  <2>2. FileTypeOK'
    BY <1>1, <1>2, <2>1 DEF FileTypeOK
  <2>3. NeverMixed' /\ SaveIsWhole'
    BY <1>1, <2>1 DEF NeverMixed, SaveIsWhole
  <2>4. QED
    BY <1>2, <2>1, <2>2, <2>3 DEF FileInv
<1>6. QED
  BY <1>4, <1>5

\* A write adds the next part of the file to the stream, or fails, or nothing
\* is taken any more.
LEMMA WriteKeepsInv ==
  ASSUME FileInv, up, NEW parts \in Seq(Parts), saving \notin {"idle", "load"},
         saving' \in {"tiles", "close"}, StreamWrite(parts),
         UNCHANGED <<up, world, file, saved, complete>>,
         file = "open" /\ ~bad =>
            stream \o parts = Streamed' /\ IsPrefix(stream \o parts, FileOf(world))
  PROVE  FileInv'
<1>1. FileTypeOK /\ SaveIsWhole /\ NeverMixed
  BY DEF FileInv
<1>2. file # "null"
  BY DEF FileInv
<1>3. ASSUME file = "open", ~bad PROVE FileInv'
  <2>1. /\ saved = world /\ ~complete
        /\ stream \in Seq(Parts) /\ disk \in Seq(Parts)
        /\ IsPrefix(stream, FileOf(world)) /\ IsPrefix(disk, FileOf(world))
    BY <1>1, <1>3 DEF FileInv, OpenInv, FileTypeOK, NeverMixed
  <2>2. stream \o parts \in Seq(Parts) /\ FileOf(world) \in Seq(Parts)
    BY <1>1, <2>1, ConcatProperties, FileOfType DEF FileTypeOK
  <2>3. /\ disk' \in Flushes(stream \o parts)
        /\ \/ stream' = stream \o parts /\ bad' = bad
           \/ stream' = stream /\ bad' = TRUE
    BY <1>3 DEF StreamWrite
  <2>4. PICK n \in 0 .. Len(stream \o parts) : disk' = Flushed(stream \o parts, n)
    BY <2>3 DEF Flushes
  <2>5. disk' \in Seq(Parts) /\ IsPrefix(disk', FileOf(world))
    BY <1>3, <2>1, <2>2, <2>4, FlushKeepsPrefix
  <2>6. FileTypeOK'
    BY <1>1, <2>1, <2>2, <2>3, <2>5 DEF FileTypeOK
  <2>7. OpenInv'
    BY <1>3, <2>1, <2>3 DEF OpenInv
  <2>8. NeverMixed' /\ SaveIsWhole'
    BY <2>1, <2>5 DEF NeverMixed, SaveIsWhole
  <2>9. QED
    BY <1>3, <2>6, <2>7, <2>8 DEF FileInv
<1>4. ASSUME file # "open" \/ bad PROVE FileInv'
  <2>1. UNCHANGED <<stream, bad, disk>>
    BY <1>4 DEF StreamWrite
  <2>2. FileTypeOK'
    BY <1>1, <2>1 DEF FileTypeOK
  <2>3. NeverMixed' /\ SaveIsWhole'
    BY <1>1, <2>1 DEF NeverMixed, SaveIsWhole
  <2>4. file = "open" => OpenInv'
    BY <1>4, <2>1 DEF FileInv, OpenInv
  <2>5. QED
    BY <1>2, <2>2, <2>3, <2>4 DEF FileInv
<1>5. QED
  BY <1>3, <1>4

LEMMA HeaderKeepsInv ==
  ASSUME FileInv, WriteHeader
  PROVE  FileInv'
<1>1. world \in Worlds
  BY DEF FileInv, FileTypeOK
<1>2. /\ <<Header(world)>> \in Seq(Parts) /\ Tiles(world) \in Seq(Parts)
      /\ FileOf(world) \in Seq(Parts)
  BY <1>1, FileOfType
<1>3. CASE Killed
  BY <1>3, LifeKeepsInv
<1>4. CASE ~Killed
  <2>1. /\ up /\ saving = "header" /\ saving' = "tiles"
        /\ StreamWrite(<<Header(world)>>)
        /\ UNCHANGED <<up, world, file, saved, complete>>
    BY <1>4 DEF WriteHeader, Write
  <2>2. ASSUME file = "open", ~bad PROVE stream \o <<Header(world)>> = <<Header(world)>>
    <3>1. stream = <<>>
      BY <2>1, <2>2 DEF FileInv, OpenInv, Streamed
    <3>2. QED
      BY <1>2, <3>1, ConcatEmptySeq
  <2>3. Streamed' = <<Header(world)>>
    BY <2>1 DEF Streamed, Header
  <2>4. IsPrefix(<<Header(world)>>, FileOf(world))
    <3>1. IsPrefix(<<Header(world)>>, <<Header(world)>>)
      BY <1>2, PrefixEnds
    <3>2. QED
      BY <1>2, <3>1, PrefixOfConcat DEF FileOf
  <2>5. file = "open" /\ ~bad =>
            /\ stream \o <<Header(world)>> = Streamed'
            /\ IsPrefix(stream \o <<Header(world)>>, FileOf(world))
    BY <2>2, <2>3, <2>4
  <2>6. QED
    BY <1>2, <2>1, <2>5, WriteKeepsInv
<1>5. QED
  BY <1>3, <1>4

LEMMA TilesKeepInv ==
  ASSUME FileInv, WriteTiles
  PROVE  FileInv'
<1>1. world \in Worlds
  BY DEF FileInv, FileTypeOK
<1>2. /\ <<Header(world)>> \in Seq(Parts) /\ Tiles(world) \in Seq(Parts)
      /\ FileOf(world) \in Seq(Parts)
  BY <1>1, FileOfType
<1>3. CASE Killed
  BY <1>3, LifeKeepsInv
<1>4. CASE ~Killed
  <2>1. /\ up /\ saving = "tiles" /\ saving' = "close"
        /\ StreamWrite(Tiles(world))
        /\ UNCHANGED <<up, world, file, saved, complete>>
    BY <1>4 DEF WriteTiles, Write
  <2>2. ASSUME file = "open", ~bad PROVE stream \o Tiles(world) = FileOf(world)
    BY <2>1, <2>2 DEF FileInv, OpenInv, Streamed, FileOf
  <2>3. Streamed' = FileOf(world)
    BY <2>1 DEF Streamed
  <2>4. IsPrefix(FileOf(world), FileOf(world))
    BY <1>2, PrefixEnds
  <2>5. file = "open" /\ ~bad =>
            /\ stream \o Tiles(world) = Streamed'
            /\ IsPrefix(stream \o Tiles(world), FileOf(world))
    BY <2>2, <2>3, <2>4
  <2>6. QED
    BY <1>2, <2>1, <2>5, WriteKeepsInv
<1>5. QED
  BY <1>3, <1>4

LEMMA CloseKeepsInv ==
  ASSUME FileInv, CloseWorldFile
  PROVE  FileInv'
<1>1. FileTypeOK /\ SaveIsWhole /\ NeverMixed
  BY DEF FileInv
<1>2. CASE Killed
  BY <1>2, LifeKeepsInv
<1>3. CASE ~Killed
  <2>1. /\ up /\ saving = "close" /\ saving' = "idle" /\ file' = "dangling"
        /\ OnClose /\ stream' = <<>> /\ bad' = FALSE
        /\ UNCHANGED <<up, world, saved>>
    BY <1>3 DEF CloseWorldFile
  <2>2. <<>> \in Seq(Parts)
    BY EmptySeq
  <2>3. ASSUME file = "open" PROVE FileInv'
    <3>1. /\ saved = world /\ ~complete /\ (~bad => stream = FileOf(saved))
          /\ IsPrefix(stream, FileOf(saved)) /\ IsPrefix(disk, FileOf(saved))
      BY <1>1, <2>1, <2>3 DEF FileInv, OpenInv, Streamed, NeverMixed
    <3>2. FileOf(saved) \in Seq(Parts) /\ disk \in Seq(Parts) /\ stream \in Seq(Parts)
      BY <1>1, FileOfType DEF FileTypeOK
    <3>3. PICK n \in 0 .. Len(stream) :
            /\ disk' = Flushed(stream, n)
            /\ \/ n = Len(stream) /\ complete' = ~bad
               \/ complete' = complete
      <4>1. Len(stream) \in 0 .. Len(stream)
        BY <3>2
      <4>2. \/ disk' = Flushed(stream, Len(stream)) /\ complete' = ~bad
            \/ disk' \in Flushes(stream) /\ complete' = complete
        BY <2>1, <2>3 DEF OnClose
      <4>3. QED
        BY <4>1, <4>2 DEF Flushes
    <3>4. /\ disk' \in Seq(Parts) /\ IsPrefix(disk', FileOf(saved))
          /\ n = Len(FileOf(saved)) => disk' = FileOf(saved)
      BY <3>1, <3>2, <3>3, FlushKeepsPrefix
    <3>5. NeverMixed' /\ SaveIsWhole'
      <4>1. FileOf(saved)' = FileOf(saved)
        BY <2>1 DEF FileOf, Header, Tiles, Tile
      <4>2. ASSUME complete' PROVE disk' = FileOf(saved)
        <5>1. n = Len(stream) /\ ~bad
          BY <3>1, <3>3, <4>2
        <5>2. QED
          BY <3>1, <3>4, <5>1
      <4>3. QED
        BY <3>4, <4>1, <4>2 DEF NeverMixed, SaveIsWhole
    <3>6. complete' \in BOOLEAN
      BY <1>1, <3>3 DEF FileTypeOK
    <3>7. FileTypeOK'
      BY <1>1, <2>1, <2>2, <3>4, <3>6 DEF FileTypeOK
    <3>8. QED
      BY <2>1, <3>5, <3>7 DEF FileInv
  <2>4. ASSUME file # "open" PROVE FileInv'
    <3>1. disk' = disk /\ complete' = complete
      BY <2>1, <2>4 DEF OnClose
    <3>2. NeverMixed' /\ SaveIsWhole'
      BY <1>1, <2>1, <3>1 DEF NeverMixed, SaveIsWhole
    <3>3. FileTypeOK'
      BY <1>1, <2>1, <2>2, <3>1 DEF FileTypeOK
    <3>4. QED
      BY <2>1, <3>2, <3>3 DEF FileInv
  <2>5. QED
    BY <2>3, <2>4
<1>4. QED
  BY <1>2, <1>3

LEMMA StepKeepsInv ==
  ASSUME FileInv, [FileNext]_fileVars
  PROVE  FileInv'
<1>1. CASE \/ StartServer \/ StartClient \/ StartServerWithMap \/ Kill
           \/ ReceiveHeader \/ ReceiveChunk \/ UNCHANGED fileVars
  BY <1>1, LifeKeepsInv DEF Kill
<1>2. CASE Deserialise
  BY <1>2, LoadKeepsInv
<1>3. CASE OpenToSave
  BY <1>3, OpenKeepsInv
<1>4. CASE WriteHeader
  BY <1>4, HeaderKeepsInv
<1>5. CASE WriteTiles
  BY <1>5, TilesKeepInv
<1>6. CASE CloseWorldFile
  BY <1>6, CloseKeepsInv
<1>7. QED
  BY <1>1, <1>2, <1>3, <1>4, <1>5, <1>6 DEF FileNext

-----------------------------------------------------------------------------
(* Theorems about the file *)

LEMMA FileInvHolds == FileSpec => []FileInv
  BY InitInv, StepKeepsInv, PTL DEF FileSpec

\* For worlds of any size: what a save wrote, if the file was opened for it and
\* no write of it nor the flush of its close failed, stays in the file, whole,
\* whatever the later saves of that life and the next lives do until one of
\* those saves (Serialise, world_save.cpp:37-57).
THEOREM SaveCorrect == FileSpec => []SaveIsWhole
<1>1. FileInv => SaveIsWhole
  BY DEF FileInv
<1>2. QED
  BY <1>1, FileInvHolds, PTL

\* For worlds of any size, wherever a save is cut off and whichever of its
\* writes fail: the file is a beginning of what one save wrote (OpenInternal, filesystem.cpp:42).
THEOREM NeverMixedCorrect == FileSpec => []NeverMixed
<1>1. FileInv => NeverMixed
  BY DEF FileInv
<1>2. QED
  BY <1>1, FileInvHolds, PTL
=============================================================================
