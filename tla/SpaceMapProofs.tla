--------------------------- MODULE SpaceMapProofs ---------------------------
(***************************************************************************)
(* What generation leaves, for maps of any size with any number of layers  *)
(* and walks of any length: closed, sealed layers, furniture on the floor, *)
(* and no walk along a border; and the file a layer is written to is the   *)
(* one file of its size, however the writer is called.                     *)
(***************************************************************************)
EXTENDS SpaceMap, TinyPngOut, Induction, SequenceTheorems

-----------------------------------------------------------------------------
(***************************************************************************)
(* The flat index of a pixel.                                              *)
(***************************************************************************)
LEMMA Product ==
  ASSUME NEW a \in Int, NEW b \in Int, NEW s \in Nat, a <= b
  PROVE  a * s <= b * s
  OBVIOUS

\* A number below N with a digit after it is below N * s.
LEMMA Below ==
  ASSUME NEW N \in Nat, NEW a \in 0 .. N - 1, NEW s \in Nat \ {0}, NEW x \in 0 .. s - 1
  PROVE  a * s + x \in 0 .. N * s - 1
<1>1. a * s \in Int /\ N * s \in Int
  OBVIOUS
<1>2. (a + 1) * s <= N * s
  BY Product
<1>3. (a + 1) * s = a * s + s
  OBVIOUS
<1>4. 0 <= a * s
  OBVIOUS
<1> QED
  BY <1>1, <1>2, <1>3, <1>4

LEMMA Digits ==
  ASSUME NEW a \in Int, NEW b \in Int, NEW s \in Nat \ {0},
         NEW x \in 0 .. s - 1, NEW y \in 0 .. s - 1, a * s + x = b * s + y
  PROVE  a = b /\ x = y
<1>0. a * s \in Int /\ b * s \in Int
  OBVIOUS
<1>1. ~(a < b)
  <2>1. SUFFICES ASSUME a + 1 <= b PROVE FALSE
    OBVIOUS
  <2>2. (a + 1) * s <= b * s
    BY <2>1, Product
  <2>3. (a + 1) * s = a * s + s
    OBVIOUS
  <2> QED
    BY <1>0, <2>2, <2>3
<1>2. ~(b < a)
  <2>1. SUFFICES ASSUME b + 1 <= a PROVE FALSE
    OBVIOUS
  <2>2. (b + 1) * s <= a * s
    BY <2>1, Product
  <2>3. (b + 1) * s = b * s + s
    OBVIOUS
  <2> QED
    BY <1>0, <2>2, <2>3
<1>3. a = b
  BY <1>1, <1>2
<1> QED
  BY <1>0, <1>3

\* The rows of all layers are numbered through.
LEMMA Rows ==
  ASSUME NEW l \in Int, NEW c, c[1] \in Int, c[2] \in Int
  PROVE  GetPixel(l, c) = (l * map_size + c[1]) * map_size + c[2]
<1>1. map_size \in Int
  BY SpaceMapAssumption
<1>2. (l * map_size + c[1]) * map_size = l * map_size * map_size + c[1] * map_size
  BY <1>1
<1> QED
  BY <1>2 DEF GetPixel

LEMMA CellParts ==
  ASSUME NEW c \in MapCells
  PROVE  c[1] \in 0 .. map_size - 1 /\ c[2] \in 0 .. map_size - 1 /\ c = <<c[1], c[2]>>
  BY DEF MapCells

LEMMA PixelIsPixel ==
  ASSUME NEW l \in Layer, NEW c \in MapCells
  PROVE  GetPixel(l, c) \in Pixels
<1>1. map_size \in Nat \ {0} /\ up \in Nat \ {0}
  BY SpaceMapAssumption
<1>2. l * map_size + c[1] \in 0 .. up * map_size - 1
  BY <1>1, Below, CellParts DEF Layer
<1>3. up * map_size \in Nat
  BY <1>1
<1>4. (l * map_size + c[1]) * map_size + c[2] \in 0 .. (up * map_size) * map_size - 1
  BY <1>1, <1>2, <1>3, Below, CellParts
<1> QED
  BY <1>1, <1>4, Rows, CellParts DEF Layer, Pixels

LEMMA PixelsDiffer ==
  ASSUME NEW l \in Layer, NEW c \in MapCells, NEW m \in Layer, NEW d \in MapCells,
         GetPixel(l, c) = GetPixel(m, d)
  PROVE  l = m /\ c = d
<1>1. map_size \in Nat \ {0} /\ l \in Int /\ m \in Int
  BY SpaceMapAssumption DEF Layer
<1>2. c[1] \in 0 .. map_size - 1 /\ c[2] \in 0 .. map_size - 1 /\ d[1] \in 0 .. map_size - 1
      /\ d[2] \in 0 .. map_size - 1
  BY CellParts
<1>3. l * map_size \in Int /\ m * map_size \in Int
  BY <1>1
<1>4. l * map_size + c[1] \in Int /\ m * map_size + d[1] \in Int
  BY <1>1, <1>2, <1>3
<1>5. (l * map_size + c[1]) * map_size + c[2] = (m * map_size + d[1]) * map_size + d[2]
  BY <1>1, <1>2, Rows
<1> DEFINE p == l * map_size + c[1]
           q == m * map_size + d[1]
<1>6. p = q /\ c[2] = d[2]
  <2>1. p \in Int /\ q \in Int /\ p * map_size + c[2] = q * map_size + d[2]
    BY <1>4, <1>5
  <2> HIDE DEF p, q
  <2> QED
    BY <1>1, <1>2, <2>1, Digits
<1>7. l = m /\ c[1] = d[1]
  <2>1. ASSUME NEW x \in 0 .. map_size - 1, NEW y \in 0 .. map_size - 1, l * map_size + x = m * map_size + y
        PROVE  l = m /\ x = y
    BY <1>1, <2>1, Digits
  <2> QED
    BY <1>2, <1>6, <2>1
<1> QED
  BY <1>6, <1>7, CellParts

LEMMA FourDirections ==
  Directions = {<<0, -1>>, <<1, 0>>, <<0, 1>>, <<-1, 0>>}
<1>1. directions[1] = <<0, -1>> /\ directions[2] = <<1, 0>>
      /\ directions[3] = <<0, 1>> /\ directions[4] = <<-1, 0>>
  BY DEF directions
<1>2. \A k : k \in 1 .. 4 <=> k = 1 \/ k = 2 \/ k = 3 \/ k = 4
  OBVIOUS
<1>3. ASSUME NEW d
      PROVE  d \in Directions <=> d \in {directions[1], directions[2], directions[3], directions[4]}
  <2>1. d \in Directions <=> \E k : k \in 1 .. 4 /\ d = directions[k]
    BY DEF Directions
  <2> QED
    BY <1>2, <2>1, Zenon
<1> QED
  BY <1>1, <1>3

\* A cell next to another is one of the neighbours of its pixel.
LEMMA AdjacentPixel ==
  ASSUME NEW l \in Layer, NEW c \in MapCells, NEW d \in Adjacent(c)
  PROVE  d \in MapCells /\ GetPixel(l, d) \in Neighbours(GetPixel(l, c))
<1>1. map_size \in Int /\ l \in Int /\ c[1] \in Int /\ c[2] \in Int
  BY SpaceMapAssumption, CellParts DEF Layer
<1>2. d \in MapCells
  BY DEF Adjacent
<1>3. d \in {<<c[1], c[2] - 1>>, <<c[1] + 1, c[2]>>, <<c[1], c[2] + 1>>, <<c[1] - 1, c[2]>>}
  <2>1. PICK e \in Directions : d = <<c[1] + e[1], c[2] + e[2]>>
    BY DEF Adjacent, Plus
  <2> QED
    BY <1>1, <2>1, FourDirections
<1> DEFINE base == l * map_size * map_size
           row == c[1] * map_size
           pixel == base + row + c[2]
<1>4. base \in Int /\ row \in Int
  BY <1>1
<1>5. (c[1] + 1) * map_size = row + map_size /\ (c[1] - 1) * map_size = row - map_size
  BY <1>1
<1>6. GetPixel(l, c) = pixel
  BY DEF GetPixel
<1>7. GetPixel(l, d) = base + d[1] * map_size + d[2]
  BY DEF GetPixel
<1> HIDE DEF base, row
<1>8. CASE d = <<c[1], c[2] - 1>> \/ d = <<c[1], c[2] + 1>>
  <2>1. d[1] * map_size = row
    BY <1>8 DEF row
  <2> QED
    BY <1>1, <1>2, <1>4, <1>6, <1>7, <1>8, <2>1 DEF Neighbours
<1>9. CASE d = <<c[1] + 1, c[2]>>
  <2>1. d[1] * map_size = row + map_size /\ d[2] = c[2]
    BY <1>5, <1>9
  <2> QED
    BY <1>1, <1>2, <1>4, <1>6, <1>7, <2>1 DEF Neighbours
<1>10. CASE d = <<c[1] - 1, c[2]>>
  <2>1. d[1] * map_size = row - map_size /\ d[2] = c[2]
    BY <1>5, <1>10
  <2> QED
    BY <1>1, <1>2, <1>4, <1>6, <1>7, <2>1 DEF Neighbours
<1> QED
  BY <1>3, <1>8, <1>9, <1>10

-----------------------------------------------------------------------------
(***************************************************************************)
(* The steps of the walk.                                                  *)
(***************************************************************************)
LEMMA Interior ==
  ASSUME NEW x \in Int, NEW y \in Int, ~InBorder(<<x, y>>)
  PROVE  <<x, y>> \in MapCells
  BY SpaceMapAssumption DEF InBorder, MapCells

LEMMA InBorderOrInside ==
  ASSUME NEW c \in MapCells
  PROVE  InBorder(c) <=> c \in Edge
  BY SpaceMapAssumption, CellParts DEF InBorder, Edge, MapCells

LEMMA MiddleInside == Middle \in MapCells /\ ~InBorder(Middle)
  BY SpaceMapAssumption DEF Middle, MapCells, InBorder

LEMMA OneStep ==
  ASSUME NEW c \in MapCells, NEW d \in Directions
  PROVE  /\ Plus(c, d) = <<c[1] + d[1], c[2] + d[2]>>
         /\ d[1] \in Int /\ d[2] \in Int
         /\ \/ d[1] = 0 /\ d[2] \in {-1, 1}
            \/ d[2] = 0 /\ d[1] \in {-1, 1}
  BY FourDirections DEF Plus

\* A step from the inside stays in the layer, and looks out of it from its border.
LEMMA FromInside ==
  ASSUME NEW c \in MapCells, NEW d \in Directions, ~InBorder(c)
  PROVE  /\ Plus(c, d) \in MapCells
         /\ InBorder(Plus(c, d)) => /\ Plus(Plus(c, d), d) \notin MapCells
                                    /\ ~InBorder(Plus(Plus(c, d), ReverseDirection(d)))
<1>1. map_size \in Int /\ map_size >= 4 /\ c[1] \in 1 .. map_size - 2 /\ c[2] \in 1 .. map_size - 2
  BY SpaceMapAssumption, CellParts DEF InBorder
<1>2. Plus(c, d) \in MapCells
  BY <1>1, OneStep DEF MapCells
<1>3. Plus(Plus(c, d), ReverseDirection(d)) = <<c[1], c[2]>>
  BY <1>1, OneStep DEF Plus, ReverseDirection
<1>4. ASSUME InBorder(Plus(c, d)) PROVE Plus(Plus(c, d), d) \notin MapCells
  <2>1. Plus(Plus(c, d), d) = <<c[1] + d[1] + d[1], c[2] + d[2] + d[2]>>
    BY OneStep DEF Plus
  <2>2. \/ c[1] + d[1] < 1 \/ c[2] + d[2] < 1 \/ c[1] + d[1] > map_size - 2 \/ c[2] + d[2] > map_size - 2
    BY <1>4, OneStep DEF InBorder
  <2> QED
    BY <1>1, <2>1, <2>2, OneStep DEF MapCells
<1> QED
  BY <1>1, <1>2, <1>3, <1>4 DEF InBorder

LEMMA TurnedAround ==
  ASSUME NEW d \in Directions
  PROVE  ReverseDirection(d) \in Directions
  BY FourDirections DEF ReverseDirection

LEMMA Turned ==
  ASSUME NEW d \in Directions
  PROVE  ShiftDirection(d) \in Directions
<1>1. PICK k \in 1 .. 4 : directions[k] = d
  BY DEF Directions
<1> DEFINE j == CHOOSE n \in 1 .. 4 : directions[n] = d
<1>2. j \in 1 .. 4
  BY <1>1
<1>3. ShiftDirection(d) = directions[(j % 4) + 1]
  BY DEF ShiftDirection
<1> HIDE DEF j
<1>4. j = 1 \/ j = 2 \/ j = 3 \/ j = 4
  BY <1>2
<1>5. (j % 4) + 1 \in 1 .. 4
  BY <1>4
<1> QED
  BY <1>3, <1>5 DEF Directions

\* Rooms lie inside the border.
LEMMA RoomInside ==
  ASSUME NEW half \in RoomHalves, coords \in MapCells, walkDirection \in Directions,
         NEW c \in Room(half)
  PROVE  c \in MapCells /\ ~InBorder(c)
<1>1. PICK x \in -half .. half - 1, y \in -half .. half - 1 :
        c = <<Clamp(Ahead[1] + x), Clamp(Ahead[2] + y)>>
  BY DEF Room
<1>2. half \in Int /\ map_size \in Int /\ map_size >= 4 /\ Ahead[1] \in Int /\ Ahead[2] \in Int
  BY SpaceMapAssumption, CellParts, OneStep DEF Ahead
<1>3. \A n \in Int : Clamp(n) \in 1 .. map_size - 2
  BY <1>2 DEF Clamp
<1>4. Clamp(Ahead[1] + x) \in 1 .. map_size - 2 /\ Clamp(Ahead[2] + y) \in 1 .. map_size - 2
  BY <1>2, <1>3
<1> QED
  BY <1>1, <1>2, <1>4 DEF MapCells, InBorder

-----------------------------------------------------------------------------
(***************************************************************************)
(* The invariant.                                                          *)
(***************************************************************************)
\* A walk on the border has either just come there and is about to be turned
\* back inside, or has been turned back.
Steers ==
  phase = "walk" /\ InBorder(coords) =>
    \/ /\ i = 0 /\ Ahead \notin MapCells
       /\ ~InBorder(Plus(coords, ReverseDirection(walkDirection)))
    \/ i >= 1 /\ ~InBorder(Ahead)

Untouched == phase = "walk" => \A n \in Pixels : rgb[n] \in {0, 50}

\* Sealed, from generation step 2 on.
SealedSoFar ==
  phase \in {"path", "clean"} =>
    \A l \in Layer : \A c \in MapCells : \A d \in Adjacent(c) :
      rgb[GetPixel(l, c)] = 10 => rgb[GetPixel(l, d)] # 0

\* Generation step 3 has closed the layers before this one.
ClosedSoFar ==
  \A l \in Layer, c \in MapCells :
    InBorder(c) /\ (phase = "done" \/ (phase = "clean" /\ l < layer)) => Wall(l, c)

\* Furniture stands inside, on cells that were walked on.
OnFloor ==
  \A l \in Layer : \A c \in furniture_positions[l] :
    /\ ~InBorder(c) /\ ~Wall(l, c)
    /\ phase \in {"walk", "path"} => rgb[GetPixel(l, c)] \in {10, 50}

MapInv == MapTypeOK /\ Steers /\ Untouched /\ SealedSoFar /\ ClosedSoFar /\ OnFloor

LEMMA InitMapInv == SpaceInit => MapInv
<1> SUFFICES ASSUME SpaceInit PROVE MapInv
  OBVIOUS
<1>1. MapTypeOK
  <2>1. layer \in Layer /\ i \in Nat /\ step \in Int /\ room_step \in Int
    BY SpaceMapAssumption DEF SpaceInit, Layer
  <2>2. rgb \in [Pixels -> {0, 10, 50, 255}]
    BY DEF SpaceInit
  <2> QED
    BY <2>1, <2>2, MiddleInside DEF SpaceInit, MapTypeOK
<1>2. Steers
  BY MiddleInside DEF SpaceInit, Steers
<1>3. Untouched /\ SealedSoFar /\ ClosedSoFar /\ OnFloor
  BY DEF SpaceInit, Untouched, SealedSoFar, ClosedSoFar, OnFloor
<1> QED
  BY <1>1, <1>2, <1>3 DEF MapInv

\* The next layer, or the next phase from the first layer on.
LEMMA LayerAfter ==
  ASSUME layer \in Layer, NEW next, NextLayerOr(next)
  PROVE  /\ layer' \in Layer /\ phase' \in {phase, next}
         /\ phase' = phase /\ phase # next => layer' = layer + 1
         /\ phase' # phase => layer + 1 = up /\ layer' = 0
  BY SpaceMapAssumption DEF NextLayerOr, Layer

\* The cell ahead of the last step is one of the layer.
LEMMA AheadOfLastStep ==
  ASSUME MapInv, LastStep
  PROVE  /\ Ahead \in MapCells
         /\ InBorder(Ahead) => /\ Plus(Ahead, walkDirection) \notin MapCells
                               /\ ~InBorder(Plus(Ahead, ReverseDirection(walkDirection)))
<1>1. coords \in MapCells /\ walkDirection \in Directions /\ phase = "walk"
  BY DEF MapInv, MapTypeOK, LastStep
<1>2. CASE ~InBorder(coords)
  BY <1>1, <1>2, FromInside DEF Ahead
<1>3. CASE InBorder(coords)
  <2>1. i # 0
    BY SpaceMapAssumption DEF MapInv, MapTypeOK, LastStep
  <2>2. ~InBorder(Ahead)
    BY <1>1, <1>3, <2>1 DEF MapInv, Steers
  <2>3. Ahead \in MapCells
    BY <1>1, <2>2, Interior, OneStep, CellParts DEF Ahead
  <2> QED
    BY <2>2, <2>3
<1> QED
  BY <1>2, <1>3

LEMMA WalkedColours ==
  ASSUME MapTypeOK, NEW cs
  PROVE  /\ Walked(cs) \in [Pixels -> {0, 10, 50, 255}]
         /\ \A n \in Pixels : Walked(cs)[n] = rgb[n] \/ Walked(cs)[n] = 50
         /\ \A c \in cs : GetPixel(layer, c) \in Pixels => Walked(cs)[GetPixel(layer, c)] = 50
<1> DEFINE ns == {GetPixel(layer, c) : c \in cs}
<1>1. Walked(cs) = [n \in Pixels |-> IF n \in ns THEN 50 ELSE rgb[n]]
  BY DEF Walked
<1>2. \A c \in cs : GetPixel(layer, c) \in ns
  OBVIOUS
<1> HIDE DEF ns
<1> QED
  BY <1>1, <1>2 DEF MapTypeOK

LEMMA LastStepKeeps == MapInv /\ LastStep => MapInv'
<1> SUFFICES ASSUME MapInv, LastStep PROVE MapInv'
  OBVIOUS
<1> USE DEF MapInv
<1>1. /\ Ahead \in MapCells
      /\ InBorder(Ahead) => /\ Plus(Ahead, walkDirection) \notin MapCells
                            /\ ~InBorder(Plus(Ahead, ReverseDirection(walkDirection)))
  BY AheadOfLastStep
<1>2. /\ layer' \in Layer /\ phase = "walk" /\ phase' \in {"walk", "path"}
      /\ coords' = Ahead /\ walkDirection' = walkDirection /\ furniture_positions' = furniture_positions
      /\ i' \in Nat /\ maximum' \in WalkLengths /\ step' \in Int /\ room_step' \in Int
      /\ phase' = "walk" => i' = 0
  BY SpaceMapAssumption DEF LastStep, StartLayer, MapTypeOK, Layer
<1>3. /\ rgb' \in [Pixels -> {0, 10, 50, 255}]
      /\ \A n \in Pixels : rgb'[n] = rgb[n] \/ rgb'[n] = 50
  <2>1. /\ Walked({Ahead}) \in [Pixels -> {0, 10, 50, 255}]
        /\ \A n \in Pixels : Walked({Ahead})[n] = rgb[n] \/ Walked({Ahead})[n] = 50
    BY WalkedColours
  <2>2. \/ rgb' = Walked({Ahead})
        \/ rgb' = [Walked({Ahead}) EXCEPT ![GetPixel(layer + 1, Ahead)] = 50]
    BY DEF LastStep
  <2> QED
    BY <2>1, <2>2
<1>4. MapTypeOK'
  <2>1. out_positions' \in Seq(MapCells)
    BY <1>1 DEF LastStep, MapTypeOK
  <2>2. stray' \in BOOLEAN
    BY Zenon DEF LastStep, MapTypeOK
  <2> QED
    BY <1>1, <1>2, <1>3, <2>1, <2>2 DEF MapTypeOK
<1>5. Steers'
  BY <1>1, <1>2 DEF Steers, Ahead
<1>6. Untouched' /\ SealedSoFar'
  <2>1. \A n \in Pixels : rgb'[n] \in {0, 50}
    BY <1>2, <1>3 DEF Untouched
  <2> QED
    BY <2>1, PixelIsPixel DEF Untouched, SealedSoFar
<1>7. ClosedSoFar'
  BY <1>2 DEF ClosedSoFar
<1>8. OnFloor'
  BY <1>2, <1>3, PixelIsPixel DEF OnFloor, Wall, MapTypeOK
<1> QED
  BY <1>4, <1>5, <1>6, <1>7, <1>8

LEMMA BounceKeeps == MapInv /\ Bounce => MapInv'
<1> SUFFICES ASSUME MapInv, Bounce PROVE MapInv'
  OBVIOUS
<1> USE DEF MapInv
<1>1. /\ phase = "walk" /\ phase' = phase /\ coords \in MapCells /\ coords' = coords
      /\ walkDirection \in Directions /\ walkDirection' = ReverseDirection(walkDirection)
      /\ i \in Nat /\ i' = i + 1 /\ InBorder(Ahead)
  BY DEF Bounce, MapTypeOK
<1>2. MapTypeOK'
  BY <1>1, TurnedAround DEF Bounce, MapTypeOK
<1>3. Steers'
  <2>1. i' >= 1
    BY <1>1
  <2>2. InBorder(coords) => ~InBorder(Ahead')
    BY <1>1 DEF Steers, Ahead
  <2> QED
    BY <1>1, <2>1, <2>2 DEF Steers
<1>4. Untouched' /\ SealedSoFar' /\ ClosedSoFar' /\ OnFloor'
  BY DEF Bounce, Untouched, SealedSoFar, ClosedSoFar, OnFloor, Wall
<1> QED
  BY <1>2, <1>3, <1>4

LEMMA CarveKeeps == MapInv /\ Carve => MapInv'
<1> SUFFICES ASSUME MapInv, Carve PROVE MapInv'
  OBVIOUS
<1> USE DEF MapInv
<1>1. /\ phase = "walk" /\ phase' = phase /\ layer' = layer /\ layer \in Layer
      /\ coords \in MapCells /\ coords' = Ahead /\ walkDirection \in Directions /\ ~InBorder(Ahead)
  BY DEF Carve, MapTypeOK
<1>2. Ahead \in MapCells
  BY <1>1, Interior, OneStep, CellParts DEF Ahead
<1>3. walkDirection' \in Directions /\ step' \in Int
  <2>1. PICK turned \in {walkDirection, ShiftDirection(walkDirection)} :
          IF step - 1 <= 0
            THEN walkDirection' \in NewDirections(turned) /\ step' \in TurnGaps
            ELSE walkDirection' = turned /\ step' = step - 1
    BY DEF Carve
  <2>2. turned \in Directions
    BY <1>1, Turned
  <2>3. step \in Int /\ TurnGaps \subseteq Nat
    BY SpaceMapAssumption DEF MapTypeOK
  <2>4. CASE step - 1 <= 0
    <3>1. walkDirection' \in NewDirections(turned) /\ step' \in TurnGaps
      BY <2>1, <2>4, Zenon
    <3> QED
      BY <2>3, <3>1 DEF NewDirections
  <2>5. CASE ~(step - 1 <= 0)
    BY <2>1, <2>2, <2>3, <2>5
  <2> QED
    BY <2>4, <2>5
<1>4. PICK cs :
        /\ rgb' = Walked(cs)
        /\ \A c \in cs : c \in MapCells /\ ~InBorder(c)
        /\ furniture_positions' \in [Layer -> SUBSET MapCells]
        /\ \A l \in Layer : \A c \in furniture_positions'[l] :
             c \in furniture_positions[l] \/ (l = layer /\ c \in cs)
        /\ room_step' \in Int
  <2>1. CASE room_step - 1 <= 0
    <3>1. PICK half \in RoomHalves, gap \in RoomGaps :
            /\ rgb' = Walked(Room(half)) /\ room_step' = gap
            /\ \E fs \in {s \in SUBSET Room(half) : Cardinality(s) <= MaxFurniture} :
                 furniture_positions' = [furniture_positions EXCEPT ![layer] = @ \union fs]
      BY <2>1 DEF Carve
    <3>2. PICK fs \in SUBSET Room(half) :
            furniture_positions' = [furniture_positions EXCEPT ![layer] = @ \union fs]
      BY <3>1
    <3>3. \A c \in Room(half) : c \in MapCells /\ ~InBorder(c)
      BY <1>1, RoomInside
    <3>4. room_step' \in Int
      BY <3>1, SpaceMapAssumption
    <3>5. /\ furniture_positions' \in [Layer -> SUBSET MapCells]
          /\ \A l \in Layer : \A c \in furniture_positions'[l] :
               c \in furniture_positions[l] \/ (l = layer /\ c \in Room(half))
      BY <1>1, <3>2, <3>3 DEF MapTypeOK
    <3> QED
      BY <3>1, <3>3, <3>4, <3>5, Zenon
  <2>2. CASE ~(room_step - 1 <= 0)
    <3>1. /\ rgb' = Walked({Ahead}) /\ room_step' = room_step - 1
          /\ furniture_positions' = furniture_positions
      BY <2>2 DEF Carve
    <3>2. \A c \in {Ahead} : c \in MapCells /\ ~InBorder(c)
      BY <1>1, <1>2
    <3>3. room_step' \in Int /\ furniture_positions' \in [Layer -> SUBSET MapCells]
      BY <3>1 DEF MapTypeOK
    <3>4. \A l \in Layer : \A c \in furniture_positions'[l] :
            c \in furniture_positions[l] \/ (l = layer /\ c \in {Ahead})
      BY <3>1, Zenon
    <3> WITNESS {Ahead}
    <3> QED
      BY <3>1, <3>2, <3>3, <3>4, Zenon
  <2> QED
    BY <2>1, <2>2
<1>5. /\ rgb' \in [Pixels -> {0, 10, 50, 255}]
      /\ \A n \in Pixels : rgb'[n] = rgb[n] \/ rgb'[n] = 50
      /\ \A c \in cs : rgb'[GetPixel(layer, c)] = 50
  BY <1>1, <1>4, WalkedColours, PixelIsPixel
<1>6. MapTypeOK'
  BY <1>1, <1>2, <1>3, <1>4, <1>5 DEF Carve, MapTypeOK
<1>7. Steers' /\ SealedSoFar' /\ ClosedSoFar'
  BY <1>1 DEF Steers, SealedSoFar, ClosedSoFar
<1>8. Untouched'
  BY <1>1, <1>5 DEF Untouched
<1>9. OnFloor'
  <2> SUFFICES ASSUME NEW l \in Layer, NEW c \in furniture_positions'[l]
               PROVE  ~InBorder(c) /\ rgb'[GetPixel(l, c)] \in {10, 50}
    BY DEF OnFloor, Wall
  <2>1. CASE c \in furniture_positions[l]
    <3>1. ~InBorder(c) /\ rgb[GetPixel(l, c)] \in {10, 50}
      BY <1>1, <2>1 DEF OnFloor
    <3>2. GetPixel(l, c) \in Pixels
      BY <2>1, PixelIsPixel DEF MapTypeOK
    <3> QED
      BY <1>5, <3>1, <3>2
  <2>2. CASE c \notin furniture_positions[l]
    <3>1. l = layer /\ c \in cs
      BY <1>4, <2>2
    <3> QED
      BY <1>4, <1>5, <3>1
  <2> QED
    BY <2>1, <2>2
<1> QED
  BY <1>6, <1>7, <1>8, <1>9

LEMMA PathingKeeps == MapInv /\ Pathing => MapInv'
<1> SUFFICES ASSUME MapInv, Pathing PROVE MapInv'
  OBVIOUS
<1> USE DEF MapInv
<1> DEFINE path == {n \in LayerPixels(layer) : rgb[n] = 50}
<1>1. /\ phase = "path" /\ layer' \in Layer /\ phase' \in {"path", "clean"}
      /\ phase' = "clean" => layer' = 0
      /\ furniture_positions' = furniture_positions
  BY LayerAfter DEF Pathing, MapTypeOK
<1>2. rgb' = [n \in Pixels |-> IF n \in path THEN 10
                             ELSE IF rgb[n] = 0 /\ \E m \in path : n \in Neighbours(m) THEN 255
                             ELSE rgb[n]]
  BY DEF Pathing
<1>3. \A n \in path : rgb[n] = 50
  OBVIOUS
<1> HIDE DEF path
<1>4. rgb' \in [Pixels -> {0, 10, 50, 255}]
  BY <1>2 DEF MapTypeOK
<1>5. \A n \in Pixels : /\ rgb[n] # 0 => rgb'[n] \in {10, rgb[n]}
                        /\ rgb'[n] = 10 => rgb[n] = 10 \/ n \in path
                        /\ (\E m \in path : n \in Neighbours(m)) => rgb'[n] # 0
  BY <1>2
<1>6. MapTypeOK'
  <2>1. stray' \in BOOLEAN
    BY Zenon DEF Pathing, MapTypeOK
  <2> QED
    BY <1>1, <1>4, <2>1 DEF Pathing, MapTypeOK, walkerVars
<1>7. SealedSoFar'
  <2> SUFFICES ASSUME NEW l \in Layer, NEW c \in MapCells, NEW d \in Adjacent(c),
                      rgb'[GetPixel(l, c)] = 10
               PROVE  rgb'[GetPixel(l, d)] # 0
    BY DEF SealedSoFar
  <2>1. /\ GetPixel(l, c) \in Pixels /\ GetPixel(l, d) \in Pixels
        /\ GetPixel(l, d) \in Neighbours(GetPixel(l, c))
    BY PixelIsPixel, AdjacentPixel
  <2>2. CASE rgb[GetPixel(l, c)] = 10
    <3>1. rgb[GetPixel(l, d)] # 0
      BY <1>1, <2>2 DEF SealedSoFar
    <3> QED
      BY <1>5, <2>1, <3>1
  <2>3. CASE GetPixel(l, c) \in path
    BY <1>5, <2>1, <2>3
  <2> QED
    BY <1>5, <2>1, <2>2, <2>3
<1>8. Steers' /\ Untouched' /\ ClosedSoFar'
  BY <1>1 DEF Steers, Untouched, ClosedSoFar, Layer
<1>9. OnFloor'
  <2> SUFFICES ASSUME NEW l \in Layer, NEW c \in furniture_positions[l]
               PROVE  ~InBorder(c) /\ rgb'[GetPixel(l, c)] \in {10, 50}
    BY <1>1 DEF OnFloor, Wall
  <2>1. ~InBorder(c) /\ rgb[GetPixel(l, c)] \in {10, 50}
    BY <1>1 DEF OnFloor
  <2>2. GetPixel(l, c) \in Pixels
    BY PixelIsPixel DEF MapTypeOK
  <2> QED
    BY <1>5, <2>1, <2>2
<1> QED
  BY <1>6, <1>7, <1>8, <1>9

LEMMA CleaningKeeps == MapInv /\ Cleaning => MapInv'
<1> SUFFICES ASSUME MapInv, Cleaning PROVE MapInv'
  OBVIOUS
<1> USE DEF MapInv
<1> DEFINE edge == {GetPixel(layer, c) : c \in Edge}
<1>1. /\ phase = "clean" /\ layer \in Layer /\ layer' \in Layer /\ phase' \in {"clean", "done"}
      /\ phase' = "clean" => layer' = layer + 1
      /\ phase' = "done" => layer + 1 = up
      /\ furniture_positions' = furniture_positions
  BY LayerAfter DEF Cleaning, MapTypeOK
<1>2. rgb' = [n \in Pixels |-> IF n \in edge THEN 255
                             ELSE IF n \in LayerPixels(layer) /\ rgb[n] = 10 THEN 0
                             ELSE rgb[n]]
  BY DEF Cleaning
<1>3. ASSUME NEW l \in Layer, NEW c \in MapCells
      PROVE  /\ GetPixel(l, c) \in edge <=> l = layer /\ InBorder(c)
             /\ GetPixel(l, c) \in LayerPixels(layer) <=> l = layer
  <2>1. c \in Edge <=> InBorder(c)
    BY InBorderOrInside
  <2>2. ASSUME NEW d \in MapCells, GetPixel(l, c) = GetPixel(layer, d)
        PROVE  l = layer /\ c = d
    BY <1>1, <2>2, PixelsDiffer
  <2>3. Edge \subseteq MapCells
    BY DEF Edge
  <2> QED
    BY <2>1, <2>2, <2>3 DEF LayerPixels
<1> HIDE DEF edge
<1>4. MapTypeOK'
  <2>1. rgb' \in [Pixels -> {0, 10, 50, 255}]
    BY <1>2 DEF MapTypeOK
  <2> QED
    BY <1>1, <2>1 DEF Cleaning, MapTypeOK, walkerVars
<1>5. ASSUME NEW l \in Layer, NEW c \in MapCells
      PROVE  rgb'[GetPixel(l, c)] =
               IF l = layer /\ InBorder(c) THEN 255
               ELSE IF l = layer /\ rgb[GetPixel(l, c)] = 10 THEN 0
               ELSE rgb[GetPixel(l, c)]
  BY <1>2, <1>3, PixelIsPixel
<1>6. SealedSoFar'
  <2> SUFFICES ASSUME NEW l \in Layer, NEW c \in MapCells, NEW d \in Adjacent(c),
                      rgb'[GetPixel(l, c)] = 10
               PROVE  rgb'[GetPixel(l, d)] # 0
    BY DEF SealedSoFar
  <2>1. l # layer /\ rgb[GetPixel(l, c)] = 10
    BY <1>5
  <2>2. rgb[GetPixel(l, d)] # 0 /\ d \in MapCells
    BY <1>1, <2>1 DEF SealedSoFar, Adjacent
  <2> QED
    BY <1>5, <2>1, <2>2
<1>7. ClosedSoFar'
  <2> SUFFICES ASSUME NEW l \in Layer, NEW c \in MapCells, InBorder(c), l <= layer
               PROVE  rgb'[GetPixel(l, c)] = 255
    BY <1>1 DEF ClosedSoFar, Wall, Layer
  <2>1. l # layer => rgb[GetPixel(l, c)] = 255
    BY <1>1 DEF ClosedSoFar, Wall, Layer
  <2> QED
    BY <1>5, <2>1
<1>8. Steers' /\ Untouched'
  BY <1>1 DEF Steers, Untouched
<1>9. OnFloor'
  <2> SUFFICES ASSUME NEW l \in Layer, NEW c \in furniture_positions[l]
               PROVE  ~InBorder(c) /\ rgb'[GetPixel(l, c)] # 255
    BY <1>1 DEF OnFloor, Wall
  <2>1. c \in MapCells /\ ~InBorder(c) /\ rgb[GetPixel(l, c)] # 255
    BY DEF OnFloor, Wall, MapTypeOK
  <2> QED
    BY <1>5, <2>1
<1> QED
  BY <1>4, <1>6, <1>7, <1>8, <1>9

\* Every step of generation keeps the invariant.
THEOREM MapInvariant == SpaceSpec => []MapInv
<1>1. MapInv /\ [SpaceNext]_spaceVars => MapInv'
  <2> SUFFICES ASSUME MapInv, [SpaceNext]_spaceVars PROVE MapInv'
    OBVIOUS
  <2>1. CASE UNCHANGED spaceVars
    BY <2>1 DEF spaceVars, walkerVars, MapInv, MapTypeOK, Steers, Untouched, SealedSoFar, ClosedSoFar,
                OnFloor, Wall, Ahead
  <2> QED
    BY <2>1, LastStepKeeps, BounceKeeps, CarveKeeps, PathingKeeps, CleaningKeeps DEF SpaceNext
<1> QED
  BY <1>1, InitMapInv, PTL DEF SpaceSpec

-----------------------------------------------------------------------------
\* The walk never leaves the layers' cells, and furniture is put down in them.
THEOREM MapTypeCorrect == SpaceSpec => []MapTypeOK
<1>1. MapInv => MapTypeOK
  BY DEF MapInv
<1> QED
  BY <1>1, MapInvariant, PTL

\* NeverAlongTheBorder: a walk that starts on the border where the last layer's
\* ended (spacemap.cpp) looks straight in or straight out of the layer.
THEOREM WalkCorrect == SpaceSpec => []NeverAlongTheBorder
<1>1. MapInv => NeverAlongTheBorder
  BY DEF MapInv, Steers, NeverAlongTheBorder, Ahead
<1> QED
  BY <1>1, MapInvariant, PTL

\* Sealed: generation step 2 leaves no hole beside a cell walked on.
THEOREM SealCorrect == SpaceSpec => []Sealed
<1>1. MapInv => Sealed
  BY DEF MapInv, SealedSoFar, Sealed
<1> QED
  BY <1>1, MapInvariant, PTL

\* BorderIsWall: generation step 3 closes every layer.
THEOREM BorderCorrect == SpaceSpec => []BorderIsWall
<1>1. MapInv => BorderIsWall
  BY DEF MapInv, ClosedSoFar, BorderIsWall
<1> QED
  BY <1>1, MapInvariant, PTL

\* FurnitureOnFloor: no later room, wall or border covers a piece of furniture.
THEOREM FurnitureCorrect == SpaceSpec => []FurnitureOnFloor
<1>1. MapInv => FurnitureOnFloor
  BY DEF MapInv, OnFloor, FurnitureOnFloor
<1> QED
  BY <1>1, MapInvariant, PTL

-----------------------------------------------------------------------------
(***************************************************************************)
(* What module Game assumes of its layers.  The game indexes positions by  *)
(* the layer without a check.                                              *)
(***************************************************************************)
EndsCounted == Len(out_positions) = IF phase = "walk" THEN layer ELSE up

Houses == [l \in Layer |-> {c \in MapCells : Wall(l, c)}]
FitsTheGame ==
  phase = "done" =>
    /\ \A c \in MapCells : c[1] \in {0, map_size - 1} \/ c[2] \in {0, map_size - 1}
                       => \A l \in Layer : c \in Houses[l]
    /\ \A l \in Layer : l + 1 \in DOMAIN out_positions /\ out_positions[l + 1] \in MapCells

\* A layer's walk appends one position, when the layer ends.
LEMMA EndsStep == MapTypeOK /\ EndsCounted /\ [SpaceNext]_spaceVars => EndsCounted'
<1> SUFFICES ASSUME MapTypeOK, EndsCounted, [SpaceNext]_spaceVars PROVE EndsCounted'
  OBVIOUS
<1> USE SpaceMapAssumption
<1>1. out_positions \in Seq(MapCells) /\ layer \in 0 .. up - 1
  BY DEF MapTypeOK, Layer
<1>2. CASE LastStep
  <2>1. out_positions' = Append(out_positions, Ahead) /\ phase = "walk"
    BY <1>2 DEF LastStep
  <2>2. Len(out_positions') = layer + 1
    BY <1>1, <2>1 DEF EndsCounted
  <2>3. CASE layer + 1 < up
    BY <1>2, <2>1, <2>2, <2>3 DEF LastStep, EndsCounted
  <2>4. CASE ~(layer + 1 < up)
    <3>1. phase' = "path" /\ layer + 1 = up
      BY <1>1, <1>2, <2>4 DEF LastStep
    <3> QED
      BY <2>2, <3>1 DEF EndsCounted
  <2> QED
    BY <2>3, <2>4
<1>3. CASE Bounce \/ Carve
  BY <1>3 DEF Bounce, Carve, EndsCounted
<1>4. CASE Pathing
  BY <1>4 DEF Pathing, NextLayerOr, EndsCounted
<1>5. CASE Cleaning
  BY <1>5 DEF Cleaning, NextLayerOr, EndsCounted
<1>6. CASE UNCHANGED spaceVars
  BY <1>6 DEF spaceVars, EndsCounted
<1> QED
  BY <1>2, <1>3, <1>4, <1>5, <1>6 DEF SpaceNext

\* FitsTheGame: every finished layer is closed by walls, and has one place for
\* its teleport that is a cell of the map, as GameAssumption asks of a game's
\* Houses and StartTeleports.
THEOREM GenerationFitsGame == SpaceSpec => []FitsTheGame
<1>1. SpaceInit => EndsCounted
  BY DEF SpaceInit, EndsCounted
<1>2. MapInv => MapTypeOK
  BY DEF MapInv
<1>3. MapInv /\ EndsCounted => FitsTheGame
  <2> SUFFICES ASSUME MapInv, EndsCounted, phase = "done" PROVE FitsTheGame
    BY DEF FitsTheGame
  <2>1. ASSUME NEW c \in MapCells, c[1] \in {0, map_size - 1} \/ c[2] \in {0, map_size - 1},
               NEW l \in Layer
        PROVE  c \in Houses[l]
    <3>1. InBorder(c)
      BY <2>1, CellParts, SpaceMapAssumption DEF InBorder
    <3> QED
      BY <2>1, <3>1 DEF Houses, MapInv, ClosedSoFar
  <2>2. ASSUME NEW l \in Layer
        PROVE  l + 1 \in DOMAIN out_positions /\ out_positions[l + 1] \in MapCells
    BY SpaceMapAssumption DEF EndsCounted, MapInv, MapTypeOK, Layer
  <2> QED
    BY <2>1, <2>2 DEF FitsTheGame
<1> QED
  BY <1>1, <1>2, <1>3, EndsStep, MapInvariant, PTL DEF SpaceSpec

-----------------------------------------------------------------------------
(***************************************************************************)
(* TeleportReachable.  What is known of a layer is a set W of floor cells, *)
(* its tour: a walk from s over W gets to all of W.  That is said of every *)
(* set X that has s and, with a cell, the cells of W next to it: such an X *)
(* has all of W.  Cells are added to the tour in step 1, beside a cell     *)
(* that X has; later steps take no cell of it away.                        *)
(***************************************************************************)
ClosedUnder(X, W) == \A c \in X : Adjacent(c) \intersect W \subseteq X
Linked(W, s) == \A X \in SUBSET MapCells : s \in X /\ ClosedUnder(X, W) => W \subseteq X

Floor(l, c) == /\ c \in MapCells /\ ~InBorder(c) /\ ~Wall(l, c)
               /\ phase \in {"walk", "path"} => rgb[GetPixel(l, c)] \in {10, 50}

\* The tour of a layer whose walk has ended, and of the one being walked.
Toured(l, W) ==
  /\ \A c \in W : Floor(l, c)
  /\ Linked(W, Start(l))
  /\ \E c \in W : c = out_positions[l + 1] \/ c \in Adjacent(out_positions[l + 1])
Touring(l, W) ==
  /\ \A c \in W : Floor(l, c)
  /\ Linked(W, Start(l))
  /\ IF InBorder(coords) THEN coords = Start(l) ELSE coords \in W

TourInv ==
  /\ \A l \in Layer : phase # "walk" \/ l < layer => \E W \in SUBSET MapCells : Toured(l, W)
  /\ phase = "walk" => \E W \in SUBSET MapCells : Touring(layer, W)

LEMMA AdjacentBack ==
  ASSUME NEW c \in MapCells, NEW d \in Adjacent(c)
  PROVE  d \in MapCells /\ c \in Adjacent(d)
<1>1. PICK e \in Directions : d = Plus(c, e) /\ d \in MapCells
  BY DEF Adjacent
<1>2. ReverseDirection(e) \in Directions
  BY TurnedAround
<1>3. Plus(d, ReverseDirection(e)) = c
  BY <1>1, OneStep, CellParts DEF Plus, ReverseDirection
<1> QED BY <1>1, <1>2, <1>3 DEF Adjacent

LEMMA BesideIsAdjacent ==
  ASSUME NEW c \in MapCells, NEW d \in MapCells,
         \/ d[1] = c[1] /\ d[2] \in {c[2] - 1, c[2] + 1}
         \/ d[2] = c[2] /\ d[1] \in {c[1] - 1, c[1] + 1}
  PROVE  d \in Adjacent(c)
<1>1. \E e \in Directions : d[1] = c[1] + e[1] /\ d[2] = c[2] + e[2]
  <2>1. <<0, -1>> \in Directions /\ <<1, 0>> \in Directions /\ <<0, 1>> \in Directions
        /\ <<-1, 0>> \in Directions
    BY FourDirections
  <2> QED BY <2>1, CellParts
<1>2. \E e \in Directions : d = Plus(c, e)
  BY <1>1, CellParts DEF Plus
<1> QED BY <1>2 DEF Adjacent

\* The cells of a room are linked to the one ahead.
LEMMA RoomLinked ==
  ASSUME NEW half \in RoomHalves, coords \in MapCells, walkDirection \in Directions,
         ~InBorder(Ahead), NEW X \in SUBSET MapCells, Ahead \in X,
         ClosedUnder(X, Room(half))
  PROVE  Ahead \in Room(half) /\ Room(half) \subseteq X
<1> DEFINE At(x, y) == <<Clamp(Ahead[1] + x), Clamp(Ahead[2] + y)>>
           range == -half .. half - 1
<1>1. /\ half = 1 \/ half = 2
      /\ map_size \in Int /\ map_size >= 4
      /\ Ahead[1] \in 1 .. map_size - 2 /\ Ahead[2] \in 1 .. map_size - 2
      /\ Ahead = <<Ahead[1], Ahead[2]>>
  BY SpaceMapAssumption, CellParts DEF InBorder
<1>2. \A x, y \in range : At(x, y) \in Room(half)
  BY DEF Room
<1>3. At(0, 0) = Ahead /\ 0 \in range
  BY <1>1 DEF Clamp
<1>4. ASSUME NEW n \in Int
      PROVE  /\ Clamp(n) \in Int
             /\ Clamp(n + 1) = Clamp(n) \/ Clamp(n + 1) = Clamp(n) + 1
  BY <1>1, <1>4 DEF Clamp
<1>5. ASSUME NEW c \in X, NEW d \in Room(half),
             \/ d = c
             \/ d[1] = c[1] /\ d[2] \in {c[2] - 1, c[2] + 1}
             \/ d[2] = c[2] /\ d[1] \in {c[1] - 1, c[1] + 1}
      PROVE  d \in X
  <2>1. d \in MapCells
    BY RoomInside
  <2>2. d # c => d \in Adjacent(c)
    BY <1>5, <2>1, BesideIsAdjacent
  <2> QED BY <2>2 DEF ClosedUnder
<1>6. ASSUME NEW x \in range, NEW y \in range, x + 1 \in range
      PROVE  At(x, y) \in X <=> At(x + 1, y) \in X
  <2>1. Clamp(Ahead[1] + x) \in Int /\ Clamp(Ahead[2] + y) \in Int /\ x \in Int
    BY <1>1, <1>4
  <2>2. \/ Clamp(Ahead[1] + (x + 1)) = Clamp(Ahead[1] + x)
        \/ Clamp(Ahead[1] + (x + 1)) = Clamp(Ahead[1] + x) + 1
    <3>1. Ahead[1] + x \in Int /\ (Ahead[1] + x) + 1 = Ahead[1] + (x + 1)
      BY <1>1, <2>1
    <3> QED BY <1>4, <3>1
  <2>3. At(x, y) \in Room(half) /\ At(x + 1, y) \in Room(half)
    BY <1>2, <1>6
  <2> QED BY <1>5, <2>1, <2>2, <2>3
<1>7. ASSUME NEW x \in range, NEW y \in range, y + 1 \in range
      PROVE  At(x, y) \in X <=> At(x, y + 1) \in X
  <2>1. Clamp(Ahead[1] + x) \in Int /\ Clamp(Ahead[2] + y) \in Int /\ y \in Int
    BY <1>1, <1>4
  <2>2. \/ Clamp(Ahead[2] + (y + 1)) = Clamp(Ahead[2] + y)
        \/ Clamp(Ahead[2] + (y + 1)) = Clamp(Ahead[2] + y) + 1
    <3>1. Ahead[2] + y \in Int /\ (Ahead[2] + y) + 1 = Ahead[2] + (y + 1)
      BY <1>1, <2>1
    <3> QED BY <1>4, <3>1
  <2>3. At(x, y) \in Room(half) /\ At(x, y + 1) \in Room(half)
    BY <1>2, <1>7
  <2> QED BY <1>5, <2>1, <2>2, <2>3
<1> HIDE DEF At
<1> DEFINE across == \A x, y, z \in range : z = x + 1 => (At(x, y) \in X <=> At(z, y) \in X)
           along  == \A x, y, z \in range : z = y + 1 => (At(x, y) \in X <=> At(x, z) \in X)
<1>8. across /\ along
  BY <1>6, <1>7
<1>9. \A x \in range : At(x, 0) \in X
  <2>1. At(0, 0) \in X
    BY <1>3
  <2>2. At(-1, 0) \in X
    <3>1. -1 \in range /\ 0 \in range /\ 0 = -1 + 1
      BY <1>1
    <3> QED BY <1>8, <2>1, <3>1
  <2>3. ASSUME half = 2 PROVE At(1, 0) \in X /\ At(-2, 0) \in X
    <3>1. /\ -2 \in range /\ -1 \in range /\ 0 \in range /\ 1 \in range
          /\ -1 = -2 + 1 /\ 1 = 0 + 1
      BY <2>3
    <3> QED BY <1>8, <2>1, <2>2, <3>1
  <2> QED BY <1>1, <2>1, <2>2, <2>3
<1>10. ASSUME NEW x \in range PROVE \A y \in range : At(x, y) \in X
  <2>1. At(x, 0) \in X
    BY <1>9
  <2>2. At(x, -1) \in X /\ (half = 2 => At(x, 1) \in X /\ At(x, -2) \in X)
    BY <1>1, <1>8, <2>1
  <2> QED BY <1>1, <2>1, <2>2
<1>11. ASSUME NEW c \in Room(half) PROVE c \in X
  <2>1. PICK x \in range, y \in range : c = At(x, y)
    BY DEF Room, At
  <2> QED BY <1>10, <2>1
<1> QED BY <1>2, <1>3, <1>11

\* No step takes a cell of a tour away.
LEMMA FloorStays ==
  ASSUME MapInv, [SpaceNext]_spaceVars, NEW l \in Layer, NEW c, Floor(l, c)
  PROVE  Floor(l, c)'
<1> USE DEF MapInv
<1>1. c \in MapCells /\ ~InBorder(c) /\ GetPixel(l, c) \in Pixels /\ rgb[GetPixel(l, c)] # 255
  BY PixelIsPixel DEF Floor, Wall
<1>2. CASE LastStep \/ Carve
  <2>1. phase = "walk" /\ rgb[GetPixel(l, c)] \in {10, 50}
    BY <1>2 DEF LastStep, Carve, Floor
  <2>2. PICK cs : \/ rgb' = Walked(cs)
                  \/ rgb' = [Walked(cs) EXCEPT ![GetPixel(layer + 1, Ahead)] = 50]
    BY <1>2 DEF LastStep, Carve
  <2>3. /\ Walked(cs) \in [Pixels -> {0, 10, 50, 255}]
        /\ \A n \in Pixels : Walked(cs)[n] = rgb[n] \/ Walked(cs)[n] = 50
    BY WalkedColours
  <2>4. rgb'[GetPixel(l, c)] \in {10, 50}
    BY <1>1, <2>1, <2>2, <2>3
  <2> QED BY <1>1, <2>4 DEF Floor, Wall
<1>3. CASE Bounce \/ UNCHANGED spaceVars
  BY <1>3 DEF Bounce, spaceVars, Floor, Wall
<1>4. CASE Pathing
  <2>1. phase = "path" /\ rgb[GetPixel(l, c)] \in {10, 50}
    BY <1>4 DEF Pathing, Floor
  <2>2. rgb'[GetPixel(l, c)] \in {10, 50}
    BY <1>1, <1>4, <2>1 DEF Pathing
  <2> QED BY <1>1, <2>2 DEF Floor, Wall
<1>5. CASE Cleaning
  <2>1. phase = "clean" /\ phase' \in {"clean", "done"} /\ layer \in Layer
    BY <1>5, LayerAfter DEF Cleaning, MapTypeOK
  <2>2. GetPixel(l, c) \notin {GetPixel(layer, d) : d \in Edge}
    <3>1. Edge \subseteq MapCells
      BY DEF Edge
    <3> QED BY <1>1, <2>1, <3>1, PixelsDiffer, InBorderOrInside
  <2>3. rgb'[GetPixel(l, c)] # 255
    BY <1>1, <1>5, <2>2 DEF Cleaning
  <2> QED BY <1>1, <2>1, <2>3 DEF Floor, Wall
<1> QED BY <1>2, <1>3, <1>4, <1>5 DEF SpaceNext

LEMMA MoreLinked ==
  ASSUME NEW W, NEW V, NEW s, Linked(W, s), W \subseteq V,
         \A X \in SUBSET MapCells : s \in X /\ W \subseteq X /\ ClosedUnder(X, V) => V \subseteq X
  PROVE  Linked(V, s)
  BY DEF Linked, ClosedUnder

\* What is walked on joins the tour of the layer being walked.
LEMMA TourGrows ==
  ASSUME MapInv, phase = "walk", NEW W \in SUBSET MapCells, Touring(layer, W),
         NEW V \in SUBSET MapCells, Ahead \in V, Ahead \in MapCells,
         \A X \in SUBSET MapCells : Ahead \in X /\ ClosedUnder(X, V) => V \subseteq X
  PROVE  Linked(W \union V, Start(layer))
<1>1. coords \in MapCells /\ walkDirection \in Directions
  BY DEF MapInv, MapTypeOK
<1>2. Ahead \in Adjacent(coords)
  BY <1>1 DEF Adjacent, Ahead
<1> SUFFICES ASSUME NEW X \in SUBSET MapCells, Start(layer) \in X, W \subseteq X,
                    ClosedUnder(X, W \union V)
             PROVE  V \subseteq X
  BY MoreLinked DEF Touring
<1>3. coords \in X
  BY DEF Touring
<1>4. Ahead \in X /\ ClosedUnder(X, V)
  BY <1>2, <1>3 DEF ClosedUnder
<1> QED BY <1>4

LEMMA StartStays ==
  ASSUME MapInv, EndsCounted, [SpaceNext]_spaceVars, NEW l \in Layer, l <= layer \/ phase # "walk"
  PROVE  /\ Start(l)' = Start(l)
         /\ l < layer \/ phase # "walk" => out_positions'[l + 1] = out_positions[l + 1]
<1> USE SpaceMapAssumption
<1>1. out_positions \in Seq(MapCells) /\ layer \in 0 .. up - 1 /\ l \in 0 .. up - 1
  BY DEF MapInv, MapTypeOK, Layer
<1>2. CASE LastStep
  <2>1. out_positions' = Append(out_positions, Ahead) /\ phase = "walk"
    BY <1>2 DEF LastStep
  <2>2. Len(out_positions) = layer
    BY <2>1 DEF EndsCounted
  <2> QED BY <1>1, <2>1, <2>2 DEF Start, Middle
<1>3. CASE Bounce \/ Carve \/ Pathing \/ Cleaning \/ UNCHANGED spaceVars
  BY <1>3 DEF Bounce, Carve, Pathing, Cleaning, spaceVars, Start, Middle
<1> QED BY <1>2, <1>3 DEF SpaceNext

LEMMA TouredStays ==
  ASSUME MapInv, EndsCounted, [SpaceNext]_spaceVars, NEW l \in Layer, l < layer \/ phase # "walk",
         NEW W \in SUBSET MapCells, Toured(l, W)
  PROVE  Toured(l, W)'
<1>1. \A c \in W : Floor(l, c)'
  BY FloorStays DEF Toured
<1>2. Start(l)' = Start(l) /\ out_positions'[l + 1] = out_positions[l + 1]
  BY StartStays DEF MapInv, MapTypeOK, Layer
<1>3. Linked(W, Start(l))'
  BY <1>2 DEF Toured, Linked, ClosedUnder
<1>4. \E c \in W : c = out_positions'[l + 1] \/ c \in Adjacent(out_positions'[l + 1])
  BY <1>2 DEF Toured
<1> QED BY <1>1, <1>3, <1>4 DEF Toured

LEMMA TourStep ==
  ASSUME MapInv, MapInv', EndsCounted, TourInv, [SpaceNext]_spaceVars, NEW k \in Layer, k = layer,
         NEW a, a = Ahead
  PROVE  TourInv'
<1>1. layer \in Layer /\ coords \in MapCells /\ walkDirection \in Directions
  BY DEF MapInv, MapTypeOK
<1>2. CASE UNCHANGED spaceVars
  BY <1>2 DEF spaceVars, walkerVars, TourInv, Toured, Touring, Floor, Wall, Linked, ClosedUnder, Start
<1>3. CASE LastStep
  <2>1. phase = "walk" /\ out_positions' = Append(out_positions, Ahead) /\ Ahead \in MapCells
        /\ coords' = Ahead
    BY <1>3, AheadOfLastStep DEF LastStep, StartLayer
  <2>2. Len(out_positions) = layer /\ out_positions \in Seq(MapCells) /\ layer \in Nat
    BY <2>1 DEF EndsCounted, MapInv, MapTypeOK, Layer
  <2>3. out_positions'[layer + 1] = Ahead
    BY <2>1, <2>2
  <2>4. PICK W \in SUBSET MapCells : Touring(layer, W)
    BY <2>1 DEF TourInv
  <2>5. \A c \in W : Floor(k, c)'
    BY <1>1, <2>4, FloorStays DEF Touring
  <2>6. Start(k)' = Start(k)
    BY <1>1, StartStays DEF Layer
  <2>7. Ahead \in Adjacent(coords)
    BY <1>1, <2>1 DEF Adjacent, Ahead
  <2>8. rgb'[GetPixel(layer, Ahead)] = 50
    BY <1>1, <1>3, <2>1, WalkedColours, PixelIsPixel DEF LastStep, MapInv
  <2>9. \E V \in SUBSET MapCells : Toured(k, V)'
    <3>1. CASE InBorder(Ahead)
      <4>1. ~InBorder(coords)
        <5>1. InBorder(coords) => i # 0
          BY <1>3, SpaceMapAssumption DEF LastStep, MapInv, MapTypeOK
        <5> QED BY <2>1, <3>1, <5>1 DEF MapInv, Steers
      <4>2. coords \in W /\ coords \in Adjacent(Ahead)
        BY <1>1, <2>4, <2>7, <4>1, AdjacentBack DEF Touring
      <4>3. Toured(k, W)'
        <5>1. Linked(W, Start(k))'
          BY <2>4, <2>6 DEF Touring, Linked, ClosedUnder
        <5> QED BY <2>3, <2>5, <4>2, <5>1 DEF Toured
      <4> QED BY <4>3
    <3>2. CASE ~InBorder(Ahead)
      <4>1. Floor(k, a)'
        BY <2>1, <2>8, <3>2 DEF Floor, Wall
      <4>2. Linked(W \union {Ahead}, Start(layer))
        BY <2>1, <2>4, TourGrows
      <4>3. Toured(k, W \union {a})'
        <5>1. Linked(W \union {a}, Start(k))'
          BY <2>6, <4>2 DEF Linked, ClosedUnder
        <5> QED BY <2>3, <2>5, <4>1, <5>1 DEF Toured
      <4> QED BY <2>1, <2>4, <4>3
    <3> QED BY <3>1, <3>2
  <2>10. \A l \in Layer : l < layer => \E V \in SUBSET MapCells : Toured(l, V)'
    BY TouredStays DEF TourInv
  <2>11. CASE layer + 1 < up
    <3>1. layer' = layer + 1 /\ phase' = "walk" /\ layer + 1 \in Layer
      BY <1>3, <2>1, <2>2, <2>11, SpaceMapAssumption DEF LastStep, Layer
    <3>2. \A l \in Layer : l < layer' => l < layer \/ l = layer
      BY <1>1, <3>1 DEF Layer
    <3>3. Start(k + 1)' = Ahead
      BY <2>2, <2>3 DEF Start
    <3>4. Touring(k + 1, IF InBorder(a) THEN {} ELSE {a})'
      <4>1. rgb'[GetPixel(layer + 1, Ahead)] = 50
        BY <1>3, <2>1, <2>11, <3>1, WalkedColours, PixelIsPixel DEF LastStep, MapInv
      <4>2. ~InBorder(Ahead) => Floor(k + 1, a)'
        BY <2>1, <4>1 DEF Floor, Wall
      <4>3. Linked(IF InBorder(a) THEN {} ELSE {a}, Ahead)
        BY DEF Linked
      <4>4. Linked(IF InBorder(a) THEN {} ELSE {a}, Start(k + 1)')
        BY <3>3, <4>3
      <4>5. \A c \in IF InBorder(a) THEN {} ELSE {a} : Floor(k + 1, c)'
        BY <4>2
      <4> QED BY <2>1, <3>3, <4>4, <4>5 DEF Touring, Linked, ClosedUnder
    <3> QED BY <2>1, <2>9, <2>10, <3>1, <3>2, <3>4 DEF TourInv
  <2>12. CASE ~(layer + 1 < up)
    <3>1. phase' = "path"
      BY <1>3, <2>12 DEF LastStep
    <3>2. \A l \in Layer : l < k \/ l = k
      BY <1>1, <2>12, SpaceMapAssumption DEF Layer
    <3> QED BY <2>9, <2>10, <3>1, <3>2 DEF TourInv
  <2> QED BY <2>11, <2>12
<1>4. CASE Bounce
  <2>1. phase = "walk" /\ phase' = phase /\ layer' = layer /\ coords' = coords
    BY <1>4 DEF Bounce
  <2>2. PICK W \in SUBSET MapCells : Touring(layer, W)
    BY <2>1 DEF TourInv
  <2>3. Touring(k, W)'
    <3>1. \A c \in W : Floor(k, c)'
      BY <1>1, <2>2, FloorStays DEF Touring
    <3>2. Start(k)' = Start(k)
      BY <2>1, <1>4 DEF Bounce, Start
    <3> QED BY <2>1, <2>2, <3>1, <3>2 DEF Touring, Linked, ClosedUnder
  <2>4. \A l \in Layer : l < layer => \E V \in SUBSET MapCells : Toured(l, V)'
    BY TouredStays DEF TourInv
  <2> QED BY <2>1, <2>3, <2>4 DEF TourInv
<1>5. CASE Carve
  <2>1. phase = "walk" /\ phase' = phase /\ layer' = layer /\ coords' = Ahead /\ ~InBorder(Ahead)
    BY <1>5 DEF Carve
  <2>2. Ahead \in MapCells
    BY <1>1, <2>1, Interior, OneStep, CellParts DEF Ahead
  <2>3. PICK W \in SUBSET MapCells : Touring(layer, W)
    BY <2>1 DEF TourInv
  <2>4. PICK V \in SUBSET MapCells :
          /\ rgb' = Walked(V) /\ Ahead \in V /\ \A c \in V : ~InBorder(c)
          /\ \A X \in SUBSET MapCells : Ahead \in X /\ ClosedUnder(X, V) => V \subseteq X
    <3>1. CASE room_step - 1 <= 0
      <4>1. PICK half \in RoomHalves : rgb' = Walked(Room(half))
        BY <1>5, <3>1 DEF Carve
      <4>2. Room(half) \in SUBSET MapCells /\ \A c \in Room(half) : ~InBorder(c)
        BY <1>1, RoomInside
      <4>3. Ahead \in Room(half)
        <5>1. {Ahead} \union Room(half) \in SUBSET MapCells
          BY <2>2, <4>2
        <5>2. ClosedUnder(MapCells, Room(half))
          BY <4>2 DEF ClosedUnder
        <5> QED BY <1>1, <2>1, <2>2, <5>2, RoomLinked
      <4>4. \A X \in SUBSET MapCells : Ahead \in X /\ ClosedUnder(X, Room(half)) => Room(half) \subseteq X
        BY <1>1, <2>1, RoomLinked
      <4> QED BY <4>1, <4>2, <4>3, <4>4
    <3>2. CASE ~(room_step - 1 <= 0)
      <4>1. rgb' = Walked({Ahead})
        BY <1>5, <3>2 DEF Carve
      <4> QED BY <2>1, <2>2, <4>1
    <3> QED BY <3>1, <3>2
  <2>5. Linked(W \union V, Start(layer))
    BY <2>1, <2>2, <2>3, <2>4, TourGrows
  <2>6. Touring(k, W \union V)'
    <3>1. \A c \in W : Floor(k, c)'
      BY <1>1, <2>3, FloorStays DEF Touring
    <3>2. \A c \in V : rgb'[GetPixel(layer, c)] = 50
      BY <1>1, <2>4, WalkedColours, PixelIsPixel DEF MapInv
    <3>3. \A c \in V : Floor(k, c)'
      BY <2>4, <3>2 DEF Floor, Wall
    <3>4. Start(k)' = Start(k)
      BY <1>5 DEF Carve, Start
    <3> QED BY <2>1, <2>4, <2>5, <3>1, <3>3, <3>4 DEF Touring, Linked, ClosedUnder
  <2>7. \A l \in Layer : l < layer => \E U \in SUBSET MapCells : Toured(l, U)'
    BY TouredStays DEF TourInv
  <2> QED BY <2>1, <2>3, <2>4, <2>6, <2>7 DEF TourInv
<1>6. CASE Pathing \/ Cleaning
  <2>1. phase # "walk" /\ phase' # "walk"
    BY <1>6 DEF Pathing, Cleaning, NextLayerOr
  <2> QED BY <2>1, TouredStays DEF TourInv
<1> QED BY <1>2, <1>3, <1>4, <1>5, <1>6 DEF SpaceNext

-----------------------------------------------------------------------------
\* Region is closed: after as many steps as there are cells inside it grows no more.
LEMMA RegionClosed ==
  ASSUME NEW l \in Layer, NEW c \in MapCells,
         \A d \in MapCells : InBorder(d) => Wall(l, d)
  PROVE  /\ Region(l, c) \subseteq MapCells /\ Doors(l, c) \subseteq Region(l, c)
         /\ \A d \in Region(l, c) : Doors(l, d) \subseteq Region(l, c)
<1> DEFINE side == 1 .. map_size - 2
           U == side \X side
           inside == (map_size - 2) * (map_size - 2)
           F == [X \in SUBSET U |-> X \union UNION {Doors(l, d) : d \in X}]
<1>1. map_size \in Int /\ map_size >= 4 /\ inside \in Nat
  BY SpaceMapAssumption
<1>2. IsFiniteSet(U) /\ Cardinality(U) = inside
  <2>1. IsFiniteSet(side) /\ Cardinality(side) = map_size - 2
    BY <1>1, FS_Interval
  <2> HIDE DEF side
  <2> QED BY <2>1, FS_Product
<1>3. U \subseteq MapCells
  BY <1>1 DEF MapCells
<1>4. \A d \in MapCells : Doors(l, d) \subseteq U
  <2> SUFFICES ASSUME NEW d \in MapCells, NEW e \in Doors(l, d) PROVE e \in U
    OBVIOUS
  <2>1. e \in MapCells /\ ~InBorder(e)
    BY DEF Doors, Adjacent
  <2> QED BY <1>1, <2>1, CellParts DEF InBorder, MapCells
<1>5. F \in [SUBSET U -> SUBSET U]
  BY <1>3, <1>4
<1>6. \A X \in SUBSET U : X \subseteq F[X]
  OBVIOUS
<1> HIDE DEF U, inside
<1>7. PICK f \in [Nat -> SUBSET U] : f[0] = Doors(l, c) /\ \A n \in Nat : f[n + 1] = F[f[n]]
  <2> DEFINE T == SUBSET U
  <2>1. Doors(l, c) \in T /\ F \in [T -> T]
    BY <1>4, <1>5
  <2>2. \E f \in [Nat -> T] : f[0] = Doors(l, c) /\ \A n \in Nat : f[n + 1] = F[f[n]]
    <3> HIDE DEF F, T
    <3> QED BY <2>1, Iterated
  <2> QED BY <2>2
<1> DEFINE IsWithin(w) ==
             w = [k \in 0 .. inside |->
                    IF k = 0 THEN Doors(l, c)
                    ELSE LET near == w[k - 1]
                         IN  near \union UNION {Doors(l, d) : d \in near}]
           within == CHOOSE w : IsWithin(w)
<1>8. \E w : IsWithin(w)
  <2> DEFINE w == [k \in 0 .. inside |-> f[k]]
  <2>1. ASSUME NEW k \in 0 .. inside
        PROVE  w[k] = IF k = 0 THEN Doors(l, c)
                      ELSE LET near == w[k - 1]
                           IN  near \union UNION {Doors(l, d) : d \in near}
    <3>1. CASE k = 0
      BY <1>7, <3>1
    <3>2. CASE k # 0
      <4>1. k - 1 \in Nat /\ k - 1 \in 0 .. inside /\ (k - 1) + 1 = k
        BY <1>1, <3>2
      <4>2. f[k] = F[f[k - 1]] /\ f[k - 1] \in SUBSET U
        BY <1>7, <4>1
      <4> QED BY <3>2, <4>1, <4>2
    <3> QED BY <3>1, <3>2
  <2>2. IsWithin(w)
    BY <2>1
  <2> HIDE DEF IsWithin
  <2> QED BY <2>2
<1>9. IsWithin(within)
  <2> HIDE DEF IsWithin
  <2> QED BY <1>8
<1>10. Region(l, c) = within[inside]
  BY DEF Region, inside
<1> HIDE DEF within
<1>11. within[0] = Doors(l, c)
  BY <1>1, <1>9
<1>12. \A k \in 0 .. inside - 1 :
         within[k + 1] = within[k] \union UNION {Doors(l, d) : d \in within[k]}
  <2> SUFFICES ASSUME NEW k \in 0 .. inside - 1
               PROVE  within[k + 1] = within[k] \union UNION {Doors(l, d) : d \in within[k]}
    OBVIOUS
  <2> DEFINE m == k + 1
  <2>1. m \in 0 .. inside /\ m # 0 /\ m - 1 = k
    BY <1>1
  <2> HIDE DEF m
  <2>2. within[m] = within[m - 1] \union UNION {Doors(l, d) : d \in within[m - 1]}
    BY <1>9, <2>1
  <2>3. within[m] = within[k] \union UNION {Doors(l, d) : d \in within[k]}
    BY <2>1, <2>2, Zenon
  <2> QED BY <2>3 DEF m
<1>13. \A k \in 0 .. inside : within[k] \in SUBSET U /\ Doors(l, c) \subseteq within[k]
  <2> DEFINE S == {k \in Nat : within[k] \in SUBSET U /\ Doors(l, c) \subseteq within[k]}
  <2>1. 0 \in S
    BY <1>4, <1>11
  <2>2. \A k \in 0 .. inside - 1 : k \in S => k + 1 \in S
    BY <1>3, <1>4, <1>12
  <2>3. 0 .. inside \subseteq S
    <3> HIDE DEF S
    <3> QED BY <1>1, <2>1, <2>2, UpToInSet
  <2> QED BY <2>3
<1>14. within[inside] = f[inside]
  <2> DEFINE S == {k \in Nat : within[k] = f[k]}
  <2>1. 0 \in S
    BY <1>7, <1>11
  <2>2. ASSUME NEW k \in 0 .. inside - 1, k \in S PROVE k + 1 \in S
    <3>1. k \in Nat /\ k + 1 \in Nat
      BY <1>1
    <3>2. f[k] \in SUBSET U /\ f[k + 1] = F[f[k]]
      <4> HIDE DEF F
      <4> QED BY <1>7, <3>1
    <3>3. f[k + 1] = f[k] \union UNION {Doors(l, d) : d \in f[k]}
      BY <3>2
    <3>4. within[k] = f[k]
      BY <2>2
    <3>5. within[k + 1] = f[k + 1]
      BY <1>12, <2>2, <3>3, <3>4
    <3> QED BY <3>1, <3>5
  <2>3. 0 .. inside \subseteq S
    <3> HIDE DEF S
    <3> QED BY <1>1, <2>1, <2>2, UpToInSet
  <2> QED BY <1>1, <2>3
<1>15. \A n \in Nat : f[n] \in SUBSET U /\ f[n] \subseteq f[n + 1]
                    /\ (f[n + 1] = f[n] => f[n + 2] = f[n + 1])
  <2> SUFFICES ASSUME NEW n \in Nat
               PROVE  f[n] \in SUBSET U /\ f[n] \subseteq f[n + 1]
                    /\ (f[n + 1] = f[n] => f[n + 2] = f[n + 1])
    OBVIOUS
  <2>1. f[n] \in SUBSET U /\ f[n + 1] = F[f[n]] /\ f[n + 2] = F[f[n + 1]]
    <3>1. n + 1 \in Nat /\ (n + 1) + 1 = n + 2
      OBVIOUS
    <3> HIDE DEF F
    <3> QED BY <1>7, <3>1
  <2> QED BY <2>1
<1>16. F[within[inside]] = within[inside]
  <2>1. Cardinality(U) <= inside /\ inside \in Nat
    BY <1>1, <1>2
  <2>2. f[inside + 1] = f[inside]
    BY <1>2, <1>15, <2>1, StopsGrowing
  <2> QED BY <1>7, <1>14, <2>1, <2>2
<1>17. within[inside] \in SUBSET U /\ Doors(l, c) \subseteq within[inside]
  BY <1>1, <1>13
<1>18. \A d \in within[inside] : Doors(l, d) \subseteq within[inside]
  BY <1>16, <1>17
<1> QED BY <1>3, <1>10, <1>17, <1>18

\* In a finished layer the tour is on floor that is left, so Region has all of it.
LEMMA TourReaches ==
  ASSUME MapInv, EndsCounted, TourInv, phase = "done", NEW l \in Layer
  PROVE  Region(l, Start(l)) \intersect Doors(l, out_positions[l + 1]) # {}
<1> DEFINE s == Start(l)
           X == Region(l, s) \union {s}
<1>1. PICK W \in SUBSET MapCells : Toured(l, W)
  BY DEF TourInv
<1>2. s \in MapCells /\ out_positions[l + 1] \in MapCells
  BY SpaceMapAssumption, MiddleInside DEF MapInv, MapTypeOK, EndsCounted, Start, Layer
<1>3. /\ Region(l, s) \subseteq MapCells /\ Doors(l, s) \subseteq Region(l, s)
      /\ \A d \in Region(l, s) : Doors(l, d) \subseteq Region(l, s)
  <2>1. \A d \in MapCells : InBorder(d) => Wall(l, d)
    BY DEF MapInv, ClosedSoFar
  <2> HIDE DEF s
  <2> QED BY <1>2, <2>1, RegionClosed
<1>4. \A c \in W : ~Wall(l, c)
  BY <1>1 DEF Toured, Floor
<1>5. ClosedUnder(X, W)
  <2> SUFFICES ASSUME NEW c \in X, NEW d \in Adjacent(c), d \in W PROVE d \in X
    BY DEF ClosedUnder
  <2>1. d \in Doors(l, c)
    BY <1>4 DEF Doors
  <2> QED BY <1>3, <2>1
<1>6. W \subseteq X
  <2>1. Linked(W, s)
    BY <1>1 DEF Toured
  <2>2. X \in SUBSET MapCells
    BY <1>2, <1>3
  <2> QED BY <1>5, <2>1, <2>2 DEF Linked
<1>7. PICK c \in W : c = out_positions[l + 1] \/ c \in Adjacent(out_positions[l + 1])
  BY <1>1 DEF Toured
<1>8. c \in Doors(l, out_positions[l + 1])
  BY <1>4, <1>7 DEF Doors
<1>9. c \in Region(l, s)
  <2>1. c = s => c \in Doors(l, s)
    BY <1>4 DEF Doors
  <2> QED BY <1>3, <1>6, <2>1
<1> QED BY <1>8, <1>9

\* TeleportReachable: however a walk turns, makes rooms and ends, and whatever
\* generation steps 2 and 3 build, one can get from where it began to its end.
THEOREM ReachableCorrect == SpaceSpec => []TeleportReachable
<1>1. SpaceInit => EndsCounted /\ TourInv
  <2> SUFFICES ASSUME SpaceInit PROVE EndsCounted /\ TourInv
    OBVIOUS
  <2>1. EndsCounted
    BY DEF SpaceInit, EndsCounted
  <2>2. \A l \in Layer : ~(l < layer)
    BY SpaceMapAssumption DEF SpaceInit, Layer
  <2>3. layer \in Layer /\ GetPixel(0, Middle) \in Pixels
    BY SpaceMapAssumption, MiddleInside, PixelIsPixel DEF SpaceInit, Layer
  <2>4. Touring(layer, {Middle})
    <3>1. Floor(layer, Middle)
      BY <2>3, MiddleInside DEF SpaceInit, Floor, Wall
    <3> QED BY <3>1, MiddleInside DEF SpaceInit, Touring, Linked, Start
  <2> QED BY <2>1, <2>2, <2>4, MiddleInside DEF SpaceInit, TourInv
<1>2. MapInv /\ MapInv' /\ EndsCounted /\ TourInv /\ [SpaceNext]_spaceVars => EndsCounted' /\ TourInv'
  <2> SUFFICES ASSUME MapInv, MapInv', EndsCounted, TourInv, [SpaceNext]_spaceVars
               PROVE  EndsCounted' /\ TourInv'
    OBVIOUS
  <2>1. EndsCounted'
    BY EndsStep DEF MapInv
  <2>2. layer \in Layer
    BY DEF MapInv, MapTypeOK
  <2>3. TourInv'
    BY <2>2, TourStep
  <2> QED BY <2>1, <2>3
<1>3. MapInv /\ EndsCounted /\ TourInv => TeleportReachable
  BY TourReaches DEF TeleportReachable
<1> QED
  BY <1>1, <1>2, <1>3, MapInvariant, PTL DEF SpaceSpec

-----------------------------------------------------------------------------
(***************************************************************************)
(* The picture of a layer.  Flattening pieces one after the other gives    *)
(* the beginnings of the file; a turn of write's loop appends the pieces   *)
(* of as many bytes as it writes, for among them only the first can be     *)
(* where a block starts, and only a filter byte where a line does.         *)
(***************************************************************************)
LEMMA FlattenExists ==
  ASSUME NEW n \in Nat, NEW p
  PROVE  \E g : g = [k \in 1 .. n |-> IF k = 1 THEN p[k] ELSE g[k - 1] \o p[k]]
<1> DEFINE Flat(g, m) == g = [k \in 1 .. m |-> IF k = 1 THEN p[k] ELSE g[k - 1] \o p[k]]
           S == {m \in 0 .. n : \E g : Flat(g, m)}
<1>1. 0 \in S
  <2>1. Flat([k \in 1 .. 0 |-> 0], 0)
    OBVIOUS
  <2> HIDE DEF Flat
  <2> QED BY <2>1
<1>2. ASSUME NEW m \in 0 .. n - 1, m \in S PROVE m + 1 \in S
  <2>1. PICK f : Flat(f, m)
    BY <1>2
  <2> DEFINE new == IF m + 1 = 1 THEN p[m + 1] ELSE f[m] \o p[m + 1]
             g == [k \in 1 .. m + 1 |-> IF k = m + 1 THEN new ELSE f[k]]
  <2>2. \A k \in 1 .. m : f[k] = IF k = 1 THEN p[k] ELSE f[k - 1] \o p[k]
    BY <2>1, Zenon
  <2>3. ASSUME NEW k \in 1 .. m + 1 PROVE g[k] = IF k = 1 THEN p[k] ELSE g[k - 1] \o p[k]
    <3>1. CASE k = m + 1
      <4>1. g[k] = new /\ k - 1 = m
        BY <3>1
      <4>2. k # 1 => m \in 1 .. m + 1 /\ m # m + 1
        BY <3>1
      <4>3. k # 1 => g[m] = f[m]
        BY <4>2
      <4> HIDE DEF g
      <4> QED BY <3>1, <4>1, <4>3
    <3>2. CASE k \in 1 .. m
      <4>1. g[k] = f[k]
        BY <3>2
      <4>2. k # 1 => k - 1 \in 1 .. m + 1 /\ k - 1 # m + 1
        BY <3>2
      <4>3. k # 1 => g[k - 1] = f[k - 1]
        BY <4>2
      <4> HIDE DEF g, new
      <4> QED BY <2>2, <3>2, <4>1, <4>3
    <3> QED BY <3>1, <3>2
  <2>4. g = [k \in 1 .. m + 1 |-> IF k = 1 THEN p[k] ELSE g[k - 1] \o p[k]]
    <3>1. g = [k \in 1 .. m + 1 |-> g[k]]
      OBVIOUS
    <3> HIDE DEF g
    <3> QED BY <2>3, <3>1
  <2>5. m + 1 \in 0 .. n
    OBVIOUS
  <2> HIDE DEF g
  <2> QED BY <2>4, <2>5
<1>3. n \in S
  <2> HIDE DEF S
  <2>1. 0 .. n \subseteq S
    BY <1>1, <1>2, UpToInSet
  <2> QED BY <2>1
<1> QED BY <1>3

\* The beginnings of a sequence of pieces, up to the whole.
Beginnings(S, f, p, n) ==
  /\ f[0] = << >> /\ f[n] = FlattenSeq(p)
  /\ \A k \in 1 .. n : f[k] = f[k - 1] \o p[k]
  /\ \A k \in 0 .. n : f[k] \in Seq(S)

LEMMA FlattenBegins ==
  ASSUME NEW S, NEW n \in Nat \ {0}, NEW p, Len(p) = n, \A k \in 1 .. n : p[k] \in Seq(S)
  PROVE  \E f : Beginnings(S, f, p, n)
<1> DEFINE Flat(g) == g = [k \in 1 .. Len(p) |-> IF k = 1 THEN p[k] ELSE g[k - 1] \o p[k]]
           flatten == CHOOSE g : Flat(g)
           f == [k \in 0 .. n |-> IF k = 0 THEN << >> ELSE flatten[k]]
<1>1. Flat(flatten)
  <2>1. \E g : Flat(g)
    BY FlattenExists
  <2> HIDE DEF Flat
  <2> QED BY <2>1, Zenon
<1>2. FlattenSeq(p) = flatten[n]
  <2>1. Len(p) # 0
    OBVIOUS
  <2> QED BY <2>1, Zenon DEF FlattenSeq
<1> HIDE DEF flatten
<1>3. \A k \in 1 .. n : flatten[k] = IF k = 1 THEN p[k] ELSE flatten[k - 1] \o p[k]
  BY <1>1, Zenon
<1> HIDE DEF Flat
<1>4. /\ f[0] = << >>
      /\ \A k \in 1 .. n : k \in 0 .. n /\ k # 0 /\ f[k] = flatten[k]
      /\ \A k \in 1 .. n : k # 1 => k - 1 \in 1 .. n
      /\ n \in 1 .. n
  OBVIOUS
<1> HIDE DEF f
<1>5. ASSUME NEW k \in 1 .. n PROVE f[k] = f[k - 1] \o p[k]
  <2>1. CASE k = 1
    <3>1. << >> \o p[k] = p[k]
      BY ConcatEmptySeq
    <3>2. f[k] = p[k] /\ f[k - 1] = << >>
      BY <1>3, <1>4, <2>1
    <3> QED BY <3>1, <3>2
  <2>2. CASE k # 1
    BY <1>3, <1>4, <2>2
  <2> QED BY <2>1, <2>2
<1>6. \A k \in 0 .. n : f[k] \in Seq(S)
  <2> DEFINE A == {k \in 0 .. n : f[k] \in Seq(S)}
  <2>1. 0 \in A
    <3>1. f[0] \in Seq(S) /\ 0 \in 0 .. n
      BY <1>4, EmptySeq
    <3> QED BY <3>1, Zenon
  <2>2. ASSUME NEW k \in 0 .. n - 1, k \in A PROVE k + 1 \in A
    <3>1. k + 1 \in 1 .. n /\ k + 1 \in 0 .. n /\ (k + 1) - 1 = k
      OBVIOUS
    <3>2. f[k + 1] = f[k] \o p[k + 1] /\ f[k] \in Seq(S) /\ p[k + 1] \in Seq(S)
      BY <1>5, <2>2, <3>1
    <3>3. f[k + 1] \in Seq(S)
      BY <3>2, ConcatProperties, Zenon
    <3> QED BY <3>1, <3>3, Zenon
  <2>3. 0 .. n \subseteq A
    <3> HIDE DEF A
    <3> QED BY <2>1, <2>2, UpToInSet
  <2> QED BY <2>3
<1>7. f[n] = FlattenSeq(p)
  BY <1>2, <1>4
<1>8. Beginnings(S, f, p, n)
  BY <1>4, <1>5, <1>6, <1>7 DEF Beginnings
<1> QED BY <1>8

LEMMA BeginningIsPrefix ==
  ASSUME NEW S, NEW s \in Seq(S), NEW t \in Seq(S)
  PROVE  IsPrefix(s, s \o t)
<1>1. /\ s \o t \in Seq(S) /\ Len(s) \in Nat /\ Len(t) \in Nat /\ Len(s \o t) = Len(s) + Len(t)
      /\ \A k \in 1 .. Len(s) + Len(t) : (s \o t)[k] = IF k <= Len(s) THEN s[k] ELSE t[k - Len(s)]
  BY ConcatProperties
<1> DEFINE u == s \o t
<1> HIDE DEF u
<1>2. u \in Seq(S) /\ Len(s) <= Len(u) /\ \A k \in 1 .. Len(s) : u[k] = s[k] /\ u[k] \in S /\ s[k] \in S
  BY <1>1 DEF u
<1>3. 1 \in Int /\ Len(s) \in Int /\ (IF 1 <= Len(s) THEN Len(s) - 1 + 1 ELSE 0) = Len(s)
  BY <1>1
<1> DEFINE a == SubSeq(s, 1, Len(s))
           b == SubSeq(u, 1, Len(s))
<1>4. /\ a \in Seq(S) /\ Len(a) = IF 1 <= Len(s) THEN Len(s) - 1 + 1 ELSE 0
      /\ \A k \in 1 .. Len(s) - 1 + 1 : a[k] = s[1 + k - 1]
  BY <1>2, <1>3, SubSeqProperties
<1>5. /\ b \in Seq(S) /\ Len(b) = IF 1 <= Len(s) THEN Len(s) - 1 + 1 ELSE 0
      /\ \A k \in 1 .. Len(s) - 1 + 1 : b[k] = u[1 + k - 1]
  BY <1>2, <1>3, SubSeqProperties
<1> HIDE DEF a, b
<1>6. \A k \in 1 .. Len(s) : 1 + k - 1 = k /\ k \in 1 .. Len(s) - 1 + 1
  BY <1>3
<1>7. \A k \in 1 .. Len(a) : a[k] = b[k]
  BY <1>2, <1>3, <1>4, <1>5, <1>6
<1>8. a = b
  BY <1>3, <1>4, <1>5, <1>7, SeqEqual
<1> QED BY <1>2, <1>8 DEF IsPrefix, a, b, u

\* So is a beginning of a later one.
LEMMA BeginningsGrow ==
  ASSUME NEW S, NEW f, NEW p, NEW n \in Nat, Beginnings(S, f, p, n),
         \A k \in 1 .. n : p[k] \in Seq(S), NEW k \in 0 .. n, NEW t \in Seq(S)
  PROVE  IsPrefix(f[k], f[n] \o t)
<1> DEFINE A == {d \in 0 .. n - k : \E r \in Seq(S) : f[k + d] = f[k] \o r}
<1>1. 0 \in A
  <2>1. f[k + 0] = f[k] \o << >> /\ << >> \in Seq(S)
    BY ConcatEmptySeq DEF Beginnings
  <2>2. 0 \in 0 .. n - k
    OBVIOUS
  <2> QED BY <2>1, <2>2, Zenon
<1>2. ASSUME NEW d \in 0 .. (n - k) - 1, d \in A PROVE d + 1 \in A
  <2>1. PICK r \in Seq(S) : f[k + d] = f[k] \o r
    BY <1>2
  <2>2. k + (d + 1) \in 1 .. n /\ (k + (d + 1)) - 1 = k + d
    OBVIOUS
  <2>3. f[k + (d + 1)] = f[k + d] \o p[k + (d + 1)]
    BY <2>2 DEF Beginnings
  <2>4. f[k] \in Seq(S) /\ p[k + (d + 1)] \in Seq(S)
    BY <2>2 DEF Beginnings
  <2>5. f[k + (d + 1)] = f[k] \o (r \o p[k + (d + 1)])
    <3> DEFINE x == f[k]
               y == p[k + (d + 1)]
    <3>1. x \in Seq(S) /\ y \in Seq(S) /\ r \in Seq(S)
      BY <2>4
    <3> HIDE DEF x, y
    <3>2. (x \o r) \o y = x \o (r \o y)
      BY <3>1, ConcatAssociative, SMTT(30)
    <3> QED BY <2>1, <2>3, <3>2 DEF x, y
  <2>6. r \o p[k + (d + 1)] \in Seq(S)
    BY <2>4, ConcatProperties, Zenon
  <2>7. d + 1 \in 0 .. n - k
    OBVIOUS
  <2> QED BY <2>5, <2>6, <2>7, Zenon
<1>3. n - k \in A
  <2>1. n - k \in Nat /\ n - k \in 0 .. n - k
    OBVIOUS
  <2>2. 0 .. n - k \subseteq A
    <3> HIDE DEF A
    <3> QED BY <1>1, <1>2, <2>1, UpToInSet
  <2> HIDE DEF A
  <2> QED BY <2>1, <2>2
<1>4. PICK r \in Seq(S) : f[k + (n - k)] = f[k] \o r
  BY <1>3
<1>5. k + (n - k) = n /\ f[k] \in Seq(S)
  BY DEF Beginnings
<1>6. f[n] \o t = f[k] \o (r \o t) /\ r \o t \in Seq(S)
  <2>1. f[n] = f[k] \o r
    BY <1>4, <1>5
  <2>2. (f[k] \o r) \o t = f[k] \o (r \o t)
    <3> DEFINE x == f[k]
    <3>1. x \in Seq(S)
      BY <1>5
    <3> HIDE DEF x
    <3>2. (x \o r) \o t = x \o (r \o t)
      BY <3>1, ConcatAssociative, SMTT(30)
    <3> QED BY <3>2 DEF x
  <2>3. r \o t \in Seq(S)
    BY ConcatProperties, Zenon
  <2> QED BY <2>1, <2>2, <2>3, Zenon
<1> QED BY <1>5, <1>6, BeginningIsPrefix

\* The file: what is written of it after the first bytes of the data.
FileParts == {<<"filter">>, <<"pixel">>, <<"footer">>} \union ({"block"} \X BOOLEAN \X Int)
FileBegins(f) == Beginnings(FileParts, f, [n \in 1 .. dataSize |-> Piece(n - 1)], dataSize)
File == CHOOSE f : FileBegins(f)

LEMMA DataSize ==
  /\ lineSize \in Nat /\ lineSize > 1 /\ dataSize \in Nat /\ dataSize # 0
  /\ PngHeight \in Nat /\ PngHeight > 0
  /\ DEFLATE_MAX_BLOCK_SIZE \in Nat /\ DEFLATE_MAX_BLOCK_SIZE > 0
<1>1. lineSize \in Nat /\ lineSize > 1 /\ PngHeight \in Nat /\ PngHeight > 0
  BY TinyPngOutAssumption DEF lineSize
<1> DEFINE l == lineSize
           h == PngHeight
<1>2. l \in Nat /\ l > 1 /\ h \in Nat /\ h > 0
  BY <1>1
<1> HIDE DEF l, h
<1>3. l * h \in Nat /\ l * h >= l * 1
  BY <1>2
<1>4. l * h # 0
  BY <1>2, <1>3
<1> QED BY <1>1, <1>3, <1>4, TinyPngOutAssumption DEF l, h, dataSize

LEMMA PieceIs ==
  ASSUME NEW k \in 0 .. dataSize - 1
  PROVE  Piece(k) \in Seq(FileParts) /\ <<HeaderAt(k)>> \in Seq(FileParts)
<1>1. dataSize \in Int /\ DEFLATE_MAX_BLOCK_SIZE \in Int /\ k \in Int
  BY DataSize
<1>2. HeaderAt(k) \in FileParts
  <2> DEFINE size == Lesser(dataSize - k, DEFLATE_MAX_BLOCK_SIZE)
  <2>1. size \in Int
    BY <1>1 DEF Lesser
  <2>2. HeaderAt(k) = <<"block", k + size = dataSize, size>>
    BY DEF HeaderAt
  <2> HIDE DEF size
  <2>3. \A x \in BOOLEAN : <<"block", x, size>> \in FileParts
    BY <2>1 DEF FileParts
  <2>4. CASE k + size = dataSize
    <3>1. HeaderAt(k) = <<"block", TRUE, size>>
      BY <2>2, <2>4
    <3> QED BY <2>3, <3>1
  <2>5. CASE k + size # dataSize
    <3>1. HeaderAt(k) = <<"block", FALSE, size>>
      BY <2>2, <2>5
    <3> QED BY <2>3, <3>1
  <2> QED BY <2>4, <2>5
<1> DEFINE one == << <<IF k % lineSize = 0 THEN "filter" ELSE "pixel">> >>
           head == IF k % DEFLATE_MAX_BLOCK_SIZE = 0 THEN <<HeaderAt(k)>> ELSE << >>
<1>3. one \in Seq(FileParts)
  BY DEF FileParts
<1>4. <<HeaderAt(k)>> \in Seq(FileParts)
  BY <1>2
<1>5. head \in Seq(FileParts)
  BY <1>4, EmptySeq
<1>6. Piece(k) = head \o one
  BY DEF Piece
<1> HIDE DEF head, one
<1> QED BY <1>3, <1>4, <1>5, <1>6, ConcatProperties

LEMMA FileIs == FileBegins(File)
<1> DEFINE p == [n \in 1 .. dataSize |-> Piece(n - 1)]
<1>1. dataSize \in Nat \ {0} /\ Len(p) = dataSize
  BY DataSize
<1>2. \A k \in 1 .. dataSize : p[k] \in Seq(FileParts)
  <2>1. \A k \in 1 .. dataSize : k - 1 \in 0 .. dataSize - 1 /\ p[k] = Piece(k - 1)
    BY DataSize
  <2> HIDE DEF p
  <2> QED BY <2>1, PieceIs
<1>3. \E f : FileBegins(f)
  <2> HIDE DEF p
  <2> QED BY <1>1, <1>2, FlattenBegins DEF FileBegins, p
<1> QED BY <1>3, Zenon DEF File

LEMMA FileBy ==
  /\ File[0] = << >> /\ WholeFile = File[dataSize] \o << <<"footer">> >>
  /\ \A k \in 0 .. dataSize - 1 : File[k + 1] = File[k] \o Piece(k)
  /\ \A k \in 0 .. dataSize : /\ File[k] \in Seq(FileParts)
                              /\ IsPrefix(File[k], WholeFile)
<1> DEFINE p == [n \in 1 .. dataSize |-> Piece(n - 1)]
<1>1. Beginnings(FileParts, File, p, dataSize)
  BY FileIs DEF FileBegins
<1>2. \A k \in 1 .. dataSize : p[k] = Piece(k - 1) /\ k - 1 \in 0 .. dataSize - 1
  BY DataSize
<1>3. WholeFile = File[dataSize] \o << <<"footer">> >>
  BY <1>1 DEF WholeFile, Beginnings
<1> HIDE DEF p
<1>4. ASSUME NEW k \in 0 .. dataSize - 1 PROVE File[k + 1] = File[k] \o Piece(k)
  <2>1. k + 1 \in 1 .. dataSize /\ (k + 1) - 1 = k
    BY DataSize
  <2> QED BY <1>1, <1>2, <2>1 DEF Beginnings
<1>5. ASSUME NEW k \in 0 .. dataSize PROVE IsPrefix(File[k], WholeFile)
  <2>1. << <<"footer">> >> \in Seq(FileParts)
    BY DEF FileParts
  <2>2. \A j \in 1 .. dataSize : p[j] \in Seq(FileParts)
    BY <1>2, PieceIs
  <2>3. dataSize \in Nat
    BY DataSize
  <2> QED BY <1>1, <1>3, <2>1, <2>2, <2>3, BeginningsGrow
<1> QED BY <1>1, <1>3, <1>4, <1>5 DEF Beginnings

\* A run of equal bytes in one block.
LEMMA RunOfFile ==
  ASSUME NEW w \in Nat, NEW a \in Nat \ {0}, w + a <= dataSize, NEW b,
         \A d \in 0 .. a - 1 : b = IF (w + d) % lineSize = 0 THEN "filter" ELSE "pixel",
         \A d \in 1 .. a - 1 : (w + d) % DEFLATE_MAX_BLOCK_SIZE # 0
  PROVE  File[w + a] = (File[w] \o (IF w % DEFLATE_MAX_BLOCK_SIZE = 0 THEN <<HeaderAt(w)>> ELSE << >>))
                       \o [n \in 1 .. a |-> <<b>>]
<1> DEFINE head == IF w % DEFLATE_MAX_BLOCK_SIZE = 0 THEN <<HeaderAt(w)>> ELSE << >>
           start == File[w] \o head
           run(n) == [k \in 1 .. n |-> <<b>>]
           A == {d \in 0 .. a - 1 : File[w + (d + 1)] = start \o run(d + 1)}
<1>1. dataSize \in Nat /\ w \in 0 .. dataSize - 1
  BY DataSize
<1>2. b \in {"filter", "pixel"}
  <2>1. 0 \in 0 .. a - 1
    OBVIOUS
  <2> QED BY <2>1
<1>3. <<b>> \in FileParts /\ << <<b>> >> \in Seq(FileParts)
  BY <1>2 DEF FileParts
<1>4. head \in Seq(FileParts) /\ File[w] \in Seq(FileParts)
  BY <1>1, PieceIs, FileBy, EmptySeq
<1>5. \A n \in Nat : run(n) \in Seq(FileParts) /\ Len(run(n)) = n
  <2>1. ASSUME NEW n \in Nat PROVE run(n) \in Seq(FileParts) /\ Len(run(n)) = n
    <3>1. \A k \in 1 .. n : <<b>> \in FileParts
      BY <1>3
    <3>2. run(n) \in [1 .. n -> FileParts]
      BY <3>1
    <3> QED BY <3>2
  <2> QED BY <2>1
<1>6. run(1) = << <<b>> >>
  OBVIOUS
<1>7. ASSUME NEW n \in Nat PROVE run(n + 1) = run(n) \o << <<b>> >>
  <2>1. /\ run(n) \o << <<b>> >> \in Seq(FileParts)
        /\ Len(run(n) \o << <<b>> >>) = n + 1
        /\ \A k \in 1 .. n + 1 : (run(n) \o << <<b>> >>)[k] = <<b>>
    <3>1. Len(<< <<b>> >>) = 1 /\ \A k \in 1 .. n : run(n)[k] = <<b>>
      OBVIOUS
    <3> DEFINE r == run(n)
               o == << <<b>> >>
    <3>2. o[1] = <<b>>
      OBVIOUS
    <3>3. r \in Seq(FileParts) /\ Len(r) = n /\ o \in Seq(FileParts) /\ Len(o) = 1
          /\ \A k \in 1 .. n : r[k] = <<b>>
      BY <1>3, <1>5, <3>1
    <3> HIDE DEF r, o
    <3>4. /\ r \o o \in Seq(FileParts) /\ Len(r \o o) = n + 1
          /\ \A k \in 1 .. n + 1 : (r \o o)[k] = IF k <= n THEN r[k] ELSE o[k - n]
      <4>1. /\ r \o o \in Seq(FileParts) /\ Len(r \o o) = Len(r) + Len(o)
            /\ \A k \in 1 .. Len(r) + Len(o) : (r \o o)[k] = IF k <= Len(r) THEN r[k] ELSE o[k - Len(r)]
        <5>1. r \in Seq(FileParts) /\ o \in Seq(FileParts)
          BY <3>3
        <5> QED BY <5>1, ConcatProperties
      <4>2. Len(r) = n /\ Len(o) = 1
        BY <3>3
      <4> QED BY <4>1, <4>2
    <3>5. \A k \in 1 .. n + 1 : k <= n \/ k - n = 1
      OBVIOUS
    <3>6. \A k \in 1 .. n + 1 : (r \o o)[k] = <<b>>
      BY <3>2, <3>3, <3>4, <3>5
    <3> QED BY <3>4, <3>6 DEF r, o
  <2>2. n + 1 \in Nat /\ \A k \in 1 .. n + 1 : run(n + 1)[k] = <<b>>
    OBVIOUS
  <2>3. run(n + 1) \in Seq(FileParts) /\ Len(run(n + 1)) = n + 1
    BY <1>5, <2>2
  <2> HIDE DEF run
  <2> QED BY <2>1, <2>2, <2>3, SeqEqual
<1> HIDE DEF run
<1>8. start \in Seq(FileParts)
  BY <1>4, ConcatProperties
<1>9. 0 \in A
  <2>1. File[w + 1] = File[w] \o Piece(w)
    BY <1>1, FileBy
  <2>2. b = IF w % lineSize = 0 THEN "filter" ELSE "pixel"
    <3>1. w + 0 = w /\ 0 \in 0 .. a - 1
      OBVIOUS
    <3> QED BY <3>1
  <2>3. Piece(w) = head \o << <<b>> >>
    BY <2>2 DEF Piece
  <2> DEFINE x == File[w]
             y == << <<b>> >>
  <2>4. x \in Seq(FileParts) /\ y \in Seq(FileParts)
    BY <1>3, <1>4
  <2> HIDE DEF head, x, y
  <2>5. (x \o head) \o y = x \o (head \o y)
    <3>1. head \in Seq(FileParts)
      BY <1>4
    <3> QED BY <2>4, <3>1, ConcatAssociative, SMTT(30)
  <2>6. File[w + 1] = (x \o head) \o y
    BY <2>1, <2>3, <2>5 DEF x, y
  <2>7. File[w + 1] = start \o run(1)
    BY <1>6, <2>6 DEF x, y
  <2>8. 0 + 1 = 1 /\ 0 \in 0 .. a - 1
    OBVIOUS
  <2> QED BY <2>7, <2>8
<1>10. ASSUME NEW d \in 0 .. (a - 1) - 1, d \in A PROVE d + 1 \in A
  <2> HIDE DEF start
  <2>1. /\ d + 1 \in 0 .. a - 1 /\ d + 1 \in 1 .. a - 1 /\ d + 1 \in Nat
        /\ w + (d + 1) \in 0 .. dataSize - 1 /\ (w + (d + 1)) + 1 = w + ((d + 1) + 1)
    BY <1>1
  <2>2. File[w + (d + 1)] = start \o run(d + 1)
    BY <1>10
  <2>3. File[w + ((d + 1) + 1)] = File[w + (d + 1)] \o Piece(w + (d + 1))
    BY <2>1, FileBy
  <2>4. Piece(w + (d + 1)) = << >> \o << <<b>> >>
    BY <2>1 DEF Piece
  <2>5. << >> \o << <<b>> >> = << <<b>> >>
    BY <1>3, ConcatEmptySeq
  <2> DEFINE x == start
             y == run(d + 1)
             z == << <<b>> >>
  <2>6. x \in Seq(FileParts) /\ y \in Seq(FileParts) /\ z \in Seq(FileParts)
    BY <1>3, <1>5, <1>8, <2>1
  <2>7. run((d + 1) + 1) = y \o z
    BY <1>7, <2>1
  <2> HIDE DEF x, y, z
  <2>8. (x \o y) \o z = x \o (y \o z)
    BY <2>6, ConcatAssociative, SMTT(30)
  <2>9. File[w + ((d + 1) + 1)] = start \o run((d + 1) + 1)
    BY <2>2, <2>3, <2>4, <2>5, <2>7, <2>8 DEF x, y, z
  <2> QED BY <2>1, <2>9
<1>11. File[w + a] = start \o run(a)
  <2>1. a - 1 \in Nat /\ a - 1 \in 0 .. a - 1 /\ (a - 1) + 1 = a
    OBVIOUS
  <2>2. 0 .. a - 1 \subseteq A
    <3> HIDE DEF A
    <3> QED BY <1>9, <1>10, <2>1, UpToInSet
  <2>3. a - 1 \in A
    <3> HIDE DEF A
    <3> QED BY <2>1, <2>2
  <2> HIDE DEF start
  <2>4. File[w + ((a - 1) + 1)] = start \o run((a - 1) + 1)
    BY <2>3
  <2> QED BY <2>1, <2>4
<1> QED BY <1>11, Zenon DEF run

\* The bytes of the data that are written.
Sent == lineSize * positionY + positionX
PngInv ==
  /\ positionX \in 0 .. lineSize - 1 /\ positionY \in 0 .. PngHeight
  /\ positionY = PngHeight => positionX = 0
  /\ uncompRemain = dataSize - Sent /\ deflateFilled = Sent % DEFLATE_MAX_BLOCK_SIZE
  /\ bytes \in Nat /\ failed \in BOOLEAN /\ (failed => positionY = PngHeight)
  /\ output = File[Sent] \o (IF positionY = PngHeight THEN << <<"footer">> >> ELSE << >>)

\* Where a turn's bytes lie in their line and in their block: a of them, from byte x
\* of line y on, which is byte w of the data.
TurnFrom(L, H, D, x, y, w, a) ==
  /\ L \in Nat /\ L > 1 /\ H \in Nat /\ D \in Nat /\ D > 0
  /\ x \in 0 .. L - 1 /\ y \in 0 .. H - 1 /\ w = L * y + x
  /\ a \in Nat \ {0} /\ a <= L - x /\ a <= D - (w % D)
TurnTo(L, H, D, x, y, w, a) ==
  /\ w + a <= L * H
  /\ \A d \in 0 .. a - 1 : (w + d) % L = x + d /\ (w + d) % D = (w % D) + d
  /\ (w + a) % D = IF (w % D) + a >= D THEN 0 ELSE (w % D) + a
  /\ x + a = L => w + a = L * (y + 1) + 0 /\ (y + 1 = H => w + a = L * H)

LEMMA TurnLies ==
  ASSUME NEW L, NEW H, NEW D, NEW x, NEW y, NEW w, NEW a, TurnFrom(L, H, D, x, y, w, a)
  PROVE  TurnTo(L, H, D, x, y, w, a)
<1>0. /\ L \in Nat /\ L > 1 /\ H \in Nat /\ D \in Nat /\ D > 0
      /\ x \in 0 .. L - 1 /\ y \in 0 .. H - 1 /\ w = L * y + x
      /\ a \in Nat \ {0} /\ a <= L - x /\ a <= D - (w % D)
  BY DEF TurnFrom
<1> USE <1>0
<1>1. L * y \in Nat /\ L * (y + 1) = L * y + L /\ w \in Nat /\ w + a <= L * y + L
  <2>1. L * y \in Nat /\ L * (y + 1) = L * y + L
    OBVIOUS
  <2> DEFINE m == L * y
  <2>2. w = m + x /\ m \in Nat
    BY <2>1
  <2> HIDE DEF m
  <2>3. w \in Nat /\ w + a <= m + L
    BY <2>2
  <2> QED BY <2>1, <2>3 DEF m
<1>2. L * (y + 1) <= L * H
  <2>1. y + 1 <= H /\ y + 1 \in Int
    OBVIOUS
  <2>2. (y + 1) * L <= H * L
    BY <2>1, Product
  <2> QED BY <2>2
<1>3. w + a <= L * H
  <2> DEFINE m == L * H
             n == L * (y + 1)
  <2>1. m \in Int /\ n \in Int /\ n <= m /\ w + a <= n
    BY <1>1, <1>2
  <2> HIDE DEF m, n
  <2>2. w + a <= m
    BY <1>1, <2>1
  <2> QED BY <2>2 DEF m
<1>4. ASSUME NEW d \in 0 .. a - 1 PROVE (w + d) % L = x + d
  <2>1. x + d \in 0 .. L - 1 /\ y \in Int /\ L \in Nat /\ L > 0
    OBVIOUS
  <2>2. (L * y + (x + d)) % L = x + d
    BY <2>1, ModUnique, Zenon
  <2>3. L * y + (x + d) = w + d
    BY <1>1
  <2> QED BY <2>2, <2>3
<1>4a. w \in Int
  BY <1>1
<1>4b. w % D \in 0 .. D - 1 /\ \E q \in Int : w = (D * q) + (w % D)
  BY <1>4a, ModIs
<1> DEFINE r == w % D
<1>5. PICK q \in Int : w = (D * q) + r
  BY <1>4b, Zenon
<1>6. r \in 0 .. D - 1
  BY <1>4b
<1>7. a <= D - r
  OBVIOUS
<1> HIDE DEF r
<1>8. ASSUME NEW d \in 0 .. a - 1 PROVE (w + d) % D = r + d
  <2>1. r + d \in 0 .. D - 1
    BY <1>6, <1>7
  <2>2. (D * q + (r + d)) % D = r + d
    BY <2>1, ModUnique
  <2>3. D * q + (r + d) = w + d
    BY <1>5, <1>6
  <2> QED BY <2>2, <2>3
<1>9. (w + a) % D = IF r + a >= D THEN 0 ELSE r + a
  <2>1. CASE r + a >= D
    <3>1. r + a = D /\ q + 1 \in Int /\ 0 \in 0 .. D - 1
      BY <1>6, <1>7, <2>1
    <3>2. (D * (q + 1) + 0) % D = 0
      BY <3>1, ModUnique
    <3>3. D * (q + 1) + 0 = D * q + D
      OBVIOUS
    <3>4. D * (q + 1) + 0 = w + a
      <4> DEFINE m == D * q
      <4>1. m \in Int /\ w = m + r
        BY <1>5
      <4> HIDE DEF m
      <4>2. w + a = m + D
        BY <1>6, <3>1, <4>1
      <4> QED BY <3>3, <4>2 DEF m
    <3> QED BY <2>1, <3>2, <3>4
  <2>2. CASE ~(r + a >= D)
    <3>1. r + a \in 0 .. D - 1
      BY <1>6, <2>2
    <3>2. (D * q + (r + a)) % D = r + a
      BY <3>1, ModUnique
    <3>3. D * q + (r + a) = w + a
      BY <1>5, <1>6
    <3> QED BY <2>2, <3>2, <3>3
  <2> QED BY <2>1, <2>2
<1>10. ASSUME x + a = L PROVE w + a = L * (y + 1) + 0 /\ (y + 1 = H => w + a = L * H)
  <2> DEFINE m == L * y
             n == L * (y + 1)
  <2>1. w = m + x /\ m \in Int /\ n = m + L
    BY <1>1
  <2> HIDE DEF m, n
  <2>2. w + a = n /\ n \in Int
    BY <1>10, <2>1
  <2> QED BY <2>2 DEF n
<1> QED BY <1>1, <1>3, <1>4, <1>8, <1>9, <1>10 DEF r, TurnTo

\* What is less than the modulus does not wrap.
LEMMA Unwrapped ==
  ASSUME dataSize \in Nat, dataSize < SizeModulus, NEW n \in 0 .. dataSize
  PROVE  n % SizeModulus = n
<1>1. SizeModulus \in Nat /\ n \in 0 .. SizeModulus - 1 /\ 0 \in Int /\ SizeModulus > 0
  BY TinyPngOutAssumption
<1> QED BY <1>1

LEMMA TurnKeepsFile ==
  ASSUME PngInv, PngTurn, dataSize < SizeModulus
  PROVE  PngInv'
<1> DEFINE L == lineSize
           H == PngHeight
           D == DEFLATE_MAX_BLOCK_SIZE
           x == positionX
           y == positionY
           filter == x = 0
           head(w) == IF w % D = 0 THEN <<HeaderAt(w)>> ELSE << >>
           kind == IF filter THEN "filter" ELSE "pixel"
<1>1. /\ L \in Nat /\ L > 1 /\ H \in Nat /\ D \in Nat /\ D > 0 /\ dataSize = L * H /\ dataSize \in Nat
  BY DataSize DEF dataSize
<1>2. /\ x \in 0 .. L - 1 /\ y \in 0 .. H - 1 /\ bytes \in Nat /\ bytes > 0 /\ ~failed
  BY <1>1 DEF PngInv, PngTurn
<1>3. PICK w : w = Sent
  OBVIOUS
<1>4. w = L * y + x /\ deflateFilled = w % D /\ uncompRemain = dataSize - w
  BY <1>3 DEF Sent, PngInv
<1>5. w \in Nat /\ w % D \in 0 .. D - 1
  <2>1. L * y \in Nat
    BY <1>1, <1>2
  <2>2. w \in Nat
    BY <1>2, <1>4, <2>1
  <2> QED BY <1>1, <2>2, ModIs
<1>6. PICK a : a = Amount
  OBVIOUS
<1>7. /\ a \in Nat \ {0} /\ a <= L - x /\ a <= D - (w % D)
      /\ filter => a = 1
      /\ ~filter => a <= bytes
  <2>1. a = IF x = 0 THEN 1 ELSE Lesser(bytes, Lesser(L - x, D - (w % D)))
    BY <1>4, <1>6 DEF Amount
  <2> DEFINE m == w % D
  <2>2. m \in 0 .. D - 1
    BY <1>5
  <2> HIDE DEF L, D, m
  <2> QED BY <1>1, <1>2, <2>1, <2>2 DEF Lesser, m
<1>8. /\ w + a <= dataSize
      /\ \A d \in 0 .. a - 1 : (w + d) % L = x + d /\ (w + d) % D = (w % D) + d
      /\ (w + a) % D = IF (w % D) + a >= D THEN 0 ELSE (w % D) + a
      /\ x + a = L => w + a = L * (y + 1) + 0 /\ (y + 1 = H => w + a = dataSize)
  <2>1. TurnFrom(L, H, D, x, y, w, a)
    BY <1>1, <1>2, <1>4, <1>7 DEF TurnFrom
  <2>2. dataSize = L * H
    BY <1>1
  <2> HIDE DEF L, H, D, x, y
  <2>3. TurnTo(L, H, D, x, y, w, a)
    BY <2>1, TurnLies, Zenon
  <2> QED BY <2>2, <2>3 DEF TurnTo
<1>9. PICK ended : ended = (x + a = L)
  OBVIOUS
<1>10. PICK last : last = (ended /\ y + 1 = H)
  OBVIOUS
<1>11. /\ positionX' = IF ended THEN 0 ELSE x + a
       /\ positionY' = IF ended THEN y + 1 ELSE y
       /\ uncompRemain' = (uncompRemain - a) % SizeModulus
       /\ deflateFilled' = IF deflateFilled + a >= D THEN 0 ELSE deflateFilled + a
       /\ bytes' = IF filter THEN bytes ELSE bytes - a
       /\ failed' = failed
  BY <1>6, <1>9 DEF PngTurn
<1>12. output' = ((output \o (IF deflateFilled = 0 THEN <<BlockHeader>> ELSE << >>))
                   \o [n \in 1 .. a |-> <<kind>>])
                  \o (IF last THEN << <<"footer">> >> ELSE << >>)
  BY <1>6, <1>9, <1>10 DEF PngTurn
<1>13. BlockHeader = HeaderAt(w)
  <2> DEFINE rest == dataSize - w
             size == Lesser(rest, D)
  <2>1. rest \in Int /\ (rest <= D <=> w + size = dataSize)
    BY <1>1, <1>5 DEF Lesser
  <2>2. BlockHeader = <<"block", rest <= D, size>>
    BY <1>4 DEF BlockHeader
  <2>3. HeaderAt(w) = <<"block", w + size = dataSize, size>>
    BY DEF HeaderAt
  <2> HIDE DEF rest, size, D
  <2>4. CASE rest <= D
    BY <2>1, <2>2, <2>3, <2>4
  <2>5. CASE ~(rest <= D)
    BY <2>1, <2>2, <2>3, <2>5
  <2> QED BY <2>4, <2>5
<1>14. File[w + a] = (File[w] \o head(w)) \o [n \in 1 .. a |-> <<kind>>]
  <2>1. ASSUME NEW d \in 0 .. a - 1
        PROVE  kind = IF (w + d) % lineSize = 0 THEN "filter" ELSE "pixel"
    <3>1. (w + d) % L = x + d
      BY <1>8
    <3>2. filter => d = 0
      BY <1>7
    <3>3. filter <=> x + d = 0
      BY <1>2, <3>2
    <3> QED BY <3>1, <3>3
  <2>2. ASSUME NEW d \in 1 .. a - 1 PROVE (w + d) % D # 0
    <3>1. d \in 0 .. a - 1
      BY <1>7
    <3>2. (w + d) % D = (w % D) + d
      BY <1>8, <3>1
    <3> QED BY <1>5, <3>2
  <2> HIDE DEF kind
  <2> QED BY <1>5, <1>7, <1>8, <2>1, <2>2, RunOfFile
<1>15. output = File[w]
  <2>1. output = File[w] \o << >>
    <3>1. positionY # PngHeight
      BY <1>1, <1>2
    <3>2. output = File[Sent] \o (IF positionY = PngHeight THEN << <<"footer">> >> ELSE << >>)
      BY DEF PngInv
    <3> QED BY <1>3, <3>1, <3>2, Zenon
  <2>2. w \in 0 .. dataSize
    BY <1>1, <1>5, <1>7, <1>8
  <2>3. File[w] \in Seq(FileParts)
    BY <2>2, FileBy
  <2> QED BY <2>1, <2>3, ConcatEmptySeq
<1>16. output' = File[w + a] \o (IF last THEN << <<"footer">> >> ELSE << >>)
  <2>1. head(w) = IF deflateFilled = 0 THEN <<BlockHeader>> ELSE << >>
    BY <1>4, <1>13
  <2> HIDE DEF head, kind
  <2> QED BY <1>12, <1>14, <1>15, <2>1, Zenon
<1>17. Sent' = w + a
  <2>1. Sent' = L * positionY' + positionX'
    BY DEF Sent
  <2>2. CASE ended
    <3>1. w + a = L * (y + 1) + 0
      BY <1>8, <1>9, <2>2
    <3> QED BY <1>11, <2>1, <2>2, <3>1
  <2>3. CASE ~ended
    <3> DEFINE m == L * y
    <3>1. m \in Int /\ w = m + x
      BY <1>1, <1>2, <1>4
    <3>2. Sent' = m + (x + a)
      BY <1>11, <2>1, <2>3
    <3> HIDE DEF m
    <3> QED BY <1>2, <1>7, <3>1, <3>2
  <2> QED BY <2>2, <2>3
<1>18. /\ positionX' \in 0 .. L - 1 /\ positionY' \in 0 .. H /\ (positionY' = H => positionX' = 0)
       /\ (positionY' = H <=> last)
  <2> HIDE DEF L, H, x, y
  <2>0. 0 \in 0 .. L - 1 /\ y + 1 \in 0 .. H /\ y \in 0 .. H /\ y # H
    BY <1>1, <1>2
  <2>1. CASE ended
    <3>1. positionX' = 0 /\ positionY' = y + 1
      BY <1>11, <2>1, Zenon
    <3>2. positionY' = H <=> last
      BY <1>10, <2>1, <3>1, Zenon
    <3> QED BY <2>0, <3>1, <3>2, Zenon
  <2>2. CASE ~ended
    <3>1. x + a # L
      BY <1>9, <2>2, Zenon
    <3>2. x + a \in 0 .. L - 1
      BY <1>1, <1>2, <1>7, <3>1
    <3>3. positionX' = x + a /\ positionY' = y
      BY <1>11, <2>2, Zenon
    <3>4. ~last
      BY <1>10, <2>2, Zenon
    <3> QED BY <2>0, <3>2, <3>3, <3>4, Zenon
  <2> QED BY <2>1, <2>2, Zenon
<1>19. uncompRemain' = dataSize - (w + a)
  <2>0. w + a <= dataSize
    BY <1>8
  <2>1. uncompRemain - a = dataSize - (w + a) /\ dataSize - (w + a) \in 0 .. dataSize
    <3>1. dataSize \in Nat /\ w \in Nat /\ a \in Nat /\ uncompRemain = dataSize - w
      BY <1>1, <1>4, <1>5, <1>7
    <3> HIDE DEF L, H, D, x, y
    <3> QED BY <2>0, <3>1
  <2>2. (dataSize - (w + a)) % SizeModulus = dataSize - (w + a)
    BY <1>1, <2>1, Unwrapped
  <2> QED BY <1>11, <2>1, <2>2
<1>20. deflateFilled' = (w + a) % D
  BY <1>4, <1>8, <1>11
<1>21. bytes' \in Nat
  BY <1>2, <1>7, <1>11
<1>22. output' = File[w + a] \o (IF positionY' = H THEN << <<"footer">> >> ELSE << >>)
  BY <1>16, <1>18
<1>23. dataSize' = dataSize /\ File' = File
  BY DEF dataSize
<1> QED BY <1>2, <1>11, <1>17, <1>18, <1>19, <1>20, <1>21, <1>22 DEF PngInv

Fits == dataSize < SizeModulus
THEOREM PngInvariance == PngSpec => [](Fits => PngInv)
<1>1. PngInit => (Fits => PngInv)
  <2> SUFFICES ASSUME PngInit, dataSize < SizeModulus PROVE PngInv
    BY DEF Fits
  <2>0. uncompSize = dataSize
    <3>1. dataSize \in Nat /\ dataSize \in 0 .. dataSize
      BY DataSize
    <3> QED BY <3>1, Unwrapped DEF uncompSize
  <2>1. /\ positionX = 0 /\ positionY = 0 /\ deflateFilled = 0 /\ uncompRemain = dataSize
        /\ output = << >> /\ bytes = 0 /\ failed = FALSE
    BY <2>0 DEF PngInit
  <2>2. Sent = 0 /\ 0 \in 0 .. lineSize - 1 /\ 0 \in 0 .. PngHeight /\ PngHeight # 0
    BY <2>1, DataSize DEF Sent
  <2>3. 0 % DEFLATE_MAX_BLOCK_SIZE = 0
    <3>1. 0 \in 0 .. DEFLATE_MAX_BLOCK_SIZE - 1 /\ 0 \in Int
      BY DataSize
    <3> QED BY <3>1, DataSize, ModAdds
  <2>4. output = File[0] \o << >>
    <3>1. << >> \o << >> = << >>
      BY EmptySeq, ConcatEmptySeq
    <3> QED BY <2>1, <3>1, FileBy
  <2>5. dataSize - 0 = dataSize
    BY DataSize
  <2> QED BY <2>1, <2>2, <2>3, <2>4, <2>5 DEF PngInv
<1>2. (Fits => PngInv) /\ [PngNext]_pngVars => (Fits => PngInv)'
  <2> SUFFICES ASSUME PngInv, [PngNext]_pngVars, dataSize < SizeModulus PROVE PngInv'
    BY DEF Fits, dataSize, lineSize
  <2>1. ASSUME NEW count \in Counts, PngWrite(count) PROVE PngInv'
    <3>1. bytes' \in Nat
      <4>1. count \in Nat
        BY TinyPngOutAssumption
      <4> QED BY <2>1, <4>1 DEF PngWrite
    <3> QED BY <2>1, <3>1 DEF PngInv, PngWrite, Sent
  <2>2. CASE PastEnd
    <3>1. positionY = PngHeight
      BY <2>2, DataSize DEF PngInv, PastEnd
    <3> QED BY <2>2, <3>1 DEF PngInv, PastEnd, Sent
  <2>3. CASE PngTurn
    BY <2>3, TurnKeepsFile
  <2>4. CASE UNCHANGED pngVars
    BY <2>4 DEF PngInv, pngVars, Sent
  <2> QED BY <2>1, <2>2, <2>3, <2>4 DEF PngNext
<1> QED BY <1>1, <1>2, PTL DEF PngSpec

\* However write's calls cut the pixels (TinyPngOut.cpp:99-179), for pictures of less
\* than 2^32 bytes and blocks of any size: what is written is the beginning of the one
\* file, and then all of it.
THEOREM FileCorrect == PngSpec => []WritesTheFile
<1>1. (Fits => PngInv) => WritesTheFile
  <2> SUFFICES ASSUME PngInv, dataSize < SizeModulus PROVE WritesTheFile
    BY DEF Fits, WritesTheFile
  <2>1. CASE positionY = PngHeight
    <3>1. Sent = dataSize
      BY <2>1, DataSize DEF PngInv, Sent, dataSize
    <3>2. output = WholeFile
      BY <2>1, <3>1, FileBy DEF PngInv
    <3>3. IsPrefix(output, WholeFile)
      BY <3>2 DEF IsPrefix
    <3> QED BY <2>1, <3>2, <3>3 DEF WritesTheFile
  <2>2. CASE positionY # PngHeight
    <3>1. Sent \in 0 .. dataSize
      <4> DEFINE L == lineSize
                 H == PngHeight
                 y == positionY
                 x == positionX
      <4>1. L \in Nat /\ H \in Nat /\ y \in 0 .. H - 1 /\ x \in 0 .. L - 1
        BY <2>2, DataSize DEF PngInv
      <4> HIDE DEF L, H, x, y
      <4>2. L * y \in Nat /\ L * (y + 1) = L * y + L /\ L * H \in Nat
        BY <4>1
      <4>3. (y + 1) * L <= H * L
        <5>1. y + 1 <= H /\ y + 1 \in Int
          BY <4>1
        <5> QED BY <4>1, <5>1, Product
      <4>4. L * (y + 1) <= L * H
        BY <4>1, <4>3
      <4> DEFINE m == L * y
                 n == L * H
      <4>5. m \in Nat /\ n \in Nat /\ m + L <= n
        BY <4>2, <4>4
      <4> HIDE DEF m, n
      <4>6. m + x \in 0 .. n
        BY <4>1, <4>5
      <4> QED BY <4>6 DEF m, n, L, H, x, y, Sent, dataSize
    <3>2. output = File[Sent] \o << >>
      BY <2>2 DEF PngInv
    <3>3. File[Sent] \in Seq(FileParts) /\ IsPrefix(File[Sent], WholeFile)
      BY <3>1, FileBy
    <3>4. output = File[Sent]
      BY <3>2, <3>3, ConcatEmptySeq
    <3> QED BY <2>2, <3>3, <3>4 DEF WritesTheFile, PngInv
  <2> QED BY <2>1, <2>2
<1> QED BY <1>1, PngInvariance, PTL
=============================================================================
