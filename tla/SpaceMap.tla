------------------------------ MODULE SpaceMap ------------------------------
(***************************************************************************)
(* CreateSpaceMap of spacemap.cpp: the three generation steps that turn a  *)
(* random walk into the walls of every layer.                              *)
(*                                                                         *)
(* The source keeps rgb[up][size * size * 3], one array after another in   *)
(* memory, and computes the index of a pixel from its coordinates without  *)
(* a check.  So does the model: a pixel (its three equal bytes) is the     *)
(* flat index GetPixel of its layer and coordinates, and an index before   *)
(* or after the layer's own falls into its neighbour, or out of the array. *)
(*                                                                         *)
(* rand() is a choice.  A piece of furniture is its position.              *)
(***************************************************************************)
EXTENDS Integers, Sequences, FiniteSets

CONSTANTS
  map_size,
  up,            \* layers
  WalkLengths,   \* steps of a layer's walk (size^2/2 .. size^2 - 1 in the code)
  TurnGaps,      \* steps between two turns (20 .. 24)
  FirstTurn,     \* steps before a layer's first turn (5)
  RoomGaps,      \* steps between two rooms (20 .. 44)
  FirstRoom,     \* steps before a layer's first room (15)
  RoomHalves,    \* room_size / 2, room_size being 2 .. 5
  MaxFurniture   \* bound on the furniture put into one room

ASSUME SpaceMapAssumption ==
  /\ map_size \in Nat /\ map_size >= 4 /\ up \in Nat \ {0}
  /\ WalkLengths \subseteq Nat \ {0, 1}
  /\ TurnGaps \subseteq Nat /\ RoomGaps \subseteq Nat
  /\ FirstTurn \in Nat /\ FirstRoom \in Nat
  /\ RoomHalves \subseteq {1, 2} /\ MaxFurniture \in Nat

VARIABLES
  phase,          \* "walk", "path", "clean", "done"
  layer,          \* the layer the phase is at
  i, maximum,     \* the step of the walk, and how many it has
  coords, walkDirection,
  step, room_step,
  rgb,            \* 0, 50 (walked on), 10 (walked on, step 2), 255 (wall)
  out_positions,
  furniture_positions,
  stray           \* an access has left the allocated bytes

walkerVars == <<i, maximum, coords, walkDirection, step, room_step>>
spaceVars == <<phase, layer, walkerVars, rgb, out_positions, furniture_positions, stray>>

Layer      == 0 .. up - 1
MapCells      == (0 .. map_size - 1) \X (0 .. map_size - 1)
Pixels     == 0 .. up * map_size * map_size - 1
GetPixel(l, c) == l * map_size * map_size + c[1] * map_size + c[2]
InBorder(c) == c[1] < 1 \/ c[2] < 1 \/ c[1] > map_size - 2 \/ c[2] > map_size - 2
\* Mutant of Clamp: the bounds are the first and the last row, the border.
ClampWide(n) == IF n < 0 THEN 0 ELSE IF n > map_size - 1 THEN map_size - 1 ELSE n
Clamp(n)    == IF n < 1 THEN 1 ELSE IF n > map_size - 2 THEN map_size - 2 ELSE n
Plus(c, d)  == <<c[1] + d[1], c[2] + d[2]>>

\* B(ack) R(ight) U(p) L(eft)
directions == << <<0, -1>>, <<1, 0>>, <<0, 1>>, <<-1, 0>> >>
Directions == {directions[k] : k \in 1 .. 4}
ReverseDirection(d) == <<-d[1], -d[2]>>
ShiftDirection(d) ==
  LET k == CHOOSE k \in 1 .. 4 : directions[k] = d IN directions[(k % 4) + 1]
\* NewDirection draws one of the four and, if it is d itself, takes the next.
NewDirections(d) == Directions \ {d}

StartLayer(c) ==
  /\ i' = 0 /\ step' = FirstTurn /\ room_step' = FirstRoom
  /\ maximum' \in WalkLengths
  /\ coords' = c

Middle == <<map_size \div 2, map_size \div 2>>

SpaceInit ==
  /\ phase = "walk" /\ layer = 0
  /\ coords = Middle
  /\ walkDirection \in Directions
  /\ i = 0 /\ step = FirstTurn /\ room_step = FirstRoom
  /\ maximum \in WalkLengths
  /\ rgb = [n \in Pixels |-> IF n = GetPixel(0, Middle) THEN 50 ELSE 0]
  /\ out_positions = << >>
  /\ furniture_positions = [l \in Layer |-> {}]
  /\ stray = FALSE

-----------------------------------------------------------------------------
(***************************************************************************)
(* Generation step 1: the walk.                                            *)
(***************************************************************************)
Ahead == Plus(coords, walkDirection)

\* The colours after the pixels of cells cs of this layer are set to 50.
Walked(cs) ==
  LET ns == {GetPixel(layer, c) : c \in cs}
  IN  [n \in Pixels |-> IF n \in ns THEN 50 ELSE rgb[n]]

\* The last step of a layer ends it wherever it leads; the next one starts there.
LastStep ==
  /\ phase = "walk" /\ i >= maximum - 1
  /\ out_positions' = Append(out_positions, Ahead)
  /\ stray' = (stray \/ GetPixel(layer, Ahead) \notin Pixels)
  /\ IF layer + 1 < up
       THEN /\ layer' = layer + 1 /\ phase' = phase
            /\ StartLayer(Ahead)
            /\ rgb' = [Walked({Ahead}) EXCEPT ![GetPixel(layer + 1, Ahead)] = 50]
       ELSE /\ layer' = 0 /\ phase' = "path"
            /\ coords' = Ahead
            /\ rgb' = Walked({Ahead})
            /\ UNCHANGED <<i, maximum, step, room_step>>
  /\ UNCHANGED <<walkDirection, furniture_positions>>

\* A step into the border is taken back, and the walk turns round.
Bounce ==
  /\ phase = "walk" /\ i < maximum - 1 /\ InBorder(Ahead)
  /\ walkDirection' = ReverseDirection(walkDirection)
  /\ i' = i + 1 /\ step' = step - 1 /\ room_step' = room_step - 1
  /\ UNCHANGED <<phase, layer, maximum, coords, rgb, out_positions,
                 furniture_positions, stray>>

\* Mutant of Room: the room's far edge stops before the walk's own cell.
RoomBeside(half) ==
  {<<Clamp(Ahead[1] + x), Clamp(Ahead[2] + y)>> : x, y \in -half .. -1}
\* The cells of a room around the walk.
Room(half) ==
  {<<Clamp(Ahead[1] + x), Clamp(Ahead[2] + y)>> : x, y \in -half .. half - 1}

Carve ==
  /\ phase = "walk" /\ i < maximum - 1 /\ ~InBorder(Ahead)
  /\ coords' = Ahead
  /\ i' = i + 1
  /\ IF room_step - 1 <= 0
       THEN \E half \in RoomHalves, gap \in RoomGaps :
              /\ rgb' = Walked(Room(half))
              /\ \E fs \in {s \in SUBSET Room(half) : Cardinality(s) <= MaxFurniture} :
                   furniture_positions' =
                     [furniture_positions EXCEPT ![layer] = @ \union fs]
              /\ room_step' = gap
       ELSE /\ rgb' = Walked({Ahead})
            /\ room_step' = room_step - 1
            /\ UNCHANGED furniture_positions
  /\ \E turned \in {walkDirection, ShiftDirection(walkDirection)} :
       IF step - 1 <= 0
         THEN walkDirection' \in NewDirections(turned) /\ step' \in TurnGaps
         ELSE walkDirection' = turned /\ step' = step - 1
  /\ UNCHANGED <<phase, layer, maximum, out_positions, stray>>

-----------------------------------------------------------------------------
(***************************************************************************)
(* Generation steps 2 and 3, a layer at a time.                            *)
(***************************************************************************)
LayerPixels(l) == {GetPixel(l, c) : c \in MapCells}
NextLayerOr(next) ==
  IF layer + 1 < up THEN layer' = layer + 1 /\ phase' = phase
                        ELSE layer' = 0 /\ phase' = next

\* The indices of the four neighbours of pixel n, wherever they fall.
Neighbours(n) == {n - 1, n + 1, n - map_size, n + map_size}

\* Mutant of Pathing: nothing is built along the walk's columns.
PathingRows ==
  LET path == {n \in LayerPixels(layer) : rgb[n] = 50}
  IN  /\ phase = "path"
      /\ rgb' = [n \in Pixels |->
                   IF n \in path THEN 10
                   ELSE IF rgb[n] = 0 /\ \E m \in path : n \in {m - 1, m + 1} THEN 255
                   ELSE rgb[n]]
      /\ stray' = (stray \/ \E m \in path : ~(Neighbours(m) \subseteq Pixels))
      /\ NextLayerOr("clean")
      /\ UNCHANGED <<walkerVars, out_positions, furniture_positions>>
\* Walls go up on the untouched neighbours of every cell walked on.
Pathing ==
  LET path == {n \in LayerPixels(layer) : rgb[n] = 50}
  IN  /\ phase = "path"
      /\ rgb' = [n \in Pixels |->
                   IF n \in path THEN 10
                   ELSE IF rgb[n] = 0 /\ \E m \in path : n \in Neighbours(m) THEN 255
                   ELSE rgb[n]]
      /\ stray' = (stray \/ \E m \in path : ~(Neighbours(m) \subseteq Pixels))
      /\ NextLayerOr("clean")
      /\ UNCHANGED <<walkerVars, out_positions, furniture_positions>>

\* Mutant of Edge: the far border is looked for one cell too far.
NearEdge == {c \in MapCells : c[1] <= 0 \/ c[1] > map_size - 1 \/ c[2] <= 0 \/ c[2] > map_size - 1}
Edge == {c \in MapCells : c[1] <= 0 \/ c[1] >= map_size - 1 \/ c[2] <= 0 \/ c[2] >= map_size - 1}

\* The border becomes walls, also where the walk has been; its marks are wiped.
Cleaning ==
  LET edge == {GetPixel(layer, c) : c \in Edge}
  IN  /\ phase = "clean"
      /\ rgb' = [n \in Pixels |->
                   IF n \in edge THEN 255
                   ELSE IF n \in LayerPixels(layer) /\ rgb[n] = 10 THEN 0
                   ELSE rgb[n]]
      /\ NextLayerOr("done")
      /\ UNCHANGED <<walkerVars, out_positions, furniture_positions, stray>>

SpaceNext == LastStep \/ Bounce \/ Carve \/ Pathing \/ Cleaning

SpaceSpec == SpaceInit /\ [][SpaceNext]_spaceVars

-----------------------------------------------------------------------------
MapTypeOK ==
  /\ phase \in {"walk", "path", "clean", "done"}
  /\ layer \in Layer
  /\ i \in Nat /\ maximum \in WalkLengths
  /\ coords \in MapCells /\ walkDirection \in Directions
  /\ step \in Int /\ room_step \in Int
  /\ rgb \in [Pixels -> {0, 10, 50, 255}]
  /\ out_positions \in Seq(MapCells)
  /\ furniture_positions \in [Layer -> SUBSET MapCells]
  /\ stray \in BOOLEAN

\* A walk that starts a layer on the border (where the last layer's ended) looks
\* straight in or straight out, never along it: along it, Bounce would turn it
\* to and fro there until the layer ends, with nothing walked on.
NeverAlongTheBorder ==
  phase = "walk" /\ InBorder(coords) =>
    Plus(coords, walkDirection) \notin MapCells
    \/ ~InBorder(Plus(coords, walkDirection))

Wall(l, c) == rgb[GetPixel(l, c)] = 255
Adjacent(c) == {Plus(c, d) : d \in Directions} \intersect MapCells

\* Every layer is closed by a border of walls, whatever steps 1 and 2 left there.
BorderIsWall == phase = "done" => \A l \in Layer, c \in MapCells : InBorder(c) => Wall(l, c)

\* Between generation steps 2 and 3, no cell walked on is next to one that was
\* neither walked on nor made a wall: a layer has no holes into nowhere.
Sealed ==
  phase = "clean" =>
    \A l \in Layer : \A c \in MapCells : \A d \in Adjacent(c) :
      ~InBorder(c) /\ rgb[GetPixel(l, c)] = 10 => rgb[GetPixel(l, d)] # 0

\* The free cells of layer l that c is or is next to, and those within k steps.
Doors(l, c) == {d \in {c} \union Adjacent(c) : ~Wall(l, d)}
Region(l, c) ==
  LET inside == (map_size - 2) * (map_size - 2)
      within[k \in 0 .. inside] ==
        IF k = 0 THEN Doors(l, c)
        ELSE LET near == within[k - 1]
             IN  near \union UNION {Doors(l, d) : d \in near}
  IN  within[inside]
Start(l) == IF l = 0 THEN Middle ELSE out_positions[l]

\* In every finished layer one can walk from where the layer's walk began to a
\* cell from which its teleport can be picked up.
TeleportReachable ==
  phase = "done" =>
    \A l \in Layer : Region(l, Start(l)) \intersect Doors(l, out_positions[l + 1]) # {}

\* Furniture stands on the floor, never in a wall.
FurnitureOnFloor ==
  phase = "done" => \A l \in Layer : \A c \in furniture_positions[l] : ~Wall(l, c)

\* "Allocated %i bytes for all layers", says the generation of its array: no
\* access leaves those bytes.
InAllocation == ~stray
=============================================================================
