---------------------------- MODULE SceneProofs -----------------------------
(***************************************************************************)
(* What the runs of the game scene and of the console scene check on small *)
(* instances: Parts.cfg and Build.cfg on two layers, for any number of     *)
(* layers, houses, sizes and paces; Build.cfg for three clients, four      *)
(* packets and two rows, for any number of them.                           *)
(***************************************************************************)
EXTENDS Game, EnemyProofs, Console, SequenceTheorems

(***************************************************************************)
(* The border keeps the player in.                                         *)
(***************************************************************************)

\* More than 3/5 of a cell from the middle of every border cell.
InnerCoordinate(n) == 3 * Slowness < 5 * n /\ 5 * n < 5 * MapSide - 3 * Slowness
Inner(p) == InnerCoordinate(p.x) /\ InnerCoordinate(p.y)

\* A coordinate at most half a cell off the map has a cell's middle at most half
\* a cell away.
LEMMA NearestCell ==
  ASSUME NEW n \in Int, -Slowness < 2 * n, 2 * n < 2 * MapSide + Slowness
  PROVE  \E j \in 0 .. Size - 1 : 2 * Magnitude(n - Slowness * j) <= Slowness
<1> DEFINE j == (2 * n + Slowness) \div (2 * Slowness)
<1>1. Slowness \in Nat /\ Slowness > 0 /\ Size \in Nat /\ MapSide \in Nat
  BY GeometryAssumption, MapSideType
<1>2. /\ j \in Int /\ (2 * Slowness) * j <= 2 * n + Slowness
      /\ 2 * n + Slowness < (2 * Slowness) * j + 2 * Slowness
  <2>1. 2 * Slowness \in Nat /\ 2 * Slowness > 0 /\ 2 * n + Slowness \in Int
    BY <1>1
  <2> QED BY <2>1, DivFloor
<1>3. /\ (2 * Slowness) * (-1) < (2 * Slowness) * j
      /\ (2 * Slowness) * j < (2 * Slowness) * Size
  <2>1. (2 * Slowness) * Size = 2 * MapSide + 2 * Slowness  BY <1>1 DEF MapSide
  <2> QED BY <1>1, <1>2, <2>1
<1>4. j \in 0 .. Size - 1
  <2>1. 2 * Slowness \in Nat /\ 2 * Slowness > 0  BY <1>1
  <2>2. -1 < j /\ j < Size  BY <1>1, <1>2, <1>3, <2>1, Cancel
  <2> QED BY <1>1, <1>2, <2>2
<1>5. 2 * Magnitude(n - Slowness * j) <= Slowness
  <2>1. Slowness * j \in Int /\ (2 * Slowness) * j = 2 * (Slowness * j)
    BY <1>1, <1>2
  <2> QED BY <1>1, <1>2, <2>1 DEF Magnitude
<1> QED BY <1>4, <1>5

\* From an inner point, less than a cell away and touching no wall is inner again.
LEMMA BorderKeepsIn ==
  ASSUME NEW grid \in SUBSET Cells, Border \subseteq grid,
         NEW p \in Point, Inner(p), NEW q \in Point, Within(q, p, Slowness),
         NEW r \in {10, 20}, ~CircleCollide(grid, q, r)
  PROVE  Inner(q)
<1>1. /\ Slowness \in Nat /\ Slowness >= 2 /\ Size \in Nat /\ Size >= 4
      /\ MapSide \in Nat
      /\ p.x \in Int /\ p.y \in Int /\ q.x \in Int /\ q.y \in Int
  BY GeometryAssumption, GameAssumption, MapSideType DEF Point
<1>2. /\ -Slowness < 2 * q.x /\ 2 * q.x < 2 * MapSide + Slowness
      /\ -Slowness < 2 * q.y /\ 2 * q.y < 2 * MapSide + Slowness
      /\ -3 * Slowness < 5 * q.x /\ 5 * q.x < 5 * MapSide + 3 * Slowness
      /\ -3 * Slowness < 5 * q.y /\ 5 * q.y < 5 * MapSide + 3 * Slowness
  BY <1>1 DEF Inner, InnerCoordinate, Within, Magnitude
<1>3. PICK i \in 0 .. Size - 1 : 2 * Magnitude(q.x - Slowness * i) <= Slowness
  BY <1>1, <1>2, NearestCell
<1>4. PICK j \in 0 .. Size - 1 : 2 * Magnitude(q.y - Slowness * j) <= Slowness
  BY <1>1, <1>2, NearestCell
<1>5. ASSUME NEW n \in Int, -3 * Slowness < 5 * n, 5 * n < 5 * MapSide + 3 * Slowness,
             ~InnerCoordinate(n)
      PROVE  \E c \in {0, Size - 1} : 100 * Magnitude(n - Slowness * c) <= 60 * Slowness
  <2>1. Slowness * (Size - 1) = MapSide /\ Slowness * 0 = 0  BY <1>1 DEF MapSide
  <2> QED BY <1>1, <1>5, <2>1 DEF InnerCoordinate, Magnitude
<1>6. ASSUME NEW a \in Int, NEW b \in Int,
             100 * Magnitude(a) <= 60 * Slowness, 2 * Magnitude(b) <= Slowness
      PROVE  /\ 100 * Magnitude(a) <= (50 + r) * Slowness
             /\ 100 * Magnitude(b) <= (50 + r) * Slowness
  BY <1>1, <1>6 DEF Magnitude
<1>7. ASSUME ~InnerCoordinate(q.x) PROVE FALSE
  <2>1. PICK c \in {0, Size - 1} : 100 * Magnitude(q.x - Slowness * c) <= 60 * Slowness
    BY <1>1, <1>2, <1>5, <1>7
  <2>2. <<c, j>> \in grid  BY <1>1 DEF Border, Cells
  <2>3. q.x - Slowness * c \in Int /\ q.y - Slowness * j \in Int  BY <1>1
  <2> QED BY <1>4, <1>6, <2>1, <2>2, <2>3 DEF CircleCollide
<1>8. ASSUME ~InnerCoordinate(q.y) PROVE FALSE
  <2>1. PICK c \in {0, Size - 1} : 100 * Magnitude(q.y - Slowness * c) <= 60 * Slowness
    BY <1>1, <1>2, <1>5, <1>8
  <2>2. <<i, c>> \in grid  BY <1>1 DEF Border, Cells
  <2>3. q.y - Slowness * c \in Int /\ q.x - Slowness * i \in Int  BY <1>1
  <2> QED BY <1>3, <1>6, <2>1, <2>2, <2>3 DEF CircleCollide
<1> QED BY <1>7, <1>8 DEF Inner

\* An inner point is on the map, and so is the cell it is truncated to, less than
\* a cell away.
LEMMA InnerOnMap ==
  ASSUME NEW p \in Point, Inner(p)
  PROVE  /\ p \in MapPoints
         /\ AtCell(ToNormal(p)) \in MapPoints
         /\ Within(AtCell(ToNormal(p)), p, Slowness - 1)
<1>1. /\ Slowness \in Nat /\ MapSide \in Nat /\ p.x \in Int /\ p.y \in Int
      /\ p = [x |-> p.x, y |-> p.y]
  BY MapSideType DEF Point
<1>2. p.x \in 0 .. MapSide /\ p.y \in 0 .. MapSide
  BY <1>1 DEF Inner, InnerCoordinate
<1>3. p \in MapPoints  BY <1>1, <1>2 DEF MapPoints
<1>4. /\ Slowness * Trunc(p.x) \in Int /\ Slowness * Trunc(p.x) <= p.x
      /\ p.x < Slowness * Trunc(p.x) + Slowness
      /\ Slowness * Trunc(p.y) \in Int /\ Slowness * Trunc(p.y) <= p.y
      /\ p.y < Slowness * Trunc(p.y) + Slowness
  BY <1>1, <1>2, TruncFloor
<1>5. Within(AtCell(ToNormal(p)), p, Slowness - 1)
  BY <1>1, <1>4 DEF Within, AtCell, ToNormal, Magnitude
<1> QED BY <1>3, <1>5, CornerOnMap

\* The middle of the map is inner; no_position is far off the map.
LEMMA MiddleInner == Centre \in Point /\ Inner(Centre) /\ Centre \in MapPoints
<1>1. /\ Slowness \in Nat /\ Slowness >= 2 /\ Size \in Nat /\ Size >= 4
  BY GeometryAssumption, GameAssumption
<1> DEFINE n == (Size * Slowness) \div 2
<1>2. n \in Int /\ 2 * n <= Size * Slowness /\ Size * Slowness < 2 * n + 2
  BY <1>1, DivFloor
<1>3. Size * Slowness >= 4 * Slowness /\ MapSide = Size * Slowness - Slowness
  BY <1>1 DEF MapSide
<1>4. InnerCoordinate(n)  BY <1>1, <1>2, <1>3 DEF InnerCoordinate
<1>5. Centre \in Point /\ Inner(Centre)  BY <1>2, <1>4 DEF Centre, Point, Inner
<1> QED BY <1>5, InnerOnMap

LEMMA NowhereOffMap ==
  /\ no_position \in Point /\ no_position \notin MapPoints
  /\ no_position.x > Size * Slowness
<1>1. /\ Slowness \in Nat /\ Slowness >= 2 /\ Size \in Nat /\ Size >= 4
  BY GeometryAssumption, GameAssumption
<1>2. /\ Size * Slowness > 0 /\ Size * Slowness \in Nat
      /\ 10 * Size * Slowness = 10 * (Size * Slowness)
      /\ MapSide = Size * Slowness - Slowness
  BY <1>1 DEF MapSide
<1> QED BY <1>1, <1>2 DEF no_position, Point, MapPoints

(***************************************************************************)
(* The inductive invariant that both players keep.  The border keeps the   *)
(* player in only from an inner point, so that is what has to be carried;  *)
(* a teleport on the map is what brings the boy there with the next layer. *)
(***************************************************************************)
MaybeOnMap == MapPoints \union {no_position}

GInv ==
  /\ GameTypeOK /\ SlideSound
  /\ position \in MaybeOnMap
  /\ \A l \in 0 .. Layers - 1 : positions[l] \in MaybeOnMap
  /\ stage # "undefined" => current_layer < Layers
  /\ stage = "menu" => held_object = "HO_NOTHING"
  /\ stage # "menu" => Inner(camera)
  /\ TeleportNeverLost

\* Without the debug menu the layer changes only through NextLayer, which takes
\* the teleport along and empties the map.
PInv == GInv /\ position \in MapPoints /\ TeleportAccounted /\ PathMapFresh

LEMMA ConstantTypes ==
  /\ Layers \in Nat /\ Layers > 0 /\ Slowness \in Nat /\ Slowness >= 2
  /\ \A l \in 0 .. Layers - 1 : /\ Houses[l] \in SUBSET Cells
                                /\ Border \subseteq Houses[l]
                                /\ StartTeleports[l] \in Cells
  /\ CameraSpots \subseteq Point /\ LookSpots \subseteq Point
  /\ MaybeOnMap \subseteq Point
BY GameAssumption, GeometryAssumption, NowhereOffMap, MapPointsArePoints DEF MaybeOnMap

LEMMA InitPInv == GameInit => PInv
<1> SUFFICES ASSUME GameInit PROVE PInv
  OBVIOUS
<1>1. /\ stage = "menu" /\ current_layer = 0 /\ held_object = "HO_NOTHING"
      /\ positions = [l \in 0 .. Layers - 1 |-> AtCell(StartTeleports[l])]
      /\ camera = [x |-> 0, y |-> 0] /\ position = [x |-> 0, y |-> 0]
      /\ EnemyInit /\ pathMap = {}
  BY DEF GameInit, EnemyInit
<1>2. debug_menu \in BOOLEAN  BY Zenon DEF GameInit
<1>3. \A l \in 0 .. Layers - 1 : positions[l] \in MapPoints
  BY <1>1, ConstantTypes, CellsOnMap
<1>4. [x |-> 0, y |-> 0] \in MapPoints  BY MapSideType DEF MapPoints
<1>5. EnemyInv  BY <1>1, <1>4, EnemyStart
<1>6. positions \in [0 .. Layers - 1 -> Point]
  BY <1>1, ConstantTypes, CellsOnMap, MapPointsArePoints
<1>7. GameTypeOK
  BY <1>1, <1>2, <1>4, <1>5, <1>6, ConstantTypes, MapPointsArePoints
  DEF GameTypeOK, EnemyInv
<1>8. TeleportNeverLost /\ TeleportAccounted
  BY <1>1, <1>3, ConstantTypes, NowhereOffMap DEF TeleportNeverLost, TeleportAccounted
<1> QED BY <1>1, <1>3, <1>4, <1>5, <1>7, <1>8, ConstantTypes
        DEF GInv, PInv, PathMapFresh, MaybeOnMap, EnemyInv

\* A step of the player keeps him inside.
LEMMA StepInner ==
  ASSUME GInv, stage \notin {"menu", "undefined"}, NEW p \in UpdateController
  PROVE  Step(p) \in Point /\ Inner(Step(p))
<1>1. PICK g : g = House  OBVIOUS
<1>2. PICK c : c = camera  OBVIOUS
<1>3. /\ g \in SUBSET Cells /\ Border \subseteq g /\ c \in Point /\ Inner(c)
  BY <1>1, <1>2, ConstantTypes DEF GInv, GameTypeOK, House
<1>4. ASSUME ~CircleCollide(g, p, 10) PROVE p \in Point /\ Inner(p)
  <2>1. CASE p = c  BY <1>3, <2>1
  <2>2. CASE p \in CameraSpots /\ Within(p, c, MaxStep)
    <3>1. Within(p, c, Slowness)
      BY <1>3, <2>2, ConstantTypes, GameAssumption DEF Within, Magnitude, Point
    <3> QED BY <1>3, <1>4, <2>2, <3>1, ConstantTypes, BorderKeepsIn
  <2> QED BY <1>2, <2>1, <2>2 DEF UpdateController
<1> QED BY <1>1, <1>2, <1>3, <1>4 DEF Step

\* The tick of a frame: the grid and the player are those of the frame.
LEMMA FrameTicks ==
  ASSUME GInv, MoveAndTick
  PROVE  /\ Inner(camera') /\ camera' \in Point
         /\ EnemyTypeOK' /\ SlideSound' /\ position' \in MapPoints
<1>1. PICK p \in UpdateController : camera' = Step(p)  BY DEF MoveAndTick
<1>2. camera' \in Point /\ Inner(camera')
  BY <1>1, StepInner DEF MoveAndTick
<1>3. PICK g : g = House  OBVIOUS
<1>4. PICK q : q = camera'  OBVIOUS
<1>5. /\ g \in SUBSET Cells /\ Border \subseteq g /\ q \in MapPoints
  BY <1>2, <1>3, <1>4, ConstantTypes, InnerOnMap
  DEF GInv, GameTypeOK, House, MoveAndTick
<1>6. Tick(g, q)  BY <1>3, <1>4 DEF MoveAndTick
<1>7. CASE position \in MapPoints
  <2>1. EnemyInv  BY <1>7 DEF GInv, GameTypeOK, EnemyInv
  <2> QED BY <1>2, <1>5, <1>6, <2>1, TickInv DEF EnemyInv
<1>8. CASE position = no_position
  <2>1. OutOfMap  BY <1>8, NowhereOffMap DEF OutOfMap
  <2>2. position' = Centre /\ UNCHANGED <<slideVars, walkVars>>
    BY <1>6, <2>1 DEF Tick, Recentre, Centre
  <2>3. position' \in MapPoints  BY <2>2, MiddleInner
  <2> QED BY <1>2, <2>2, <2>3, MapPointsArePoints
          DEF GInv, GameTypeOK, EnemyTypeOK, SlideSound, slideVars, walkVars
<1> QED BY <1>7, <1>8 DEF GInv, MaybeOnMap

(***************************************************************************)
(* What each click does with the teleport.                                 *)
(***************************************************************************)

\* Dropped, the teleport is inside the border and in the player's reach.
LEMMA DropInReach ==
  ASSUME GInv, stage = "item", NEW lookAt \in CalculateLookAtTarget,
         ~CircleCollide(House, lookAt, 20)
  PROVE  lookAt \in MapPoints /\ InReach(lookAt)
<1>1. PICK g : g = House  OBVIOUS
<1>2. PICK c : c = camera  OBVIOUS
<1>3. /\ g \in SUBSET Cells /\ Border \subseteq g /\ c \in Point /\ Inner(c)
  BY <1>1, <1>2, ConstantTypes DEF GInv, GameTypeOK, House
<1>4. lookAt \in Point /\ Within(lookAt, c, Reach)
  BY <1>2, ConstantTypes DEF CalculateLookAtTarget
<1>5. Within(lookAt, c, Slowness) /\ Within(lookAt, c, Slowness - 1)
  BY <1>3, <1>4, ConstantTypes, GameAssumption DEF Within, Magnitude, Point
<1>6. Inner(lookAt)  BY <1>1, <1>3, <1>4, <1>5, BorderKeepsIn
<1> QED BY <1>2, <1>4, <1>5, <1>6, InnerOnMap DEF InReach

\* Left behind, it is on the map and in the player's reach.
LEMMA LeftInReach ==
  ASSUME GInv, stage = "item"
  PROVE  AtCell(ToNormal(camera)) \in MapPoints /\ InReach(AtCell(ToNormal(camera)))
BY InnerOnMap DEF GInv, GameTypeOK, InReach

\* A step that leaves the boy alone keeps what GInv says of him.
LEMMA KeepsTypes ==
  ASSUME GInv, UNCHANGED enemyVars
  PROVE  EnemyTypeOK' /\ SlideSound' /\ position' \in MaybeOnMap
BY DEF GInv, GameTypeOK, EnemyTypeOK, SlideSound, enemyVars, slideVars, walkVars

(***************************************************************************)
(* Every step of either player keeps GInv.                                 *)
(***************************************************************************)
LEMMA NextGInv == GInv /\ [PlayNext \/ DebugNext]_vars => GInv'
<1> SUFFICES ASSUME GInv, [PlayNext \/ DebugNext]_vars PROVE GInv'
  OBVIOUS
<1>1. CASE UNCHANGED vars
  <2>1. EnemyTypeOK' /\ SlideSound' /\ position' \in MaybeOnMap
    BY <1>1, KeepsTypes DEF vars, gameVars, GInv, GameTypeOK
  <2> QED BY <1>1, <2>1 DEF vars, gameVars, GInv, GameTypeOK, TeleportNeverLost
<1>2. CASE SwitchToGame
  <2>1. /\ stage = "menu" /\ stage' = "move" /\ camera' = Centre
        /\ position' = positions[current_layer]
        /\ UNCHANGED <<current_layer, positions, held_object, debug_menu, slideVars, walkVars>>
    BY <1>2 DEF SwitchToGame
  <2>2. current_layer \in 0 .. Layers - 1  BY <2>1, ConstantTypes DEF GInv, GameTypeOK
  <2>3. position' \in MaybeOnMap /\ position' \in Point
    BY <2>1, <2>2, ConstantTypes DEF GInv
  <2>4. EnemyTypeOK' /\ SlideSound'
    BY <2>1, <2>3 DEF GInv, GameTypeOK, EnemyTypeOK, SlideSound, slideVars, walkVars
  <2> QED BY <2>1, <2>2, <2>3, <2>4, MiddleInner
          DEF GInv, GameTypeOK, TeleportNeverLost
<1>3. CASE MoveAndTick
  <2>1. /\ stage = "move" /\ stage' = "item"
        /\ UNCHANGED <<current_layer, positions, held_object, debug_menu>>
    BY <1>3 DEF MoveAndTick
  <2> QED BY <1>3, <2>1, FrameTicks DEF GInv, GameTypeOK, TeleportNeverLost, MaybeOnMap
<1>4. CASE PickUp
  <2>1. /\ stage = "item" /\ stage' = "end" /\ held_object' = "HO_TELEPORT"
        /\ positions' = [positions EXCEPT ![current_layer] = no_position]
        /\ UNCHANGED <<current_layer, camera, debug_menu, enemyVars>>
    BY <1>4 DEF PickUp
  <2>2. /\ positions' \in [0 .. Layers - 1 -> Point]
        /\ \A l \in 0 .. Layers - 1 : positions'[l] \in MaybeOnMap
    BY <2>1, NowhereOffMap DEF GInv, GameTypeOK, MaybeOnMap
  <2> QED BY <2>1, <2>2, KeepsTypes DEF GInv, GameTypeOK, TeleportNeverLost
<1>5. CASE Drop
  <2>1. PICK lookAt \in CalculateLookAtTarget :
          /\ ~CircleCollide(House, lookAt, 20)
          /\ positions' = [positions EXCEPT ![current_layer] = lookAt]
    BY <1>5 DEF Drop
  <2>2. /\ stage = "item" /\ stage' = "end" /\ held_object' = "HO_NOTHING"
        /\ UNCHANGED <<current_layer, camera, debug_menu, enemyVars>>
    BY <1>5 DEF Drop
  <2>3. lookAt \in MapPoints /\ lookAt \in Point /\ lookAt # no_position
    BY <2>1, <2>2, DropInReach, MapPointsArePoints, NowhereOffMap
  <2>4. current_layer \in 0 .. Layers - 1  BY <2>2, ConstantTypes DEF GInv, GameTypeOK
  <2>5. /\ positions' \in [0 .. Layers - 1 -> Point]
        /\ \A l \in 0 .. Layers - 1 : positions'[l] \in MaybeOnMap
        /\ positions'[current_layer] # no_position
    BY <2>1, <2>3, <2>4 DEF GInv, GameTypeOK, MaybeOnMap
  <2> QED BY <2>2, <2>4, <2>5, KeepsTypes DEF GInv, GameTypeOK, TeleportNeverLost
<1>6. CASE NextLayer \/ NextLayerPastEnd
  <2>1. /\ stage = "item" /\ held_object' = "HO_NOTHING" /\ pathMap' = {}
        /\ positions' = [positions EXCEPT ![current_layer] = AtCell(ToNormal(camera))]
        /\ current_layer' = current_layer + 1
        /\ UNCHANGED <<camera, debug_menu, slideVars, direction, rotationCountdown,
                       rotating, turn>>
    BY <1>6 DEF NextLayer, NextLayerPastEnd, LeaveBehind
  <2>2. \/ stage' = "undefined" /\ position' = position
        \/ /\ stage' = "end" /\ current_layer + 1 < Layers
           /\ position' = positions[current_layer + 1]
    BY <1>6 DEF NextLayer, NextLayerPastEnd
  <2>3. current_layer \in 0 .. Layers - 1  BY <2>1, ConstantTypes DEF GInv, GameTypeOK
  <2>4. /\ AtCell(ToNormal(camera)) \in MapPoints /\ AtCell(ToNormal(camera)) \in Point
        /\ AtCell(ToNormal(camera)) # no_position
    BY <2>1, LeftInReach, MapPointsArePoints, NowhereOffMap
  <2>5. /\ positions' \in [0 .. Layers - 1 -> Point]
        /\ \A l \in 0 .. Layers - 1 : positions'[l] \in MaybeOnMap
        /\ positions'[current_layer] # no_position
    BY <2>1, <2>3, <2>4 DEF GInv, GameTypeOK, MaybeOnMap
  <2>6. position' \in MaybeOnMap /\ position' \in Point
    BY <2>2, <2>3, ConstantTypes DEF GInv
  <2>7. EnemyTypeOK' /\ SlideSound'
    BY <2>1, <2>6 DEF GInv, GameTypeOK, EnemyTypeOK, SlideSound, slideVars
  <2>8. /\ stage' \in {"end", "undefined"} /\ current_layer' \in 0 .. Layers
        /\ stage' # "undefined" => current_layer' < Layers
    BY <2>1, <2>2, <2>3, ConstantTypes
  <2>9. GameTypeOK' /\ Inner(camera')
    BY <2>1, <2>5, <2>7, <2>8 DEF GInv, GameTypeOK
  <2>10. TeleportNeverLost'  BY <2>3, <2>5 DEF TeleportNeverLost
  <2> QED BY <2>5, <2>6, <2>7, <2>8, <2>9, <2>10 DEF GInv
<1>7. CASE NoClick \/ EndFrame \/ DebugDrawsNothing
  <2>1. /\ stage \in {"item", "end"} /\ stage' \in {"end", "move", "undefined"}
        /\ UNCHANGED <<current_layer, positions, held_object, camera, debug_menu, enemyVars>>
    BY <1>7 DEF NoClick, EndFrame, DebugDrawsNothing
  <2> QED BY <2>1, KeepsTypes DEF GInv, GameTypeOK, TeleportNeverLost
<1>8. CASE DebugHandleKeys
  <2>1. /\ stage = "end" /\ stage' = "move" /\ debug_menu' \in BOOLEAN
        /\ UNCHANGED <<positions, held_object, camera, enemyVars>>
    BY <1>8, Zenon DEF DebugHandleKeys
  <2>2. current_layer \in 0 .. Layers - 1  BY <2>1, ConstantTypes DEF GInv, GameTypeOK
  <2>3. current_layer' \in 0 .. Layers - 1
    <3>1. current_layer' \in {current_layer, (current_layer + 1) % Layers,
                              (current_layer + Layers - 1) % Layers}
      BY <1>8 DEF DebugHandleKeys
    <3> QED BY <2>2, <3>1, ConstantTypes
  <2>4. current_layer' \in 0 .. Layers /\ current_layer' < Layers
    BY <2>3, ConstantTypes
  <2>5. EnemyTypeOK' /\ SlideSound' /\ position' \in MaybeOnMap
    BY <2>1, KeepsTypes DEF GInv, GameTypeOK
  <2>6. GameTypeOK'  BY <2>1, <2>4, <2>5, Zenon DEF GInv, GameTypeOK
  <2> QED BY <2>1, <2>4, <2>5, <2>6 DEF GInv, TeleportNeverLost
<1> QED BY <1>1, <1>2, <1>3, <1>4, <1>5, <1>6, <1>7, <1>8
        DEF PlayNext, DebugNext, Item

(***************************************************************************)
(* Without the debug menu.                                                 *)
(***************************************************************************)

\* The layer of a running game.
LEMMA LayerOf ==
  ASSUME GInv, stage # "undefined"
  PROVE  current_layer \in 0 .. Layers - 1
BY ConstantTypes DEF GInv, GameTypeOK

\* A click moves the teleport between the floor of the layer and the hand.
LEMMA ClickAccounts ==
  ASSUME PInv, Item
  PROVE  TeleportAccounted'
<1>1. stage = "item" /\ current_layer \in 0 .. Layers - 1
  BY LayerOf DEF Item, PickUp, Drop, NextLayer, NextLayerPastEnd, NoClick, PInv
<1>2. positions \in [0 .. Layers - 1 -> Point]  BY DEF PInv, GInv, GameTypeOK
<1>3. \A l \in 0 .. Layers - 1 :
        positions[l] = no_position <=> l = current_layer /\ held_object = "HO_TELEPORT"
  BY <1>1 DEF PInv, TeleportAccounted
<1>4. CASE PickUp
  <2>1. /\ positions' = [positions EXCEPT ![current_layer] = no_position]
        /\ held_object' = "HO_TELEPORT" /\ current_layer' = current_layer
        /\ held_object = "HO_NOTHING"
    BY <1>4 DEF PickUp
  <2> QED BY <1>1, <1>2, <1>3, <2>1 DEF TeleportAccounted
<1>5. CASE Drop
  <2>1. PICK lookAt \in CalculateLookAtTarget :
          /\ ~CircleCollide(House, lookAt, 20)
          /\ positions' = [positions EXCEPT ![current_layer] = lookAt]
    BY <1>5 DEF Drop
  <2>2. held_object' = "HO_NOTHING" /\ current_layer' = current_layer
    BY <1>5 DEF Drop
  <2>3. lookAt # no_position  BY <1>1, <2>1, DropInReach, NowhereOffMap DEF PInv
  <2> QED BY <1>1, <1>2, <1>3, <2>1, <2>2, <2>3 DEF TeleportAccounted
<1>6. CASE NextLayer
  <2>1. /\ positions' = [positions EXCEPT ![current_layer] = AtCell(ToNormal(camera))]
        /\ held_object' = "HO_NOTHING"
    BY <1>6 DEF NextLayer, LeaveBehind
  <2>2. AtCell(ToNormal(camera)) # no_position
    BY <1>1, LeftInReach, NowhereOffMap DEF PInv
  <2> QED BY <1>1, <1>2, <1>3, <2>1, <2>2 DEF TeleportAccounted
<1>7. CASE NextLayerPastEnd
  BY <1>7 DEF NextLayerPastEnd, TeleportAccounted
<1>8. CASE NoClick
  BY <1>1, <1>3, <1>8 DEF NoClick, TeleportAccounted
<1> QED BY <1>4, <1>5, <1>6, <1>7, <1>8 DEF Item

LEMMA NextPInv == PInv /\ [PlayNext]_vars => PInv'
<1> SUFFICES ASSUME PInv, [PlayNext]_vars PROVE PInv'
  OBVIOUS
<1>1. GInv'  BY NextGInv DEF PInv
<1>2. CASE UNCHANGED vars
  BY <1>1, <1>2 DEF PInv, vars, gameVars, enemyVars, walkVars, TeleportAccounted,
                    PathMapFresh, House
<1>3. CASE SwitchToGame
  <2>1. current_layer \in 0 .. Layers - 1  BY <1>3, LayerOf DEF SwitchToGame, PInv
  <2>2. positions[current_layer] \in MapPoints
    BY <1>3, <2>1 DEF SwitchToGame, PInv, GInv, TeleportAccounted, MaybeOnMap
  <2> QED BY <1>1, <1>3, <2>2
          DEF SwitchToGame, PInv, walkVars, TeleportAccounted, PathMapFresh, House
<1>4. CASE MoveAndTick
  <2>1. /\ stage = "move" /\ stage' = "item"
        /\ UNCHANGED <<current_layer, positions, held_object, debug_menu>>
    BY <1>4 DEF MoveAndTick
  <2>2. position' \in MapPoints  BY <1>4, FrameTicks DEF PInv
  <2>3. pathMap' \in {pathMap, House}
    <3>1. PICK g : g = House  OBVIOUS
    <3>2. PICK q : q = camera'  OBVIOUS
    <3>3. Tick(g, q)  BY <1>4, <3>1, <3>2 DEF MoveAndTick
    <3> QED BY <3>1, <3>3, TickMap
  <2> QED BY <1>1, <2>1, <2>2, <2>3 DEF PInv, TeleportAccounted, PathMapFresh, House
<1>5. CASE Item
  <2>1. TeleportAccounted'  BY <1>5, ClickAccounts
  <2>2. stage = "item" /\ current_layer \in 0 .. Layers - 1
    BY <1>5, LayerOf DEF Item, PickUp, Drop, NextLayer, NextLayerPastEnd, NoClick, PInv
  <2>3. CASE PickUp \/ Drop \/ NoClick
    <3>1. UNCHANGED <<current_layer, enemyVars>>
      BY <2>3 DEF PickUp, Drop, NoClick
    <3> QED BY <1>1, <2>1, <2>2, <3>1
            DEF PInv, PathMapFresh, House, enemyVars, walkVars
  <2>4. CASE NextLayer
    <3>1. /\ position' = positions[current_layer + 1] /\ pathMap' = {}
          /\ current_layer + 1 \in 0 .. Layers - 1
      BY <2>2, <2>4, ConstantTypes DEF NextLayer
    <3>2. positions[current_layer + 1] # no_position
      BY <2>2, <3>1 DEF PInv, TeleportAccounted
    <3>3. positions[current_layer + 1] \in MapPoints
      BY <3>1, <3>2 DEF PInv, GInv, MaybeOnMap
    <3> QED BY <1>1, <2>1, <3>1, <3>3 DEF PInv, PathMapFresh
  <2>5. CASE NextLayerPastEnd
    BY <1>1, <2>1, <2>5 DEF NextLayerPastEnd, PInv, PathMapFresh
  <2> QED BY <1>5, <2>3, <2>4, <2>5 DEF Item
<1>6. CASE EndFrame
  BY <1>1, <1>6 DEF EndFrame, PInv, enemyVars, walkVars, TeleportAccounted,
                    PathMapFresh, House
<1> QED BY <1>2, <1>3, <1>4, <1>5, <1>6 DEF PlayNext

(***************************************************************************)
(* The theorems.                                                           *)
(***************************************************************************)

\* The invariants hold throughout.
THEOREM PlayInvariance == PlaySpec => []PInv
<1>1. GameInit => PInv  BY InitPInv
<1>2. PInv /\ [PlayNext]_vars => PInv'  BY NextPInv
<1> QED BY <1>1, <1>2, PTL DEF PlaySpec

THEOREM DebugInvariance == DebugSpec => []GInv
<1>1. GameInit => GInv  BY InitPInv DEF PInv
<1>2. GInv /\ [DebugNext]_vars => GInv'  BY NextGInv
<1> QED BY <1>1, <1>2, PTL DEF DebugSpec

\* Every variable of the game keeps its type, with the debug menu or without.
THEOREM GameTypeCorrect == DebugSpec => []GameTypeOK
<1>1. GInv => GameTypeOK  BY DEF GInv
<1> QED BY <1>1, DebugInvariance, PTL

\* Without the debug menu no teleport is ever lost or doubled: each layer's is on
\* its floor, or the current layer's is in the player's hand.
THEOREM TeleportCorrect == PlaySpec => []TeleportAccounted
<1>1. PInv => TeleportAccounted  BY DEF PInv
<1> QED BY <1>1, PlayInvariance, PTL

\* With the debug menu teleports do get lost, but never the last one.
THEOREM LastTeleportCorrect == DebugSpec => []TeleportNeverLost
<1>1. GInv => TeleportNeverLost  BY DEF GInv
<1> QED BY <1>1, DebugInvariance, PTL

\* A border of walls keeps the player on the map, whatever the frame's step below
\* a cell, even where he starts a layer inside a wall.
THEOREM PlayerCorrect == PlaySpec => []PlayerOnMap
<1>1. PInv => PlayerOnMap
  <2> SUFFICES ASSUME PInv, stage # "menu" PROVE camera \in MapPoints
    BY DEF PlayerOnMap, MapPoints, MapSide
  <2> QED BY InnerOnMap DEF PInv, GInv, GameTypeOK
<1> QED BY <1>1, PlayInvariance, PTL

\* The boy stays on the map through every change of layer.
THEOREM BoyCorrect == PlaySpec => []BoyOnMap
<1>1. PInv => BoyOnMap  BY DEF PInv, BoyOnMap, OnMap, MapPoints, MapSide
<1> QED BY <1>1, PlayInvariance, PTL

\* With the debug menu he may be off it, but then only on no_position, where the
\* next tick puts him back.
THEOREM BoyResetCorrect == DebugSpec => []BoyOnMapOrReset
<1>1. GInv => BoyOnMapOrReset
  <2> SUFFICES ASSUME GInv, ~OutOfMap PROVE OnMap
    BY DEF BoyOnMapOrReset
  <2>1. position # no_position  BY NowhereOffMap DEF OutOfMap
  <2> QED BY <2>1 DEF GInv, MaybeOnMap, OnMap, MapPoints, MapSide
<1> QED BY <1>1, DebugInvariance, PTL

\* The heat map the boy walks by is never that of a layer he has left.
THEOREM MapFreshCorrect == PlaySpec => []PathMapFresh
<1>1. PInv => PathMapFresh  BY DEF PInv
<1> QED BY <1>1, PlayInvariance, PTL

\* A teleport that leaves the hand can be picked up again from the same place.
THEOREM ReachCorrect == PlaySpec => TeleportLeftInReach
<1>1. PInv /\ [PlayNext]_vars =>
        [held_object = "HO_TELEPORT" /\ held_object' = "HO_NOTHING"
           => InReach(positions'[current_layer])]_vars
  <2> SUFFICES ASSUME PInv, PlayNext,
                      held_object = "HO_TELEPORT", held_object' = "HO_NOTHING"
               PROVE  InReach(positions'[current_layer])
    OBVIOUS
  <2>1. Drop \/ NextLayer \/ NextLayerPastEnd
    BY DEF PlayNext, SwitchToGame, MoveAndTick, Item, PickUp, NoClick, EndFrame
  <2>2. GInv /\ stage = "item" /\ current_layer \in 0 .. Layers - 1
    BY <2>1, LayerOf DEF PInv, Drop, NextLayer, NextLayerPastEnd
  <2>3. positions \in [0 .. Layers - 1 -> Point]  BY <2>2 DEF GInv, GameTypeOK
  <2>4. CASE Drop
    <3>1. PICK lookAt \in CalculateLookAtTarget :
            /\ ~CircleCollide(House, lookAt, 20)
            /\ positions' = [positions EXCEPT ![current_layer] = lookAt]
      BY <2>4 DEF Drop
    <3>2. positions'[current_layer] = lookAt  BY <2>2, <2>3, <3>1
    <3> QED BY <2>2, <3>1, <3>2, DropInReach
  <2>5. CASE NextLayer \/ NextLayerPastEnd
    <3>1. positions'[current_layer] = AtCell(ToNormal(camera))
      BY <2>2, <2>3, <2>5 DEF NextLayer, NextLayerPastEnd, LeaveBehind
    <3> QED BY <2>2, <3>1, LeftInReach
  <2> QED BY <2>1, <2>4, <2>5
<1> QED BY <1>1, PlayInvariance, PTL DEF PlaySpec, TeleportLeftInReach

\* While the layer does not change, a frame takes the boy into its walls only in the
\* middle of a slide, and the slide ends outside them.
THEOREM BoyWallsCorrect == PlaySpec => BoyInWallsOnlyInSlides
<1>1. PInv /\ [PlayNext]_vars =>
        [stage # "menu" /\ current_layer' = current_layer /\ OutOfWalls(House)
           => OutOfWalls(House)']_vars
  <2> SUFFICES ASSUME PInv, PlayNext, stage # "menu",
                      current_layer' = current_layer, OutOfWalls(House)
               PROVE  OutOfWalls(House)'
    OBVIOUS
  <2>1. PICK g : g = House  OBVIOUS
  <2>2. House' = g  BY <2>1 DEF House
  <2>3. OutOfWalls(g)  BY <2>1
  <2>4. SUFFICES OutOfWalls(g)'  BY <2>2 DEF OutOfWalls
  <2>5. CASE MoveAndTick
    <3>1. PICK q : q = camera'  OBVIOUS
    <3>2. Tick(g, q)  BY <2>1, <2>5, <3>1 DEF MoveAndTick
    <3>3. g \in SUBSET Cells /\ q \in MapPoints
      <4>1. q \in MapPoints  BY <2>5, <3>1, FrameTicks, InnerOnMap DEF PInv
      <4>2. current_layer \in 0 .. Layers - 1
        BY <2>5, LayerOf DEF MoveAndTick, PInv
      <4> QED BY <2>1, <4>1, <4>2, ConstantTypes DEF House
    <3>4. EnemyInv  BY DEF PInv, GInv, GameTypeOK, EnemyInv
    <3> QED BY <2>3, <3>2, <3>3, <3>4, TickOutOfWalls
  <2>6. CASE UNCHANGED enemyVars  BY <2>3, <2>6, EnemyStutter
  <2>7. CASE NextLayer \/ NextLayerPastEnd
    <3>1. current_layer' = current_layer + 1 /\ current_layer \in Int
      BY <2>7 DEF NextLayer, NextLayerPastEnd, PInv, GInv, GameTypeOK
    <3> QED BY <3>1
  <2> QED BY <2>5, <2>6, <2>7
          DEF PlayNext, SwitchToGame, Item, PickUp, Drop, NoClick, EndFrame
<1> QED BY <1>1, PlayInvariance, PTL DEF PlaySpec, BoyInWallsOnlyInSlides

-----------------------------------------------------------------------------
(***************************************************************************)
(* The text.  The drawn rows are the first rowPointer of consoleText.      *)
(***************************************************************************)
TextInv ==
  /\ consoleText \in Seq(Line) /\ Len(consoleText) = MaxRows
  /\ rowPointer \in 0 .. MaxRows

LEMMA TextInvTypes == TextInv => TextTypeOK
  BY LenProperties DEF TextInv, TextTypeOK

LEMMA TextStart == TextInit => TextInv /\ Scroll!Init
<1> SUFFICES ASSUME TextInit PROVE TextInv /\ Scroll!Init
  OBVIOUS
<1>1. consoleText = [row \in 1 .. MaxRows |-> Blank] /\ rowPointer = 0
      /\ MaxRows \in Nat /\ Blank \in Line
  BY ConsoleTextAssumption DEF TextInit
<1>2. consoleText \in Seq(Line) /\ Len(consoleText) = MaxRows  BY <1>1
<1>3. Shown = << >>  BY <1>1, SubSeqEmpty DEF Shown
<1> QED BY <1>1, <1>2, <1>3 DEF TextInv, Scroll!Init

\* Making room keeps the number of rows; what was drawn moves up by one.
LEMMA RowsProperties ==
  ASSUME TextInv
  PROVE  /\ Rows \in Seq(Line) /\ Len(Rows) = MaxRows /\ FreeRow \in 1 .. MaxRows
         /\ Full => \A i \in 1 .. MaxRows - 1 : Rows[i] = consoleText[i + 1]
<1>1. MaxRows \in Nat /\ MaxRows > 0 /\ Blank \in Line  BY ConsoleTextAssumption
<1>2. CASE ~Full  BY <1>1, <1>2 DEF TextInv, Rows, FreeRow, Full
<1>3. CASE Full
  <2>1. consoleText # << >>  BY <1>1 DEF TextInv
  <2>2. /\ Tail(consoleText) \in Seq(Line) /\ Len(Tail(consoleText)) = MaxRows - 1
        /\ \A i \in 1 .. MaxRows - 1 : Tail(consoleText)[i] = consoleText[i + 1]
    BY <2>1, HeadTailProperties DEF TextInv
  <2>3. Rows = Append(Tail(consoleText), Blank)  BY <1>3 DEF Rows
  <2> QED BY <1>1, <1>3, <2>2, <2>3, AppendProperties DEF TextInv, FreeRow, Full
<1> QED BY <1>2, <1>3

\* The first n rows of a text.
LEMMA Drawn ==
  ASSUME NEW s \in Seq(Line), NEW n \in 0 .. Len(s)
  PROVE  /\ SubSeq(s, 1, n) \in Seq(Line) /\ Len(SubSeq(s, 1, n)) = n
         /\ \A i \in 1 .. n : SubSeq(s, 1, n)[i] = s[i]
<1>1. Len(s) \in Nat /\ n \in Int /\ n - 1 + 1 = n  BY LenProperties
<1>2. \A i \in 1 .. n : s[i] \in Line  BY <1>1, ElementOfSeq
<1>3. /\ SubSeq(s, 1, n) \in Seq(Line)
      /\ Len(SubSeq(s, 1, n)) = IF 1 <= n THEN n - 1 + 1 ELSE 0
      /\ \A i \in 1 .. n - 1 + 1 : SubSeq(s, 1, n)[i] = s[1 + i - 1]
  BY <1>1, <1>2, SubSeqProperties
<1> QED BY <1>1, <1>3

\* A printed line appears below the rows drawn so far, of which the oldest goes
\* when there is no room.
LEMMA PrintShows ==
  ASSUME TextInv, NEW text \in Line, PrintLine(text)
  PROVE  TextInv' /\ Scroll!PrintLine(text) /\ rowPointer' > 0
         /\ consoleText'[rowPointer'] = text
<1>1. MaxRows \in Nat /\ MaxRows > 0  BY ConsoleTextAssumption
<1>2. /\ consoleText' = [Rows EXCEPT ![FreeRow] = text] /\ rowPointer' = FreeRow
  BY DEF PrintLine
<1>3. /\ consoleText' \in Seq(Line) /\ Len(consoleText') = MaxRows
      /\ \A j \in 1 .. MaxRows :
           consoleText'[j] = IF j = rowPointer' THEN text ELSE Rows[j]
      /\ rowPointer' \in 1 .. MaxRows
  BY <1>2, RowsProperties, ExceptSeq
<1>4. /\ Shown \in Seq(Line) /\ Len(Shown) = rowPointer
      /\ \A i \in 1 .. rowPointer : Shown[i] = consoleText[i]
  BY <1>1, Drawn DEF Shown, TextInv
<1>5. /\ Shown' \in Seq(Line) /\ Len(Shown') = rowPointer'
      /\ \A i \in 1 .. rowPointer' : Shown'[i] = consoleText'[i]
  <2>1. PICK t : t = consoleText'  OBVIOUS
  <2>2. PICK n : n = rowPointer'  OBVIOUS
  <2>3. t \in Seq(Line) /\ n \in 0 .. Len(t)  BY <1>1, <1>3, <2>1, <2>2
  <2>4. Shown' = SubSeq(t, 1, n)  BY <2>1, <2>2 DEF Shown
  <2> QED BY <2>1, <2>2, <2>3, <2>4, Drawn
<1>6. CASE ~Full
  <2>1. rowPointer' = rowPointer + 1 /\ Rows = consoleText /\ Len(Shown) < MaxRows
    BY <1>1, <1>2, <1>4, <1>6 DEF FreeRow, Rows, Full, TextInv
  <2>2. Shown' = Append(Shown, text)
    <3>1. /\ Append(Shown, text) \in Seq(Line)
          /\ Len(Append(Shown, text)) = Len(Shown')
          /\ \A i \in 1 .. Len(Shown') : Shown'[i] = Append(Shown, text)[i]
      BY <1>1, <1>3, <1>4, <1>5, <2>1, AppendProperties DEF TextInv
    <3> QED BY <1>5, <3>1, SeqEqual
  <2> QED BY <1>3, <2>1, <2>2 DEF TextInv, Scroll!PrintLine
<1>7. CASE Full
  <2>1. rowPointer' = MaxRows /\ rowPointer = MaxRows /\ Len(Shown) = MaxRows
    BY <1>1, <1>2, <1>4, <1>7 DEF FreeRow, Full, TextInv
  <2>2. /\ Tail(Shown) \in Seq(Line) /\ Len(Tail(Shown)) = MaxRows - 1
        /\ \A i \in 1 .. MaxRows - 1 : Tail(Shown)[i] = Shown[i + 1]
    <3>1. Shown # << >>  BY <1>1, <2>1
    <3> QED BY <1>4, <2>1, <3>1, HeadTailProperties
  <2>3. Shown' = Append(Tail(Shown), text)
    <3>1. /\ Append(Tail(Shown), text) \in Seq(Line)
          /\ Len(Append(Tail(Shown), text)) = MaxRows
          /\ \A i \in 1 .. MaxRows - 1 : Append(Tail(Shown), text)[i] = Shown[i + 1]
          /\ Append(Tail(Shown), text)[MaxRows] = text
      BY <1>1, <2>2, AppendProperties
    <3>2. \A i \in 1 .. MaxRows - 1 : Shown'[i] = Shown[i + 1]
      BY <1>1, <1>3, <1>4, <1>5, <1>7, <2>1, RowsProperties
    <3>3. Shown'[MaxRows] = text  BY <1>1, <1>3, <1>5, <2>1
    <3>4. \A i \in 1 .. Len(Shown') : Shown'[i] = Append(Tail(Shown), text)[i]
      BY <1>1, <1>5, <2>1, <3>1, <3>2, <3>3
    <3> QED BY <1>5, <2>1, <3>1, <3>4, SeqEqual
  <2> QED BY <1>3, <2>1, <2>3 DEF TextInv, Scroll!PrintLine
<1>8. consoleText'[rowPointer'] = text /\ rowPointer' > 0  BY <1>1, <1>3
<1> QED BY <1>6, <1>7, <1>8

(***************************************************************************)
(* The server.  Numbers grow along what has been relayed to a client and   *)
(* then along the queue; and everything handed out had arrived before.     *)
(***************************************************************************)
QueueInOrder ==
  \A i, j \in 1 .. Len(queue) : i < j => queue[i].number < queue[j].number

RelayedBeforeQueue ==
  \A c \in Clients : \A i \in 1 .. Len(relayed[c]) : \A j \in 1 .. Len(queue) :
    relayed[c][i].number < queue[j].number

NumbersArrived ==
  /\ \A j \in 1 .. Len(queue) : queue[j].number <= arrived
  /\ \A c \in Clients : \A i \in 1 .. Len(relayed[c]) : relayed[c][i].number <= arrived

ServerInv ==
  /\ ServerTypeOK
  /\ allocated + Len(queue) <= arrived
  /\ QueueInOrder /\ RelayedBeforeQueue /\ NumbersArrived
  /\ RelayedInOrder /\ NoEcho

\* Sequences of packets.
LEMMA PacketsOf ==
  ASSUME NEW q \in Seq(Packet)
  PROVE  /\ Len(q) \in Nat /\ q = << >> <=> Len(q) = 0
         /\ \A i \in 1 .. Len(q) : /\ q[i] \in Packet /\ q[i].number \in Nat
                                   /\ q[i].from \in Clients
<1>1. \A i \in 1 .. Len(q) : q[i] \in Packet  BY ElementOfSeq
<1>2. \A r \in Packet : r.number \in Nat /\ r.from \in Clients
  BY ServerAssumption DEF Packet
<1>3. Len(q) \in Nat  BY LenProperties
<1>4. q = << >> <=> Len(q) = 0  BY EmptySeq
<1> QED BY <1>1, <1>2, <1>3, <1>4

LEMMA ServerStarts == ServerInit => ServerInv
BY ServerAssumption, EmptySeq
DEF ServerInit, ServerInv, ServerTypeOK, QueueInOrder, RelayedBeforeQueue,
    NumbersArrived, RelayedInOrder, NoEcho

\* Steps that take no packet out and put none in.
LEMMA QueueKept ==
  ASSUME ServerInv, UNCHANGED <<queue, arrived, relayed, allocated>>,
         peer' \in {"null", "idle", "active", "destroyed"},
         connected' \subseteq Clients, clientID' \in Clients \union {"none"}
  PROVE  ServerInv'
BY DEF ServerInv, ServerTypeOK, QueueInOrder, RelayedBeforeQueue, NumbersArrived,
       RelayedInOrder, NoEcho

\* A packet that arrives has the greatest number so far.
LEMMA ArrivalInv ==
  ASSUME ServerInv, NEW kind \in Kinds, NEW c \in Clients, Arrive(kind, c),
         connected' \subseteq Clients
  PROVE  ServerInv'
<1> DEFINE packet == [kind |-> kind, from |-> c, number |-> arrived + 1]
<1>1. /\ arrived < MaxPackets /\ arrived' = arrived + 1
      /\ queue' = Append(queue, packet)
      /\ UNCHANGED <<peer, relayed, clientID, allocated>>
  BY DEF Arrive
<1>2. /\ arrived \in Nat /\ MaxPackets \in Nat /\ queue \in Seq(Packet)
      /\ Len(queue) \in Nat /\ allocated \in Nat
      /\ \A i \in 1 .. Len(queue) : queue[i].number \in Nat
      /\ \A d \in Clients : \A i \in 1 .. Len(relayed[d]) : relayed[d][i].number \in Nat
  <2>1. /\ arrived \in 0 .. MaxPackets /\ queue \in Seq(Packet)
        /\ allocated \in 0 .. MaxPackets
        /\ \A d \in Clients : relayed[d] \in Seq(Packet)
    BY DEF ServerInv, ServerTypeOK
  <2> QED BY <2>1, ServerAssumption, PacketsOf
<1>3. packet \in Packet  BY <1>1, <1>2 DEF Packet
<1>4. /\ queue' \in Seq(Packet) /\ Len(queue') = Len(queue) + 1
      /\ \A i \in 1 .. Len(queue) : queue'[i] = queue[i]
      /\ queue'[Len(queue) + 1] = packet
  BY <1>1, <1>2, <1>3, AppendProperties
<1>5. packet.number = arrived + 1  OBVIOUS
<1> HIDE DEF packet
<1>6. ServerTypeOK'
  BY <1>1, <1>2, <1>4 DEF ServerInv, ServerTypeOK
<1>7. allocated' + Len(queue') <= arrived'
  BY <1>1, <1>2, <1>4 DEF ServerInv
<1>8. NumbersArrived'
  BY <1>1, <1>2, <1>4, <1>5 DEF ServerInv, NumbersArrived
<1>9. QueueInOrder'
  BY <1>1, <1>2, <1>4, <1>5 DEF ServerInv, NumbersArrived, QueueInOrder
<1>10. RelayedBeforeQueue'
  BY <1>1, <1>2, <1>4, <1>5 DEF ServerInv, NumbersArrived, RelayedBeforeQueue
<1>11. RelayedInOrder' /\ NoEcho'
  BY <1>1 DEF ServerInv, RelayedInOrder, NoEcho
<1> QED BY <1>6, <1>7, <1>8, <1>9, <1>10, <1>11 DEF ServerInv

\* The packet at the head of the queue is later than all that was relayed before.
LEMMA ReceiptInv ==
  ASSUME ServerInv, ReceivePacket
  PROVE  ServerInv' /\ Head(queue) \in Packet
<1> DEFINE packet == Head(queue)
<1>1. /\ queue # << >> /\ queue' = Tail(queue) /\ allocated' = allocated + 1
      /\ UNCHANGED <<peer, connected, arrived>>
      /\ Handle(packet)
  BY DEF ReceivePacket
<1>2. /\ queue \in Seq(Packet) /\ relayed \in [Clients -> Seq(Packet)]
      /\ arrived \in 0 .. MaxPackets /\ allocated \in 0 .. MaxPackets
      /\ MaxPackets \in Nat
      /\ \A d \in Clients : relayed[d] \in Seq(Packet)
  BY ServerAssumption DEF ServerInv, ServerTypeOK
<1>3. /\ Len(queue) \in Nat /\ Len(queue) > 0
      /\ \A d \in Clients : Len(relayed[d]) \in Nat
      /\ \A j \in 1 .. Len(queue) : queue[j].number \in Nat
      /\ \A d \in Clients : \A i \in 1 .. Len(relayed[d]) :
           relayed[d][i].number \in Nat
  BY <1>1, <1>2, PacketsOf
<1>4. /\ packet \in Packet /\ queue' \in Seq(Packet) /\ Len(queue') = Len(queue) - 1
      /\ \A i \in 1 .. Len(queue') : queue'[i] = queue[i + 1]
      /\ packet = queue[1]
  BY <1>1, <1>2, HeadTailProperties
<1>5. /\ packet.number \in Nat /\ packet.number <= arrived
      /\ \A j \in 1 .. Len(queue') : /\ packet.number < queue'[j].number
                                     /\ queue'[j].number <= arrived
      /\ \A d \in Clients : \A i \in 1 .. Len(relayed[d]) :
           relayed[d][i].number < packet.number
      /\ packet.from \in Clients
  <2>1. packet.number \in Nat /\ packet.from \in Clients /\ 1 \in 1 .. Len(queue)
    BY <1>2, <1>3, <1>4, PacketsOf
  <2>2. \A j \in 1 .. Len(queue') : j + 1 \in 1 .. Len(queue) /\ 1 < j + 1
    BY <1>3, <1>4
  <2> HIDE DEF packet
  <2> QED BY <1>4, <2>1, <2>2 DEF ServerInv, QueueInOrder, RelayedBeforeQueue, NumbersArrived
<1> HIDE DEF packet
<1>6. clientID' \in Clients \union {"none"}
  BY <1>1, <1>5 DEF Handle, ServerInv, ServerTypeOK
<1>7. \A d \in Clients :
        \/ relayed'[d] = relayed[d]
        \/ relayed'[d] = Append(relayed[d], packet) /\ d # packet.from
  BY <1>1 DEF Handle, Relay
<1>8. relayed' \in [Clients -> Seq(Packet)]
  <2>1. \A d \in Clients : Append(relayed[d], packet) \in Seq(Packet)
    BY <1>2, <1>4, AppendProperties
  <2> QED BY <1>1, <1>2, <2>1 DEF Handle, Relay
<1>9. ASSUME NEW d \in Clients, NEW i \in 1 .. Len(relayed'[d])
      PROVE  \/ i \in 1 .. Len(relayed[d]) /\ relayed'[d][i] = relayed[d][i]
             \/ i = Len(relayed[d]) + 1 /\ relayed'[d][i] = packet /\ d # packet.from
  <2>1. CASE relayed'[d] = relayed[d]  BY <1>9, <2>1
  <2>2. CASE relayed'[d] = Append(relayed[d], packet) /\ d # packet.from
    <3>1. /\ Len(relayed'[d]) = Len(relayed[d]) + 1
          /\ \A k \in 1 .. Len(relayed[d]) : relayed'[d][k] = relayed[d][k]
          /\ relayed'[d][Len(relayed[d]) + 1] = packet
      BY <1>2, <1>4, <2>2, AppendProperties
    <3> QED BY <1>3, <1>9, <2>2, <3>1
  <2> QED BY <1>7, <2>1, <2>2
<1>10. ServerTypeOK' /\ allocated' + Len(queue') <= arrived'
  <2>1. /\ allocated + Len(queue) <= arrived
        /\ allocated + 1 + (Len(queue) - 1) = allocated + Len(queue)
    BY <1>2, <1>3 DEF ServerInv
  <2>2. allocated' \in 0 .. MaxPackets /\ allocated' + Len(queue') <= arrived'
    BY <1>1, <1>2, <1>3, <1>4, <2>1
  <2> QED BY <1>1, <1>2, <1>4, <1>6, <1>8, <2>2 DEF ServerInv, ServerTypeOK
<1>11. QueueInOrder'
  <2>1. \A j \in 1 .. Len(queue') : j \in Int /\ j + 1 \in 1 .. Len(queue)
    BY <1>3, <1>4
  <2> QED BY <1>4, <2>1 DEF ServerInv, QueueInOrder
<1>12. NumbersArrived'
  BY <1>1, <1>4, <1>5, <1>9 DEF ServerInv, NumbersArrived
<1>13. RelayedBeforeQueue'
  <2>1. \A j \in 1 .. Len(queue') : j + 1 \in 1 .. Len(queue)
    BY <1>3, <1>4
  <2> SUFFICES ASSUME NEW d \in Clients, NEW i \in 1 .. Len(relayed'[d]),
                      NEW j \in 1 .. Len(queue')
               PROVE  relayed'[d][i].number < queue'[j].number
    BY DEF RelayedBeforeQueue
  <2>2. CASE i \in 1 .. Len(relayed[d]) /\ relayed'[d][i] = relayed[d][i]
    BY <1>4, <2>1, <2>2 DEF ServerInv, RelayedBeforeQueue
  <2>3. CASE relayed'[d][i] = packet  BY <1>5, <2>3
  <2> QED BY <1>9, <2>2, <2>3
<1>14. RelayedInOrder'
  <2> SUFFICES ASSUME NEW d \in Clients, NEW i \in 1 .. Len(relayed'[d]),
                      NEW j \in 1 .. Len(relayed'[d]), i < j
               PROVE  relayed'[d][i].number < relayed'[d][j].number
    BY DEF RelayedInOrder
  <2>1. /\ Len(relayed[d]) \in Nat /\ i \in Nat /\ j \in Nat
        /\ \A k \in 1 .. Len(relayed[d]) : relayed[d][k].number < packet.number
    BY <1>3, <1>5
  <2>2. \/ i \in 1 .. Len(relayed[d]) /\ relayed'[d][i] = relayed[d][i]
        \/ i = Len(relayed[d]) + 1
    BY <1>9
  <2>3. \/ j \in 1 .. Len(relayed[d]) /\ relayed'[d][j] = relayed[d][j]
        \/ j = Len(relayed[d]) + 1 /\ relayed'[d][j] = packet
    BY <1>9
  <2>4. j <= Len(relayed[d]) + 1  BY <2>1, <2>3
  <2>5. i \in 1 .. Len(relayed[d]) /\ relayed'[d][i] = relayed[d][i]
    BY <2>1, <2>2, <2>4
  <2> QED BY <2>1, <2>3, <2>5 DEF ServerInv, RelayedInOrder
<1>15. NoEcho'  BY <1>9 DEF ServerInv, NoEcho
<1> QED BY <1>4, <1>10, <1>11, <1>12, <1>13, <1>14, <1>15 DEF ServerInv, packet

(***************************************************************************)
(* The scene.  What loadingStatus says and what has become of the peer go  *)
(* together, and the last thing it prints is that the server is closed.    *)
(***************************************************************************)
SceneInv ==
  /\ loadingStatus \in {"LS_START", "LS_UPDATE", "LS_NOP"}
  /\ status \in {"", "starting", "running", "closed"}
  /\ crashed \in BOOLEAN
  /\ loadingStatus = "LS_UPDATE" => peer \in {"idle", "active"}
  /\ loadingStatus = "LS_NOP" =>
       /\ peer = "destroyed" /\ connected = {} /\ queue = << >>
       /\ rowPointer > 0 /\ consoleText[rowPointer] = <<"Server closed">>

ConsoleInv == TextInv /\ ServerInv /\ SceneInv

LEMMA ConsoleInitInv == ConsoleInit => ConsoleInv
<1> SUFFICES ASSUME ConsoleInit PROVE ConsoleInv
  OBVIOUS
<1>1. crashed \in BOOLEAN  BY Zenon DEF ConsoleInit
<1>2. SceneInv  BY <1>1 DEF ConsoleInit, SceneInv
<1> QED BY <1>2, TextStart, ServerStarts DEF ConsoleInit, ConsoleInv

\* Destroy empties the queue and forgets no number.
LEMMA DestroyInv ==
  ASSUME ServerInv, ServerDestroy
  PROVE  ServerInv'
<1>1. Len(<< >>) = 0 /\ << >> \in Seq(Packet)  BY EmptySeq
<1>2. /\ peer' = "destroyed" /\ connected' = {} /\ queue' = << >>
      /\ UNCHANGED <<arrived, relayed, clientID, allocated>>
  BY DEF ServerDestroy
<1>3. allocated' + Len(queue') <= arrived'
  <2>1. /\ allocated \in Nat /\ arrived \in Nat /\ Len(queue) \in Nat
        /\ allocated + Len(queue) <= arrived
    BY ServerAssumption, PacketsOf DEF ServerInv, ServerTypeOK
  <2> QED BY <1>1, <1>2, <2>1
<1> QED BY <1>1, <1>2, <1>3
        DEF ServerInv, ServerTypeOK, QueueInOrder, RelayedBeforeQueue, NumbersArrived,
            RelayedInOrder, NoEcho

LEMMA ConsoleNextInv == ConsoleInv /\ [ConsoleNext]_sceneVars => ConsoleInv' /\ [Scroll!Next]_Shown
<1> SUFFICES ASSUME ConsoleInv, [ConsoleNext]_sceneVars PROVE ConsoleInv' /\ [Scroll!Next]_Shown
  OBVIOUS
<1> USE DEF ConsoleInv
<1>1. ASSUME UNCHANGED textVars PROVE TextInv' /\ Shown' = Shown
  BY <1>1 DEF textVars, TextInv, Shown
<1>2. ASSUME NEW text \in Line, PrintLine(text)
      PROVE  /\ TextInv' /\ [Scroll!Next]_Shown
             /\ rowPointer' > 0 /\ consoleText'[rowPointer'] = text
  BY <1>2, PrintShows DEF Scroll!Next
<1>3. CASE UNCHANGED sceneVars
  <2>1. ServerInv'
    BY <1>3, QueueKept DEF sceneVars, serverVars, peerVars, ServerInv, ServerTypeOK
  <2> QED BY <1>1, <1>3, <2>1
          DEF sceneVars, serverVars, peerVars, consoleVars, textVars, SceneInv
<1>4. CASE StartFrame
  <2>1. /\ loadingStatus' = "LS_UPDATE" /\ status' = "starting" /\ crashed' = crashed
        /\ PrintLine(<<"Starting server...">>) /\ ServerStart
    BY <1>4 DEF StartFrame
  <2>2. ServerInv'
    BY <2>1, QueueKept DEF ServerStart, peerVars, ServerInv, ServerTypeOK
  <2>3. SceneInv'  BY <2>1 DEF SceneInv, ServerStart
  <2> QED BY <1>2, <2>1, <2>2, <2>3, ConsoleAssumption
<1>5. CASE UpdateFrame
  <2>1. /\ loadingStatus = "LS_UPDATE" /\ status' = "running"
        /\ UNCHANGED <<loadingStatus, crashed>>
    BY <1>5 DEF UpdateFrame
  <2>2. CASE ReceivePacket /\ PrintLine(TextOf(Head(queue)))
    <3>1. ServerInv' /\ Head(queue) \in Packet  BY <2>2, ReceiptInv
    <3>2. SceneInv'  BY <2>1, <2>2 DEF SceneInv, ReceivePacket
    <3>3. TextOf(Head(queue)) \in Line  BY <3>1, ConsoleAssumption
    <3> QED BY <1>2, <2>2, <3>1, <3>2, <3>3
  <2>3. CASE ReceiveNothing /\ UNCHANGED textVars
    <3>1. ServerInv'
      BY <2>3, QueueKept DEF ReceiveNothing, serverVars, peerVars, ServerInv, ServerTypeOK
    <3>2. SceneInv'  BY <2>1, <2>3 DEF SceneInv, ReceiveNothing, serverVars
    <3> QED BY <1>1, <2>3, <3>1, <3>2
  <2> QED BY <1>5, <2>2, <2>3 DEF UpdateFrame
<1>6. CASE CloseFrame
  <2>1. /\ loadingStatus' = "LS_NOP" /\ status' = "closed" /\ crashed' = crashed
        /\ PrintLine(<<"Server closed">>) /\ ServerDestroy
    BY <1>6 DEF CloseFrame
  <2>2. ServerInv'  BY <2>1, DestroyInv
  <2>3. /\ TextInv' /\ [Scroll!Next]_Shown
        /\ rowPointer' > 0 /\ consoleText'[rowPointer'] = <<"Server closed">>
    BY <1>2, <2>1, ConsoleAssumption
  <2>4. SceneInv'  BY <2>1, <2>3 DEF SceneInv, ServerDestroy
  <2> QED BY <2>2, <2>3, <2>4
<1>7. CASE CloseBeforeStart
  <2>1. /\ crashed' = TRUE /\ loadingStatus = "LS_START"
        /\ UNCHANGED <<serverVars, textVars, loadingStatus, status>>
    BY <1>7 DEF CloseBeforeStart
  <2>2. ServerInv'
    BY <2>1, QueueKept DEF serverVars, peerVars, ServerInv, ServerTypeOK
  <2>3. crashed' \in BOOLEAN  BY <2>1, Zenon
  <2>4. SceneInv'  BY <2>1, <2>3 DEF SceneInv
  <2> QED BY <1>1, <2>1, <2>2, <2>4
<1>8. CASE Network /\ UNCHANGED <<textVars, consoleVars>>
  <2>1. PICK c \in Clients : Connect(c) \/ Leave(c) \/ Say(c) \/ Probe(c)
    BY <1>8 DEF Network
  <2>2. PICK kind \in Kinds : Arrive(kind, c)
    BY <2>1 DEF Connect, Leave, Say, Probe, Kinds
  <2>3. connected' \subseteq Clients
    BY <2>1 DEF Connect, Leave, Say, Probe, ServerInv, ServerTypeOK
  <2>4. ServerInv'  BY <2>2, <2>3, ArrivalInv
  <2>5. peer = "active" /\ peer' = peer  BY <2>2 DEF Arrive
  <2>6. SceneInv'  BY <1>8, <2>5 DEF SceneInv, consoleVars
  <2> QED BY <1>1, <1>8, <2>4, <2>6
<1> QED BY <1>3, <1>4, <1>5, <1>6, <1>7, <1>8 DEF ConsoleNext, Frame

(***************************************************************************)
(* The theorems.                                                           *)
(***************************************************************************)

\* The inductive invariant holds throughout.
THEOREM ConsoleInvariance == ConsoleSpec => []ConsoleInv
<1>1. ConsoleInv /\ [ConsoleNext]_sceneVars => ConsoleInv'  BY ConsoleNextInv
<1> QED BY <1>1, ConsoleInitInv, PTL DEF ConsoleSpec

\* The console, the text and the server keep their types; rowPointer, with which
\* the rows are written and drawn, stays within the vector.
THEOREM ConsoleTypeCorrect == ConsoleSpec => []ConsoleTypeOK
<1>1. ConsoleInv => ConsoleTypeOK
  BY TextInvTypes DEF ConsoleInv, ServerInv, SceneInv, ConsoleTypeOK
<1> QED BY <1>1, ConsoleInvariance, PTL

\* The drawn rows are the last MaxRows lines printed, in order: the row pointer
\* and the erased rows implement a scrollback.
THEOREM ConsoleScrolls == ConsoleSpec => ShowsLastLines
<1>1. ConsoleInit => Scroll!Init  BY TextStart DEF ConsoleInit
<1>2. ConsoleInv /\ [ConsoleNext]_sceneVars => [Scroll!Next]_Shown  BY ConsoleNextInv
<1> QED BY <1>1, <1>2, ConsoleInvariance, PTL DEF ConsoleSpec, ShowsLastLines, Scroll!Spec

\* Every client sees the messages relayed to it in the order of their arrival.
THEOREM RelayCorrect == ConsoleSpec => []RelayedInOrder
<1>1. ConsoleInv => RelayedInOrder  BY DEF ConsoleInv, ServerInv
<1> QED BY <1>1, ConsoleInvariance, PTL

\* No client ever gets its own message back.
THEOREM EchoCorrect == ConsoleSpec => []NoEcho
<1>1. ConsoleInv => NoEcho  BY DEF ConsoleInv, ServerInv
<1> QED BY <1>1, ConsoleInvariance, PTL

\* A frame that polls or closes the server has a peer to do it on.
THEOREM PointerCorrect == ConsoleSpec => []ServerPointerLive
<1>1. ConsoleInv => ServerPointerLive  BY DEF ConsoleInv, SceneInv, ServerPointerLive
<1> QED BY <1>1, ConsoleInvariance, PTL

\* Closing is the last thing that happens: the peer is gone and nothing is
\* printed below "Server closed".
THEOREM CloseCorrect == ConsoleSpec => []ClosedIsLast
<1>1. ConsoleInv => ClosedIsLast
  <2> SUFFICES ASSUME ConsoleInv, loadingStatus = "LS_NOP"
               PROVE  /\ peer = "destroyed" /\ connected = {} /\ queue = << >>
                      /\ Shown # << >> /\ Shown[Len(Shown)] = <<"Server closed">>
    BY DEF ClosedIsLast
  <2>1. /\ peer = "destroyed" /\ connected = {} /\ queue = << >>
        /\ rowPointer > 0 /\ consoleText[rowPointer] = <<"Server closed">>
    BY DEF ConsoleInv, SceneInv
  <2>2. rowPointer \in 1 .. Len(consoleText) /\ consoleText \in Seq(Line)
    <3>1. TextInv  BY DEF ConsoleInv
    <3>2. consoleText \in Seq(Line) /\ MaxRows = Len(consoleText)  BY <3>1 DEF TextInv
    <3>3. rowPointer \in 0 .. MaxRows /\ MaxRows \in Nat
      BY <3>1, ConsoleTextAssumption DEF TextInv
    <3>4. rowPointer > 0  BY <2>1
    <3>5. rowPointer \in 1 .. MaxRows  BY <3>3, <3>4
    <3> QED BY <3>2, <3>5
  <2>3. /\ Shown \in Seq(Line) /\ Len(Shown) = rowPointer
        /\ Shown[rowPointer] = consoleText[rowPointer]
    BY <2>2, Drawn DEF Shown
  <2>4. Shown # << >>  BY <2>2, <2>3, EmptySeq
  <2> QED BY <2>1, <2>3, <2>4
<1> QED BY <1>1, ConsoleInvariance, PTL
=============================================================================
