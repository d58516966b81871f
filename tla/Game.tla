-------------------------------- MODULE Game --------------------------------
(***************************************************************************)
(* The GAME scene of main.cpp, with the debug menu of debug.cpp.  A frame  *)
(* moves the player, ticks the boy, handles the teleport, draws the debug  *)
(* menu and handles its keys, in this order; stage is the place the frame  *)
(* has come to.  The boy is the EnemyPosition of module Enemy; his grid is *)
(* the current layer's and his player is the camera.                       *)
(*                                                                         *)
(* A layer's teleport is in positions[layer], which is no_position while   *)
(* the player carries it.  The code keeps <row, column> there and swaps    *)
(* the two at every use; the swap is done here once, by the initial value. *)
(***************************************************************************)
EXTENDS Enemy

CONSTANTS
  Layers,         \* number of layers (max_layers)
  Houses,         \* the walls of each layer
  StartTeleports, \* the cell each layer's random walk ended on
  CameraSpots,    \* positions the player may try to walk to
  LookSpots,      \* positions the player may look at when he drops the teleport
  MaxStep,        \* farthest one frame can take the player along an axis
  Reach           \* farthest along an axis that CalculateLookAtTarget can be

\* A frame of less than a fifth of a second moves the player by less than a
\* cell; (target_distance / 5.1) / 8 is 0.87 of a cell.  With fewer than four
\* cells along a side (map_size is 50) the middle would touch the border.
ASSUME GameAssumption ==
  /\ Size >= 4
  /\ Layers \in Nat \ {0}
  /\ Houses \in [0 .. Layers - 1 -> SUBSET Cells]
  /\ \A l \in 0 .. Layers - 1 : Border \subseteq Houses[l]
  /\ StartTeleports \in [0 .. Layers - 1 -> Cells]
  /\ CameraSpots \subseteq Point /\ LookSpots \subseteq Point
  /\ MaxStep \in 0 .. Slowness
  /\ Reach \in 0 .. Slowness - 1

VARIABLES
  stage,          \* "menu", then "move", "item", "end" of each frame; "undefined"
                  \* once the program has read past the end of a vector
  current_layer,
  positions,
  held_object,    \* "HO_NOTHING" or "HO_TELEPORT"
  camera,         \* camera.position, without its height
  debug_menu

gameVars == <<stage, current_layer, positions, held_object, camera, debug_menu>>
vars     == <<gameVars, enemyVars>>

\* FLT_MAX in both coordinates: beyond every position on the map.
no_position == [x |-> 10 * Size * Slowness, y |-> 10 * Size * Slowness]

House  == Houses[current_layer]
Centre == [x |-> (Size * Slowness) \div 2, y |-> (Size * Slowness) \div 2]

Within(a, b, d) == Magnitude(a.x - b.x) <= d /\ Magnitude(a.y - b.y) <= d

GameInit ==
  /\ stage = "menu"
  /\ current_layer = 0
  /\ positions = [l \in 0 .. Layers - 1 |-> AtCell(StartTeleports[l])]
  /\ held_object = "HO_NOTHING"
  /\ camera = [x |-> 0, y |-> 0]
  /\ debug_menu = FALSE
  /\ EnemyInit /\ position = [x |-> 0, y |-> 0]

-----------------------------------------------------------------------------
SwitchToGame ==
  /\ stage = "menu"
  /\ stage' = "move"
  /\ camera' = Centre
  /\ position' = positions[current_layer]
  /\ UNCHANGED <<current_layer, positions, held_object, debug_menu, slideVars, walkVars>>

\* Where the keys can take the camera in one frame.
UpdateController == {q \in CameraSpots : Within(q, camera, MaxStep)} \union {camera}
\* Where the player can look: an eighth of the way to the camera's target.
CalculateLookAtTarget == {q \in LookSpots : Within(q, camera, Reach)}

\* Mutant of Step: a move into a wall is not taken back.
StepThrough(p) == p
\* UpdateController has put the camera on p; a wall there takes the move back.
Step(p) == IF CircleCollide(House, p, 10) THEN camera ELSE p

\* The player moves, then the boy ticks with the player where he is now.
MoveAndTick ==
  /\ stage = "move"
  /\ \E p \in UpdateController : camera' = Step(p)
  /\ Tick(House, camera')
  /\ stage' = "item"
  /\ UNCHANGED <<current_layer, positions, held_object, debug_menu>>

-----------------------------------------------------------------------------
(***************************************************************************)
(* The teleport.                                                           *)
(***************************************************************************)

\* GetItemCollision with item_radius 1: strictly less than a cell on each axis.
InReach(item) == Within(item, camera, Slowness - 1)

\* Mutant of PickUp: the layer still shows the teleport the player carries.
PickUpCopy ==
  /\ stage = "item" /\ held_object = "HO_NOTHING"
  /\ InReach(positions[current_layer])
  /\ held_object' = "HO_TELEPORT"
  /\ stage' = "end"
  /\ UNCHANGED <<positions, current_layer, camera, debug_menu, enemyVars>>
\* Left click near the teleport.
PickUp ==
  /\ stage = "item" /\ held_object = "HO_NOTHING"
  /\ InReach(positions[current_layer])
  /\ held_object' = "HO_TELEPORT"
  /\ positions' = [positions EXCEPT ![current_layer] = no_position]
  /\ stage' = "end"
  /\ UNCHANGED <<current_layer, camera, debug_menu, enemyVars>>

\* Mutant of Drop: the hand is emptied although a wall is at the place.
DropLost ==
  /\ stage = "item" /\ held_object = "HO_TELEPORT"
  /\ \E lookAt \in CalculateLookAtTarget :
       positions' = IF CircleCollide(House, lookAt, 20) THEN positions
                    ELSE [positions EXCEPT ![current_layer] = lookAt]
  /\ held_object' = "HO_NOTHING"
  /\ stage' = "end"
  /\ UNCHANGED <<current_layer, camera, debug_menu, enemyVars>>
\* Left click with the teleport in hand; a wall at the place keeps it there.
Drop ==
  /\ stage = "item" /\ held_object = "HO_TELEPORT"
  /\ \E lookAt \in CalculateLookAtTarget :
       /\ ~CircleCollide(House, lookAt, 20)
       /\ positions' = [positions EXCEPT ![current_layer] = lookAt]
  /\ held_object' = "HO_NOTHING"
  /\ stage' = "end"
  /\ UNCHANGED <<current_layer, camera, debug_menu, enemyVars>>

\* Mutant of LeaveBehind: the teleport stays where the walk had put it.
LeaveBehindAtStart ==
  positions' = [positions EXCEPT ![current_layer] = AtCell(StartTeleports[current_layer])]
\* NextLayer leaves the teleport on the player's truncated cell.
LeaveBehind ==
  positions' = [positions EXCEPT ![current_layer] = AtCell(ToNormal(camera))]

\* Mutant of NextLayer: the heat map of the old layer is kept.
NextLayerStaleMap ==
  /\ stage = "item" /\ held_object = "HO_TELEPORT"
  /\ current_layer + 1 < Layers
  /\ LeaveBehind
  /\ current_layer' = current_layer + 1
  /\ position' = positions[current_layer + 1]
  /\ held_object' = "HO_NOTHING"
  /\ stage' = "end"
  /\ UNCHANGED <<camera, debug_menu, slideVars, walkVars>>
\* Mutant of NextLayer: the boy is moved before the teleport is left and the layer
\* counted, so to where the one in the hand was.
NextLayerTooEarly ==
  /\ stage = "item" /\ held_object = "HO_TELEPORT"
  /\ current_layer + 1 < Layers
  /\ position' = positions[current_layer]
  /\ LeaveBehind
  /\ pathMap' = {}
  /\ current_layer' = current_layer + 1
  /\ held_object' = "HO_NOTHING"
  /\ stage' = "end"
  /\ UNCHANGED <<camera, debug_menu, slideVars, direction, rotationCountdown,
                 rotating, turn>>
\* Right click with the teleport in hand.  The slide and the turn the boy was
\* in go on in the new layer.
NextLayer ==
  /\ stage = "item" /\ held_object = "HO_TELEPORT"
  /\ current_layer + 1 < Layers
  /\ LeaveBehind
  /\ pathMap' = {}
  /\ current_layer' = current_layer + 1
  /\ position' = positions[current_layer + 1]
  /\ held_object' = "HO_NOTHING"
  /\ stage' = "end"
  /\ UNCHANGED <<camera, debug_menu, slideVars, direction, rotationCountdown,
                 rotating, turn>>

\* The same on the last layer: positions[current_layer] is read past the end.
NextLayerPastEnd ==
  /\ stage = "item" /\ held_object = "HO_TELEPORT"
  /\ current_layer + 1 >= Layers
  /\ LeaveBehind
  /\ pathMap' = {}
  /\ current_layer' = current_layer + 1
  /\ held_object' = "HO_NOTHING"
  /\ stage' = "undefined"
  /\ UNCHANGED <<camera, debug_menu, position, slideVars, direction,
                 rotationCountdown, rotating, turn>>

\* No click, or one that finds nothing to do.
NoClick ==
  /\ stage = "item"
  /\ stage' = "end"
  /\ UNCHANGED <<current_layer, positions, held_object, camera, debug_menu, enemyVars>>

-----------------------------------------------------------------------------
(***************************************************************************)
(* The debug menu.                                                         *)
(***************************************************************************)

\* The end of a frame in which TAB has never been pressed.
EndFrame ==
  /\ stage = "end" /\ ~debug_menu
  /\ stage' = "move"
  /\ UNCHANGED <<current_layer, positions, held_object, camera, debug_menu, enemyVars>>

\* TAB opens and closes the menu; in it UP and DOWN go round the layers.
DebugHandleKeys ==
  /\ stage = "end" /\ (debug_menu => pathMap # {})
  /\ debug_menu' \in BOOLEAN
  /\ current_layer' \in
       IF debug_menu'
         THEN {current_layer, (current_layer + 1) % Layers,
               (current_layer + Layers - 1) % Layers}
         ELSE {current_layer}
  /\ stage' = "move"
  /\ UNCHANGED <<positions, held_object, camera, enemyVars>>

\* The menu draws pathMap.map[y][x] of a pathMap with no rows.
DebugDrawsNothing ==
  /\ stage = "end" /\ debug_menu /\ pathMap = {}
  /\ stage' = "undefined"
  /\ UNCHANGED <<current_layer, positions, held_object, camera, debug_menu, enemyVars>>

-----------------------------------------------------------------------------
Item == PickUp \/ Drop \/ NextLayer \/ NextLayerPastEnd \/ NoClick

\* A player who never presses TAB, and one who may.
PlayNext  == SwitchToGame \/ MoveAndTick \/ Item \/ EndFrame
DebugNext == SwitchToGame \/ MoveAndTick \/ Item \/ DebugHandleKeys \/ DebugDrawsNothing

PlaySpec  == GameInit /\ [][PlayNext]_vars
DebugSpec == GameInit /\ [][DebugNext]_vars

-----------------------------------------------------------------------------
GameTypeOK ==
  /\ stage \in {"menu", "move", "item", "end", "undefined"}
  /\ current_layer \in 0 .. Layers
  /\ positions \in [0 .. Layers - 1 -> Point]
  /\ held_object \in {"HO_NOTHING", "HO_TELEPORT"}
  /\ camera \in Point
  /\ debug_menu \in BOOLEAN
  /\ EnemyTypeOK

\* There is one teleport per layer, on its floor or in the player's hand:
\* what is carried is the current layer's, and every other layer has its own.
TeleportAccounted ==
  stage # "undefined" =>
    \A l \in 0 .. Layers - 1 :
      positions[l] = no_position <=> l = current_layer /\ held_object = "HO_TELEPORT"

\* With the debug menu teleports do get lost (one layer's is dropped on another
\* that has its own), but never the last one.
TeleportNeverLost ==
  held_object = "HO_NOTHING" => \E l \in 0 .. Layers - 1 : positions[l] # no_position

\* Dropped, or left behind when it is used, the teleport is within the player's
\* reach from where he stands: it can always be picked up again.
TeleportLeftInReach ==
  [][held_object = "HO_TELEPORT" /\ held_object' = "HO_NOTHING"
       => InReach(positions'[current_layer])]_vars

\* The player cannot leave the map, and so pathMap has an element for his cell.
PlayerOnMap ==
  stage # "menu" => camera.x \in 0 .. (Size - 1) * Slowness
                    /\ camera.y \in 0 .. (Size - 1) * Slowness

\* Without the debug menu the boy is on the map too, layer changes included.
BoyOnMap == stage # "menu" => OnMap

\* With it he can be put on no_position; but where the test marked "Glitch ??"
\* fails, and the tick goes on, he is on the map.
BoyOnMapOrReset == stage # "menu" /\ ~OutOfMap => OnMap

\* The heat map, when there is one, was built from the current layer.
PathMapFresh == stage # "undefined" => pathMap \in {{}, House}

\* While the layer does not change, the boy gets into its walls only in the middle of
\* a slide, and comes out of them where it ends.
BoyInWallsOnlyInSlides ==
  [][stage # "menu" /\ current_layer' = current_layer /\ OutOfWalls(House)
       => OutOfWalls(House)']_vars

\* TODO.md lists "crashing after reaching MAX + 1 level" as a bug: the game
\* should survive the use of the last layer's teleport.
SurvivesLastLayer == current_layer < Layers
=============================================================================
