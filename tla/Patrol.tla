------------------------------- MODULE Patrol -------------------------------
(***************************************************************************)
(* The boy in one house: Tick on a fixed grid, the player anywhere.        *)
(*                                                                         *)
(* The player is the environment: he may be at any of PlayerSpots when a   *)
(* tick looks for him, which allows every way of moving between two ticks. *)
(***************************************************************************)
EXTENDS Enemy

CONSTANTS
  HouseWalls,   \* the walls of the layer
  Spawns,       \* cells the boy can start on
  PlayerSpots   \* positions the player can be at

\* Border cells are walls (generation step 3); the player's body is not in one.
ASSUME PatrolAssumption ==
  /\ HouseWalls \subseteq Cells
  /\ Border \subseteq HouseWalls
  /\ Spawns \subseteq Cells
  /\ PlayerSpots \subseteq [x : 0 .. (Size - 1) * Slowness, y : 0 .. (Size - 1) * Slowness]

PatrolInit == /\ EnemyInit
              /\ \E c \in Spawns : position = AtCell(c)

PatrolNext == \E player \in PlayerSpots : Tick(HouseWalls, player)

PatrolSpec     == PatrolInit /\ [][PatrolNext]_enemyVars
PatrolFairSpec == PatrolSpec /\ WF_enemyVars(PatrolNext)

-----------------------------------------------------------------------------
PatrolTypeOK == EnemyTypeOK

\* A boy outside the walls gets into one only in the middle of a slide, whose steps
\* test nothing, and comes out of it where the slide ends: no step of the patrol, no
\* step in the tick a slide begins in, and no end of a slide is in a wall.  Nothing
\* in the code tests the end either; the half-cell block swept by RayCast is what
\* makes the truncated cell of the player a free one.
WallsOnlyInSlides == [][OutOfWalls(HouseWalls) => OutOfWalls(HouseWalls)']_enemyVars

\* A slide of at least one step ends, with the boy on the cell the player was
\* seen in when it began, whatever the player does meanwhile.
SlideReaches ==
  (sliding /\ maxSlideCooldown > 0)
    ~> (~sliding /\ position = AtCell(ToNormal(slideTo)))
=============================================================================
