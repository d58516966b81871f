------------------------------- MODULE Enemy --------------------------------
(***************************************************************************)
(* EnemyPosition of path.cpp: the boy.  Tick is called once per frame with *)
(* the pixels of the current layer and the player's position; it patrols   *)
(* (walks, turns at walls and now and then in the open) until it sees the  *)
(* player, and then slides to the player's cell without looking where it   *)
(* goes.  All the state is the boy's own; the grid is the caller's.        *)
(*                                                                         *)
(* Abstracted: the heat values of pathMap, which only bias the choice of a *)
(* direction (RandomDirection may return any of the four); and the angle,  *)
(* kept as the number of ticks after which the integer parts of rotation   *)
(* and toRotate agree.                                                     *)
(***************************************************************************)
EXTENDS Geometry

CONSTANTS
  MaxRotationCountdown,  \* steps between two turns in the open (100)
  MaxTurn                \* bound on the ticks a turn takes

ASSUME EnemyAssumption == MaxRotationCountdown \in Nat /\ MaxTurn \in Nat

VARIABLES
  position,          \* where the boy is
  direction,         \* 0 forward (+y), 1 backward, 2 left (+x), 3 right
  rotationCountdown, \* steps until the boy may turn in the open
  rotating, turn,    \* turning, and the ticks the turn still takes
  sliding,           \* going for the player
  slideTo,           \* the player's position when the slide began
  originalPosition,  \* the boy's position when the slide began
  slideCooldown, maxSlideCooldown, slidingSlowness,
  pathMap            \* the walls pathMap was built from; {} when it is empty

slideVars == <<sliding, slideTo, originalPosition, slideCooldown,
               maxSlideCooldown, slidingSlowness>>
walkVars  == <<direction, rotationCountdown, rotating, turn, pathMap>>
enemyVars == <<position, slideVars, walkVars>>

\* rotationCountdown is not followed below this: every value there is "due".
CountdownFloor == -1

EnemyInit ==
  /\ direction = 0 /\ rotationCountdown = 0 /\ rotating = FALSE /\ turn = 0
  /\ sliding = FALSE
  /\ slideTo = [x |-> 0, y |-> 0] /\ originalPosition = [x |-> 0, y |-> 0]
  /\ slideCooldown = 0 /\ maxSlideCooldown = 0 /\ slidingSlowness = 0
  /\ pathMap = {}

EnemyTypeOK ==
  /\ position \in Point /\ slideTo \in Point /\ originalPosition \in Point
  /\ direction \in 0 .. 3
  /\ rotationCountdown \in CountdownFloor .. MaxRotationCountdown
  /\ rotating \in BOOLEAN /\ sliding \in BOOLEAN
  /\ turn \in 0 .. MaxTurn
  /\ slideCooldown \in Nat /\ maxSlideCooldown \in Nat /\ slidingSlowness \in Nat
  /\ pathMap \in SUBSET Cells

-----------------------------------------------------------------------------
(***************************************************************************)
(* The first test of Tick, which the source marks with "Glitch ??".        *)
(***************************************************************************)
OutOfMap == \/ position.x > Size * Slowness \/ position.x < 0
            \/ position.y > Size * Slowness \/ position.y < 0

Recentre == /\ position' = [x |-> (Size * Slowness) \div 2,
                            y |-> (Size * Slowness) \div 2]
            /\ UNCHANGED <<slideVars, walkVars>>

-----------------------------------------------------------------------------
(***************************************************************************)
(* Sliding.                                                                *)
(***************************************************************************)

\* Mutant of SlidePoint: the slide heads for the corner past the player's cell.
SlidePointPast(n) ==
  LET to == AtCell(<<Trunc(slideTo.x) + 1, Trunc(slideTo.y)>>)
  IN  [x |-> originalPosition.x + ((to.x - originalPosition.x) * n) \div maxSlideCooldown,
       y |-> originalPosition.y + ((to.y - originalPosition.y) * n) \div maxSlideCooldown]
\* n steps of the slide, from originalPosition to the corner of slideTo's cell.
SlidePoint(n) ==
  LET to == AtCell(ToNormal(slideTo))
  IN  [x |-> originalPosition.x + ((to.x - originalPosition.x) * n) \div maxSlideCooldown,
       y |-> originalPosition.y + ((to.y - originalPosition.y) * n) \div maxSlideCooldown]

\* One more step; the boy faces the player, wherever the player is by now.
SlideStep ==
  /\ sliding
  /\ slideCooldown < maxSlideCooldown
  /\ slideCooldown' = slideCooldown + 1
  /\ position' = SlidePoint(slideCooldown + 1)
  /\ turn' \in IF rotating THEN 0 .. MaxTurn ELSE {turn}
  /\ UNCHANGED <<sliding, slideTo, originalPosition, maxSlideCooldown,
                 slidingSlowness, direction, rotationCountdown, rotating, pathMap>>

\* The slide is over; if the player is out of sight the boy faces his direction.
SlideEnd(grid, player) ==
  /\ sliding
  /\ slideCooldown >= maxSlideCooldown
  /\ sliding' = FALSE
  /\ turn' = IF RayCast(grid, position, player) THEN 0 ELSE turn
  /\ UNCHANGED <<position, slideTo, originalPosition, slideCooldown,
                 maxSlideCooldown, slidingSlowness, direction,
                 rotationCountdown, rotating, pathMap>>

\* The tick goes on after a slide is set up: the boy still turns or walks in it.
LookForPlayer(grid, player) ==
  IF InSight(position, player) /\ ~RayCast(grid, position, player)
    THEN /\ sliding' = TRUE
         /\ slideTo' = player
         /\ originalPosition' = position
         /\ slidingSlowness' = (Magnitude(player.x - position.x)
                                + Magnitude(player.y - position.y)) \div Slowness
         /\ maxSlideCooldown' = Slowness * slidingSlowness'
         /\ slideCooldown' = 0
    ELSE UNCHANGED slideVars

-----------------------------------------------------------------------------
(***************************************************************************)
(* Patrolling.                                                             *)
(***************************************************************************)

\* Whatever the heat map says, any direction can be drawn: the one with the least
\* heat ahead, or rand() % 4 where the boy's own cell is hotter than the average.
RandomDirection == 0 .. 3

RotateTowardsDirection(d) ==
  /\ direction' = d
  /\ rotating' = TRUE
  /\ turn' \in 0 .. MaxTurn

Turn ==
  /\ ~sliding /\ rotating
  /\ IF turn > 0 THEN turn' = turn - 1 /\ rotating' = TRUE
                 ELSE turn' = turn     /\ rotating' = FALSE
  /\ UNCHANGED <<position, direction, rotationCountdown, pathMap>>

\* PositionTick: one unit along the current direction.
NextPosition ==
  [x |-> position.x + (IF direction = 2 THEN 1 ELSE IF direction = 3 THEN -1 ELSE 0),
   y |-> position.y + (IF direction = 0 THEN 1 ELSE IF direction = 1 THEN -1 ELSE 0)]

\* A wall ahead: the step is taken back and the boy turns.
Bump(grid) ==
  /\ Collide(grid, NextPosition)
  /\ \E d \in RandomDirection : RotateTowardsDirection(d)
  /\ UNCHANGED <<position, rotationCountdown>>

\* A free step; with enough room around and the countdown over, the boy turns.
Stride(grid) ==
  /\ ~Collide(grid, NextPosition)
  /\ position' = NextPosition
  /\ IF rotationCountdown - 1 < 0 /\ FreeSpace(grid, NextPosition) >= 3
       THEN /\ rotationCountdown' = MaxRotationCountdown
            /\ \E d \in RandomDirection : RotateTowardsDirection(d)
       ELSE /\ rotationCountdown' = IF rotationCountdown > CountdownFloor
                                      THEN rotationCountdown - 1
                                      ELSE CountdownFloor
            /\ UNCHANGED <<direction, rotating, turn>>

Walk(grid) ==
  /\ ~sliding /\ ~rotating
  /\ pathMap' = IF pathMap = {} THEN grid ELSE pathMap
  /\ Bump(grid) \/ Stride(grid)

-----------------------------------------------------------------------------
\* EnemyPosition::Tick.
Tick(grid, player) ==
  IF OutOfMap
    THEN Recentre
    ELSE \/ SlideStep
         \/ SlideEnd(grid, player)
         \/ Turn       /\ LookForPlayer(grid, player)
         \/ Walk(grid) /\ LookForPlayer(grid, player)

-----------------------------------------------------------------------------
\* The places of a slide between its ends.  The slide puts the boy there without a
\* test, and does take his body through the corners of walls.
MidSlide == sliding /\ 0 < slideCooldown /\ slideCooldown < maxSlideCooldown

\* The boy is not in a wall of grid, but for the middle of a slide; and the place
\* he slides to is not in one.
OutOfWalls(grid) ==
  /\ Collide(grid, position) => MidSlide
  /\ sliding => \/ maxSlideCooldown = 0
                \/ ~Collide(grid, AtCell(ToNormal(slideTo)))

\* A slide is cut into Slowness steps per cell and never runs past the last;
\* while steps remain, the divisor of SlidePoint is not zero; a finished slide
\* of at least one step has put the boy exactly on the player's cell.
SlideAccounted ==
  /\ maxSlideCooldown = Slowness * slidingSlowness
  /\ slideCooldown <= maxSlideCooldown
  /\ sliding /\ slideCooldown = maxSlideCooldown /\ slideCooldown > 0
       => position = AtCell(ToNormal(slideTo))

\* position is on the map; so the test marked "Glitch ??" never succeeds and
\* pathMap[position.y][position.x] is an element of the vectors.
OnMap == /\ position.x \in 0 .. (Size - 1) * Slowness
         /\ position.y \in 0 .. (Size - 1) * Slowness
=============================================================================
