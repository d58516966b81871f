----------------------------- MODULE EnemyProofs -----------------------------
(***************************************************************************)
(* What a tick of the boy keeps, for every grid with a border of walls and *)
(* every player on the map: lemmas for Patrol, below, and for SceneProofs. *)
(* Then Patrol, for every house, size, pace and number of ray samples, and *)
(* PathHeat, for rooms of any size and any number of updates.              *)
(***************************************************************************)
EXTENDS Patrol, PathHeat, TLAPS

(***************************************************************************)
(* Arithmetic.                                                             *)
(***************************************************************************)

\* \div rounds down.
LEMMA DivFloor ==
  ASSUME NEW a \in Int, NEW m \in Nat, m > 0
  PROVE  /\ a \div m \in Int
         /\ m * (a \div m) <= a
         /\ a < m * (a \div m) + m
  OBVIOUS

\* A common factor can be cancelled in an inequality.
LEMMA Cancel ==
  ASSUME NEW m \in Nat, m > 0, NEW a \in Int, NEW b \in Int, m * a < m * b
  PROVE  a < b
  OBVIOUS

\* An inequality can be scaled.
LEMMA Scale ==
  ASSUME NEW m \in Nat, m > 0, NEW a \in Int, NEW b \in Int, a < b
  PROVE  m * a < m * b
  OBVIOUS

\* Part n of m of the way from 0 to d is between 0 and d, and all of it is d.
LEMMA PartOf ==
  ASSUME NEW d \in Int, NEW m \in Nat, NEW n \in 0 .. m, m > 0
  PROVE  /\ (d * n) \div m \in Int
         /\ d >= 0 => (d * n) \div m \in 0 .. d
         /\ d <= 0 => (d * n) \div m \in d .. 0
         /\ (d * m) \div m = d
<1> DEFINE q == (d * n) \div m
<1>1. d * n \in Int /\ d * m \in Int  OBVIOUS
<1>2. q \in Int /\ m * q <= d * n /\ d * n < m * q + m  BY <1>1, DivFloor
<1>3. ASSUME d >= 0 PROVE q \in 0 .. d
  <2>1. 0 <= d * n /\ d * n <= d * m  BY <1>3
  <2>2. m * (-1) < m * q  BY <1>2, <2>1
  <2>3. m * q < m * (d + 1)  BY <1>2, <2>1
  <2> QED BY <1>2, <2>2, <2>3, Cancel
<1>4. ASSUME d <= 0 PROVE q \in d .. 0
  <2>1. d * n <= 0 /\ d * m <= d * n  BY <1>4
  <2>2. m * q < m * 1  BY <1>2, <2>1
  <2>3. m * (d - 1) < m * q  BY <1>2, <2>1
  <2> QED BY <1>2, <2>2, <2>3, Cancel
<1>5. (d * m) \div m = d
  <2> DEFINE r == (d * m) \div m
  <2>1. r \in Int /\ m * r <= d * m /\ d * m < m * r + m  BY <1>1, DivFloor
  <2>2. m * r < m * (d + 1) /\ m * d < m * (r + 1)  BY <2>1
  <2> QED BY <2>1, <2>2, Cancel
<1> QED BY <1>2, <1>3, <1>4, <1>5

(***************************************************************************)
(* Geometry.                                                               *)
(***************************************************************************)

\* Positions on the map, in units of 1/Slowness.
MapSide   == (Size - 1) * Slowness
MapPoints == [x : 0 .. MapSide, y : 0 .. MapSide]

LEMMA MapSideType == MapSide \in Nat /\ Slowness \in Nat /\ Size \in Nat
  BY GeometryAssumption DEF MapSide

\* Truncation finds the cell whose corner is at or before a coordinate.
LEMMA TruncFloor ==
  ASSUME NEW n \in 0 .. MapSide
  PROVE  /\ Trunc(n) \in 0 .. Size - 1
         /\ Slowness * Trunc(n) <= n
         /\ n < Slowness * (Trunc(n) + 1)
         /\ Slowness * Trunc(n) \in 0 .. MapSide
<1>1. n \in Nat /\ Slowness \in Nat /\ Slowness > 0 /\ Size \in Nat /\ Size > 0
      /\ n <= MapSide
  BY GeometryAssumption, MapSideType
<1>2. Trunc(n) = n \div Slowness  BY <1>1 DEF Trunc
<1>3. /\ Trunc(n) \in Int /\ Slowness * Trunc(n) <= n
      /\ n < Slowness * Trunc(n) + Slowness
  BY <1>1, <1>2, DivFloor
<1>4. Slowness * (-1) < Slowness * Trunc(n)  BY <1>1, <1>3
<1>5. Slowness * Trunc(n) < Slowness * Size  BY <1>1, <1>3 DEF MapSide
<1>6. -1 < Trunc(n) /\ Trunc(n) < Size  BY <1>1, <1>3, <1>4, <1>5, Cancel
<1>7. Slowness * Trunc(n) \in Nat  BY <1>1, <1>3, <1>6
<1> QED BY <1>1, <1>3, <1>6, <1>7, MapSideType

\* The corner of the cell of a point on the map is on the map.
LEMMA CornerOnMap ==
  ASSUME NEW p \in MapPoints
  PROVE  /\ ToNormal(p) \in Cells
         /\ AtCell(ToNormal(p)) \in MapPoints
<1>1. p.x \in 0 .. MapSide /\ p.y \in 0 .. MapSide  BY DEF MapPoints
<1> QED BY <1>1, TruncFloor DEF ToNormal, AtCell, MapPoints, Cells

(***************************************************************************)
(* The lemma the slide rests on.  The boy's body at a cell's corner meets  *)
(* no cell but that one; and if that cell is a wall, the half-cell block   *)
(* of the last sample of the ray, at the player, is inside it.             *)
(***************************************************************************)
LEMMA SeenCellIsFree ==
  ASSUME NEW grid \in SUBSET Cells, NEW a \in MapPoints, NEW p \in MapPoints,
         ~RayCast(grid, a, p)
  PROVE  ~Collide(grid, AtCell(ToNormal(p)))
<1> DEFINE i == Trunc(p.x)
           j == Trunc(p.y)
<1>1. /\ Slowness \in Nat /\ Slowness > 0 /\ RaySteps \in Nat /\ RaySteps > 0
      /\ a.x \in Int /\ a.y \in Int /\ p.x \in Int /\ p.y \in Int
  BY GeometryAssumption, MapSideType DEF MapPoints
<1>2. /\ i \in Int /\ Slowness * i <= p.x /\ p.x < Slowness * (i + 1)
      /\ j \in Int /\ Slowness * j <= p.y /\ p.y < Slowness * (j + 1)
  BY TruncFloor DEF MapPoints
<1>3. SUFFICES ASSUME Collide(grid, AtCell(ToNormal(p))) PROVE FALSE
  OBVIOUS
<1>4. PICK w \in grid :
        /\ Slowness * i < Slowness * (w[1] + 1)
        /\ 100 * (Slowness * i) + 89 * Slowness > 100 * Slowness * w[1]
        /\ Slowness * j < Slowness * (w[2] + 1)
        /\ 100 * (Slowness * j) + 89 * Slowness > 100 * Slowness * w[2]
  BY <1>3 DEF Collide, PositionCollide, AtCell, ToNormal
<1>5. w[1] \in Int /\ w[2] \in Int  BY GeometryAssumption DEF Cells
<1>6. w[1] = i /\ w[2] = j
  <2>1. i < w[1] + 1 /\ j < w[2] + 1  BY <1>1, <1>2, <1>4, <1>5, Cancel
  <2>2. /\ Slowness * (100 * w[1]) < Slowness * (100 * i + 89)
        /\ Slowness * (100 * w[2]) < Slowness * (100 * j + 89)
    BY <1>1, <1>2, <1>4, <1>5
  <2>3. 100 * w[1] < 100 * i + 89 /\ 100 * w[2] < 100 * j + 89
    BY <1>1, <1>2, <1>5, <2>2, Cancel
  <2> QED BY <1>2, <1>5, <2>1, <2>3
<1> DEFINE s == Sample(a, p, RaySteps)
           u == RaySteps * Slowness
<1>7. s.x = RaySteps * p.x /\ s.y = RaySteps * p.y  BY <1>1 DEF Sample
<1>8. /\ s.x < u * (w[1] + 1) /\ 100 * s.x + 50 * u > 100 * u * w[1]
      /\ s.y < u * (w[2] + 1) /\ 100 * s.y + 50 * u > 100 * u * w[2]
  <2>1. /\ RaySteps * p.x < RaySteps * (Slowness * (i + 1))
        /\ RaySteps * p.y < RaySteps * (Slowness * (j + 1))
    BY <1>1, <1>2, Scale
  <2>2. /\ RaySteps * (100 * (Slowness * i)) < RaySteps * (100 * p.x + 50 * Slowness)
        /\ RaySteps * (100 * (Slowness * j)) < RaySteps * (100 * p.y + 50 * Slowness)
    <3>1. /\ 100 * (Slowness * i) < 100 * p.x + 50 * Slowness
          /\ 100 * (Slowness * j) < 100 * p.y + 50 * Slowness
      BY <1>1, <1>2
    <3> QED BY <1>1, <1>2, <3>1, Scale
  <2> QED BY <1>1, <1>2, <1>6, <1>7, <2>1, <2>2
<1>9. PositionCollide(grid, s, u, 50)  BY <1>4, <1>8 DEF PositionCollide
<1>10. RaySteps \in 1 .. RaySteps  BY <1>1
<1> QED BY <1>9, <1>10 DEF RayCast

\* Along one axis, a body just off the map meets the border ...
LEMMA BesideBorder ==
  ASSUME NEW n \in {-1, MapSide + 1}
  PROVE  \E c \in {0, Size - 1} : /\ n < Slowness * (c + 1)
                                  /\ 100 * n + 89 * Slowness > 100 * Slowness * c
<1>1. Slowness \in Nat /\ Slowness >= 2 /\ Size \in Nat  BY GeometryAssumption
<1>2. CASE n = -1  BY <1>1, <1>2
<1>3. CASE n = MapSide + 1
  <2>1. Slowness * ((Size - 1) + 1) = MapSide + Slowness  BY <1>1 DEF MapSide
  <2>2. 100 * Slowness * (Size - 1) = 100 * MapSide  BY <1>1 DEF MapSide
  <2> QED BY <1>1, <1>3, <2>1, <2>2, MapSideType
<1> QED BY <1>2, <1>3

\* ... and a body on the map meets the cell it is in.
LEMMA InOwnCell ==
  ASSUME NEW n \in 0 .. MapSide
  PROVE  /\ Trunc(n) \in 0 .. Size - 1
         /\ n < Slowness * (Trunc(n) + 1)
         /\ 100 * n + 89 * Slowness > 100 * Slowness * Trunc(n)
<1>1. Slowness \in Nat /\ Slowness > 0 /\ n \in Nat  BY GeometryAssumption, MapSideType
<1>2. 100 * Slowness * Trunc(n) = 100 * (Slowness * Trunc(n))  BY <1>1, TruncFloor
<1> QED BY <1>1, <1>2, TruncFloor

\* A step off the map ends in one of the border's walls.
LEMMA StepStaysOnMap ==
  ASSUME NEW grid \in SUBSET Cells, Border \subseteq grid,
         NEW p \in MapPoints, NEW q \in Point,
         \/ q.x \in p.x - 1 .. p.x + 1 /\ q.y = p.y
         \/ q.y \in p.y - 1 .. p.y + 1 /\ q.x = p.x,
         ~Collide(grid, q)
  PROVE  q \in MapPoints
<1>1. /\ p.x \in 0 .. MapSide /\ p.y \in 0 .. MapSide /\ MapSide \in Nat
      /\ q = [x |-> q.x, y |-> q.y] /\ q.x \in Int /\ q.y \in Int
  BY MapSideType DEF MapPoints, Point
<1>2. ASSUME NEW w \in grid,
             q.x < Slowness * (w[1] + 1), 100 * q.x + 89 * Slowness > 100 * Slowness * w[1],
             q.y < Slowness * (w[2] + 1), 100 * q.y + 89 * Slowness > 100 * Slowness * w[2]
      PROVE FALSE
  BY <1>2 DEF Collide, PositionCollide
<1>3. ASSUME q.x \in {-1, MapSide + 1}, q.y \in 0 .. MapSide PROVE FALSE
  <2>1. PICK c \in {0, Size - 1} : /\ q.x < Slowness * (c + 1)
                                   /\ 100 * q.x + 89 * Slowness > 100 * Slowness * c
    BY <1>3, BesideBorder
  <2>2. <<c, Trunc(q.y)>> \in grid
    BY <1>3, <2>1, InOwnCell, GeometryAssumption DEF Border, Cells
  <2> QED BY <1>2, <1>3, <2>1, <2>2, InOwnCell
<1>4. ASSUME q.y \in {-1, MapSide + 1}, q.x \in 0 .. MapSide PROVE FALSE
  <2>1. PICK c \in {0, Size - 1} : /\ q.y < Slowness * (c + 1)
                                   /\ 100 * q.y + 89 * Slowness > 100 * Slowness * c
    BY <1>4, BesideBorder
  <2>2. <<Trunc(q.x), c>> \in grid
    BY <1>4, <2>1, InOwnCell, GeometryAssumption DEF Border, Cells
  <2> QED BY <1>2, <1>4, <2>1, <2>2, InOwnCell
<1>5. q.x \in 0 .. MapSide /\ q.y \in 0 .. MapSide  BY <1>1, <1>3, <1>4
<1> QED BY <1>1, <1>5 DEF MapPoints

LEMMA MapPointsArePoints == MapPoints \subseteq Point
  BY MapSideType DEF MapPoints, Point

LEMMA CellsOnMap ==
  ASSUME NEW c \in Cells
  PROVE  AtCell(c) \in MapPoints
<1>1. /\ c[1] \in 0 .. Size - 1 /\ c[2] \in 0 .. Size - 1
      /\ Size \in Nat /\ Slowness \in Nat
  BY GeometryAssumption DEF Cells
<1>2. Slowness * c[1] \in 0 .. MapSide /\ Slowness * c[2] \in 0 .. MapSide
  BY <1>1 DEF MapSide
<1> QED BY <1>2 DEF AtCell, MapPoints

(***************************************************************************)
(* The inductive invariant of the boy.  OnMap is not inductive by itself:  *)
(* a slide stays on the map because both its ends are there.               *)
(***************************************************************************)
SlideSound ==
  /\ originalPosition \in MapPoints /\ slideTo \in MapPoints
  /\ maxSlideCooldown = Slowness * slidingSlowness
  /\ slideCooldown <= maxSlideCooldown

EnemyInv == EnemyTypeOK /\ position \in MapPoints /\ SlideSound

\* While nobody else moves him, every step of a slide puts the boy on the point
\* that slideCooldown names.
OnItsWay == sliding /\ slideCooldown > 0 => position = SlidePoint(slideCooldown)

\* The point that n steps of a slide lead to is on the map, and the last one is
\* the corner of the player's cell.
LEMMA SlidePointOnMap ==
  ASSUME slideTo \in MapPoints, originalPosition \in MapPoints,
         maxSlideCooldown \in Nat, maxSlideCooldown > 0,
         NEW n \in 0 .. maxSlideCooldown
  PROVE  /\ SlidePoint(n) \in MapPoints
         /\ SlidePoint(maxSlideCooldown) = AtCell(ToNormal(slideTo))
<1> DEFINE to == AtCell(ToNormal(slideTo))
           dx == to.x - originalPosition.x
           dy == to.y - originalPosition.y
<1>1. to \in MapPoints  BY CornerOnMap
<1>2. /\ to.x \in 0 .. MapSide /\ to.y \in 0 .. MapSide
      /\ originalPosition.x \in 0 .. MapSide /\ originalPosition.y \in 0 .. MapSide
      /\ to = [x |-> to.x, y |-> to.y] /\ MapSide \in Nat
  BY <1>1, MapSideType DEF MapPoints
<1>3. dx \in Int /\ dy \in Int  BY <1>2
<1> HIDE DEF to
<1>4. /\ originalPosition.x + (dx * n) \div maxSlideCooldown \in 0 .. MapSide
      /\ originalPosition.y + (dy * n) \div maxSlideCooldown \in 0 .. MapSide
  <2>1. /\ (dx * n) \div maxSlideCooldown \in Int
        /\ dx >= 0 => (dx * n) \div maxSlideCooldown \in 0 .. dx
        /\ dx <= 0 => (dx * n) \div maxSlideCooldown \in dx .. 0
    BY <1>3, PartOf
  <2>2. /\ (dy * n) \div maxSlideCooldown \in Int
        /\ dy >= 0 => (dy * n) \div maxSlideCooldown \in 0 .. dy
        /\ dy <= 0 => (dy * n) \div maxSlideCooldown \in dy .. 0
    BY <1>3, PartOf
  <2> QED BY <1>2, <2>1, <2>2
<1>5. SlidePoint(n) \in MapPoints  BY <1>4 DEF SlidePoint, MapPoints, to
<1>6. /\ (dx * maxSlideCooldown) \div maxSlideCooldown = dx
      /\ (dy * maxSlideCooldown) \div maxSlideCooldown = dy
  BY <1>3, PartOf
<1>7. SlidePoint(maxSlideCooldown) = [x |-> to.x, y |-> to.y]
  <2>1. /\ originalPosition.x + dx = to.x /\ originalPosition.y + dy = to.y
    BY <1>2
  <2> QED BY <1>6, <2>1 DEF SlidePoint, to
<1> QED BY <1>2, <1>5, <1>7 DEF to

\* While the boy is on the map the test marked "Glitch ??" fails.
LEMMA NoGlitch ==
  ASSUME position \in MapPoints
  PROVE  ~OutOfMap
<1>1. /\ position.x \in 0 .. MapSide /\ position.y \in 0 .. MapSide
      /\ MapSide \in Nat /\ Slowness \in Nat /\ Size \in Nat
  BY MapSideType DEF MapPoints
<1>2. MapSide <= Size * Slowness  BY <1>1 DEF MapSide
<1>3. Size * Slowness \in Nat  BY <1>1
<1> QED BY <1>1, <1>2, <1>3 DEF OutOfMap

\* What looking for the player leaves the slide in, when the boy is not sliding.
LEMMA LookStartsSlide ==
  ASSUME EnemyInv, ~sliding, NEW grid, NEW player \in MapPoints,
         LookForPlayer(grid, player)
  PROVE  /\ sliding' \in BOOLEAN /\ slidingSlowness' \in Nat
         /\ slideCooldown' \in Nat /\ maxSlideCooldown' \in Nat
         /\ slideTo' \in MapPoints /\ originalPosition' \in MapPoints
         /\ maxSlideCooldown' = Slowness * slidingSlowness'
         /\ slideCooldown' <= maxSlideCooldown'
         /\ sliding' => /\ slideCooldown' = 0 /\ slideTo' = player
                        /\ ~RayCast(grid, position, player)
<1> DEFINE seen == InSight(position, player) /\ ~RayCast(grid, position, player)
<1>1. CASE ~seen
  BY <1>1 DEF LookForPlayer, slideVars, EnemyInv, EnemyTypeOK, SlideSound
<1>2. CASE seen
  <2>1. /\ sliding' = TRUE /\ slideTo' = player /\ originalPosition' = position
        /\ slidingSlowness' = (Magnitude(player.x - position.x)
                               + Magnitude(player.y - position.y)) \div Slowness
        /\ maxSlideCooldown' = Slowness * slidingSlowness' /\ slideCooldown' = 0
    BY <1>2 DEF LookForPlayer
  <2>2. /\ Magnitude(player.x - position.x) \in Nat
        /\ Magnitude(player.y - position.y) \in Nat
    BY MapSideType DEF EnemyInv, MapPoints, Magnitude
  <2>3. Slowness \in Nat /\ Slowness > 0  BY GeometryAssumption
  <2>4. slidingSlowness' \in Nat
    <3> DEFINE n == Magnitude(player.x - position.x) + Magnitude(player.y - position.y)
    <3>1. n \in Nat  BY <2>2
    <3>2. n \div Slowness \in Int /\ Slowness * (-1) < Slowness * (n \div Slowness)
      BY <2>3, <3>1, DivFloor
    <3> QED BY <2>1, <2>3, <3>2, Cancel
  <2>5. maxSlideCooldown' \in Nat  BY <2>1, <2>3, <2>4
  <2> QED BY <1>2, <2>1, <2>4, <2>5 DEF EnemyInv
<1> QED BY <1>1, <1>2

\* A tick keeps the invariant of the boy.
LEMMA TickInv ==
  ASSUME EnemyInv, NEW grid \in SUBSET Cells, Border \subseteq grid,
         NEW player \in MapPoints, Tick(grid, player)
  PROVE  EnemyInv'
<1> USE DEF EnemyInv
<1>1. ~OutOfMap  BY NoGlitch
<1>2. CASE SlideStep
  <2>1. /\ sliding /\ slideCooldown < maxSlideCooldown
        /\ slideCooldown' = slideCooldown + 1
        /\ position' = SlidePoint(slideCooldown + 1)
        /\ UNCHANGED <<sliding, slideTo, originalPosition, maxSlideCooldown,
                       slidingSlowness, direction, rotationCountdown, rotating, pathMap>>
    BY <1>2 DEF SlideStep
  <2>2. /\ slideCooldown \in Nat /\ maxSlideCooldown \in Nat /\ maxSlideCooldown > 0
        /\ slideCooldown + 1 \in 0 .. maxSlideCooldown
    BY <2>1 DEF EnemyTypeOK
  <2>3. position' \in MapPoints
    BY <2>1, <2>2, SlidePointOnMap DEF SlideSound
  <2>4. turn' \in 0 .. MaxTurn  BY <1>2 DEF SlideStep, EnemyTypeOK
  <2>5. EnemyTypeOK'
    BY <2>1, <2>2, <2>3, <2>4, MapPointsArePoints DEF EnemyTypeOK
  <2>6. SlideSound'
    BY <2>1, <2>2 DEF SlideSound, SlidePoint
  <2> QED BY <2>3, <2>5, <2>6
<1>3. CASE SlideEnd(grid, player)
  <2>1. EnemyTypeOK'
    <3>1. turn' \in 0 .. MaxTurn
      BY <1>3, EnemyAssumption DEF SlideEnd, EnemyTypeOK
    <3>2. sliding' \in BOOLEAN  BY <1>3, Zenon DEF SlideEnd
    <3> QED BY <1>3, <3>1, <3>2 DEF SlideEnd, EnemyTypeOK
  <2>2. SlideSound'  BY <1>3 DEF SlideEnd, SlideSound
  <2> QED BY <1>3, <2>1, <2>2 DEF SlideEnd
<1>4. CASE Turn /\ LookForPlayer(grid, player)
  <2>1. /\ ~sliding /\ position' = position /\ direction' = direction
        /\ rotationCountdown' = rotationCountdown /\ pathMap' = pathMap
    BY <1>4 DEF Turn
  <2>2. rotating' \in BOOLEAN  BY <1>4, Zenon DEF Turn
  <2>3. turn' \in 0 .. MaxTurn
    <3>1. turn' = turn \/ (turn > 0 /\ turn' = turn - 1)  BY <1>4 DEF Turn
    <3> QED BY <3>1, EnemyAssumption DEF EnemyTypeOK
  <2>4. EnemyTypeOK'
    BY <1>1, <1>4, <2>1, <2>2, <2>3, LookStartsSlide, MapPointsArePoints
    DEF EnemyTypeOK
  <2>5. SlideSound'
    BY <1>1, <1>4, <2>1, LookStartsSlide DEF SlideSound
  <2> QED BY <2>1, <2>4, <2>5
<1>5. CASE Walk(grid) /\ LookForPlayer(grid, player)
  <2>1. ~sliding /\ pathMap' \in SUBSET Cells
    BY <1>5 DEF Walk, EnemyTypeOK
  <2>2. /\ position' \in MapPoints
        /\ direction' \in 0 .. 3 /\ turn' \in 0 .. MaxTurn /\ rotating' \in BOOLEAN
        /\ rotationCountdown' \in CountdownFloor .. MaxRotationCountdown
    <3>1. CASE Bump(grid)
      BY <3>1, EnemyAssumption DEF Bump, RandomDirection, RotateTowardsDirection, EnemyTypeOK
    <3>2. CASE Stride(grid)
      <4>1. position' \in MapPoints
        <5>1. /\ NextPosition \in Point
              /\ \/ /\ NextPosition.x \in position.x - 1 .. position.x + 1
                    /\ NextPosition.y = position.y
                 \/ /\ NextPosition.y \in position.y - 1 .. position.y + 1
                    /\ NextPosition.x = position.x
          BY DEF NextPosition, EnemyTypeOK, Point
        <5>2. ~Collide(grid, NextPosition) /\ position' = NextPosition
          BY <3>2 DEF Stride
        <5> QED BY <5>1, <5>2, StepStaysOnMap
      <4>2. /\ direction' \in 0 .. 3 /\ turn' \in 0 .. MaxTurn
            /\ rotating' \in BOOLEAN
        BY <3>2 DEF Stride, RandomDirection, RotateTowardsDirection, EnemyTypeOK
      <4>3. rotationCountdown' \in CountdownFloor .. MaxRotationCountdown
        BY <3>2, EnemyAssumption DEF Stride, EnemyTypeOK, CountdownFloor
      <4> QED BY <4>1, <4>2, <4>3
    <3> QED BY <1>5, <3>1, <3>2 DEF Walk
  <2>3. EnemyTypeOK'
    BY <1>1, <1>5, <2>1, <2>2, LookStartsSlide, MapPointsArePoints DEF EnemyTypeOK
  <2>4. SlideSound'
    BY <1>1, <1>5, <2>1, LookStartsSlide DEF SlideSound
  <2> QED BY <2>2, <2>3, <2>4
<1> QED BY <1>1, <1>2, <1>3, <1>4, <1>5 DEF Tick

\* A tick keeps the boy on the points of his slide.
LEMMA TickOnItsWay ==
  ASSUME EnemyInv, OnItsWay, NEW grid \in SUBSET Cells,
         NEW player \in MapPoints, Tick(grid, player)
  PROVE  OnItsWay'
<1>1. ~OutOfMap  BY NoGlitch DEF EnemyInv
<1>2. CASE SlideStep  BY <1>2 DEF SlideStep, OnItsWay, SlidePoint
<1>3. CASE SlideEnd(grid, player)  BY <1>3 DEF SlideEnd, OnItsWay
<1>4. CASE (Turn \/ Walk(grid)) /\ LookForPlayer(grid, player)
  <2>1. ~sliding  BY <1>4 DEF Turn, Walk
  <2> QED BY <1>4, <2>1, LookStartsSlide DEF OnItsWay
<1> QED BY <1>1, <1>2, <1>3, <1>4 DEF Tick

\* A tick takes the boy into a wall of the grid only in the middle of a slide, and
\* never sets up a slide that ends in one.
LEMMA TickOutOfWalls ==
  ASSUME EnemyInv, NEW grid \in SUBSET Cells, NEW player \in MapPoints,
         Tick(grid, player), OutOfWalls(grid)
  PROVE  OutOfWalls(grid)'
<1>1. /\ position \in MapPoints /\ ~OutOfMap
      /\ slideCooldown \in Nat /\ maxSlideCooldown \in Nat
      /\ slideCooldown <= maxSlideCooldown
  BY NoGlitch DEF EnemyInv, EnemyTypeOK, SlideSound
<1>2. CASE SlideStep
  <2>1. /\ sliding /\ sliding' = sliding /\ slideTo' = slideTo
        /\ maxSlideCooldown' = maxSlideCooldown /\ maxSlideCooldown > 0
        /\ slideCooldown' = slideCooldown + 1
        /\ position' = SlidePoint(slideCooldown')
    BY <1>1, <1>2 DEF SlideStep
  <2>2. ~Collide(grid, AtCell(ToNormal(slideTo)))  BY <2>1 DEF OutOfWalls
  <2>3. slideCooldown' = maxSlideCooldown => position' = AtCell(ToNormal(slideTo))
    BY <1>1, <2>1, SlidePointOnMap DEF EnemyInv, SlideSound
  <2>4. /\ 0 < slideCooldown'
        /\ slideCooldown' < maxSlideCooldown' \/ slideCooldown' = maxSlideCooldown
    BY <1>1, <1>2, <2>1 DEF SlideStep
  <2>5. Collide(grid, position') => MidSlide'
    BY <2>1, <2>2, <2>3, <2>4 DEF MidSlide
  <2>6. ~Collide(grid, AtCell(ToNormal(slideTo')))  BY <2>1, <2>2
  <2> QED BY <2>5, <2>6 DEF OutOfWalls
<1>3. CASE SlideEnd(grid, player)
  <2>1. sliding /\ ~sliding' /\ position' = position /\ slideCooldown = maxSlideCooldown
    BY <1>1, <1>3 DEF SlideEnd
  <2>2. ~Collide(grid, position)  BY <1>1, <2>1 DEF OutOfWalls, MidSlide
  <2> QED BY <2>1, <2>2 DEF OutOfWalls
<1>4. ASSUME ~sliding, LookForPlayer(grid, player), ~Collide(grid, position')
      PROVE  OutOfWalls(grid)'
  <2>1. sliding' => ~Collide(grid, AtCell(ToNormal(slideTo')))
    BY <1>1, <1>4, LookStartsSlide, SeenCellIsFree
  <2> QED BY <1>4, <2>1 DEF OutOfWalls
<1>5. CASE Turn /\ LookForPlayer(grid, player)
  BY <1>4, <1>5 DEF Turn, OutOfWalls, MidSlide
<1>6. CASE Walk(grid) /\ LookForPlayer(grid, player)
  <2>1. ~sliding /\ ~Collide(grid, position)  BY <1>6 DEF Walk, OutOfWalls, MidSlide
  <2>2. ~Collide(grid, position')  BY <1>6, <2>1 DEF Walk, Bump, Stride
  <2> QED BY <1>4, <1>6, <2>1, <2>2
<1> QED BY <1>1, <1>2, <1>3, <1>5, <1>6 DEF Tick

\* A tick keeps the heat map or builds it from its own grid.
LEMMA TickMap ==
  ASSUME NEW grid, NEW player, Tick(grid, player)
  PROVE  pathMap' \in {pathMap, grid}
BY DEF Tick, Recentre, SlideStep, SlideEnd, Turn, Walk, walkVars

\* Where no variable of the boy changes, what holds of him stays.
LEMMA EnemyStutter ==
  ASSUME UNCHANGED enemyVars
  PROVE  /\ EnemyInv => EnemyInv'
         /\ OnItsWay => OnItsWay'
         /\ \A grid : OutOfWalls(grid) => OutOfWalls(grid)'
BY DEF enemyVars, slideVars, walkVars, EnemyInv, EnemyTypeOK, SlideSound, OnItsWay,
       SlidePoint, OutOfWalls, MidSlide

\* The boy starts with nothing under way.
LEMMA EnemyStart ==
  ASSUME EnemyInit, position \in MapPoints
  PROVE  EnemyInv /\ OnItsWay
<1>1. [x |-> 0, y |-> 0] \in MapPoints /\ Slowness \in Nat
  BY MapSideType DEF MapPoints
<1>2. rotating \in BOOLEAN /\ sliding \in BOOLEAN  BY Zenon DEF EnemyInit
<1>3. /\ direction = 0 /\ rotationCountdown = 0 /\ turn = 0 /\ ~sliding
      /\ slideTo = [x |-> 0, y |-> 0] /\ originalPosition = [x |-> 0, y |-> 0]
      /\ slideCooldown = 0 /\ maxSlideCooldown = 0 /\ slidingSlowness = 0
      /\ pathMap = {}
  BY DEF EnemyInit
<1>4. EnemyTypeOK
  BY <1>1, <1>2, <1>3, MapPointsArePoints, EnemyAssumption
  DEF EnemyTypeOK, CountdownFloor
<1> QED BY <1>1, <1>3, <1>4 DEF EnemyInv, SlideSound, OnItsWay

-----------------------------------------------------------------------------
(***************************************************************************)
(* The boy's patrol.                                                       *)
(***************************************************************************)
LEMMA SpotsOnMap == PlayerSpots \subseteq MapPoints
  BY PatrolAssumption DEF MapPoints, MapSide

(***************************************************************************)
(* SlideAccounted is not inductive: that a slide ends where it should      *)
(* follows from every step of it being the point slideCooldown names.      *)
(***************************************************************************)
PatrolInv == EnemyInv /\ OnItsWay

THEOREM PatrolInitInv == PatrolInit => PatrolInv
<1> SUFFICES ASSUME PatrolInit PROVE PatrolInv
  OBVIOUS
<1>1. PICK c \in Spawns : position = AtCell(c)  BY DEF PatrolInit
<1>2. position \in MapPoints  BY <1>1, CellsOnMap, PatrolAssumption
<1> QED BY <1>2, EnemyStart DEF PatrolInit, PatrolInv

\* Every step keeps the invariant.
THEOREM PatrolNextInv == PatrolInv /\ [PatrolNext]_enemyVars => PatrolInv'
<1> SUFFICES ASSUME PatrolInv, [PatrolNext]_enemyVars PROVE PatrolInv'
  OBVIOUS
<1>1. CASE UNCHANGED enemyVars  BY <1>1, EnemyStutter DEF PatrolInv
<1>2. CASE PatrolNext
  <2>1. PICK player \in PlayerSpots : Tick(HouseWalls, player)  BY <1>2 DEF PatrolNext
  <2>2. /\ player \in MapPoints /\ HouseWalls \in SUBSET Cells /\ Border \subseteq HouseWalls
    BY SpotsOnMap, PatrolAssumption
  <2> QED BY <2>1, <2>2, TickInv, TickOnItsWay DEF PatrolInv
<1> QED BY <1>1, <1>2

\* A finished slide of at least one step has reached the player's cell.
LEMMA InvAccounted == PatrolInv => SlideAccounted
<1> SUFFICES ASSUME PatrolInv PROVE SlideAccounted
  OBVIOUS
<1> USE DEF PatrolInv, EnemyInv, SlideSound
<1>1. maxSlideCooldown \in Nat /\ slideCooldown \in Nat  BY DEF EnemyTypeOK
<1>2. ASSUME sliding, slideCooldown = maxSlideCooldown, slideCooldown > 0
      PROVE  position = AtCell(ToNormal(slideTo))
  <2>1. position = SlidePoint(maxSlideCooldown)  BY <1>2 DEF OnItsWay
  <2>2. maxSlideCooldown \in 0 .. maxSlideCooldown /\ maxSlideCooldown > 0
    BY <1>1, <1>2
  <2> QED BY <1>1, <2>1, <2>2, SlidePointOnMap
<1> QED BY <1>2 DEF SlideAccounted

LEMMA InvOnMap == PatrolInv => OnMap
  BY DEF PatrolInv, EnemyInv, OnMap, MapPoints, MapSide

(***************************************************************************)
(* The theorems.                                                           *)
(***************************************************************************)

\* The inductive invariant holds throughout.
THEOREM PatrolInvariance == PatrolSpec => []PatrolInv
<1> QED BY PatrolInitInv, PatrolNextInv, PTL DEF PatrolSpec

\* Every variable of the boy keeps its type; for a slide that means its counters
\* are never negative.
THEOREM PatrolTypeCorrect == PatrolSpec => []PatrolTypeOK
<1>1. PatrolInv => PatrolTypeOK  BY DEF PatrolInv, EnemyInv, PatrolTypeOK
<1> QED BY <1>1, PatrolInvariance, PTL

\* Slides of any length never run past their last step, never divide by zero and
\* end on the player's cell.
THEOREM SlideCorrect == PatrolSpec => []SlideAccounted
<1> QED BY InvAccounted, PatrolInvariance, PTL

\* The boy never leaves the map, so the branch marked "Glitch ??" is never taken
\* while he patrols one layer.
THEOREM PatrolMapCorrect == PatrolSpec => []OnMap
<1> QED BY InvOnMap, PatrolInvariance, PTL

\* One step keeps the boy, and the end of his slide, out of the walls.
LEMMA StepOutOfWalls ==
  PatrolInv /\ [PatrolNext]_enemyVars /\ OutOfWalls(HouseWalls) => OutOfWalls(HouseWalls)'
<1> SUFFICES ASSUME PatrolInv, [PatrolNext]_enemyVars, OutOfWalls(HouseWalls) PROVE OutOfWalls(HouseWalls)'
  OBVIOUS
<1>1. CASE UNCHANGED enemyVars  BY <1>1, EnemyStutter
<1>2. CASE PatrolNext
  <2>1. PICK player \in PlayerSpots : Tick(HouseWalls, player)  BY <1>2 DEF PatrolNext
  <2> QED BY <2>1, SpotsOnMap, PatrolAssumption, TickOutOfWalls DEF PatrolInv
<1> QED BY <1>1, <1>2

\* Outside the walls of any house the boy gets into one only in the middle of a
\* slide, and is out of it at the end: his steps are tested, and the ray that starts
\* a slide is wide enough that its untested end is a free cell.
THEOREM WallsCorrect == PatrolSpec => WallsOnlyInSlides
<1>1. PatrolInv /\ [PatrolNext]_enemyVars => [OutOfWalls(HouseWalls) => OutOfWalls(HouseWalls)']_enemyVars
  BY StepOutOfWalls
<1> QED BY <1>1, PatrolInvariance, PTL DEF PatrolSpec, WallsOnlyInSlides

-----------------------------------------------------------------------------
(***************************************************************************)
(* HeatAccounted is not inductive: a cell of heat 5 would cool to -5.      *)
(* What keeps an unmarked cell at 0 or 10 is that all heat is in tens.     *)
(***************************************************************************)
InTens(n) == \E k \in Int : n = 10 * k

HeatTypeOK ==
  /\ heat = << >> \/ heat \in [HeatCells -> Int]
  /\ updates \in Nat
  /\ warmed \subseteq HeatCells /\ chilled \subseteq HeatCells

\* What is known of the heat h of cell c after so many updates.
Accounted(c, h, number, hot, cold) ==
  /\ h \in Int /\ InTens(h)
  /\ h < 0 => c \in cold
  /\ h > 10 => c \in hot \union HeatWalls
  /\ h <= 1000 * (number + 1) /\ h >= -10000 * number

HeatInv ==
  /\ HeatTypeOK
  /\ heat # << >> => \A c \in HeatCells : Accounted(c, heat[c], updates, warmed, chilled)

-----------------------------------------------------------------------------
\* A map that has just been built is as good as one that was there.
LEMMA BuiltAccounted ==
  ASSUME HeatInv
  PROVE  /\ Built \in [HeatCells -> Int]
         /\ \A c \in HeatCells : Accounted(c, Built[c], updates, warmed, chilled)
<1>1. CASE heat = << >>
  <2>1. Built = [c \in HeatCells |-> IF c \in HeatWalls THEN 1000 ELSE 0]
    BY <1>1 DEF Built
  <2>2. InTens(1000) /\ InTens(0)
    <3>1. 1000 = 10 * 100 /\ 0 = 10 * 0 /\ 100 \in Int /\ 0 \in Int
      OBVIOUS
    <3> QED BY <3>1 DEF InTens
  <2>3. 1000 <= 1000 * (updates + 1) /\ 0 >= -10000 * updates
       /\ 0 <= 1000 * (updates + 1) /\ 1000 >= -10000 * updates
    BY DEF HeatInv, HeatTypeOK
  <2>4. Built \in [HeatCells -> Int]
    BY <2>1
  <2>5. ASSUME NEW c \in HeatCells PROVE Accounted(c, Built[c], updates, warmed, chilled)
    <3>1. CASE c \in HeatWalls
      <4>1. Built[c] = 1000
        BY <2>1, <3>1
      <4>2. Accounted(c, 1000, updates, warmed, chilled)
        BY <2>2, <2>3, <3>1 DEF Accounted
      <4> QED BY <4>1, <4>2
    <3>2. CASE c \notin HeatWalls
      <4>1. Built[c] = 0
        BY <2>1, <3>2
      <4>2. Accounted(c, 0, updates, warmed, chilled)
        BY <2>2, <2>3 DEF Accounted
      <4> QED BY <4>1, <4>2
    <3> QED BY <3>1, <3>2
  <2> QED BY <2>4, <2>5
<1>2. CASE heat # << >>
  BY <1>2 DEF Built, HeatInv, HeatTypeOK
<1> QED BY <1>1, <1>2

LEMMA MarkedCooled ==
  ASSUME NEW h \in [HeatCells -> Int], NEW boy \in HeatCells, NEW player \in HeatCells
  PROVE  /\ Cooled(Marked(h, boy, player)) \in [HeatCells -> Int]
         /\ \A c \in HeatCells :
              LET m == h[c] + (IF c = boy THEN 1000 ELSE 0) - (IF c = player THEN 10000 ELSE 0)
              IN  Cooled(Marked(h, boy, player))[c] = IF m > 0 THEN m - 10 ELSE m + 10
<1>1. Marked(h, boy, player) \in [HeatCells -> Int]
  BY DEF Marked
<1>2. \A c \in HeatCells : Marked(h, boy, player)[c] =
        h[c] + (IF c = boy THEN 1000 ELSE 0) - (IF c = player THEN 10000 ELSE 0)
  BY DEF Marked
<1> QED BY <1>1, <1>2 DEF Cooled

-----------------------------------------------------------------------------
LEMMA TickKeeps ==
  ASSUME HeatInv, NEW boy \in HeatSpots, NEW player \in HeatSpots, HeatTick(boy, player)
  PROVE  HeatInv'
<1>1. /\ Built \in [HeatCells -> Int]
      /\ \A c \in HeatCells : Accounted(c, Built[c], updates, warmed, chilled)
  BY BuiltAccounted
<1>2. boy \in HeatCells /\ player \in HeatCells
  BY PathHeatAssumption
<1>3. CASE heatTick - 1 < 0
  <2>1. /\ heat' = Cooled(Marked(Built, boy, player)) /\ updates' = updates + 1
        /\ warmed' = warmed \union {boy} /\ chilled' = chilled \union {player}
    BY <1>3 DEF HeatTick
  <2>2. HeatTypeOK'
    BY <1>1, <1>2, <2>1, MarkedCooled DEF HeatInv, HeatTypeOK
  <2>3. ASSUME NEW c \in HeatCells
        PROVE  Accounted(c, heat'[c], updates + 1, warmed \union {boy}, chilled \union {player})
    <3> DEFINE h == Built[c]
               m == h + (IF c = boy THEN 1000 ELSE 0) - (IF c = player THEN 10000 ELSE 0)
               g == heat'[c]
    <3>1. g = IF m > 0 THEN m - 10 ELSE m + 10
      BY <1>1, <1>2, <2>1, MarkedCooled
    <3>2. Accounted(c, h, updates, warmed, chilled)
      BY <1>1
    <3>3. h \in Int /\ m \in Int /\ g \in Int /\ updates \in Nat
      BY <1>1, <3>1 DEF HeatInv, HeatTypeOK
    <3>4. m = h + (IF c = boy THEN 1000 ELSE 0) - (IF c = player THEN 10000 ELSE 0)
      OBVIOUS
    <3> HIDE DEF h, m, g
    <3>5. PICK k \in Int : h = 10 * k
      BY <3>2 DEF Accounted, InTens
    <3>6. PICK j \in Int : m = 10 * j
      <4>1. PICK a \in {0, 100}, b \in {0, 1000} : m = h + 10 * a - 10 * b
        BY <3>3, <3>4
      <4>2. m = 10 * (k + a - b) /\ k + a - b \in Int
        BY <3>5, <4>1
      <4> QED BY <4>2
    <3>7. InTens(g)
      <4>1. CASE m > 0
        <5>1. g = 10 * (j - 1) /\ j - 1 \in Int
          BY <3>1, <3>6, <4>1
        <5> QED BY <5>1 DEF InTens
      <4>2. CASE ~(m > 0)
        <5>1. g = 10 * (j + 1) /\ j + 1 \in Int
          BY <3>1, <3>6, <4>2
        <5> QED BY <5>1 DEF InTens
      <4> QED BY <4>1, <4>2
    <3>8. g < 0 => c \in chilled \union {player}
      <4>1. g < 0 => m < 0
        BY <3>1, <3>3, <3>6
      <4>2. m < 0 /\ c # player => h < 0
        BY <3>3, <3>4
      <4> QED BY <3>2, <4>1, <4>2 DEF Accounted
    <3>9. g > 10 => c \in warmed \union {boy} \union HeatWalls
      <4>1. g > 10 => m > 20
        BY <3>1, <3>3
      <4>2. m > 20 /\ c # boy => h > 10
        BY <3>3, <3>4
      <4> QED BY <3>2, <4>1, <4>2 DEF Accounted
    <3>10. g <= 1000 * (updates + 2) /\ g >= -10000 * (updates + 1)
      <4>1. h <= 1000 * (updates + 1) /\ h >= -10000 * updates
        BY <3>2 DEF Accounted
      <4>2. m <= 1000 * (updates + 1) + 1000 /\ m >= -10000 * updates - 10000
        BY <3>3, <3>4, <4>1
      <4> QED BY <3>1, <3>3, <4>2
    <3>11. Accounted(c, g, updates + 1, warmed \union {boy}, chilled \union {player})
      BY <3>3, <3>7, <3>8, <3>9, <3>10 DEF Accounted
    <3> QED BY <3>11 DEF g
  <2> QED BY <2>1, <2>2, <2>3 DEF HeatInv
<1>4. CASE ~(heatTick - 1 < 0)
  <2>1. heat' = Built /\ UNCHANGED <<updates, warmed, chilled>>
    BY <1>4 DEF HeatTick
  <2> QED BY <1>1, <2>1 DEF HeatInv, HeatTypeOK
<1> QED BY <1>3, <1>4

THEOREM HeatInvariance == HeatSpec => []HeatInv
<1>1. HeatInit => HeatInv
  BY DEF HeatInit, HeatInv, HeatTypeOK
<1>2. HeatInv /\ [HeatNext]_heatVars => HeatInv'
  <2> SUFFICES ASSUME HeatInv, [HeatNext]_heatVars PROVE HeatInv'
    OBVIOUS
  <2>1. CASE \E boy, player \in HeatSpots : HeatTick(boy, player)
    BY <2>1, TickKeeps
  <2>2. CASE ResetHeat
    BY <2>2 DEF ResetHeat, HeatInv, HeatTypeOK
  <2>3. CASE UNCHANGED heatVars
    BY <2>3 DEF heatVars, HeatInv, HeatTypeOK
  <2> QED BY <2>1, <2>2, <2>3 DEF HeatNext
<1> QED BY <1>1, <1>2, PTL DEF HeatSpec

\* However long the boy walks (path.cpp:225-275), the heat of a cell tells of nothing
\* but the boy, the player and the walls, and is bounded by the number of updates:
\* the int it is kept in lasts for more than 200,000 of them.
THEOREM HeatCorrect == HeatSpec => []HeatAccounted
<1>1. HeatInv => HeatAccounted
  BY DEF HeatInv, Accounted, HeatAccounted
<1> QED BY <1>1, HeatInvariance, PTL
=============================================================================
