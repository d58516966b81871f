------------------------------ MODULE Geometry ------------------------------
(***************************************************************************)
(* The collision tests of path.cpp and main.cpp over one layer's grid.     *)
(*                                                                         *)
(* A cell is <<column, row>>.  A grid is the set of cells whose pixel is   *)
(* 255, a wall.  Cell <<i, j>> is the unit square CENTRED on (i, j), as    *)
(* the rectangles "0 - 0.5f + x*1.0f" of the source have it.               *)
(*                                                                         *)
(* World coordinates are floats in the code.  Here a point is a record of  *)
(* integers in units of 1/Slowness of a cell, the distance the boy walks   *)
(* in one tick; for a Slowness that is a power of two the floats of the    *)
(* code hold exactly these values.                                         *)
(***************************************************************************)
EXTENDS Integers, FiniteSets

CONSTANTS
  Size,        \* cells along each side of the square map (map_size)
  Slowness,    \* ticks the boy takes to cross a cell (10 in main.cpp)
  RaySteps,    \* samples of a ray cast (60 in path.cpp)
  SightRange   \* half the side of the square the boy looks at (45 in path.cpp)

ASSUME GeometryAssumption ==
  /\ Size \in Nat /\ Size >= 3
  /\ Slowness \in Nat /\ Slowness >= 2
  /\ RaySteps \in Nat /\ RaySteps >= 1
  /\ SightRange \in Nat

Cells  == (0 .. Size - 1) \X (0 .. Size - 1)
Border == {c \in Cells : c[1] \in {0, Size - 1} \/ c[2] \in {0, Size - 1}}
Point  == [x : Int, y : Int]
Magnitude(n) == IF n >= 0 THEN n ELSE -n

\* PenkWorldVector2::ToNormal truncates towards zero.
Trunc(n)    == IF n >= 0 THEN n \div Slowness ELSE -((-n) \div Slowness)
ToNormal(p) == <<Trunc(p.x), Trunc(p.y)>>
AtCell(c)   == [x |-> Slowness * c[1], y |-> Slowness * c[2]]

(***************************************************************************)
(* A square of side block/100 cells whose corner is half a cell up and     *)
(* left of p, against every wall.  p is in units of 1/unit of a cell.      *)
(* CheckCollisionRecs is strict: squares that only touch do not collide.   *)
(***************************************************************************)
PositionCollide(grid, p, unit, block) ==
  \E w \in grid :
    /\ p.x < unit * (w[1] + 1) /\ 100 * p.x + block * unit > 100 * unit * w[1]
    /\ p.y < unit * (w[2] + 1) /\ 100 * p.y + block * unit > 100 * unit * w[2]

\* The boy's own body is 0.89 of a cell wide.
Collide(grid, p) == PositionCollide(grid, p, Slowness, 89)

\* Sample i of the ray from a to b, in units of 1/(RaySteps * Slowness).
Sample(a, b, i) == [x |-> RaySteps * a.x + i * (b.x - a.x),
                    y |-> RaySteps * a.y + i * (b.y - a.y)]
\* Mutant of RayCast: the loop stops one sample short of the target.
RayCastShort(grid, a, b) ==
  \E i \in 1 .. RaySteps - 1 :
    PositionCollide(grid, Sample(a, b, i), RaySteps * Slowness, 50)
\* TRUE when a wall hides b from a: a half-cell block is swept along the ray.
RayCast(grid, a, b) ==
  \E i \in 1 .. RaySteps :
    PositionCollide(grid, Sample(a, b, i), RaySteps * Slowness, 50)

\* |x - position.x| < 45 and |y - position.y| < 45.
InSight(a, b) ==
  /\ Magnitude(b.x - a.x) < SightRange * Slowness
  /\ Magnitude(b.y - a.y) < SightRange * Slowness

(***************************************************************************)
(* A circle of radius r/100 cells against every wall: the player's body    *)
(* (r = 10) and the drop test of the held teleport (r = 20).               *)
(* CheckCollisionCircleRec is not strict.                                  *)
(***************************************************************************)
CircleCollide(grid, p, r) ==
  \E w \in grid :
    LET dx == Magnitude(p.x - Slowness * w[1])
        dy == Magnitude(p.y - Slowness * w[2])
    IN  /\ 100 * dx <= (50 + r) * Slowness
        /\ 100 * dy <= (50 + r) * Slowness
        /\ \/ 2 * dx <= Slowness
           \/ 2 * dy <= Slowness
           \/ 2500 * ((2 * dx - Slowness) * (2 * dx - Slowness)
                      + (2 * dy - Slowness) * (2 * dy - Slowness))
                <= r * r * Slowness * Slowness

(***************************************************************************)
(* FreeSpace looks once in each of the eight directions around p, at a     *)
(* pixel of the flat array; two looks that truncate to one cell count      *)
(* twice.  Its range test lets a column or row equal to Size through.      *)
(***************************************************************************)
ProbedPixel(p, d) == <<Trunc(p.x + Slowness * d[1]), Trunc(p.y + Slowness * d[2])>>
Index(c)      == c[2] * Size + c[1]
PixelCell(i)  == <<i % Size, i \div Size>>
FreeSpace(grid, p) ==
  Cardinality({d \in ((-1 .. 1) \X (-1 .. 1)) \ {<<0, 0>>} :
                 LET c == ProbedPixel(p, d)
                 IN  c \in (0 .. Size) \X (0 .. Size) /\ PixelCell(Index(c)) \notin grid})
=============================================================================
