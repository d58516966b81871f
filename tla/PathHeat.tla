------------------------------ MODULE PathHeat ------------------------------
(***************************************************************************)
(* The heat map of path.cpp (PathMap) and the direction the boy draws from *)
(* it, which module Enemy leaves open.  A tick in which the boy walks      *)
(* builds the map when it is empty, now and then warms the boy's cell and  *)
(* chills the player's, and may end in a turn.                             *)
(***************************************************************************)
EXTENDS Integers, FiniteSets, Functions

CONSTANTS
  HeatSize,      \* cells along each side
  HeatWalls,     \* cells whose pixel is 255
  HeatSpots,     \* cells the boy and the player are seen on
  HeatSlowness,  \* slowness (10)
  MaxUpdates     \* bound on the updates of the map

HeatCells == (0 .. HeatSize - 1) \X (0 .. HeatSize - 1)

ASSUME PathHeatAssumption ==
  /\ HeatSize \in Nat \ {0} /\ HeatWalls \subseteq HeatCells
  /\ HeatSpots \subseteq HeatCells
  /\ HeatSlowness \in Nat /\ HeatSlowness >= 2 /\ MaxUpdates \in Nat

VARIABLES
  heat,            \* pathMap.map, << >> when it is empty
  heatTick,        \* positionTick
  heading,         \* the direction, 0 .. 3
  updates,         \* the updates of this map so far
  warmed, chilled  \* the cells the boy and the player were on at its updates

heatVars == <<heat, heatTick, heading, updates, warmed, chilled>>

HeatInit ==
  /\ heat = << >> /\ heatTick = 0 /\ heading = 0
  /\ updates = 0 /\ warmed = {} /\ chilled = {}

\* C++ division truncates towards zero.
Quotient(a, b) == IF a >= 0 THEN a \div b ELSE -((-a) \div b)
HeatSum(h) == FoldFunction(LAMBDA x, y : x + y, 0, h)

\* The map as it is after the first loops of the tick, and the average they find.
Built == IF heat = << >> THEN [c \in HeatCells |-> IF c \in HeatWalls THEN 1000 ELSE 0]
                         ELSE heat
CellAvg == IF heat = << >> THEN 0 ELSE Quotient(HeatSum(heat), HeatSize * HeatSize)

Marked(h, boy, player) ==
  LET own == [h EXCEPT ![boy] = @ + 1000] IN [own EXCEPT ![player] = @ - 10000]
\* Mutant of Cooled: what is cold gets colder.
CooledAway(h) == [c \in HeatCells |-> h[c] - 10]
Cooled(h) == [c \in HeatCells |-> IF h[c] > 0 THEN h[c] - 10 ELSE h[c] + 10]

Along(d) == CASE d = 0 -> <<0, 1>> [] d = 1 -> <<0, -1>>
              [] d = 2 -> <<1, 0>> [] d = 3 -> <<-1, 0>>

\* What is added when step k is the first off the map.
EdgePenalty(k) == 10000 \div (k + 1)

(***************************************************************************)
(* The heat met in `steps` steps from the cell: 10 for each step from the  *)
(* first wall on.  Off the map the sum is returned undivided, with more    *)
(* on it the nearer the edge is.                                           *)
(***************************************************************************)
GetAvgByDirection(h, cell, d, steps) ==
  LET At(k)   == <<cell[1] + k * Along(d)[1], cell[2] + k * Along(d)[2]>>
      Met(k)  == IF \E j \in 1 .. k : At(j) \in HeatWalls THEN 10 ELSE h[At(k)]
      off     == {k \in 1 .. steps : At(k) \notin HeatCells}
  IN  IF off = {} THEN Quotient(HeatSum([k \in 1 .. steps |-> Met(k)]), steps)
      ELSE LET k == CHOOSE k \in off : \A j \in off : k <= j
           IN  HeatSum([j \in 1 .. k - 1 |-> Met(j)]) + EdgePenalty(k)

\* The directions that can come out: the first of the coolest of the other
\* three, if it is below 100000; any of the four if it is not, or if the
\* boy's own cell is not cooler than the average.
Coolest(h, boy) ==
  LET Other(i) == (heading + i) % 4
      avg      == [i \in 1 .. 3 |-> GetAvgByDirection(h, boy, Other(i), 15)]
      least    == {i \in 1 .. 3 : \A j \in 1 .. 3 : avg[i] < avg[j] \/ (avg[i] = avg[j] /\ i <= j)}
  IN  {Other(i) : i \in {i \in least : avg[i] < 100000}}
HeatDirections(h, boy, cellAvg) ==
  IF h[boy] < cellAvg /\ Coolest(h, boy) # {} THEN Coolest(h, boy) ELSE 0 .. 3

\* A walking tick with the boy and the player on these cells.
HeatTick(boy, player) ==
  /\ IF heatTick - 1 < 0
       THEN /\ updates < MaxUpdates
            /\ heatTick' \in {HeatSlowness \div 2 + r : r \in 0 .. HeatSlowness \div 2 - 1}
            /\ heat' = Cooled(Marked(Built, boy, player))
            /\ updates' = updates + 1
            /\ warmed' = warmed \union {boy} /\ chilled' = chilled \union {player}
       ELSE /\ heatTick' = heatTick - 1
            /\ heat' = Built
            /\ UNCHANGED <<updates, warmed, chilled>>
  /\ heading' = heading \/ heading' \in HeatDirections(heat', boy, CellAvg)

\* NextLayer empties the map; the countdown goes on.
ResetHeat ==
  /\ heat # << >>
  /\ heat' = << >> /\ updates' = 0 /\ warmed' = {} /\ chilled' = {}
  /\ UNCHANGED <<heatTick, heading>>

HeatNext == (\E boy, player \in HeatSpots : HeatTick(boy, player)) \/ ResetHeat
HeatSpec == HeatInit /\ [][HeatNext]_heatVars

-----------------------------------------------------------------------------
\* The map keeps a trace of nothing but walls and the two who walk: a cell is
\* cold only where the player was, hot only where the boy was or a wall is, and
\* every other cell swings between 0 and 10.  Its values grow by no more than an
\* update's marks, so the int they are summed in lasts for as many updates.
HeatAccounted ==
  heat # << >> =>
    \A c \in HeatCells :
      /\ heat[c] < 0 => c \in chilled
      /\ heat[c] > 10 => c \in warmed \union HeatWalls
      /\ heat[c] <= 1000 * (updates + 1) /\ heat[c] >= -10000 * updates
=============================================================================
