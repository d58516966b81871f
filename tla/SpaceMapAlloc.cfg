CONSTANTS
  map_size = 5
  up = 1
  WalkLengths = {5}
  TurnGaps = {2}
  FirstTurn = 2
  RoomGaps = {2}
  FirstRoom = 3
  RoomHalves = {1}
  MaxFurniture = 1
SPECIFICATION SpaceSpec
CHECK_DEADLOCK FALSE
INVARIANTS
  InAllocation
