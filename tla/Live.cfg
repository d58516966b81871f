CONSTANTS
  Size = 5
  Slowness = 4
  RaySteps = 4
  SightRange = 3
  MaxRotationCountdown = 1
  MaxTurn = 1
  HouseWalls <- MCHouse
  Spawns <- MCSpawns
  PlayerSpots <- MCPlayerSpots
  Workers = {1, 2, 3}
  numThreads = 2
  MaxInputs = 2
SPECIFICATION LiveSpec
CHECK_DEADLOCK FALSE
INVARIANTS
  SlideAccounted
  IdleMeansDone
  PausedMeansStill
PROPERTIES
  WallsOnlyInSlides
  SlideReaches
  StopEnds
