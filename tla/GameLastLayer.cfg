CONSTANTS
  Size = 4
  Slowness = 4
  RaySteps = 4
  SightRange = 3
  MaxRotationCountdown = 1
  MaxTurn = 1
  Layers = 2
  MaxStep = 4
  Reach = 3
  Houses <- MCHouses
  StartTeleports <- MCStartTeleports
  CameraSpots <- MCCameraSpots
  LookSpots <- MCLookSpots
SPECIFICATION PlaySpec
CHECK_DEADLOCK FALSE
INVARIANTS
  SurvivesLastLayer
