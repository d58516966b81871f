CONSTANTS
  c1 = c1
  c2 = c2
  c3 = c3
  Clients = {c1, c2, c3}
  MaxConnections = 2
  MaxPackets = 4
  MaxRows = 2
  Line <- ConsoleLine
  map_size = 5
  up = 2
  WalkLengths = {4}
  TurnGaps = {2}
  FirstTurn = 2
  RoomGaps = {9}
  FirstRoom = 3
  RoomHalves = {1}
  MaxFurniture = 1
  Size = 4
  Slowness = 4
  RaySteps = 4
  SightRange = 0
  MaxRotationCountdown = 0
  MaxTurn = 0
  Layers = 2
  MaxStep = 4
  Reach = 3
  Houses <- MCHouses
  StartTeleports <- MCStartTeleports
  CameraSpots <- MCNearSpots
  LookSpots <- MCLookSpots
SPECIFICATION BuildSpec
CHECK_DEADLOCK FALSE
INVARIANTS
  RelayedInOrder
  ServerPointerLive
  ClosedIsLast
  BorderIsWall
  Sealed
  TeleportReachable
  FurnitureOnFloor
  TeleportNeverLost
PROPERTIES
  ShowsLastLines
  MessageReaches
