CONSTANTS
  HeatSize = 5
  HeatWalls <- MCHeatWalls
  HeatSpots <- MCHeatSpots
  HeatSlowness = 4
  MaxUpdates = 2
  PngWidth = 2
  PngHeight = 3
  DEFLATE_MAX_BLOCK_SIZE = 3
  SizeModulus = 65536
  IdatLimit = 32767
  Counts = {0, 1, 3, 6}
  Items = {1, 2}
  Unassigned = 0
  FirstAllocation = 1
  KeptAllocation = 2
  MaxListSize = 3
  MapKeys = {1, 2, 3, 4}
  MapData = {0, 1}
  Indices = {0, 1, 2, 3, 5, 6}
  Modulus = 8
  RangeBits = 3
  BitLimits = {30, 45}
  MaxRepeats = 1
  Weights = {1, 2, 3}
  IsMaxHeap = TRUE
  MaxHeapSize = 5
  Elements = {1, 2}
  NoElement = 0
  FirstRing = 2
  KeptRing = 2
  MaxRing = 5
  TreeItems = {1, 2, 3, 4, 5, 6}
  TreeKeys = {1, 2, 3, 4, 5, 6, 7, 8, 9}
  Order = 2
  Nodes = {1, 2, 3, 4}
  EdgeWeights = {1, 4}
  INFINITE_WEIGHT = 100
  AllowUnlinked = TRUE
  MaxEdges = 3
  MaxEdgesKept = 1
  MINIMUM_LIST_SIZE = 3
  MaxPages = 4
  CountModulus = 5
  ListItems = {1, 2}
  Others <- MCOthers
  MaxNodes = 4
  MLItems = {1, 2, 3}
  BlankCell = 0
  FirstBlock = 2
  SmallBlock = 4
  LargeBlock = 2
  ShrinkFrom = 4
  BlockSizes = {1, 3}
  MaxListed = 3
  HashKeys = {0, 1, 2}
  HashData = {1, 2}
  HASH_SIZE = 2
  MaxHashed = 4
  BlockCounts = {2, 3}
  MAX_FREE_PAGES = 2
  MaxPoolPages = 4
  Pointers = {1, 2, 3}
  Targets = {1, 2, 3}
  NumVars = 2
  VarValues <- MCVarValues
  ByteBits = 2
  MaxReceipts = 2
  StreamItems <- MCItems
  MaxStreamItems = 2
  Unit = 5
  DoubleBytes = 2
  Users = {1, 2, 3}
  Blocks = {1, 2, 3}
  Size = 4
  Slowness = 4
  RaySteps = 4
  SightRange = 3
  MaxRotationCountdown = 0
  MaxTurn = 0
  Layers = 2
  MaxStep = 4
  Reach = 3
  Houses <- MCHouses
  StartTeleports <- MCStartTeleports
  CameraSpots <- MCCameraSpots
  LookSpots <- MCLookSpots
SPECIFICATION Spec
CHECK_DEADLOCK FALSE
INVARIANTS
  HeatAccounted
  WritesTheFile
  ListKeepsItems
  MapIsDictionary
  RangesReport
  PopTakesTheFirst
  
  EveryKeyFound
  PathsAreShortest
  WritesArriveInOrder
  RingIsTheList
  ShowsTheList
  EachKeyIsAStack
  PoolAccounted
  CountsPointers
  NothingForgotten
  ReadsBack
  OnePlaceForABlock
  TeleportAccounted
  PlayerOnMap
  BoyOnMap
  PathMapFresh
PROPERTIES
  IsASequence
  TeleportLeftInReach
