CONSTANTS
  Workers = {1, 2, 3}
  numThreads = 2
  MaxInputs = 2
SPECIFICATION PoolSpec
CHECK_DEADLOCK FALSE
PROPERTIES
  PauseReturns
