CONSTANTS
  StreamItems <- MCMisread
  MaxStreamItems = 3
  Unit = 5
  DoubleBytes = 2
SPECIFICATION StreamSpec
CHECK_DEADLOCK FALSE
INVARIANT SomePromiseKept
