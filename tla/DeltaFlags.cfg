CONSTANTS
  NumVars = 2
  VarValues <- MCVarValues
  ByteBits = 2
  MaxReceipts = 2
SPECIFICATION DeltaSpec
CHECK_DEADLOCK FALSE
PROPERTIES
  FlaggedAreWritten
