SPECIFICATION Spec
CONSTANTS
  LastBlock = 50
  Unflushed = 20
  Warning <- Far
  PWarning <- Far
  CartIsWorm = FALSE
  CartIsReadonly = FALSE
  Pews = 0
  Names = {f}
  Program <- Programs
  Sites <- IpData
INVARIANT AckedOnTape
CHECK_DEADLOCK FALSE
