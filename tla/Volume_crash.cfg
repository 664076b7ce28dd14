SPECIFICATION Spec
CONSTANTS
  LastBlock = 50
  Unflushed = 1
  Warning <- Far
  PWarning <- Far
  CartIsWorm = FALSE
  CartIsReadonly = FALSE
  Pews = 0
  Names = {f}
  Program <- Programs
  Sites <- CrashSites
INVARIANTS AckedOnTape AckedMounted CheckRepairs BackChain ShowsGeneration
PROPERTIES RepairedMounts RolledTo DpHistory
CHECK_DEADLOCK FALSE
