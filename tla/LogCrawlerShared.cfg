SPECIFICATION FairSpec
CONSTANTS
  c1 = c1
  c2 = c2
  Crawlers = {c1, c2}
  Jobs = {c2}
  Logs <- MCLogs
  Kind <- MCKind
  InitialBlock = 1
  StopOnError = TRUE
  UseBatch = FALSE
  BatchSizes = {1, 2}
  SmallRange = 2
  MaxLag = 1
  MaxHead = 4
  FaultKinds = {"fetch", "handler", "save", "crash"}
  MaxFaults = 2
INVARIANTS
  CursorCovers
  ChainOrder
PROPERTIES
  ImplementsDelivery
  CursorCatchesUp
CHECK_DEADLOCK FALSE
