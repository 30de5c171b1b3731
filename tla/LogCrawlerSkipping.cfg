SPECIFICATION Spec
CONSTANTS
  c1 = c1
  c2 = c2
  Crawlers = {c1, c2}
  Jobs = {}
  Logs <- MCLogs
  Kind <- MCKind
  InitialBlock = 1
  StopOnError = FALSE
  UseBatch = TRUE
  BatchSizes = {1, 2}
  SmallRange = 3
  MaxLag = 0
  MaxHead = 4
  FaultKinds = {"start", "fetch", "handler", "save", "crash"}
  MaxFaults = 1
PROPERTIES
  ImplementsDelivery
CHECK_DEADLOCK FALSE
