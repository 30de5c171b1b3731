SPECIFICATION FairSpec
CONSTANTS
  Messages <- MCMessages
  Id <- MCId
  Caller <- MCCaller
  Home <- MCHome
  Throttled <- MCThrottled
  Consumers = {"p"}
  Prefetch = 2
  MaxQueueSize = 1
  FaultKinds = {"handler", "send", "disconnect", "crash"}
  MaxFaults = 2
INVARIANTS
  TypeOK
  OneJobPerId
PROPERTIES
  RemovedWhenDone
  FailureIsolated
CHECK_DEADLOCK FALSE
