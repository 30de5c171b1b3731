SPECIFICATION Spec
CONSTANTS
  Ids <- MCIds
  Histories <- MCHistories
  Crawlers = {c1, c2}
  Addresses <- MCAddresses
  FaultKinds = {"crash", "fail", "redeliver"}
  MaxFaults = 2
SYMMETRY Alike
INVARIANTS
  TypeOK
  IncrementalUnique
  IncrementalOrder
  ContentFollows
  StageFollows
  SubsFollow
  ResultsFollow
PROPERTIES
  ExecutionStays
CHECK_DEADLOCK FALSE
