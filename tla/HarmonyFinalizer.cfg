SPECIFICATION FairSpec
CONSTANTS
  Runners = {"r1"}
  Count = 2
  Voters <- MCVoters
  MaxBlock = 7
  Timestamp <- MCTimestamp
  EndDate <- MCEndDate
  Period = 2
  Snapshot <- MCSnapshot
  Registries <- MCRegistries
  Ballots <- MCBallots
  Others <- MCOthers
  Delays = {0, 1}
  FaultKinds = {"rpc", "transaction", "crash", "election"}
  MaxFaults = 1
INVARIANTS
  CountedWhenClosed
  RootRecomputed
  SearchFinds
PROPERTIES
  RootLeadsToClosed
CHECK_DEADLOCK FALSE
