SPECIFICATION FairSpec
CONSTANTS
  Plugins <- MCPlugins
  Settings <- MCSettings
  MaxHead = 4
  Reach = {2}
  QueueOf <- MCQueueOf
  w1 = w1
  w2 = w2
  w3 = w3
  FaultKinds = {"crash", "poll", "send", "crawl", "throw", "mark"}
INVARIANTS
  TypeOK
  SyncedUnlessFailed
PROPERTIES
  InstalledSynced
  EveryLogHandled
CHECK_DEADLOCK FALSE
