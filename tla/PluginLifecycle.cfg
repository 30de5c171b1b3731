SPECIFICATION Spec
CONSTANTS
  Plugins <- MCPlugins
  Histories <- MCHistories
  MaxUnits = 4
  Crawlers = {c1, c2}
  MaxSuffix = 2
  FaultKinds = {"crash", "fail", "redeliver"}
  MaxFaults = 1
SYMMETRY Alike
INVARIANTS
  StatusFollows
  SlugFollows
  PreparedHasPlugin
CHECK_DEADLOCK FALSE
