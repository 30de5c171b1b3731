SPECIFICATION TaskFairSpec
CONSTANTS
  Runners <- MCRunnersEach
  Proc <- MCProcEach
  Host <- TwoHosts
  Pid <- Pids
  Lease = 3
  Interval = 1
  MaxAge = 4
  TaskFaultKinds = {"crash", "shutdown", "exception", "store"}
  MaxTaskFaults = 2
PROPERTIES
  RunsAgain
