SPECIFICATION TaskSpec
CONSTANTS
  Runners <- MCRunners
  Proc <- MCProc
  Host <- OneHost
  Pid <- Pids
  Lease = 3
  Interval = 1
  MaxAge = 4
  TaskFaultKinds = {"store", "shutdown"}
  MaxTaskFaults = 2
INVARIANTS
  MutualExclusion
