SPECIFICATION Spec
CONSTANTS
  Members <- MCMembers
  Proposals <- MCProposals
  Histories <- MCHistories
  MaxEvents = 2
  Disturbances = {"redeliver"}
  MaxDisturbances = 1
INVARIANTS
  ReplayHarmless
CHECK_DEADLOCK FALSE
