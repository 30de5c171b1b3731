SPECIFICATION Spec
CONSTANTS
  Members <- MCMembers
  Proposals <- MCProposals
  Histories <- MCHistories
  MaxEvents = 4
  Disturbances = {"redeliver", "fail"}
  MaxDisturbances = 2
INVARIANTS
  OneVotePerMember
  FirstDelivery
  ApprovalsStand
  StaleIsRepaired
CHECK_DEADLOCK FALSE
