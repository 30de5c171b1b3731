SPECIFICATION Spec
CONSTANTS
  a1 = a1
  a2 = a2
  t1 = t1
  Nobody = Nobody
  poller = poller
  job = job
  Accounts <- MCAccounts
  Tokens <- MCTokens
  Histories <- MCHistories
  Crawlers <- MCCrawlers
  Jobs <- MCJobs
  MaxEvents = 3
  FaultKinds = {"crash", "fail", "redeliver"}
  MaxFaults = 2
INVARIANTS
  PowerFollows
  LocksFollow
  MembershipFollows
  MetricsAsked
PROPERTIES
  NeverBack
CHECK_DEADLOCK FALSE
