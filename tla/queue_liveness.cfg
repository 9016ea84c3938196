SPECIFICATION FairSpec
CONSTANTS
  t1 = t1
  t2 = t2
  friend = friend
  None = None
  Client = {c1}
  Txid = {t1, t2}
  Reachable = {t1}
  Address <- MCAddress
  Psbts <- MCPsbts
  Policies <- MCPolicies
  RecoveryWhitelist = {friend}
  HoldSeconds = 1
  RecoveryHoldSeconds = 1
  RenotifyInterval = 9
  DaySeconds = 1
  WeekSeconds = 2
  MonthSeconds = 3
  MaxTime = 1
PROPERTY ReachableSpendsAreResolved
