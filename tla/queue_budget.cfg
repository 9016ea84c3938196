SPECIFICATION BudgetSpec
CONSTANTS
  t1 = t1
  t2 = t2
  t3 = t3
  friend = friend
  stranger = stranger
  None = None
  Client = {c1}
  Txid = {t1, t2, t3}
  Address <- MCAddress
  Psbts <- BudgetPsbts
  Policies <- BudgetPolicies
  RecoveryWhitelist = {friend}
  HoldSeconds = 1
  RecoveryHoldSeconds = 1
  RenotifyInterval = 9
  DaySeconds = 1
  WeekSeconds = 2
  MonthSeconds = 3
  MaxTime = 3
SYMMETRY HotTwins
INVARIANT HotSpendWithinCaps
