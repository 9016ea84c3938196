SPECIFICATION Spec
CONSTANTS
  t1 = t1
  t2 = t2
  t3 = t3
  friend = friend
  stranger = stranger
  None = None
  Client = {c1}
  Txid = {t1, t2}
  Address <- MCAddress
  Psbts <- HotAndRecovery
  Policies <- OnePolicy
  RecoveryWhitelist = {friend}
  HoldSeconds = 1
  RecoveryHoldSeconds = 2
  RenotifyInterval = 1
  DaySeconds = 2
  WeekSeconds = 3
  MonthSeconds = 4
  MaxTime = 2
INVARIANTS TypeOK VetoIsPermanent SignedAfterHold LedgerMatchesQueue
PROPERTIES FreezeStopsSigning ImplementsLifecycle
