SPECIFICATION Spec
CONSTANTS
  Nothing = Nothing
  MaxTimelock = 3
  GapLimit = 1
  OverheadSize = 1
  InputSize = 1
  OutputSize = 1
  Txid = {}
  Address <- MCAddress
  DaySeconds = 1
  WeekSeconds = 2
  MonthSeconds = 3
  Candidates <- MCDecaying
  Timelocks = {2}
  Genesis <- MCGenesis
  Drafts <- MCDrafts
  Destination <- MCDestination
  SweepRequests <- MCSweepRequests
  FeeRate = 1
  Policy <- MCPolicy
  RecoveryWhitelist <- MCWhitelist
  MaxAge = 2
  MaxSignatures = 2
  MaxSweeps = 1
INVARIANT AcceptedNeverSpendsAlone
