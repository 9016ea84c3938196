SPECIFICATION FairSpec
CONSTANTS
  Nothing = Nothing
  satochip = satochip
  mobile = mobile
  s1 = s1
  s2 = s2
  elsewhere = elsewhere
  Key = {satochip, mobile, s1, s2, elsewhere}
  FreshKey = {s1, s2}
  OperatorKey = {elsewhere}
  Fingerprint = {"5a7", "30b", "5e1", "5e2", "e15"}
  FreshPrint <- MCFreshPrint
  ValidOn <- MCValidOn
  Npub = {"npub1"}
  RelayUrl = {"wss"}
  Mailbox = {"me@x"}
  Unquotable <- MCUnquotable
  RpcUrl = {"http"}
  CookieFile = {"cookie"}
  LedgerPath = {"ledger"}
  BindAddr = {"0.0.0.0", "local"}
  MaxTomlInt = 1000000
  U16 = 65536
  U32 = 100000
  ServerDepth = 4
  Requests <- MCRequests
  Scripts <- MCScripts
  Environments <- MCEnvironments
  Tab = {t1, t2}
  Relay = {r1, r2}
  MaxSecond = 1
  Bounds <- MCBounds
INVARIANTS
  TypeOK AnsweredWalletStands WrittenConfigsServe
  ServedWalletWasAgreed FetchFindsTheLastKit
PROPERTY AnsweredWalletServes
