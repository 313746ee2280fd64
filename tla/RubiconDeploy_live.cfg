SPECIFICATION LiveSpec
CONSTANTS
  c1 = c1
  c2 = c2
  c3 = c3
  s1 = s1
  s2 = s2
  ledger = ledger
  ops = ops
  hot = hot
  zero = zero
  vault = vault
  w1 = w1
  w2 = w2
  Wrappers = {w1, w2}
  UsdcOf <- MCUsdcOf
  WithCode = {vault}
  ZeroAddress = zero
  Commits <- MCTwoCommits
  Sources <- MCSources
  SourcesOf <- MCTwoSourcesOf
  People <- MCPeople
  V12Owner = ledger
  DeployKey = hot
  Intents <- MCIntents
  Other = Other
  None = None
  MaxNonce = 1
  MaxDigests = 1
  MaxEdits = 2
  MaxPool = 1
PROPERTY RecoveryWorks
CHECK_DEADLOCK FALSE
