SPECIFICATION LiveSpec
CONSTANTS
  p1 = p1
  p2 = p2
  sol = sol
  hadrian = hadrian
  trajan = trajan
  checkout = checkout
  sha = sha
  Ops <- MCOps
  PythSeeds <- MCPythSeeds
  SbSeeds <- MCSbSeeds
  Owned <- MCOwned
  ChainDirs <- MCChainDirs
  EmitArgs <- MCEmitArgs
  None = None
  MaxFactories = 2
  MaxVersions = 3
INVARIANTS OneGateway HistorySound
PROPERTY SeedsConverge
CHECK_DEADLOCK FALSE
