SPECIFICATION Spec
CONSTANTS
  f1 = f1
  f2 = f2
  i1 = i1
  i2 = i2
  alice = alice
  bob = bob
  Accounts <- MCAccounts
  FeedIds <- MCFeedIds
  People <- MCPeople
  Creator = alice
  Reads <- MCReadsAnyExpo
  Windows <- MCWindows
  Bounds <- MCBounds
  DefaultBound = 200
  MaxWindow = 3
  Whole = 10000
  Decimals = 1
  IntMax = 127
  ExpoMax = 5
  TopPower = 2
  MaxPower = 4
  NoPrice = NoPrice
  MaxTime = 3
INVARIANT BadFeedIsolated
