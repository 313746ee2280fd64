CONSTANTS
  P = P
  F = F
  L = L
  A = A
  PythCaches = {P}
  FeedCaches = {F}
  Lives = {L}
  Accounts = {A}
  AccountOf <- MCAccountOf
  Underlying <- MCUnderlying
  Order <- MCOrder
  Windows = {1, 2}
  Posted = {"tiny", "fine"}
  Drifts <- MCDrifts
  Lag = 1
  Interval = 1
  RunTime = 0
  MaxClock = 4
SPECIFICATION Spec
INVARIANTS KeeperKeepsUp ServedSoundly
\* MaxClock ends the model.
CHECK_DEADLOCK FALSE
