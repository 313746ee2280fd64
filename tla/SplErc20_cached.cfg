SPECIFICATION Spec
CONSTANTS
  e1 = e1
  c1 = c1
  d1 = d1
  EOAs <- MCEOAs
  Contracts <- MCContracts
  Fresh <- MCFresh
  Wrapper = wrapper
  Wallet = wallet
  Funder = e1
  NoFrame = NoFrame
  CpiTrack = FALSE
  FeeCapable = TRUE
  U64Max = 3
  MaxUint = 5
  Supply = 2
  MaxFee = 1
  Values <- MCValues
  Pairs <- MCPairs
  Payees <- MCPayees
  MaxCalls = 2
INVARIANTS TypeOK EscrowSolvent AtaFlagSound
PROPERTY ImplementsLedger
