SPECIFICATION Spec
CONSTANTS
  eth = eth
  sui = sui
  sol = sol
  alice = alice
  bob = bob
  weth = weth
  lst = lst
  arb = arb
  CCTP = CCTP
  WORMHOLE = WORMHOLE
  TO_SOLANA = TO_SOLANA
  Domains <- MCDomains
  Refused <- MCRefused
  EvmChains <- MCEvmChains
  NoPda = NoPda
  People <- MCPeople
  Zero = Zero
  Rails <- MCRails
  Users <- MCUsers
  Bridge = bridge
  Wallet = wallet
  Mints <- MCMints
  Usdc = usdc
  Native <- MCNative
  Grain <- MCGrain
  WhChains <- MCWhChains
  ZeroKey = ZeroKey
  Padded = Padded
  Raw = Raw
  U64Max = 3
  Amounts <- MCAmounts
  Funds <- MCFunds
  MaxBurns = 2
INVARIANTS TypeOK NothingStranded NextMessageFree RecipientsFit
PROPERTY PausedMeansStopped
CONSTRAINT MCBound
