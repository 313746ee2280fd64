SPECIFICATION LiveSpec
CONSTANTS
  op1 = op1
  other = other
  asset = asset
  mint = mint
  Domains <- MCDomains
  Refused = {}
  EvmChains <- MCEvmChains
  NoPda = NoPda
  People <- MCPeople
  Zero = Zero
  Rails = {}
  Operator = op1
  Commands <- MCCommands
  Items = {asset}
  Wrappers = {mint, None}
  AtaMints = {}
  TestnetIds = {200010}
  MainnetIds = {7531}
  ExtraIds = {7531}
  Networks <- MCNetworks
  ChainIds = {200010, 7531}
  None = None
INVARIANTS ResultHonest
PROPERTY SendsTowards Converges
CHECK_DEADLOCK FALSE
