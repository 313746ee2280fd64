SPECIFICATION Spec
CONSTANTS
  p1 = p1
  p2 = p2
  usdc = usdc
  jito = jito
  usdcMint = usdcMint
  jitoTest = jitoTest
  jitoWormhole = jitoWormhole
  mainnetMint = mainnetMint
  deployer = deployer
  ledger = ledger
  ops = ops
  Ops <- MCOps
  WrapperSets <- MCWrapperSets
  OnDevnet = TRUE
  Mints <- MCMints
  Usdc = usdc
  Wsol = usdc
  Deployer = deployer
  RoleEnvs <- MCRoleEnvs
  UsdcMints <- MCUsdcMints
  ZeroAddress = zero
  None = None
  MaxFactories = 2
SYMMETRY Terminals
INVARIANTS RecordsTrue KeptIfLaterFails
PROPERTY WholeRun
CHECK_DEADLOCK FALSE
