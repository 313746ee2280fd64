SPECIFICATION LogSpec
CONSTANTS
  eth = eth
  base = base
  arb = arb
  sui = sui
  sol = sol
  alice = alice
  bob = bob
  carol = carol
  cctp = cctp
  wormhole = wormhole
  Domains <- MCDomains
  Refused <- MCRefused
  EvmChains <- MCEvmChains
  NoPda = NoPda
  People <- MCPeople
  Zero = Zero
  Rails <- MCRails
INVARIANTS AdminTypeOK ListSound FormatFits
PROPERTY ImplementsDestinationList
SYMMETRY Symmetry
