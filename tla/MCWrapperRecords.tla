---------------------------- MODULE MCWrapperRecords ----------------------------
(* Two operators, two factories, outsiders.  One key with one mint on the       *)
(* chain's cluster stands for USDC and WSOL; the other one has a mint there on  *)
(* each list, like JitoSOL.  The second mint of the mainnet list is not on the  *)
(* chain's cluster: the run dies over it after it has made the first wrapper.   *)
EXTENDS WrapperRecords, TLC

CONSTANTS p1, p2, usdc, jito, usdcMint, jitoTest, jitoWormhole, mainnetMint,
          deployer, ledger, ops

MCOps == {p1, p2}
Terminals == Permutations(MCOps)
MCUsdcMints == {None, usdcMint}
MCMints == {usdcMint, jitoTest, jitoWormhole}

Spec1(k, m) == [key |-> k, mint |-> m]
MCWrapperSets ==
  [devnet  |-> <<Spec1(usdc, usdcMint), Spec1(jito, jitoTest)>>,
   mainnet |-> <<Spec1(jito, jitoWormhole), Spec1(usdc, mainnetMint)>>]

RoleEnv(o, a, g) == [owner |-> o, admin |-> a, guardian |-> g]
MCRoleEnvs == {
  RoleEnv(ledger, ops, ops),
  RoleEnv(None, ops, ops),
  RoleEnv(None, None, deployer),
  RoleEnv(ZeroAddress, None, None)}
=============================================================================
