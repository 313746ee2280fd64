--------------------------- MODULE MCBridgeEgress ---------------------------
(* One user; USDC, a mint of another chain (weth) and a native one whose   *)
(* grain is 2 (lst); for Circle an EVM chain, another one and Solana, which *)
(* the bridge refuses; for Wormhole one chain.                              *)
EXTENDS BridgeEgress, FiniteSets

CONSTANTS eth, sui, sol, alice, bob, weth, lst, arb

MCDomains == {eth, sui, sol}
MCRefused == {sol}
MCEvmChains == {eth}
MCPeople == {alice, bob}
MCUsers == {bob}
MCRails == {CCTP, WORMHOLE, TO_SOLANA}
MCMints == {Usdc, weth, lst}
MCNative == {Usdc, lst}
MCGrain == [m \in MCMints |-> IF m = lst THEN 2 ELSE 1]
MCFunds == [m \in MCMints |-> IF m = lst THEN 2 ELSE 1]
MCWhChains == {arb}
MCAmounts == {1, 2}

\* The roles, the accounts Circle has yet to open and the order of the list
\* are BridgeAdmin's business, which has a run of its own: here alice owns the
\* bridge, and Circle may close the account of eth and open it again.  The
\* other parts keep one thing at a time out of the ordinary; what follows a
\* torn transaction is left to the proofs.
MCBound ==
  /\ owner = alice /\ pendingOwner = Zero /\ guardian = Zero
  /\ circle \in {Domains, Domains \ {eth}}
  /\ Len(domains) <= 1 /\ (Cardinality(paused) <= 1 \/ paused = {CCTP, WORMHOLE})
  /\ bridgeAtas \in {{}, {Usdc}, Mints \ {lst}, Mints} /\ walletAtas \subseteq {lst}
  /\ wormholeMintAllowed \subseteq {weth, lst}
  /\ Cardinality({m \in Mints : grant[bob][m] > 0 \/ donated[m] > 0}) <= 1
  /\ ~torn
=============================================================================
