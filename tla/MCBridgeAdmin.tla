---------------------------- MODULE MCBridgeAdmin ----------------------------
(* Five domains (three EVM chains, one other chain, Solana), three people.  *)
EXTENDS BridgeAdminLog, TLC

CONSTANTS eth, base, arb, sui, sol, alice, bob, carol, cctp, wormhole

MCEvmChains == {eth, base, arb}
MCRefused == {sol}
MCDomains == MCEvmChains \cup {sui, sol}
MCPeople == {alice, bob, carol}
MCRails == {cctp, wormhole}

Symmetry == Permutations(MCEvmChains) \cup Permutations(MCPeople) \cup Permutations(MCRails)
=============================================================================
