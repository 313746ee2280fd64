------------------------------ MODULE MCSplErc20 ------------------------------
(* Small instances of SplErc20: one EOA, one contract, one CREATE2 address. *)
EXTENDS SplErc20

CONSTANTS e1, c1, d1

MCEOAs == {e1}
MCContracts == {c1}
MCFresh == {d1}
\* The EOA lets the contract spend; nobody else's approval adds a case.
MCPairs == {<<e1, c1>>}
\* 1, 2, and an amount that does not fit uint64 (5 % 4 = 1), which is also
\* the infinite allowance.
MCValues == {1, 2, 5}
MCPayees == {d1}
MCPayeesCpi == {Wrapper, Wallet}
\* On the CPI track every rollback may book the same tokens once more, for
\* ever: states that overbook the supply by more than one are not expanded.
MCBound == Total(escrow) <= Supply + 1
=============================================================================
