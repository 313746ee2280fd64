---------------------------- MODULE MCOracleCache ----------------------------
(* A cache of Pyth and a cache of a live adapter over one Pyth account.  The
   longer window is exactly what the job needs, the shorter one is too short
   for a cache and long enough for the live adapter.  The publisher may set
   the account back or date a price ahead of the clock. *)
EXTENDS OracleCache

CONSTANTS P, F, L, A

MCAccountOf  == [x \in {P, L} |-> A]
MCUnderlying == [x \in {F} |-> L]
MCOrder      == <<P, F>>
MCDrifts     == {-1, 1}
=============================================================================
