--------------------------- MODULE MCRubiconDeploy ---------------------------
(* Three commits of two source trees; the cold key, the ops key, the hot key. *)
EXTENDS RubiconDeploy, TLC

CONSTANTS c1, c2, c3, s1, s2, ledger, ops, hot, zero, vault, w1, w2

MCCommits == {c1, c2, c3}
MCSources == {s1, s2}
MCSourcesOf == [c \in MCCommits |-> IF c = c3 THEN s2 ELSE s1]
MCPeople == {ledger, ops, hot}
\* One pair of roles that may pass, and pairs that must not.
MCIntents == {[owner |-> o, guardian |-> g] :
                o \in {ledger}, g \in {ops, hot, ledger, zero, vault}}
\* The first edit concerns something else, the last the USDC wrapper.
MCUsdcOf == [n \in 0 .. MaxEdits |-> IF n = MaxEdits THEN w2 ELSE w1]
\* One commit of each tree.
MCTwoCommits == {c1, c3}
MCTwoSourcesOf == [c \in MCTwoCommits |-> IF c = c3 THEN s2 ELSE s1]

Symmetry == Permutations({c1, c2})
=============================================================================
