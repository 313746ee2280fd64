--------------------------- MODULE MCOracleRecords ---------------------------
(* Two operators, one Pyth seed with its two caches; command lines, one      *)
(* without a commit, and a registry in which one slug is ambiguous.          *)
EXTENDS OracleRecords

CONSTANTS p1, p2, sol, hadrian, trajan, checkout, sha

MCOps == {p1, p2}
MCPythSeeds == <<sol>>
MCSbSeeds == << >>
MCOwned == {sol}

Dir(id, slug) == [id |-> id, slug |-> slug]
MCChainDirs == {Dir(200010, hadrian), Dir(121302, trajan), Dir(121301, trajan)}
Args(n, s) == [network |-> n, registryPath |-> checkout, sourceGitSha |-> s]
MCEmitArgs == {Args(hadrian, None), Args(trajan, sha), Args(hadrian, sha)}
=============================================================================
