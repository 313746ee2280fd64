---------------------------- MODULE RubiconChecks ----------------------------
(***************************************************************************)
(* What a run of scripts/bridge/deploy-rubicon-v13.ts checks before it     *)
(* touches the chain: the command line (parseArgs), the guard of           *)
(* lib/testnet-guard.ts, the two roles, and where the bytecode comes from  *)
(* (lib/build-provenance.ts).  These are functions of what the run finds,  *)
(* so the module has no variables.                                         *)
(*                                                                         *)
(* A source tree is what decides the bytecode: contracts, compiler         *)
(* settings and the lockfile with the packages it locks.  An option is     *)
(* given once with a well-formed value, or not at all.                     *)
(***************************************************************************)
EXTENDS Integers, FiniteSets

CONSTANTS Commits, Sources, SourcesOf, \* what each commit's sources are
          People,      \* accounts without code
          WithCode,    \* accounts with code
          ZeroAddress,
          DeployKey,
          Wrappers,    \* of USDC
          Intents      \* pairs the operator may give as --owner, --guardian

ASSUME ChecksAssumption ==
  /\ SourcesOf \in [Commits -> Sources]
  /\ DeployKey \in People
  /\ People \cap (WithCode \cup {ZeroAddress}) = {}
  /\ LET accounts == People \cup WithCode \cup {ZeroAddress} IN
     Intents \subseteq [owner : accounts, guardian : accounts]

-----------------------------------------------------------------------------
(* The command line                                                        *)

MAINNET_FLAG == "--i-understand-mainnet"
OWNER_DIFFERS_FLAG == "--owner-differs-from-v12"
RecoveryOptions == {"--verify-existing", "--deploy-tx", "--source-commit"}
Options == RecoveryOptions \cup {"--dry-run", "--deploy", MAINNET_FLAG, OWNER_DIFFERS_FLAG}

\* The options of a recovery go together, modes exclude one another, and
\* Rubicon needs the flag.
ParseArgs(given) ==
  /\ RecoveryOptions \cap given \in {{}, RecoveryOptions}
  /\ Cardinality({"--dry-run", "--deploy", "--verify-existing"} \cap given) <= 1
  /\ MAINNET_FLAG \in given

\* What runFlow makes of them on Rubicon: a dry run unless told otherwise.
ModeOf(given) ==
  IF "--verify-existing" \in given THEN "verify"
  ELSE IF "--deploy" \in given THEN "deploy" ELSE "dry"

-----------------------------------------------------------------------------
(* The guard                                                               *)

MAINNET == 7531
TESTNET_CHAIN_IDS == {200010, 121214, 121213, 121302, 210000, 31337}
RUBICON_V13_DEPLOY_SCRIPT == "scripts/bridge/deploy-rubicon-v13.ts"

\* Any script, on the chain the node reports; listing a chain as an extra
\* testnet does not unlock the mainnet.
JudgeChain(chainId, extra) ==
  chainId # MAINNET /\ chainId \in TESTNET_CHAIN_IDS \cup extra

\* This script: the same, and the mainnet under conditions.
JudgeRubiconV13Deploy(chainId, caller, extra) ==
  \/ JudgeChain(chainId, extra)
  \/ /\ chainId = MAINNET
     /\ caller.script = RUBICON_V13_DEPLOY_SCRIPT
     /\ caller.entry = RUBICON_V13_DEPLOY_SCRIPT
     /\ caller.mainnetFlag
     /\ caller.phase = "send" => caller.digestMatches

\* The guard as the script asks it on Rubicon.
AssertRubiconV13DeploySend(mainnetFlag, phase, digestMatches) ==
  JudgeRubiconV13Deploy(MAINNET,
    [script |-> RUBICON_V13_DEPLOY_SCRIPT, entry |-> RUBICON_V13_DEPLOY_SCRIPT,
     mainnetFlag |-> mainnetFlag, phase |-> phase, digestMatches |-> digestMatches], {})

\* The command lines with which a run gets past its first step.
Commands == {given \in SUBSET Options :
  ParseArgs(given) /\ AssertRubiconV13DeploySend(MAINNET_FLAG \in given, "inspect", FALSE)}

-----------------------------------------------------------------------------
(* The roles                                                               *)

ValidateRoles(i) ==
  /\ ZeroAddress \notin {i.owner, i.guardian}
  /\ i.owner # i.guardian
  /\ DeployKey \notin {i.owner, i.guardian}

\* accountInfo; and on Rubicon neither role may be a contract.
HasCode(a) == a \in WithCode
RolesFit(i) == ValidateRoles(i) /\ ~HasCode(i.owner) /\ ~HasCode(i.guardian)

-----------------------------------------------------------------------------
(* What is sent                                                            *)

\* The bytecode with the constructor arguments.  Those that are fixed per
\* network (the ids of programs and their accounts, the empty lists) are left
\* out.
DeployData(bytecode, usdc, roles) ==
  [src |-> bytecode, usdc |-> usdc, owner |-> roles.owner, guardian |-> roles.guardian]

-----------------------------------------------------------------------------
(* Where the bytecode comes from                                           *)

\* A checkout: its commit, and the trees of which are the build paths on
\* disk, the project's files in the compiler input, the packages in it, the
\* compiler's output and the artifact's bytecode.
Checkouts == [head : Commits, disk : Sources, input : Sources, packages : Sources,
              output : Sources, bytecode : Sources]

\* After compileProject: the output is what the compiler makes of its input.
Compiled(c) == c.input = c.packages => c.output = c.input

\* git status of the build paths is empty.
ContractsClean(c) == c.disk = SourcesOf[c.head]

\* The compiler saw the files that are on disk, with the settings of the
\* profile, and the artifact is what it made of them.
CheckBuildProvenance(c) == c.input = c.disk /\ c.bytecode = c.output

\* The packages it saw are those the lockfile locks.
CheckDependencySources(c) == c.packages = c.disk

\* The commits and bytecodes a run on Rubicon accepts.
SourceOk == {c \in Checkouts :
  Compiled(c) /\ ContractsClean(c) /\ CheckBuildProvenance(c) /\ CheckDependencySources(c)}
Builds == {<<c.bytecode, c.head>> : c \in SourceOk}
=============================================================================
