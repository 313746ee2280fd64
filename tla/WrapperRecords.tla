---------------------------- MODULE WrapperRecords ----------------------------
(***************************************************************************)
(* The wrapper and bridge records of deployments/<network>.json and the    *)
(* scripts that make them: deploy_erc20spl_factory.ts, then                *)
(* bootstrap-bridged-wrappers.ts, then bridge/deploy.ts and                *)
(* deploy-simple-activator.ts, with the registry of ERC20SPLFactory, where *)
(* anybody may register a mint under any free symbol.                      *)
(*                                                                         *)
(* The bootstrap reads the file once and writes its copy back after every  *)
(* new wrapper; the others read it again right before they write.  Scripts *)
(* of several operators overlap, crash and are run again.                  *)
(*                                                                         *)
(* The n-th factory is n, the wrapper it made for a mint is the record     *)
(* that names both, and a bridge or an activator is what it was built on.  *)
(* A key of the file stands for its symbol, too.                           *)
(***************************************************************************)
EXTENDS Integers, Sequences, FiniteSets

CONSTANTS Ops,           \* terminals in which a script may run
          WrapperSets,   \* the WrapperSpec lists, by name: <<key, mint>> entries
          OnDevnet,      \* the chain settles on Solana's devnet
          Mints,         \* the mints that exist on its cluster
          Usdc, Wsol,    \* the keys a bridge and an activator are built on
          Deployer,      \* the address of the deploy key
          RoleEnvs,      \* BRIDGE_OWNER, WORMHOLE_ADMIN, BRIDGE_GUARDIAN
          UsdcMints,     \* USDC_MINT
          ZeroAddress, None,
          MaxFactories   \* bound: factories ever deployed

Specs(n) == {WrapperSets[n][i] : i \in 1 .. Len(WrapperSets[n])}
Listed == UNION {Specs(n) : n \in DOMAIN WrapperSets}
Keys == {e.key : e \in Listed}
Entries == [key : Keys, mint : {e.mint : e \in Listed}]

ASSUME WrapperRecordsAssumption ==
  /\ {Usdc, Wsol} \subseteq Keys
  /\ {"devnet", "mainnet"} \subseteq DOMAIN WrapperSets
  /\ OnDevnet \in BOOLEAN
  /\ MaxFactories \in Nat

\* A list has no key twice, and USDC_MINT, when it is given, is the mint of USDC.
ASSUME WrapperListsAssumption ==
  /\ \A n \in DOMAIN WrapperSets :
       /\ WrapperSets[n] \in Seq(Entries)
       /\ \A i, j \in 1 .. Len(WrapperSets[n]) :
            WrapperSets[n][i].key = WrapperSets[n][j].key => i = j
  /\ \A m \in Mints : [key |-> Usdc, mint |-> m] \in Listed => UsdcMints \subseteq {None, m}

VARIABLES factories,  \* number of ERC20SPLFactory contracts on the chain
          tokens,     \* what they registered: [factory, mint, symbol]
          file,       \* the blocks of the deployments file
          run         \* [Ops -> the script running there]

vars == <<factories, tokens, file, run>>

Wrapper(f, m) == [factory |-> f, mint |-> m]
EmptyFile == [factory |-> None, wrappers |-> [k \in Keys |-> None], bridge |-> None, activator |-> None]

\* set: the list it goes through; alone: no other run has overlapped it; made:
\* the entries it registered, from the moment they are on the chain, kept while
\* it is alone (alone and made are history variables).
Idle == [pc |-> "idle", factory |-> None, set |-> "devnet", copy |-> EmptyFile, at |-> 0,
         made |-> {}, built |-> None, alone |-> FALSE]

At(p, pc) == run[p].pc = pc
Goes(p, r) == run' = [run EXCEPT ![p] = r]

\* A script begins; the runs it overlaps are no longer alone.
Begins(p, r) ==
  /\ At(p, "idle")
  /\ run' = [o \in Ops |-> IF o = p THEN [r EXCEPT !.alone = \A q \in Ops : At(q, "idle")]
                           ELSE [run[o] EXCEPT !.alone = FALSE, !.made = {}]]

Init ==
  /\ factories = 0
  /\ tokens = {}
  /\ file = EmptyFile
  /\ run = [p \in Ops |-> Idle]

-----------------------------------------------------------------------------
(* ERC20SPLFactory *)

TokenByMint(f, m) == \E t \in tokens : t.factory = f /\ t.mint = m
SymbolTaken(f, s) == \E t \in tokens : t.factory = f /\ t.symbol = s

\* add_spl_token_no_metadata and _register_contract succeed.
Registrable(f, m, s) == m \in Mints /\ ~TokenByMint(f, m) /\ ~SymbolTaken(f, s)

AddSplToken(f, m, s) ==
  /\ Registrable(f, m, s)
  /\ tokens' = tokens \cup {[factory |-> f, mint |-> m, symbol |-> s]}

\* Anybody registers anything (bound: under a symbol some list gives the mint,
\* where the contract takes any free one; two lists give one symbol to different
\* mints, so that may be a squat).
Outsider(f, m, s) ==
  /\ [key |-> s, mint |-> m] \in Listed
  /\ AddSplToken(f, m, s)
  /\ UNCHANGED <<factories, file, run>>

-----------------------------------------------------------------------------
(* deploy_erc20spl_factory.ts: it deploys whatever the file holds. *)

DeployFactory(p) ==
  /\ factories < MaxFactories
  /\ factories' = factories + 1
  /\ Begins(p, [Idle EXCEPT !.pc = "saveFactory", !.factory = factories + 1])
  /\ UNCHANGED <<tokens, file>>

\* saveERC20SPLFactoryDeployment
SaveFactory(p) ==
  /\ At(p, "saveFactory")
  /\ file' = [file EXCEPT !.factory = run[p].factory]
  /\ Goes(p, Idle)
  /\ UNCHANGED <<factories, tokens>>

-----------------------------------------------------------------------------
(* bootstrap-bridged-wrappers.ts *)

\* resolveSet, for WRAPPER_SET and BRIDGED_SET: three lists are for chains on
\* Solana's devnet only; any other value of WRAPPER_SET means the cluster's own.
Devnet(bridgedSet) == bridgedSet = "devnet" \/ (bridgedSet # "mainnet" /\ OnDevnet)
ResolveSet(wrapperSet, bridgedSet) ==
  IF wrapperSet \in DOMAIN WrapperSets \ {"devnet", "mainnet"}
  THEN {n \in {wrapperSet} : Devnet(bridgedSet)}
  ELSE {IF Devnet(bridgedSet) THEN "devnet" ELSE "mainnet"}

\* resolveERC20SPLFactoryAddress reads the file for the factory alone (bound:
\* ERC20_SPL_FACTORY_ADDRESS is not set).
StartBootstrap(p, n) ==
  /\ file.factory # None
  /\ Begins(p, [Idle EXCEPT !.pc = "open", !.factory = file.factory, !.set = n, !.at = 1])
  /\ UNCHANGED <<factories, tokens, file>>

\* loadJson takes the copy it writes back, after the client has been asked for
\* the chain: the file may name another factory by then.
OpenFile(p) ==
  /\ At(p, "open")
  /\ Goes(p, [run[p] EXCEPT !.pc = "look", !.copy = file])
  /\ UNCHANGED <<factories, tokens, file>>

Entry(p) == WrapperSets[run[p].set][run[p].at]
More(p) == run[p].at <= Len(WrapperSets[run[p].set])
Noted(p) == [run[p].copy EXCEPT !.wrappers[Entry(p).key] = Wrapper(run[p].factory, Entry(p).mint)]
Has(p) == TokenByMint(run[p].factory, Entry(p).mint)

\* Mutant: a mint that is registered already is skipped, record and all.
LookUpOnly(p) ==
  /\ At(p, "look") /\ More(p)
  /\ IF Has(p)
     THEN Goes(p, [run[p] EXCEPT !.at = @ + 1])
     ELSE Goes(p, [run[p] EXCEPT !.pc = "add"])
  /\ UNCHANGED <<factories, tokens, file>>

\* A mint that is registered already goes into the copy, which is not saved yet.
LookUp(p) ==
  /\ At(p, "look") /\ More(p)
  /\ IF Has(p)
     THEN Goes(p, [run[p] EXCEPT !.copy = Noted(p), !.at = @ + 1])
     ELSE Goes(p, [run[p] EXCEPT !.pc = "add"])
  /\ UNCHANGED <<factories, tokens, file>>

\* When the registration would revert (the mint is taken, is not on this
\* cluster, or another one has its symbol: two lists give the key and the
\* symbol of JitoSOL to two mints), estimating it throws; if it was estimated
\* before somebody else took the mint or the symbol, it reverts on the chain,
\* and the status of the receipt is not looked at.
Add(p) ==
  /\ At(p, "add")
  /\ LET r == run[p]  e == Entry(p)
     IN  \/ /\ AddSplToken(r.factory, e.mint, e.key)
            /\ Goes(p, [r EXCEPT !.pc = "reread", !.made = {x \in @ \cup {e} : r.alone}])
         \/ /\ ~Registrable(r.factory, e.mint, e.key)
            /\ Goes(p, Idle) \/ Goes(p, [r EXCEPT !.pc = "reread"])
            /\ UNCHANGED tokens
  /\ UNCHANGED <<factories, file>>

\* Mutant: the wrapper is recorded without asking whether it is there.
ReReadBlindly(p) ==
  /\ At(p, "reread")
  /\ file' = Noted(p)
  /\ Goes(p, [run[p] EXCEPT !.pc = "look", !.copy = Noted(p), !.at = @ + 1])
  /\ UNCHANGED <<factories, tokens>>

\* Mutant: only the last line of the script saves.
ReReadUnsaved(p) ==
  /\ At(p, "reread")
  /\ IF Has(p)
     THEN Goes(p, [run[p] EXCEPT !.pc = "look", !.copy = Noted(p), !.at = @ + 1])
     ELSE Goes(p, Idle)
  /\ UNCHANGED <<factories, tokens, file>>

\* token_by_mint again: zero stops the run, a wrapper is saved at once.
ReRead(p) ==
  /\ At(p, "reread")
  /\ IF Has(p)
     THEN /\ file' = Noted(p)
          /\ Goes(p, [run[p] EXCEPT !.pc = "look", !.copy = Noted(p), !.at = @ + 1])
     ELSE Goes(p, Idle) /\ UNCHANGED file
  /\ UNCHANGED <<factories, tokens>>

\* The last saveJson.
SaveAll(p) ==
  /\ At(p, "look") /\ ~More(p)
  /\ file' = run[p].copy
  /\ Goes(p, Idle)
  /\ UNCHANGED <<factories, tokens>>

-----------------------------------------------------------------------------
(* The consumers *)

\* resolveRoles: BRIDGE_OWNER, else WORMHOLE_ADMIN, else the deploy key; the
\* guardian must differ.  None is a variable that is not set.
ResolveRoles(env) ==
  [owner |-> IF env.owner # None THEN env.owner
             ELSE IF env.admin # None THEN env.admin ELSE Deployer,
   guardian |-> IF env.guardian # None THEN env.guardian ELSE ZeroAddress]
RolesFit(r) == r.guardian = ZeroAddress \/ r.guardian # r.owner

\* The programs of Solana's mainnet; devnet has Wormhole programs of its own
\* and the CCTP ones in common.
SOLANA_PROGRAM_IDS ==
  [tokenBridge |-> "mainnet bridge", core |-> "mainnet core", messenger |-> "CCTP v2"]
SOLANA_PROGRAM_IDS_DEVNET ==
  [SOLANA_PROGRAM_IDS EXCEPT !.tokenBridge = "devnet bridge", !.core = "devnet core"]
UniversalFor(devnet) == IF devnet THEN SOLANA_PROGRAM_IDS_DEVNET ELSE SOLANA_PROGRAM_IDS

\* A derived account stands for what it depends on: of the CCTP accounts only
\* local_token depends on more than the program.
DeriveCctpAccounts(mint) == [localToken |-> mint]
DeriveWormholeGlobalAccounts(ids) == [config |-> ids.tokenBridge, sequence |-> <<ids.core, ids.tokenBridge>>]

\* loadSolanaPdas
LoadSolanaPdas(mint) == [cctp |-> DeriveCctpAccounts(mint),
                         wormhole |-> DeriveWormholeGlobalAccounts(UniversalFor(OnDevnet))]

\* readMintEnv and main of bridge/deploy.ts: without USDC_MINT nothing is done.
GivenMints == UsdcMints \ {None}

\* requireExistingWrapper, then deployWithdraw up to the deployment (the
\* constructor refuses the zero owner) and the read-backs, which repeat it.
StartBridge(p) ==
  /\ file.wrappers[Usdc] # None
  /\ \E env \in RoleEnvs, mint \in GivenMints :
       LET r == ResolveRoles(env)
       IN  /\ RolesFit(r)
           /\ r.owner # ZeroAddress
           /\ Begins(p, [Idle EXCEPT !.pc = "saveBridge",
                 !.built = [usdcWrapper |-> file.wrappers[Usdc], pdas |-> LoadSolanaPdas(mint),
                            roles |-> r]])
  /\ UNCHANGED <<factories, tokens, file>>

\* deployWithdraw reads the file again and puts its block in.
SaveBridge(p) ==
  /\ At(p, "saveBridge")
  /\ file' = [file EXCEPT !.bridge = run[p].built]
  /\ Goes(p, Idle)
  /\ UNCHANGED <<factories, tokens>>

\* deploy-simple-activator.ts: two wrappers, which may be of different
\* factories, and (left out here) the users contract of the file's factory.
StartActivator(p) ==
  /\ file.factory # None
  /\ file.wrappers[Usdc] # None /\ file.wrappers[Wsol] # None
  /\ Begins(p, [Idle EXCEPT !.pc = "saveActivator",
                  !.built = [usdcWrapper |-> file.wrappers[Usdc],
                             wsolWrapper |-> file.wrappers[Wsol]]])
  /\ UNCHANGED <<factories, tokens, file>>

SaveActivator(p) ==
  /\ At(p, "saveActivator")
  /\ file' = [file EXCEPT !.activator = run[p].built]
  /\ Goes(p, Idle)
  /\ UNCHANGED <<factories, tokens>>

-----------------------------------------------------------------------------
\* A script dies or its terminal is closed.
Crash(p) ==
  /\ ~At(p, "idle")
  /\ Goes(p, Idle)
  /\ UNCHANGED <<factories, tokens, file>>

Step(p) ==
  \/ SaveFactory(p) \/ OpenFile(p) \/ LookUp(p) \/ Add(p) \/ ReRead(p) \/ SaveAll(p)
  \/ SaveBridge(p) \/ SaveActivator(p)

Next ==
  \/ \E p \in Ops :
       \/ DeployFactory(p) \/ StartBridge(p) \/ StartActivator(p)
       \/ \E n \in UNION {ResolveSet(w, b) : w \in DOMAIN WrapperSets,
                                            b \in {"devnet", "mainnet", None}} :
            StartBootstrap(p, n)
       \/ Step(p)
       \/ Crash(p)
  \/ \E f \in 1 .. factories, m \in Mints, s \in Keys : Outsider(f, m, s)

Spec == Init /\ [][Next]_vars

-----------------------------------------------------------------------------
(* Properties *)

IsWrapper(w, k) == [key |-> k, mint |-> w.mint] \in Listed /\ TokenByMint(w.factory, w.mint)

\* Whatever overlapped, crashed or was front-run: each wrapper in the file was
\* registered by a factory for a mint some list has under its key, so the
\* indexer has seen it; the bridge and the activator are built on such
\* wrappers; the bridge burns the token whose CCTP account it was given (if
\* USDC_MINT is a mint of USDC); and its stop-only key is not its owner.
RecordsTrue ==
  /\ file.factory # None => file.factory <= factories
  /\ \A k \in Keys : file.wrappers[k] # None => IsWrapper(file.wrappers[k], k)
  /\ file.bridge # None => /\ IsWrapper(file.bridge.usdcWrapper, Usdc)
                           /\ file.bridge.pdas.cctp.localToken = file.bridge.usdcWrapper.mint
                           /\ file.bridge.roles.owner \notin {ZeroAddress, file.bridge.roles.guardian}
  /\ file.activator # None => /\ IsWrapper(file.activator.usdcWrapper, Usdc)
                              /\ IsWrapper(file.activator.wsolWrapper, Wsol)

\* "keep each wrapper's tx hash if a later one fails": unless another script
\* overlapped the run, at whatever point it dies the file has every wrapper it
\* has registered, but for at most the last, if it dies between that
\* registration and the saveJson after it; that one is on the chain, where the
\* next run's look-up finds it (WholeRun), without its hash.
KeptIfLaterFails == \A p \in Ops :
  run[p].alone => \A e \in run[p].made :
    \/ file.wrappers[e.key] = Wrapper(run[p].factory, e.mint)
    \/ At(p, "reread") /\ e = Entry(p) /\ Has(p)

\* "Idempotent": a bootstrap that reaches its end leaves its whole list in the
\* file, the wrappers an earlier run died over and those an outsider
\* registered included, all of the factory it ran against and with the mints
\* of this list.
WholeRun == [][\A p \in Ops : SaveAll(p) =>
  \A e \in Specs(run[p].set) : file'.wrappers[e.key] = Wrapper(run[p].factory, e.mint)]_vars

-----------------------------------------------------------------------------
(* The inductive invariant behind them *)

BridgeTrue(b) ==
  /\ IsWrapper(b.usdcWrapper, Usdc)
  /\ b.pdas.cctp.localToken = b.usdcWrapper.mint
  /\ b.roles.owner \notin {ZeroAddress, b.roles.guardian}

ActivatorTrue(a) == IsWrapper(a.usdcWrapper, Usdc) /\ IsWrapper(a.wsolWrapper, Wsol)

\* What RecordsTrue says, of a file or of a script's copy of it.
FileTrue(f) ==
  /\ f = [factory |-> f.factory, wrappers |-> [k \in Keys |-> f.wrappers[k]],
          bridge |-> f.bridge, activator |-> f.activator]
  /\ f.factory # None => f.factory \in 1 .. factories
  /\ \A k \in Keys : f.wrappers[k] # None => IsWrapper(f.wrappers[k], k)
  /\ f.bridge # None => BridgeTrue(f.bridge)
  /\ f.activator # None => ActivatorTrue(f.activator)

\* The copy of a bootstrap has what the script is past.
PastNoted(r) == \A i \in 1 .. r.at - 1 :
  LET e == WrapperSets[r.set][i] IN r.copy.wrappers[e.key] = Wrapper(r.factory, e.mint)

RunTrue(r) ==
  /\ r = [pc |-> r.pc, factory |-> r.factory, set |-> r.set, copy |-> r.copy, at |-> r.at,
          made |-> r.made, built |-> r.built, alone |-> r.alone]
  /\ r.pc = "saveFactory" => r.factory \in 1 .. factories
  /\ r.pc = "open" => r.set \in DOMAIN WrapperSets /\ r.at = 1 /\ r.made = {}
  /\ r.pc \in {"look", "add", "reread"} =>
       /\ r.set \in DOMAIN WrapperSets
       /\ r.at \in 1 .. Len(WrapperSets[r.set]) + 1
       /\ r.pc # "look" => r.at <= Len(WrapperSets[r.set])
       /\ FileTrue(r.copy)
       /\ PastNoted(r)
  /\ r.pc = "saveBridge" => BridgeTrue(r.built)
  /\ r.pc = "saveActivator" => ActivatorTrue(r.built)

\* A registered entry is behind the run and in the file, or is where the run
\* reads it back.
Kept(r, e) ==
  \/ /\ \E i \in 1 .. r.at - 1 : e = WrapperSets[r.set][i]
     /\ file.wrappers[e.key] = Wrapper(r.factory, e.mint)
  \/ r.pc = "reread" /\ e = WrapperSets[r.set][r.at] /\ TokenByMint(r.factory, e.mint)

\* Whoever is alone is the only one, and the file has what it made.
MadeSaved(p) ==
  /\ run[p].alone => ~At(p, "idle") /\ \A q \in Ops \ {p} : At(q, "idle")
  /\ \A e \in run[p].made :
       run[p].alone /\ run[p].pc \in {"look", "add", "reread"} /\ Kept(run[p], e)

WrapperInv ==
  /\ factories \in Nat
  /\ \A t \in tokens : t.mint \in Mints
  /\ FileTrue(file)
  /\ run = [p \in Ops |-> run[p]]
  /\ \A p \in Ops : RunTrue(run[p]) /\ MadeSaved(p)
=============================================================================
