# TLA+ models of rome-solidity

rome-solidity is the Solidity side of the Rome EVM: contracts that hold and move
Solana (SPL) tokens through precompiles, bridge them out to other chains, and
serve Solana oracle prices to EVM consumers, with the scripts that deploy and
operate them. This directory models the parts of it that keep state other people
rely on, checks them with TLC on small instances and proves the central
invariants with TLAPS for every size.

Paths below are relative to `src/`.

## 1. The system

| Component | State it keeps | Operations | What makes it correct | Here |
|---|---|---|---|---|
| `SPL_ERC20` (`contracts/erc20spl/erc20spl.sol`), the CPI track | `_escrow`, `_allowances`, `_ataCreated`, `_escrowAtaCreated`; on Solana one ATA per holder and the wrapper's | transfer, transferFrom, approve, ATA creation, bridgeOutToSolana | books never exceed the wrapper's ATA; flags right; no debit without authority | modelled |
| `SPL_ERC20_cached` (`erc20spl_cached.sol`), the cached track | the same | the same without the egress | the same, and an ERC-20 ledger journaled with the EVM | modelled |
| `RomeBridgeWithdraw` administration (`contracts/bridge/RomeBridgeWithdraw.sol`) | destination array, index and records; pause mask; owner, pending owner, guardian | enable, disable, pause, unpause, handover | three copies of one set; right recipient format; powers kept apart | modelled |
| `RomeBridgeWithdraw` egress | `burnNonce`, Wormhole allowlists; on Solana the pooled ATAs, delegate grants, message accounts | three burn entry points for Circle, two for Wormhole, one to Solana, ATA creation | nothing stranded in the pooled account, message accounts never reused, recipients payable, pause holds | partly (rents left out) |
| `PriceBook` + `BookFeedAdapter` (`contracts/oracle`) | registrations, entries, roster, pause flags | register, refreshAll, pause, unpause | flag and status agree, no starvation, isolation of feeds, no stale answer returns | modelled |
| `ERC20SPLFactory`, hooked deployer | wrapper by mint and by symbol, creator nonce | add token, create mint | one wrapper per mint and symbol | partly (registration) |
| `SPL_ERC20_Token2022Hooked` | none: EOAs only | transfers through a hook | as SPL_ERC20 without books | not modelled |
| `WrappedGasFacade` | none of its own; an ATA and gas | deposit, withdraw | value conserved up to refunded dust | not modelled |
| `SimpleActivator` | none; accounts on Solana | activate, topUpUserPda, isActivated | activation once, and never blocked half done | not modelled |
| `CachedPythAdapter`, `CachedFeedAdapter`, `OracleAdapterFactory` | cached answer and times; adapters by source; pause flags | create, refresh, pause, latestRoundData | no stale or unsound answer; no answer newer than a pause | partly |
| `PythPullAdapter`, `SwitchboardV3Adapter`, parsers | none after initialize | reads | staleness, confidence, pause | partly (Pyth) |
| Keeper (`scripts/oracle/refresh-cached-feeds.ts`) | none | one refresh per recorded cache | healthy feeds keep answering | modelled |
| Oracle deployment (`scripts/oracle/deploy-v2-polish.ts`, `deploy-seed-feeds.ts`, `emit-registry-update*.ts`) | `OracleGatewayV2` block; contracts.json, oracle.json | deploy and record a gateway, seed its feeds, publish | one gateway per block; every feed recorded in the end; a true history | partly |
| Wrapper, bridge and activator deployment (`deploy_erc20spl_factory.ts`, `bridge/bootstrap-bridged-wrappers.ts`, `bridge/deploy.ts`, `activation/deploy-simple-activator.ts`) | their blocks in the file | factory, bootstrap, bridge, activator | no false record; what was paid for is kept; a finished run is whole | partly |
| `scripts/lib/deployments.ts` | one JSON file | read-modify-write without a lock | lost writes never make a false record | partly |
| Rubicon v13 deployment (`scripts/bridge/deploy-rubicon-v13.ts`, `lib/rubicon-v13.ts`, `lib/build-provenance.ts`, `lib/testnet-guard.ts`) | entry of the deployments file; on the chain the deploy key's transactions | dry run, deploy, verify-existing | one contract at most, only what a dry run showed, a true record, recoverable whatever failed | partly (mainnet flow) |
| Owner's scripts on the bridge (`bridge/enable-cctp-domains.ts`, `lib/cctp-domain-plan.ts`, `set-wormhole-allowlist.ts`, `ensure-bridge-atas.ts`) | none | read the lists, plan, send | true reports, sends towards the wanted list, convergence | modelled |
| Admin handover (`transfer-admin-to-ledger.ts` and the Ledger transport) | none | hand over two roles | - | not modelled |
| CPI libraries, encoders, byte-level libraries | none | pure | byte layout | not modelled: no state |
| Rome precompiles (`contracts/interface.sol`), SPL Token, Circle, Wormhole | Solana accounts | transfer, create, approve | - | external, modelled from how the contracts use them |
| Examples, benchmarks, end-to-end and debugging scripts, tests | - | - | - | not modelled |

How they interact. A wrapper and the bridge both move a user's tokens as the SPL
delegate of his ATA, and the ATA has one delegate slot: a grant to one takes the
other's away. The bridge reads wrappers (`mint_id`, `balanceOf`) and calls the
precompiles itself. Holders move the same tokens on Solana behind the back of
all of them. Book adapters read the price book's entries in one call; keepers
refresh the book and the cached adapters. The deployment scripts hand each other
addresses through one `deployments/<network>.json`, which none of them locks, and
through the registries on the chain, where anybody may act too.

What is hard here:

* **Two ledgers in one call.** EVM storage is journaled; what a CPI did on Solana
  may not be. The documents of the repository say both: `docs/ARCHITECTURE.md:74`
  and `contracts/erc20spl/cached_revert_demo.sol:19-20` say an SPL transfer of
  the CPI track outlives the EVM's revert, `contracts/bridge/README.md` section 4
  says such a transaction fails as a whole. The models keep both outcomes; after
  the first one the history variable `torn` is set, and the properties that are
  promises of the contracts are stated for `~torn`. Where a property holds even
  then (flags, recipients, the pause) it is stated without the condition.
* **Pooled accounts**: contract holders share the wrapper's ATA, all bridge users
  share the bridge's.
* **Where a balance lives depends on `code.length`**, and CREATE2 changes it.
* **Caches of external facts** in storage: ATA flags, Circle's record, the peeked
  publish time.
* **Redundant copies**: array, index and records of destinations; pause flag and
  status byte of a feed.
* **An irreversible send.** A deployment is a process that can die, time out or be
  answered wrongly on either side of one transaction that must happen once, and
  its record is written minutes after the file was read.

* **One file, many writers.** The other deployment scripts read the file, talk to
  the chain for minutes and write their copy back whole, while others do the same
  or die.
* **Decisions on old reads.** The owner's scripts plan from a list read call by
  call and send one transaction after the other while others change the list; a
  keeper's refresh and a pause pass each other.

PROJECT.json lists each such hazard at its line with the properties that cover it.

## 2. Modules

### Wrapper: `SplErc20`, `Erc20Ledger`, `TokenSums`

`SplErc20` is both wrappers, told apart by the constant `CpiTrack`. `splBal`,
`ataExists`, `grant` and `feeBps` are Solana's side; `escrow`, `allowances`,
`ataCreated`, `escrowAtaCreated` are the contract's storage, named as in the
code; `code[a]` is `a.code.length > 0`. One action per external function.
`_transfer` is split along its two branches: `LedgerTransfer` (both ends in the
books) and the SPL leg: bound, books check, receiver's ATA, `SplTransfer`, then
`BookTransfer` with the amount measured under an armed fee (`Delivered`). The
CPI casts the amount to uint64 (`U64`), the cached precompile takes it as it is.

A transaction made by a contract is a frame: `Open` takes a snapshot, up to
`MaxCalls` calls follow, then `Commit` or `Rollback`. An EOA's call that reverts
is no step. A frame has no other actor inside it (a transaction is atomic), but
CREATE2 (`Deploy`) may happen in it. External actors: `OwnerMoves` (SPL transfers
by holders, gifts included), `ApproveSpl` (the delegate slot), `SetFee` (the
mint's fee authority, Token-2022).

`Erc20Ledger` is the abstract promise: balances, allowances, journaled rollback,
and no loss without the caller's own move or an allowance. Balances of addresses
without code may also change on Solana (`OwnMove`). The cached build implements
it (`ImplementsLedger`); the CPI build cannot, since a torn frame breaks it.
`TokenSums` defines the total of a function without recursion.

### Bridge administration: `BridgeAdmin`, `BridgeAdminLog`, `DestinationList`

`dest`, `domains`, `index` are `_cctpDest`, `_cctpDomains`, `_cctpDomainIndex`;
`paused` is the set of rails whose bit is set. `circle` is Circle's side: which
domains have a RemoteTokenMessenger account, changing at any time. Whether a
chain is address-shaped is a fact of the chain (`EvmChains`), assumed never to change.
`BridgeAdminLog` adds the author that the events name (`by`), and the list as the
views show it. `DestinationList` is what operators rely on: a map from domain to
recipient kind, who may open, close, stop and restart, and the two-step handover.
The author is part of its state: without it a change by the guardian would look
like the same change by the owner, and the refinement would say nothing about
powers.

### Bridge egress: `BridgeEgress` (extends `BridgeAdmin`)

Adds `burnNonce` and the two Wormhole lists, and on Solana the balances per mint,
the users' grants to the bridge, Wormhole's grant over the bridge's account,
message accounts and ATAs. The tail common to the three burn functions is
`Outbound`: `Deliver` (pull, grant, count, CPI and message, as one Solana
transaction) or `StopHalfway` (the EVM half reverted after the pull and the
platform keeps it; sets `torn`). Message accounts are named by rail, user and
number, which is what the salts hash. `_burnUSDC` does not ask whether Circle
still has the account of the destination, and neither do the guards here: `Burn`
meets it after the pull, where only the delivery needs it. The grain of a mint is
10^(decimals - 8); Wormhole takes whole grains. Left out: message rents, Circle's
denylist and fee, all of which can only make the call fail as a whole; burns of
zero tokens.

### Price book: `PriceBook`, `PriceFeeds`

A source account is an input of each call, a record of what the two reads can
give: found, long enough and Full (`full`), feed id, price, confidence, exponent,
publish time, and the eight bytes the peek reads (`peek`), which equal the
publish time only of a Full record. `_refreshOne` is the operators `Skipped`,
`Committed`, `Faulted`; `refreshAll` takes a set of accounts. `Serves` is the
answer of `BookFeedAdapter.latestRoundData`. `PriceFeeds` is the abstract view: a
feed is absent, live or halted, with a publish time that only grows.

### Deployment of the bridge's version 13: `RubiconDeploy`, `RubiconChecks`

`run` is the process: its mode, the snapshot of the file, the bytes it would send
(`data`: a source tree, the USDC wrapper and two roles), and what it learned on the way. `mined`,
`pool` and `touched` are the deploy key's side of the chain; `file` is
`deployments/rubicon.json`, the V13 entry and all the rest; `printed` and
`announced` are what the operator saw. The order of the code is the order of the
stages: `BeginDryRun`, `BeginDeploy` or `BeginVerify` (steps 1 to 3, the file read
once), `DryRun`, `Clear` (the digest
compared, the send announced), `Arm` (the boundary reads the nonce and asks the
guard again, then the error path is switched), `Send`, `Receipt` or, for
`--verify-existing`, `FetchMined`, then `ReadBack`, `WriteTemp` (first look at the
file), `Rename` (second look) and `PrintOwnerCalls`. A record that cannot be
written, or meets a changed file, is printed for a merge by hand (`WriteFails`;
bound: merged at once or never, and it replaces no record). Any check or call may fail at any stage (`Fail`,
which says whether this run sent nothing) and the process may die (`Crash`).
`SendUnheard` is a send that is answered with an error after the transaction went
out.

Outside the process, at any time: the deploy key sends something else, a pending
transaction is replaced (same bytes, other bytes, or nothing), mined with success
or not, or dropped; the node may not know what is pending, so the pending nonce is
any of several; roles act on a contract; the file is edited. Between runs the
checkout may move to another commit and the artifact be built from other sources.

`RubiconChecks` has what a run checks before it touches the chain, as functions
of what it finds: the command line (`ParseArgs`, `ModeOf`), the guard of
`testnet-guard.ts` for this script and for any other, the rules for the two roles,
and `build-provenance.ts`: of a checkout, the trees of which are the files on disk,
the compiler's input, its packages, its output and the artifact's bytecode.
`Admitted` lets a run begin only with a command line, roles and a checkout that
pass, so `RecordTrue` depends on each of these rules. The guard is asked again at
the send (`Arm`).

Two assumptions come from the script's own words and are not checked by it. The
file store's threat model (`deploy-rubicon-v13.ts:119-122`): one run at a time,
last look and rename at once. And the advice it prints (`preSendNote`,
`sendFailed`, the dry run's line on the nonce): a digest of another nonce is used
only after the earlier announced nonces went to something that is not the
contract (`MayRetry`). `AtMostOne` is a property of script and operator together;
without `MayRetry` it fails, since a dry run shows a nonce and the script cannot
know of a transaction its node has not seen.

### Oracle deployment: `OracleRecords`

`file` is the `OracleGatewayV2` block, `run[p]` the script in operator p's
terminal. A gateway is its factory's number; its other contracts are deployed and
recorded with it. `StartDeploy`, `DeployGateway`, `RecordGateway` are
`deploy-v2-polish.ts`; `StartSeeding` reads the file once, `LookUp` and `Create`
are one seed of one of the four loops of `deploy-seed-feeds.ts` (`Tasks` is their
concatenation; the last one goes over the Pyth feeds this run has found or made),
`SeedFails` the caught exception, `RecordFeeds` the write of the whole copy.
`EmitRegistryUpdate` is the registry's CLI, with the counting of majors and the
retirement of versions (`Update`), for command lines and chain directories some of
which it refuses. Scripts overlap, crash at any step and are run again;
`FORCE_REDEPLOY=1` makes a second gateway.

### Wrapper, bridge and activator records: `WrapperRecords`

`tokens` is the registry of the factories, which outsiders may fill too;
`file` the blocks of the deployments file. The bootstrap is `StartBootstrap` (the
factory it reads off the file and the set it resolves), `OpenFile` (the copy it
will write back, taken after the chain has answered), `LookUp`, `Add`, `ReRead`
(the save after each registration) and `SaveAll`. `Add` has both ways a refused registration can
show: the estimate throws and the run stops, or the transaction reverts, which is
not looked at, and the second read finds nothing. `StartBridge` takes the wrapper from
the file, the mint from the environment and the roles by their precedence;
derived Solana accounts stand for what they are derived from, so that one can
ask whether a bridge burns the token whose Circle account it was given.
`alone` and `made` are history: whether another script has overlapped a run, and
what it has registered. `made` grows in `Add`, where the registration lands, so
that the window before the save is one of the places where the run may die.
`Outsider` registers listed mints under listed symbols; the contract takes any
free symbol (see `WrapperRecords` under what the runs show).

### Owner's scripts: `DomainOps` (extends `BridgeAdmin`)

The scripts composed with the contract's administration. `ParseDomainSpec` and
`DomainsFromRegistry` give the wanted list (the second with the merge of the two
fields of the registry), `ReadList` and `ReadKind` the calls that read the list,
`Decide` the plan and the mode, `CheckCircle` the reads of `--check`, `Send` one
planned call, which is an action of `BridgeAdmin` or a revert that ends the
script. A run is on one of the `Networks` the script knows, whose chain the RPC
must then report, or on one it does not, where it only prints. The chain must be
a testnet's by two different rules: `CanSend` does not look at
`ROME_EXTRA_TESTNET_CHAIN_IDS`, `AssertTestnetSend` of the other two scripts does,
and neither lets a mainnet pass. `StartAllow` and `StartAtas` begin those two. `Others` is
anybody else: every action of `BridgeAdmin`, allowlist changes, account creations.
`quiet` is history: nobody else has acted since the script began.

### Cached feeds and keeper: `OracleCache`

`PythRefreshes` and `FeedRefreshes` are the conditions under which the two
`refresh()` succeed, the second through `LiveAnswers` of the adapter below, with
its own pause flag and window; `Serves` is `latestRoundData`. A price is a publish
time, which may be ahead of the chain's clock, and a quality: not positive, too
wide a confidence, positive but zero at 8 decimals, or fine. `halted[x]` is the
clock at which x was paused. The publisher may date a price before the one it
replaces: `refresh()` compares nothing with what it replaces
(`CachedPythAdapter.sol:109-119`), so a cache follows its account back, and no
property says that answers only grow, as `NeverResurrected` does of the price
book. `KeeperStart`, `KeeperRefresh` and `KeeperLoses` are
the cron job; that it is punctual (`Interval` between starts, `RunTime` for a run)
is a guard of `Tick`. `well[f]` is history: the last moment at which a refresh of
f would have failed, its price was older than `Lag`, or the keeper's transaction
for it was lost.

## 3. Runs

The runs of the contracts check deadlock, except `oracle_cache`, whose clock ends
with `MaxClock`. The runs of scripts do not: a deployment is over once the entry is
written, and an operator need not start another script. The contracts promise
nothing without a caller; fairness is assumed in `rubicon_recovery`,
`oracle_records` and `domain_ops` only.

| Run | Question | Bounds |
|---|---|---|
| `splerc20_cached` | do books, flags and the abstract ledger hold with fees, gifts, rollbacks and deployments? | one EOA, one contract, one CREATE2 address; 2 tokens; amounts 1, 2 and 5, with uint64 scaled to 3 and uint256 to 5; frames of two calls |
| `splerc20_cpi` | the same for the CPI build, and are debits authorized? | frames of one call; states whose books exceed the supply by two or more are not expanded, since torn frames can repeat for ever |
| `bridge_admin` | do the three copies agree, and who may do what? | five domains (three EVM, one other, Solana), three people, two rails, symmetric |
| `bridge_egress` | does the pooled account stay empty and do the message names stay fresh? | one user, USDC, a wrapped and a native mint, three domains, of which Circle may drop and bring back the EVM one, one Wormhole chain, two burns; roles fixed and one thing at a time out of the ordinary (`MCBound`); torn states are checked, not expanded |
| `pricebook` | book consistency, starvation, normalization, returning answers | two feeds, clock to 4, int64 scaled to 127, int32 to 5, answers with one decimal |
| `pricebook_expo` | can one feed revert a batch? (violated) | the same with an exponent at the int32 maximum |
| `rubicon_deploy` | is there one contract at most, and is the record true, through failures and retries? | two nonces, three commits of two source trees (two of them symmetric), every checkout of them, one pair of roles that may pass and four that must not, two digests, two other pending transactions, two edits of which the last names another USDC wrapper |
| `rubicon_recovery` | is what landed recorded in the end? | the same with two commits, one digest and one pending transaction, without symmetry |
| `oracle_records` | do overlapping, dying and repeated scripts keep one gateway per block and a true history, and does seeding converge? | two operators, two gateways, one Pyth seed with its two caches, three versions per contract, three command lines and three chain directories of which one pair fits |
| `wrapper_records` | is every record true, is what was registered kept, is a finished run whole? | two operators (symmetric), two factories, two lists that give one key to two mints and of which one names a mint that is not on the cluster, outsiders, four environments for the roles; the branch of `ResolveSet` for the lists of a single cluster is left to the proofs |
| `domain_ops` | are reports true, do sends go towards the wanted list, do repeated runs end in sync? | two destinations, two people, one guardian who stays and is not the owner, four commands (one is refused), a test network and a mainnet, both known to the script, the mainnet also listed by hand |
| `oracle_cache` | is what is served sound, and do healthy feeds keep answering? | a Pyth cache and a cache of a live adapter over one account, clock to 4, windows 1 and 2, where 2 = Lag + Interval + RunTime; prices dated one before or after the clock, zero at 8 decimals or fine (prices that are not positive or too wide are left to the proofs) |

Fairness of `rubicon_recovery`. A started process does not stop without ending
(`WF` of its steps, which include failing). The operator who sees a contract that
is not recorded runs `--verify-existing` again, as every message after the send
tells him (`SF` of `Recover`: the runs are interrupted by others and by failures),
with the flag `--owner-differs-from-v12`, and no call, the read-back's retries
included, fails for ever (`SF` of `FetchMined`, `ReadBack`, `WriteTemp`,
`Rename`). A contract on which a role has acted is excused: the read-back refuses
it by design. So is one whose USDC wrapper is no longer the file's: a recovery builds the bytes
anew from the file. What the run shows is that none of the rules a recovery
applies excludes a contract the deploy flow itself can make.

Fairness of `oracle_records`: a script that runs goes on (`WF` of `Step`), the
network recovers in the end (`WF` of `GetsHealthy`; until then any call may fail
and any run may die), and somebody deploys where nothing is recorded and runs the
seeding again (`SF`: its terminal may be busy), which the script is made for: it
calls itself idempotent (`deploy-seed-feeds.ts:15`). Fairness of `domain_ops`: a script that runs goes on, the others stop acting
in the end and the RPCs answer (`WF` of `Settles`), and the operator runs `--send`
again and again (`SF`). `Converges` excuses what no run of the script can
change: another key owns the bridge, the chain may not be sent to, the command is refused, or
Circle does not serve what is wanted.

Why the bounds are enough: every guard that compares amounts has a value below,
at and above it (5 % 4 = 1 makes the truncating cast visible); lists of up to four
destinations contain first, middle, last and only elements for swap-and-pop; two
burns suffice to meet a salt again; a clock of four seconds crosses half window
and window of each registration. One user is enough for the pooled account since
only totals matter there; the proofs cover any number. Two nonces are what a second
contract takes, two trees what a wrong commit in the record takes. Two terminals are
what a lost write takes, two gateways a foreign feed, three versions a major counted
wrongly, two entries of one chain a merge. The keeper's bound is tight: with the
window one less than the sum, TLC finds a healthy feed that stops answering. Each property is broken by
a small bug seeded in a mapped definition (PROJECT.json, mutants).

### What the runs show

Everything passes except the finding.

`pricebook_expo`: `int32 diff = expo + 8`
in `_normalize64` (`contracts/oracle/PriceBook.sol:343`) is checked arithmetic.
For a verified record with an exponent above 2^31 - 1 - 8 it panics, and with it
the whole `refreshAll`, though lines 17-19 promise that one bad feed never
reverts the batch and line 236 that nothing in the unit may revert. Pyth does not
publish such exponents; a check of `expo` before the addition makes the code match
its words.

Not violations, but worth knowing: a price far below 10^-8 is accepted as zero
(the code says so, line 348 ff.); after a torn burn the counter of the user stands
still while the message account exists, so that user's next burn on that rail
fails until the counter moves through the other rail.

The scripts, in the same sense:

* Keeper. `contracts/oracle/CACHED_FEEDS.md:64` and the script ask for an interval below `maxStaleness`
  (`scripts/oracle/refresh-cached-feeds.ts:7`). That is necessary, not enough: the
  window must cover the age of the price when it is read, the interval and the
  length of a run (`Answering`; proved for all values). A refreshed cache goes on
  serving the price of before a pause until its window ends, by design: reads
  look at no flag. `CachedPythAdapter` caches a price that is zero at 8 decimals;
  `CachedFeedAdapter` refuses it.
* One file, many writers. Overlapping scripts do lose each other's records (a
  gateway, a wrapper, a list of feeds), which is why `OneGateway` and
  `RecordsTrue` speak of what is in the file, `KeptIfLaterFails` of runs nobody
  overlapped, and `SeedsConverge` of seeding again. `deploy-seed-feeds.ts` replaces the
  whole list by what this run found: a registered feed whose read fails in
  this run leaves the file.
* Bootstrap. Between the registration (`bootstrap-bridged-wrappers.ts:167`) and
  the save (line 185) there are two calls to the node. A run that dies there has
  registered a wrapper the file does not name; the next run finds it on the chain
  and records it, without its hash. That agrees with the comment at line 185, which
  is about the wrappers before the one that fails, and `KeptIfLaterFails` says it
  exactly: all but at most that one. A second run replaces any entry by one without
  `deployTx` (line 162), so the hash that line 185 keeps lasts until the script is run again.
  The same line records the list's name and symbol for a mint that somebody else
  has registered; the contract takes any free symbol, so the wrapper may have
  another one. `RecordsTrue` speaks of factory and mint, not of symbols.
* Bridge deployment. `USDC_MINT` is not compared with the mint of the recorded wrapper:
  `RecordsTrue` needs the assumption `WrapperListsAssumption`.
* Activator. The comment at `SimpleActivator.sol:221` says that wrappers and
  activator share one users contract; after a new factory is recorded,
  `deploy-simple-activator.ts` can pair older wrappers with the newer factory's.
* Version 13. A process that dies between the rename and the printed owner
  calls leaves them unprinted, since a later run refuses a recorded entry; they can
  be rebuilt from the record. A contract whose USDC wrapper the file no longer
  names cannot be recovered until the file names it again.

## 4. Proofs

| Module | Theorems |
|---|---|
| `SplErc20_proofs` | `TypeCorrect`, `Solvent`, `FlagsSound`, `DebitsAreAuthorized`, `CachedImplements`, and lemmas on totals: zero, adding to one element, taking from one element |
| `BridgeAdmin_proofs` | `AdminTypes`, `ListAlwaysSound`, `FormatAlwaysFits`, `AdminImplements`; of the scripts `ResultsAreHonest`, `SendsOnlyTowards` |
| `BridgeEgress_proofs` | `EgressTypes`, `NothingEverStranded`, `MessagesNeverCollide`, `RecipientsAlwaysFit`, `PauseAlwaysStops` |
| `PriceBook_proofs` | `BookTypes`, `BookAlwaysSound`, `AlwaysExact`, `NeverStarved`, `AnswersNeverReturn`, `BookImplements` |
| `RubiconDeploy_proofs` | `DeployTypes`, `NeverTwo`, `SendsApproved`, `RecordIsTrue`, `RefusalIsHonest`, `FileIsKept` |
| `OracleRecords_proofs` | `AlwaysOneGateway`, `HistoryAlwaysSound` |
| `WrapperRecords_proofs` | `RecordsAlwaysTrue`, `AlwaysKeptIfLaterFails`, `RunsAreWhole` |
| `OracleCache_proofs` | `CacheTypes`, `AnswersAreSound`, `KeeperIsInTime` |

The scripts' theorems stand in `BridgeAdmin_proofs` because `DomainOps` extends
`BridgeAdmin` and every step of theirs that reaches the chain is a step of the
administration: they cite its lemmas action by action.

Assumptions are those stated with the constants: finitely many addresses,
destinations, mints, wrappers and typed commands; the
supply fits uint64 and uint64 is smaller than uint256; special values are
distinct (`NoFrame` is no snapshot, `None` no destination and no result); powers of
ten are positive and those beyond `TopPower` exceed int256; every commit has
sources; no list of wrappers has a key twice; `USDC_MINT` is the mint of USDC on its
cluster; the keeper's interval is longer than its run. The two theorems about
the scripts have one more hypothesis, `RegistriesAgree`: entries of a registry that
count and name the same chain agree on domain and kind. Without it the merge of
the two fields keeps one entry and drops the other silently, so "what the registry
says" would have no meaning; the module of the run asserts it of its registries.

* Wrapper. `EscrowSolvent` is not inductive: a rollback brings back the snapshot's
  books, so the snapshot must be solvent too, and its flags must speak of ATAs
  that still exist. `IInv` adds `SavedSound`, which says so, and that the wrapper
  itself has code (or its own ATA could be debited as a holder's). A transfer
  changes the total of the books by what the transfer changed the wrapper's ATA;
  the arithmetic is the lemmas on totals. `DebitsAreAuthorized` goes operation by
  operation: whoever loses in a step is the caller, or loses at most what its
  allowance to the caller was before. `CachedImplements` needs `BooksNeedCode`: an
  address without code has no books, neither now nor in the snapshot, or a
  deployment would make a balance appear that the ledger had not. The ledger's
  own snapshot is the image of the frame's, so a rollback maps to a
  rollback. The theorem is for the cached build: the CPI build's torn rollbacks and
  burns for the bridge are no steps of a ledger, and that run does not claim it.
* Administration. `AdminInv` is types, `ListSound` and `FormatFits`, inductive as
  it stands: the index inverts the array, which makes the swap-and-pop safe.
  The refinement shows that the listed view is the record a burn reads
  (`ListedIsDest`), then maps each step, author included.
* Egress. `EgressInv` reuses `AdminInv` unchanged and adds `NoncesSpent`: every
  message bears a number its user has counted past, the inductive reason why the
  next account is free. `FormatFits` is why recipients fit at the time of a burn.
* Book. `AlwaysExact` says that the guards of `_normalize64` which spare the powers
  of ten change no result: a good read is committed as its price with 8 decimals,
  rounded down, or refused if that does not fit, for every width, positive price and
  exponent (below 10^-MaxPower, the table's end, nothing is claimed). The cases are
  those of the sign of the shift; in each one the arithmetic is of one power of ten. `BookInv` is types and `BookSound`; `AnswersNeverReturn` follows since
  time only makes a served entry stale and pausing sets the status byte that only
  a newer commit clears.
* Owner's scripts. `OpsInv` is `AdminInv`, the types of a script's state, `OnCourse`,
  `Holds` and `ResultHonest`. `OnCourse` holds whoever else acts: the command was
  accepted, the chain may be sent to, each domain is read once, each planned call enables
  something wanted or disables what is not; `SendsTowards` follows. `Holds` is for a script nobody disturbs:
  what it has read is what the chain has, and the calls still to be sent cover all
  that is missing. So once none is left the list is as wanted, which is
  `ResultHonest`. The lemmas are about the operators: the merged
  registry is what is written (`ParsedIsWritten`), putting entries in the order of their
  domains loses and repeats none (`AllInOrder`).
* Deployment. `AtMostOne` is not inductive: the danger is a pending creation, not
  a mined one. `Announced` says that creations have announced nonces and that of
  two announced nonces one has settled on something else; `ChainSound` that
  nonces are used in order; `RunSound` carries what each stage has established
  (the snapshot without entry, the digest a printed one, the transaction found
  on the chain with these bytes) to the step that relies on it.

* Oracle records. `OracleInv` says that a script's results are feeds of the factory
  it started with (`RunTrue`), so the block it writes back, however old its copy,
  belongs to one gateway; and `History`, which compares majors pair by pair: the
  next major is above all of them, not above the newest only.
* Wrapper records. `WrapperInv` says of every script's copy what `RecordsTrue` says
  of the file, since the copy becomes the file; `PastNoted` that the copy has all
  the script is past, from which `WholeRun` follows however the run was
  overlapped; `MadeSaved` that who is alone is the only one, and that each entry it
  made is behind it and in the file, or is the one it is about to read back
  (`Kept`).
* Cached feeds. `CacheSound` says of a stored price that it was sound when it was
  read and that no pause that is on is older. Nothing is claimed of the order of
  publish times, since an account may be set back: the keeper's bound rests on
  `ReadNow` instead, that what replaces a stored price of a well cache is at most
  Lag old at that moment, older than what it replaces or not. `Punctual` and `Rounds` carry the keeper's schedule: a cache the run is past
  was read in this run, one it has not come to in the run before, unless it was
  unhealthy since. At the end of the longest gap the price is at most
  Lag + Interval + RunTime old.

Every safety property of the passing runs is a theorem, `ImplementsLedger` for the
cached build only, as its run. Only model-checked: the liveness properties
`RecoveryWorks`, `SeedsConverge` and `Converges`, which rest on fairness and
ENABLED, out of this prover's reach. So are facts that need induction over data;
where one was needed (a least natural, to put entries in the order of their domains) the library's
theorems on finite sets and well-founded relations that take no operator, or an
explicit witness, stand in.

## 5. Plan, and what is not modelled

Done, in this order: wrapper, bridge administration and egress, price book, the
mainnet deployment of the bridge's version 13 with its checks, the oracle and
wrapper deployment scripts over their unlocked file, the owner's scripts composed
with the administration, cached feeds with their keeper; proofs of all safety
properties.

Left, in the order of their worth:

1. One delegate slot: wrapper and bridge composed over the same ATAs.
2. `ERC20SPLFactory.create_token_mint` with the creator's counter,
   `SimpleActivator`, `WrappedGasFacade`: small modules. The first two need the
   platform's rule for an account that exists or was funded before.
3. Switchboard feeds, ownership and the default window in `OracleCache`.

Not modelled, and why:

* Byte layouts: CPI libraries, encoders, parsers' offsets, `constants.ts` beyond
  which list names which mint. They have no state and no order of steps.
* `SPL_ERC20_Token2022Hooked`: it keeps no books, and what a transfer does is the
  hook program's.
* Admin handover (`transfer-admin-to-ledger.ts`, `lib/ledger.ts`,
  `lib/deployer.ts`, `deploy-ledger.ts`, `test-handover.ts`): two calls, one to a
  contract that is not in the repository, and a hardware transport. Worth knowing:
  a gateway deployed after the handover is owned by the hot key, and the registry
  publishes it as live.
* Benchmarks, smoke, debugging and end-to-end scripts; `deploy-weth-v9.ts`,
  `deploy-wsol-v9.ts`, `deploy_cached.ts`, `create_test_mint.ts`: single
  deployments. `setup-local.ts` imports a function `bridge/deploy.ts` no longer
  has, and like `oracle/deploy.ts` it gives the factory five of its seven
  constructor arguments.
* `scripts/lib/deployments.ts`: the savers for pools, router and Uniswap factory,
  which nothing calls.
* In the modelled parts: torn writes of the file, other chains of the registry,
  entries of contracts.json no script manages, blocks without cached
  implementations, feed keys (`OracleRecords`); addresses overridden by the
  environment and the activator's users contract (`WrapperRecords`); text forms
  of options and printing (`DomainOps`); round ids, decimals and descriptions
  (`OracleCache`); rehearsals on test networks, balances, gas prices, checksums
  and the simulated owner calls (`RubiconDeploy`).
