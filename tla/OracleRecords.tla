---------------------------- MODULE OracleRecords ----------------------------
(***************************************************************************)
(* The oracle's deployment scripts over one deployments/<network>.json:    *)
(* deploy-v2-polish.ts deploys a gateway (OracleAdapterFactory and its     *)
(* implementations), deploy-seed-feeds.ts registers the seed feeds with    *)
(* it, emit-registry-update.ts turns the file into the registry's          *)
(* contracts.json and oracle.json.                                         *)
(*                                                                         *)
(* Several operators run them at the same time and again after a crash.    *)
(* The file is not locked: a script reads it whole when it starts, talks   *)
(* to the chain for minutes, and writes its own copy back whole.           *)
(*                                                                         *)
(* Addresses: the n-th factory is n, and the adapter a factory creates for *)
(* a key is the record that names them.  A gateway's other contracts are   *)
(* deployed and recorded together with its factory, and stand for it.      *)
(***************************************************************************)
EXTENDS Integers, Sequences, FiniteSets

CONSTANTS Ops,           \* terminals in which a script may run
          PythSeeds,     \* PYTH_SEEDS, a sequence of price accounts
          SbSeeds,       \* SWITCHBOARD_SEEDS
          Owned,         \* accounts that belong to the oracle's Solana program
          ChainDirs,     \* the registry's chains/<id>-<slug>
          EmitArgs,      \* command lines of emit-registry-update-cli.ts
          None,
          MaxFactories,  \* bound: gateways ever deployed
          MaxVersions    \* bound: versions of one contract in the registry

Elems(s) == {s[i] : i \in 1 .. Len(s)}
Seeds == Elems(PythSeeds) \cup Elems(SbSeeds)
Factories == 1 .. MaxFactories
Kinds == {"pyth", "switchboard", "cachedPyth", "cachedFeed"}
MANAGED_CONTRACTS == {"BatchReader", "OracleAdapterFactory", "PythPullAdapterImpl",
  "SwitchboardV3AdapterImpl", "CachedPythAdapterImpl", "CachedFeedAdapterImpl"}
Feeds == [factory : Factories, kind : Kinds, seed : Seeds]

ASSUME OracleRecordsAssumption ==
  /\ Owned \subseteq Seeds
  /\ MaxFactories \in Nat /\ MaxVersions \in Nat

VARIABLES factories,  \* number of OracleAdapterFactory contracts on the chain
          adapters,   \* the registries of all of them, as one set of adapters
          file,       \* the OracleGatewayV2 block of the file, or None
          run,        \* [Ops -> the script running there]
          contracts,  \* contracts.json: [MANAGED_CONTRACTS -> versions, newest first]
          oracle,     \* oracle.json: the factory it shows, or None
          healthy     \* the RPC has stopped failing (for good)

vars == <<factories, adapters, file, run, contracts, oracle, healthy>>

-----------------------------------------------------------------------------
(* The work list of deploy-seed-feeds.ts: four loops, one after the other. *)

OfKind(k, s) == [i \in 1 .. Len(s) |-> [kind |-> k, seed |-> s[i]]]

Tasks == OfKind("pyth", PythSeeds) \o OfKind("switchboard", SbSeeds)
           \o OfKind("cachedPyth", PythSeeds) \o OfKind("cachedFeed", PythSeeds)

FeedOf(g, t) == [factory |-> g, kind |-> t.kind, seed |-> t.seed]

\* The last loop goes over the Pyth adapters this run found or made.
Applies(g, got, t) == t.kind = "cachedFeed" => FeedOf(g, [t EXCEPT !.kind = "pyth"]) \in got

\* The first task from i on that applies; past the end when none does.
TaskFrom(g, got, i) ==
  LET left == {j \in i .. Len(Tasks) : Applies(g, got, Tasks[j])}
  IN  IF left = {} THEN Len(Tasks) + 1 ELSE CHOOSE j \in left : \A l \in left : j <= l

Idle == [pc |-> "idle", factory |-> None, got |-> {}, at |-> 0]

Current(r) == FeedOf(r.factory, Tasks[r.at])

\* The task is over; with found, its adapter is among the results.
Advance(r, found) ==
  LET got == r.got \cup found
  IN  [r EXCEPT !.pc = "look", !.got = got, !.at = TaskFrom(r.factory, got, r.at + 1)]

At(p, pc) == run[p].pc = pc
Goes(p, r) == run' = [run EXCEPT ![p] = r]
Working(p) == At(p, "look") /\ run[p].at <= Len(Tasks)

-----------------------------------------------------------------------------
NoVersions == << >>
Block(g, feeds) == [factory |-> g, feeds |-> feeds]
HasGateway == file # None

Init ==
  /\ factories = 0
  /\ adapters = {}
  /\ file = None
  /\ run = [p \in Ops |-> Idle]
  /\ contracts = [n \in MANAGED_CONTRACTS |-> NoVersions]
  /\ oracle = None
  /\ healthy = FALSE

\* deploy-v2-polish.ts stops at once when the block is complete, unless
\* FORCE_REDEPLOY=1; it decides on the file as it is now.
StartDeploy(p, force) ==
  /\ At(p, "idle")
  /\ ~HasGateway \/ force
  /\ factories < MaxFactories
  /\ Goes(p, [Idle EXCEPT !.pc = "deploy"])
  /\ UNCHANGED <<factories, adapters, file, contracts, oracle, healthy>>

\* The implementations, the factory and the BatchReader.
DeployGateway(p) ==
  /\ At(p, "deploy")
  /\ factories < MaxFactories
  /\ factories' = factories + 1
  /\ Goes(p, [Idle EXCEPT !.pc = "record", !.factory = factories + 1])
  /\ UNCHANGED <<adapters, file, contracts, oracle, healthy>>

\* The only time the script writes: a crash before leaves an orphan gateway.
RecordGateway(p) ==
  /\ At(p, "record")
  /\ file' = Block(run[p].factory, {})
  /\ Goes(p, Idle)
  /\ UNCHANGED <<factories, adapters, contracts, oracle, healthy>>

-----------------------------------------------------------------------------
\* deploy-seed-feeds.ts reads the file once.  The feeds it finds there play
\* no part.
StartSeeding(p) ==
  /\ At(p, "idle")
  /\ HasGateway
  /\ Goes(p, [Idle EXCEPT !.pc = "look", !.factory = file.factory, !.at = TaskFrom(file.factory, {}, 1)])
  /\ UNCHANGED <<factories, adapters, file, contracts, oracle, healthy>>

\* Mutant: a feed that exists already is skipped without being recorded.
LookUpForgetful(p) ==
  /\ Working(p)
  /\ IF Current(run[p]) \in adapters
     THEN Goes(p, Advance(run[p], {}))
     ELSE Goes(p, [run[p] EXCEPT !.pc = "create"])
  /\ UNCHANGED <<factories, adapters, file, contracts, oracle, healthy>>

\* A feed the factory already has is a result; otherwise it is created.
LookUp(p) ==
  /\ Working(p)
  /\ IF Current(run[p]) \in adapters
     THEN Goes(p, Advance(run[p], {Current(run[p])}))
     ELSE Goes(p, [run[p] EXCEPT !.pc = "create"])
  /\ UNCHANGED <<factories, adapters, file, contracts, oracle, healthy>>

\* Anybody may create a feed; who does it without recording it is an operator
\* whose terminal is closed.
\*
\* OracleAdapterFactory.create*: one adapter per key, and for the kinds that
\* read a Solana account only over one the oracle's program owns.
Creatable(f) ==
  /\ f.factory <= factories
  /\ f \notin adapters
  /\ f.kind # "cachedFeed" => f.seed \in Owned
  /\ f.kind = "cachedFeed" => [f EXCEPT !.kind = "pyth"] \in adapters

\* The registry is read again after the receipt.  A revert is caught, and
\* the loop goes on with the next seed; so it does when the adapter is there
\* and the receipt or the second read fails.
Create(p) ==
  /\ At(p, "create")
  /\ LET f == Current(run[p])
     IN  IF Creatable(f)
         THEN /\ adapters' = adapters \cup {f}
              /\ \/ Goes(p, Advance(run[p], {f}))
                 \/ ~healthy /\ Goes(p, Advance(run[p], {}))
         ELSE /\ Goes(p, Advance(run[p], {}))
              /\ UNCHANGED adapters
  /\ UNCHANGED <<factories, file, contracts, oracle, healthy>>

\* A call to the RPC throws: the seed is reported as failed and left out.
SeedFails(p) ==
  /\ ~healthy
  /\ Working(p) \/ At(p, "create")
  /\ Goes(p, Advance(run[p], {}))
  /\ UNCHANGED <<factories, adapters, file, contracts, oracle, healthy>>

\* Mutant: the results go into the block that is in the file now.
RecordFeedsMerged(p) ==
  /\ At(p, "look") /\ run[p].at > Len(Tasks)
  /\ file' = [file EXCEPT !.feeds = run[p].got]
  /\ Goes(p, Idle)
  /\ UNCHANGED <<factories, adapters, contracts, oracle, healthy>>

\* The list of feeds is replaced by the results of this run, in the copy of
\* the file the run started from.
RecordFeeds(p) ==
  /\ At(p, "look") /\ run[p].at > Len(Tasks)
  /\ file' = Block(run[p].factory, run[p].got)
  /\ Goes(p, Idle)
  /\ UNCHANGED <<factories, adapters, contracts, oracle, healthy>>

-----------------------------------------------------------------------------
(* emit-registry-update.ts.  A version is an address, a major number, a    *)
(* status and, when retired, the address that replaced it.                 *)

LiveIn(vs) == {i \in 1 .. Len(vs) : vs[i].status = "live"}

\* Mutant: the next major counts up from the live version.
NextMajorFromLive(vs) == LET l == LiveIn(vs) IN IF l = {} THEN 1 ELSE Cardinality(l) + 1

NextMajor(vs) ==
  LET majors == {0} \cup {vs[i].major : i \in 1 .. Len(vs)}
  IN  1 + CHOOSE m \in majors : \A k \in majors : k <= m

Retire(vs, a) == [i \in 1 .. Len(vs) |->
  IF vs[i].status = "live" THEN [vs[i] EXCEPT !.status = "retired", !.replacedBy = a] ELSE vs[i]]

\* The version that goes live (its commit, compiler and date are left out).
Version(a, major) == [address |-> a, major |-> major, status |-> "live", replacedBy |-> None]

\* updateForName: nothing changes when the first live version has the address.
Update(vs, a) ==
  IF \E i \in LiveIn(vs) : vs[i].address = a /\ \A j \in LiveIn(vs) : i <= j
  THEN vs
  ELSE <<Version(a, NextMajor(vs))>> \o Retire(vs, a)

\* Every managed contract, whether contracts.json has it already or not.
BuildContracts(cs, g) == [n \in MANAGED_CONTRACTS |-> Update(cs[n], g)]

\* The factory and the feeds of the block, each kind of feed under keys of its
\* own; the factory is kept here.
BuildOracle(block) == block.factory

\* parseArgs: three options are required, None is one that is not given.
ParseArgs(a) == None \notin {a.network, a.registryPath, a.sourceGitSha}

\* resolveChainDir: it must be the only one of the registry with that slug.
ResolveChainDir(network) ==
  {d \in ChainDirs : d.slug = network /\ \A e \in ChainDirs : e.slug = network => e = d}

\* The CLI writes both files of a chain in the registry checkout; they are
\* merged together, as one pull request, when the workflow succeeds.
\* buildOracle copies the factory and the feeds of the block; the factory is
\* kept here.  (The chain is the one of the file; no other is modelled.)
EmitRegistryUpdate ==
  /\ HasGateway
  /\ \E a \in EmitArgs : ParseArgs(a) /\ ResolveChainDir(a.network) # {}
  /\ contracts' = BuildContracts(contracts, file.factory)
  /\ \A n \in MANAGED_CONTRACTS : Len(contracts'[n]) <= MaxVersions
  /\ oracle' = BuildOracle(file)
  /\ UNCHANGED <<factories, adapters, file, run, healthy>>

-----------------------------------------------------------------------------
(* Environment *)

\* A terminal is closed, or a script dies on an uncaught error.  The last
\* gateway the bound allows is not lost this way.
Crash(p) ==
  /\ ~healthy
  /\ ~At(p, "idle")
  /\ At(p, "record") => factories < MaxFactories
  /\ Goes(p, Idle)
  /\ UNCHANGED <<factories, adapters, file, contracts, oracle, healthy>>

GetsHealthy == ~healthy /\ healthy' = TRUE
               /\ UNCHANGED <<factories, adapters, file, run, contracts, oracle>>

Step(p) ==
  \/ DeployGateway(p) \/ RecordGateway(p)
  \/ LookUp(p) \/ Create(p) \/ RecordFeeds(p)

Next ==
  \/ \E p \in Ops :
       \/ \E force \in BOOLEAN : StartDeploy(p, force)
       \/ StartSeeding(p)
       \/ Step(p)
       \/ SeedFails(p)
       \/ Crash(p)
  \/ EmitRegistryUpdate
  \/ GetsHealthy

Spec == Init /\ [][Next]_vars

\* A script that runs goes on, the network recovers in the end, and somebody
\* deploys where there is no gateway and runs the seeding again.
LiveSpec ==
  /\ Spec
  /\ WF_vars(GetsHealthy)
  /\ \A p \in Ops : WF_vars(Step(p))
  /\ SF_vars(\E p \in Ops : StartDeploy(p, FALSE) \/ StartSeeding(p))

-----------------------------------------------------------------------------
(* Properties *)

\* Two scripts that overlap may lose a gateway or a feed from the file, but
\* the recorded block always belongs to one gateway: each feed it lists is an
\* adapter that exists and that the block's own factory made.
OneGateway == HasGateway =>
  /\ file.factory <= factories
  /\ \A f \in file.feeds : f \in adapters /\ f.factory = file.factory

\* The published history of a contract: the newest version is the live one,
\* majors count down, each retired version names the address that took its
\* place, and contracts.json agrees with oracle.json.
HistorySound == \A n \in MANAGED_CONTRACTS :
  LET vs == contracts[n]
  IN  /\ LiveIn(vs) = {1} \cap (1 .. Len(vs))
      /\ \A i \in 1 .. Len(vs) - 1 :
           vs[i].major > vs[i + 1].major /\ vs[i + 1].replacedBy = vs[i].address
      /\ oracle # None => vs[1].address = oracle

\* What a run of the seeding should leave behind: every seed it can create.
Complete ==
  /\ HasGateway
  /\ \A i \in 1 .. Len(Tasks) :
       Tasks[i].seed \in Owned => FeedOf(file.factory, Tasks[i]) \in file.feeds

\* However often scripts crashed, failed or overwrote each other's file, once
\* the network answers, seeding again gets every feed into the file for good.
SeedsConverge == <>[]Complete

-----------------------------------------------------------------------------
(* The inductive invariant behind the first two *)

\* Feeds a factory has made.
Of(g) == {f \in adapters : f.factory = g}

RunTrue(r) ==
  /\ r = [pc |-> r.pc, factory |-> r.factory, got |-> r.got, at |-> r.at]
  /\ r.pc \in {"record", "look", "create"} =>
       r.factory \in 1 .. factories /\ r.got \subseteq Of(r.factory)

FileTrue == HasGateway =>
  /\ file = Block(file.factory, file.feeds)
  /\ file.factory \in 1 .. factories
  /\ file.feeds \subseteq Of(file.factory)

Versions == [address : Nat, major : Nat \ {0}, status : {"live", "retired"},
             replacedBy : Nat \cup {None}]

\* HistorySound for one contract, with the majors compared pair by pair.
History(vs) ==
  /\ vs \in Seq(Versions)
  /\ \A i \in 1 .. Len(vs) : vs[i].status = "live" <=> i = 1
  /\ \A i, j \in 1 .. Len(vs) : i < j => vs[i].major > vs[j].major
  /\ \A i \in 1 .. Len(vs) : i > 1 => vs[i].replacedBy = vs[i - 1].address

OracleInv ==
  /\ factories \in Nat
  /\ FileTrue
  /\ run = [p \in Ops |-> run[p]]
  /\ \A p \in Ops : RunTrue(run[p])
  /\ \A n \in MANAGED_CONTRACTS :
       /\ History(contracts[n])
       /\ oracle # None => contracts[n] # << >> /\ contracts[n][1].address = oracle
=============================================================================
