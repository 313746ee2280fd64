------------------------------- MODULE DomainOps -------------------------------
(***************************************************************************)
(* The owner's scripts over a live RomeBridgeWithdraw, composed with its   *)
(* administration (BridgeAdmin): enable-cctp-domains.ts brings the list of *)
(* destinations in line with the registry, set-wormhole-allowlist.ts and   *)
(* ensure-bridge-atas.ts prepare assets.                                   *)
(*                                                                         *)
(* A script reads the contract in several calls, decides, and sends one    *)
(* transaction after the other; the owner, the guardian and Circle act in  *)
(* between.  One operator runs them in one terminal.                       *)
(***************************************************************************)
EXTENDS BridgeAdmin, FiniteSets, SequencesExt

CONSTANTS Operator,     \* the address of the key in the environment
          Commands,     \* what the operator may ask for: --domains and --registry
          Items,        \* WORMHOLE_ASSET_WRAPPERS and WORMHOLE_TARGET_CHAINS
          Wrappers,     \* SPL_ERC20_* blocks of the deployments file
          AtaMints,     \* BRIDGE_ATA_MINTS
          TestnetIds, MainnetIds,   \* the two lists of testnet-guard.ts
          ExtraIds,     \* ROME_EXTRA_TESTNET_CHAIN_IDS
          Networks,     \* the ones enable-cctp-domains.ts knows: [chain, mainnet]
          ChainIds,     \* what an RPC may report
          None

Results == {"inSync", "checked", "sent", "allowed", "atas"}
Kinds == {RECIPIENT_EVM, RECIPIENT_RAW32}
Entries == [chain : {None} \cup Nat, domain : {None} \cup Domains,
            status : {"live", "preparing", "retired"}, kind : Kinds]
Registries == [sourceEvm : {None} \cup Entries, sourceEvms : Seq(Entries)]

ASSUME DomainOpsAssumption ==
  /\ Operator \in People
  /\ Domains \subseteq Nat
  /\ IsFiniteSet(Domains) /\ IsFiniteSet(Items) /\ IsFiniteSet(Wrappers) /\ IsFiniteSet(AtaMints)
  /\ Commands \subseteq [registry : {None} \cup Registries,
                         spec : {None} \cup Seq([domain : Domains, kind : {None} \cup Kinds])]
  /\ None \notin Results

VARIABLES chainId,   \* reported by the RPC
          asked,     \* the operator's list: [registry, spec], None for what is not given
          allowed,   \* wormholeMintAllowed and wormholeTargetChainAllowed
          atas,      \* mints for which the bridge has a token account
          op,        \* the script in the terminal, or the result of the last one
                     \* (None: it promises nothing, or somebody else has acted)
          quiet,     \* nobody else has acted since the running script began
          settled    \* nobody else ever will, and the RPCs answer

world == <<chainId, asked>>
opsVars == <<adminVars, world, allowed, atas, op, quiet, settled>>

-----------------------------------------------------------------------------
(* What is wanted: a list of domains, or a registry of chains.             *)

\* The scripts' list, which a test keeps in step with the contract's.
REFUSED_DOMAINS == Refused

\* parseDomainSpec.  An entry: a domain and a recipient kind, None when the
\* number is bare.
ParseDomainSpec(spec) == {[domain |-> e.domain, kind |-> IF e.kind = None THEN RECIPIENT_EVM ELSE e.kind] :
                            e \in Range(spec)}
SpecFails(spec) ==
  \/ spec = << >>
  \/ \E e \in Range(spec) : e.domain \in REFUSED_DOMAINS
  \/ \E i, j \in 1 .. Len(spec) : i # j /\ spec[i].domain = spec[j].domain

\* The registry.  An entry: chainId, cctpDomain, status and recipient kind.

Counts(e) == e.domain # None /\ e.status \in {"live", "preparing"}

\* sourceEvm, if any, before sourceEvms[].
Candidates(r) == (IF r.sourceEvm = None THEN << >> ELSE <<r.sourceEvm>>) \o r.sourceEvms

\* Entries without a chainId are never taken for repeats.
Repeats(cs, i) == {j \in i .. Len(cs) : j = i \/ (cs[i].chain # None /\ cs[j].chain = cs[i].chain)}
Firsts(cs) == {i \in 1 .. Len(cs) : \A j \in 1 .. i - 1 : i \notin Repeats(cs, j)}

\* Mutant: the first occurrence stays whatever its status.
PickFirst(cs, i) == cs[i]

\* The first occurrence stays unless it does not count and a later one does.
Pick(cs, i) ==
  LET live == {j \in Repeats(cs, i) : Counts(cs[j])}
  IN  IF live = {} THEN cs[i] ELSE cs[CHOOSE j \in live : \A k \in live : j <= k]

Taken(r) == {i \in Firsts(Candidates(r)) : Counts(Pick(Candidates(r), i))}
DomainsFromRegistry(r) == {[domain |-> Pick(Candidates(r), i).domain,
                            kind |-> Pick(Candidates(r), i).kind] : i \in Taken(r)}

\* It throws on an empty list, a refused domain and a domain listed twice.
RegistryFails(r) ==
  LET d(i) == Pick(Candidates(r), i).domain
  IN  \/ Taken(r) = {}
      \/ \E i \in Taken(r) : d(i) \in REFUSED_DOMAINS \/ \E j \in Taken(r) : i # j /\ d(i) = d(j)

\* One of the two options, never both.
CommandFails(c) ==
  \/ (c.spec = None) = (c.registry = None)
  \/ c.spec # None /\ SpecFails(c.spec)
  \/ c.registry # None /\ RegistryFails(c.registry)
ParseCommand(c) == IF c.registry # None THEN DomainsFromRegistry(c.registry) ELSE ParseDomainSpec(c.spec)

Refusals == {c \in Commands : CommandFails(c)}
Parsed == [c \in Commands \ Refusals |-> ParseCommand(c)]

-----------------------------------------------------------------------------
(* The plan: enables by domain, then disables by domain. *)

InOrder(S) ==
  CHOOSE s \in [1 .. Cardinality(S) -> S] :
    \A i, j \in DOMAIN s : i < j => s[i].domain < s[j].domain
Call(fn, S) ==
  LET s == InOrder(S)
  IN  [i \in 1 .. Len(s) |-> [fn |-> fn, domain |-> s[i].domain, kind |-> s[i].kind]]

\* Mutant: what is open is compared with what is missing.
PlanAgainstMissing(wanted, onChain) ==
  Call("enable", wanted \ onChain)
    \o Call("disable", {e \in onChain : \A w \in wanted \ onChain : w.domain # e.domain})

\* A wanted domain that is missing or has another kind; an enabled one that is
\* not wanted.
PlanDomainChanges(wanted, onChain) ==
  Call("enable", wanted \ onChain)
    \o Call("disable", {e \in onChain : \A w \in wanted : w.domain # e.domain})

\* judgeChain: a mainnet is refused even when it is among the ids listed by hand.
JudgeChain(c, extra) == c \notin MainnetIds /\ c \in TestnetIds \cup extra

\* assertTestnetSend, on the chain id the RPC reports: None, it cannot be read.
AssertTestnetSend(reported) == reported # None /\ JudgeChain(reported, ExtraIds)

\* fetchSolanaAccount, for the account of a domain: there, or null.
FetchSolanaAccount(d) == d \in circle

\* checkCircleRecord, for what the account of a domain can show: it is gone,
\* or its messenger has the wrong shape for the kind.
CircleProblem(e) ==
  \/ ~FetchSolanaAccount(e.domain)
  \/ e.kind = RECIPIENT_EVM /\ ~EvmShaped(e.domain)
  \/ e.kind = RECIPIENT_RAW32 /\ EvmShaped(e.domain)

-----------------------------------------------------------------------------
(* enable-cctp-domains.ts *)

\* check: --check was given; may: canSend.
Idle(res) == [pc |-> "idle", check |-> FALSE, may |-> FALSE, todo |-> << >>, onChain |-> {},
              drift |-> FALSE, result |-> res]
At(pc) == op.pc = pc
Ends(res) == op' = Idle(res)

OpsInit ==
  /\ AdminInit /\ guardian # owner
  /\ chainId \in ChainIds
  /\ asked \in Commands
  /\ allowed = {} /\ atas = {}
  /\ op = Idle(None)
  /\ quiet = TRUE
  /\ settled = FALSE

Starts(r) ==
  /\ At("idle")
  /\ op' = r
  /\ quiet' = TRUE
  /\ UNCHANGED <<adminVars, world, allowed, atas, settled>>

\* What canSend asks of the chain: the id the RPC reports is a testnet's (the
\* list by hand does not count here), the network is a known one and is not
\* declared a mainnet.
SendableOn(net) == net # None /\ ~net.mainnet /\ JudgeChain(chainId, {})

\* Mutant: the two addresses read next to each other are mixed up.
CanSendAsGuardian(m, net) == m = "send" /\ SendableOn(net) /\ Operator = guardian

\* canSend: --send, such a chain, and the key is the owner's.
CanSend(m, net) == m = "send" /\ SendableOn(net) /\ Operator = owner

\* main, up to the read of owner(): with --check, with --send, with neither; on
\* a network it knows, whose chain the RPC must report, or (None) another.
StartDomains(m, net) ==
  /\ asked \notin Refusals
  /\ net # None => net.chain = chainId
  /\ Starts([Idle(None) EXCEPT !.pc = "list", !.check = m = "check", !.may = CanSend(m, net)])

\* cctpDomains()
ReadList ==
  /\ At("list")
  /\ op' = [op EXCEPT !.pc = "kinds", !.todo = domains]
  /\ UNCHANGED <<adminVars, world, allowed, atas, quiet, settled>>

\* cctpRecipientKind(d), one call for each domain: 0 if it was closed since.
ReadKind ==
  /\ At("kinds") /\ op.todo # << >>
  /\ LET d == Head(op.todo)
     IN  op' = [op EXCEPT !.todo = Tail(@), !.onChain = @ \cup {[domain |-> d, kind |-> dest[d].kind]}]
  /\ UNCHANGED <<adminVars, world, allowed, atas, quiet, settled>>

\* The plan; --check goes on to Circle's records, a print mode ends here.
Decide ==
  /\ At("kinds") /\ op.todo = << >>
  /\ LET plan == PlanDomainChanges(Parsed[asked], op.onChain)
     IN  \/ /\ op.check
            /\ op' = [op EXCEPT !.pc = "circle", !.drift = plan # << >>, !.todo = InOrder(op.onChain),
                                   !.onChain = {}]
         \/ ~op.check /\ plan = << >> /\ Ends("inSync")
         \/ ~op.check /\ plan # << >> /\ op.may /\ op' = [op EXCEPT !.pc = "send", !.todo = plan, !.onChain = {}]
         \/ ~op.check /\ plan # << >> /\ ~op.may /\ Ends(None)
  /\ UNCHANGED <<adminVars, world, allowed, atas, quiet, settled>>

\* One account read for each listed domain.
CheckCircle ==
  /\ At("circle")
  /\ IF op.todo = << >>
     THEN Ends(IF op.drift THEN None ELSE "checked")
     ELSE op' = [op EXCEPT !.todo = Tail(@), !.drift = @ \/ CircleProblem(Head(op.todo))]
  /\ UNCHANGED <<adminVars, world, allowed, atas, quiet, settled>>

\* A call the contract would refuse: it reverts, and the script stops there.
Reverts(c) ==
  IF c.fn = "enable"
  THEN ~(OnlyOwner(Operator) /\ c.domain \in circle \ Refused /\ KindFits(c.domain, c.kind))
  ELSE ~(OwnerOrGuardian(Operator) /\ index[c.domain] # 0)

Send ==
  /\ At("send") /\ op.todo # << >>
  /\ LET c == Head(op.todo)
     IN  \/ /\ \/ c.fn = "enable" /\ EnableCctpDomain(Operator, c.domain, c.kind)
               \/ c.fn = "disable" /\ DisableCctpDomain(Operator, c.domain)
            /\ IF Len(op.todo) = 1 THEN Ends("sent") ELSE op' = [op EXCEPT !.todo = Tail(@)]
         \/ Reverts(c) /\ Ends(None) /\ UNCHANGED adminVars
  /\ UNCHANGED <<world, allowed, atas, quiet, settled>>

-----------------------------------------------------------------------------
(* set-wormhole-allowlist.ts and ensure-bridge-atas.ts: both refuse unless *)
(* the chain is a testnet and the key is the owner's.                      *)

OwnerOnTestnet == AssertTestnetSend(chainId) /\ Operator = owner

StartAllow == OwnerOnTestnet /\ Items # {} /\ Starts([Idle(None) EXCEPT !.pc = "allow", !.todo = SetToSeq(Items)])

\* setWormholeTargetChainAllowed, setWormholeAssetAllowed.
SetAllowed(s, x, b) ==
  /\ OnlyOwner(s)
  /\ allowed' = IF b THEN allowed \cup {x} ELSE allowed \ {x}

\* An item that is allowed already is skipped; the receipt is not looked at.
Allow ==
  /\ At("allow") /\ op.todo # << >>
  /\ \/ /\ Head(op.todo) \in allowed
        /\ op' = [op EXCEPT !.todo = Tail(@)] /\ UNCHANGED allowed
     \/ /\ Head(op.todo) \notin allowed
        /\ SetAllowed(Operator, Head(op.todo), TRUE)
        /\ op' = [op EXCEPT !.pc = "verify"]
     \/ ~OnlyOwner(Operator) /\ Ends(None) /\ UNCHANGED allowed
  /\ UNCHANGED <<adminVars, world, atas, quiet, settled>>

AllowVerify ==
  /\ At("verify")
  /\ IF Head(op.todo) \in allowed THEN op' = [op EXCEPT !.pc = "allow", !.todo = Tail(@)]
                                  ELSE Ends(None)
  /\ UNCHANGED <<adminVars, world, allowed, atas, quiet, settled>>

AllowEnds ==
  /\ At("allow") /\ op.todo = << >>
  /\ Ends("allowed")
  /\ UNCHANGED <<adminVars, world, allowed, atas, quiet, settled>>

\* bridgedMintsFrom: the list of the environment, or every wrapper whose block
\* names its mint; no mint at all is refused.
BridgedMints == IF AtaMints # {} THEN AtaMints ELSE {w \in Wrappers : w # None}

StartAtas == OwnerOnTestnet /\ BridgedMints # {} /\ Starts([Idle(None) EXCEPT !.pc = "ata", !.todo = SetToSeq(BridgedMints)])

\* ensureBridgeAta for a mint whose account is missing; a revert stops the run.
Ata ==
  /\ At("ata") /\ op.todo # << >>
  /\ \/ /\ Head(op.todo) \in atas
        /\ op' = [op EXCEPT !.todo = Tail(@)] /\ UNCHANGED atas
     \/ /\ Head(op.todo) \notin atas
        /\ IF OnlyOwner(Operator)
           THEN atas' = atas \cup {Head(op.todo)} /\ op' = [op EXCEPT !.pc = "poll"]
           ELSE Ends(None) /\ UNCHANGED atas
  /\ UNCHANGED <<adminVars, world, allowed, quiet, settled>>

\* Twelve looks at a Solana RPC that may lag behind all of them.
AtaPoll ==
  /\ At("poll")
  /\ \/ op' = [op EXCEPT !.pc = "ata", !.todo = Tail(@)]
     \/ ~settled /\ Ends(None)
  /\ UNCHANGED <<adminVars, world, allowed, atas, quiet, settled>>

AtaEnds ==
  /\ At("ata") /\ op.todo = << >>
  /\ Ends("atas")
  /\ UNCHANGED <<adminVars, world, allowed, atas, quiet, settled>>

-----------------------------------------------------------------------------
(* Everybody else *)

\* An owner or guardian by hand, the operator's own addresses and the Ledger
\* that signs a printed plan included; Circle; a burner who pays for an ATA.
\* Bound: the guardian, who matters here only for closing a destination, stays.
Others ==
  /\ ~settled
  /\ \/ /\ AdminNext /\ UNCHANGED guardian
        /\ UNCHANGED <<allowed, atas>>
     \/ /\ \E s \in People, x \in Items, b \in BOOLEAN : SetAllowed(s, x, b)
        /\ UNCHANGED <<adminVars, atas>>
     \/ /\ \E m \in BridgedMints : atas' = atas \cup {m}
        /\ UNCHANGED <<adminVars, allowed>>
  /\ op' = [op EXCEPT !.result = None]
  /\ quiet' = At("idle")
  /\ UNCHANGED <<world, settled>>

\* A read fails, or the terminal is closed.
Dies ==
  /\ ~settled
  /\ ~At("idle")
  /\ Ends(None)
  /\ UNCHANGED <<adminVars, world, allowed, atas, quiet, settled>>

Settles == ~settled /\ settled' = TRUE
           /\ UNCHANGED <<adminVars, world, allowed, atas, op, quiet>>

Step == ReadList \/ ReadKind \/ Decide \/ CheckCircle \/ Send
          \/ Allow \/ AllowVerify \/ AllowEnds \/ Ata \/ AtaPoll \/ AtaEnds

OpsNext ==
  \/ \E m \in {"check", "send", "print"}, net \in Networks \cup {None} : StartDomains(m, net)
  \/ StartAllow \/ StartAtas
  \/ Step
  \/ Others \/ Dies \/ Settles

OpsSpec == OpsInit /\ [][OpsNext]_opsVars

\* A script that runs goes on, the others stop in the end, and the operator
\* runs the script with --send again and again, with --network as it should be.
LiveSpec ==
  /\ OpsSpec
  /\ WF_opsVars(Settles) /\ WF_opsVars(Step)
  /\ SF_opsVars(\E net \in Networks : StartDomains("send", net))

-----------------------------------------------------------------------------
(* Properties *)

Open == {[domain |-> d, kind |-> dest[d].kind] : d \in {x \in Domains : index[x] # 0}}

\* The operator's own words: a destination is wanted when the list has it, or
\* some entry of either field of the registry does.
LiveEntries(r) == {e \in ({r.sourceEvm} \ {None}) \cup Range(r.sourceEvms) : Counts(e)}
Written(c) == IF c.registry = None THEN ParseDomainSpec(c.spec)
              ELSE {[domain |-> e.domain, kind |-> e.kind] : e \in LiveEntries(c.registry)}
WantedIn == [c \in Commands |-> Written(c)]
Wanted == WantedIn[asked]

\* A result the operator reads off the terminal is true as long as nobody else
\* has acted since the script began, though it was put together from several
\* reads and a plan made before the sends.
ResultHonest == At("idle") /\ quiet =>
  /\ op.result \in {"inSync", "checked", "sent"} => Open = Wanted
  /\ op.result = "checked" => \A e \in Open : e.domain \in circle /\ KindFits(e.domain, e.kind)
  /\ op.result = "allowed" => Items \subseteq allowed
  /\ op.result = "atas" => BridgedMints \subseteq atas

\* What a script sends never goes to a mainnet, and what the first one sends,
\* from however stale a plan, only brings the list closer to what was asked for.
SendsTowards == [][~At("idle") /\ op' # op =>
  /\ <<list, allowed, atas>>' # <<list, allowed, atas>> => chainId \notin MainnetIds
  /\ list' # list =>
       /\ \A w \in Wanted : w \in Open => w \in Open'
       /\ \A e \in Open' : e \in Open \/ e \in Wanted]_opsVars

-----------------------------------------------------------------------------
(* The inductive invariant.                                                *)

\* What the proofs ask of a registry: the entries of one chain that count
\* agree on its domain and kind.
RegistriesAgree == \A c \in Commands : c.registry # None =>
  \A e, f \in LiveEntries(c.registry) :
    e.chain # None /\ e.chain = f.chain => e.domain = f.domain /\ e.kind = f.kind

\* A destination as it is read: closed since, it has kind 0.
Listed == [domain : Domains, kind : {RECIPIENT_NONE} \cup Kinds]
Calls == [fn : {"enable", "disable"}, domain : Domains, kind : {RECIPIENT_NONE} \cup Kinds]

\* What is still to be done, by stage.
Tasks(pc) == CASE pc = "kinds" -> Domains
               [] pc = "circle" -> Listed
               [] pc = "send" -> Calls
               [] pc \in {"allow", "verify"} -> Items
               [] pc \in {"ata", "poll"} -> BridgedMints
               [] OTHER -> {}
Stages == {"idle", "list", "kinds", "circle", "send", "allow", "verify", "ata", "poll"}

OpsTypeOK ==
  /\ asked \in Commands
  /\ op \in [pc : Stages, check : BOOLEAN, may : BOOLEAN, todo : Seq(Tasks(op.pc)),
             onChain : SUBSET Listed, drift : BOOLEAN, result : {None} \cup Results]

Enables(w, s) == [fn |-> "enable", domain |-> w.domain, kind |-> w.kind] \in Range(s)
Served(e) == e.domain \in circle /\ KindFits(e.domain, e.kind)

\* What the script may rely on whoever acts in between: its command was
\* accepted, each domain is read once, each call is one the operator wants,
\* on a chain that may be sent to.
OnCourse ==
  /\ ~At("idle") => op.result = None
  /\ op.pc \in {"list", "kinds", "circle", "send"} => asked \notin Refusals
  /\ op.may => JudgeChain(chainId, {})
  /\ op.pc \in {"allow", "verify", "ata", "poll"} => AssertTestnetSend(chainId)
  /\ At("list") => op.onChain = {}
  /\ At("kinds") =>
       /\ \A i, j \in 1 .. Len(op.todo) : op.todo[i] = op.todo[j] => i = j
       /\ \A e, f \in op.onChain : e.domain = f.domain => e = f
       /\ \A e \in op.onChain : e.domain \notin Range(op.todo)
  /\ At("send") =>
       /\ op.may /\ op.todo # << >>
       /\ \A c \in Range(op.todo) : IF c.fn = "enable" THEN [domain |-> c.domain, kind |-> c.kind] \in Wanted
                                    ELSE \A w \in Wanted : w.domain # c.domain
  /\ op.pc \in {"verify", "poll"} => op.todo # << >>

\* What it has found and done is still true as long as nobody else acts: the
\* rest of its list is all that is missing.
Holds == quiet =>
  /\ At("kinds") => Open = op.onChain \cup {[domain |-> d, kind |-> dest[d].kind] : d \in Range(op.todo)}
  /\ At("circle") /\ ~op.drift => Open = Wanted /\ \A e \in Open : e \in Range(op.todo) \/ Served(e)
  /\ At("send") => /\ \A w \in Wanted : w \in Open \/ Enables(w, op.todo)
                   /\ \A e \in Open : e \in Wanted \/ \E c \in Range(op.todo) : c.domain = e.domain
  /\ op.pc \in {"allow", "verify"} => Items \subseteq allowed \cup Range(op.todo)
  /\ At("ata") => BridgedMints \subseteq atas \cup Range(op.todo)
  /\ At("poll") => BridgedMints \subseteq atas \cup Range(Tail(op.todo))

OpsInv == AdminInv /\ OpsTypeOK /\ OnCourse /\ Holds /\ ResultHonest

\* Nothing the script can do about it: it is not the owner's key, it may only
\* print, the command is refused, or Circle does not serve what it wants.
Blocked ==
  \/ owner # Operator \/ asked \in Refusals
  \/ \A net \in Networks : net.chain = chainId => ~SendableOn(net)
  \/ \E w \in Wanted : w.domain \notin circle \/ ~KindFits(w.domain, w.kind)

\* Whatever state the others left, running the script again ends in sync.
Converges == <>[](Blocked \/ Open = Wanted)
=============================================================================
