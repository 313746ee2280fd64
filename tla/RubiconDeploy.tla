---------------------------- MODULE RubiconDeploy ----------------------------
(***************************************************************************)
(* The deployment of RomeBridgeWithdraw 13.0.0 on Rubicon                  *)
(* (scripts/bridge/deploy-rubicon-v13.ts, lib/rubicon-v13.ts) as the       *)
(* mainnet runs it: dry run, deploy with the digest the dry run printed,   *)
(* and --verify-existing, each a process that may fail or die at any step. *)
(*                                                                         *)
(* The deploy key sends one transaction per nonce, so a nonce names the    *)
(* contract its creation makes.  Nothing is said of other keys.  As in the *)
(* script's threat model, one run goes on at a time, in a checkout that    *)
(* stays as it is during the run.                                          *)
(***************************************************************************)
EXTENDS RubiconChecks, Sequences

CONSTANTS V12Owner,    \* owner() of the live contract
          Other,       \* payload of any other transaction of the deploy key
          None,        \* undefined
          MaxNonce,    \* bound on the deploy key's nonce
          MaxDigests,  \* bound on dry runs
          MaxEdits,    \* bound on edits of the file
          UsdcOf,      \* the USDC wrapper the file names after each edit
          MaxPool      \* bound on what else of the deploy key is pending

ASSUME DeployAssumption ==
  /\ V12Owner \in People
  /\ MaxNonce \in Nat /\ MaxDigests \in Nat /\ MaxEdits \in Nat /\ MaxPool \in Nat
  /\ None \notin Nat \cup People \cup Wrappers
  /\ UsdcOf \in [0 .. MaxEdits -> Wrappers \cup {None}]

VARIABLES
  mined,     \* external: the deploy key's mined transactions, by nonce
  pool,      \* external: those that may still be mined
  touched,   \* external: contracts whose owner or guardian has acted
  file,      \* deployments/rubicon.json: the V13 entry and all the rest
  printed,   \* digests dry runs printed
  announced, \* nonces under which a run said it was sending
  ownerCalls, \* those a run printed for the owner to sign
  run        \* the process

vars == <<mined, pool, touched, file, printed, announced, ownerCalls, run>>

Nonces == 0 .. MaxNonce
Payloads == [src : Sources, usdc : Wrappers, owner : People, guardian : People]
ASSUME OtherAssumption == Other \notin Payloads /\ None \notin Payloads
Txs == [nonce : Nonces, data : Payloads \cup {Other}, copy : {0, 1}]
ETHEREUM_DOMAIN == 0
Digests == [nonce : Nonces, data : Payloads]
Records == [address : Nonces, tx : Txs, owner : People, guardian : People, commit : Commits]
ASSUME RecordAssumption == None \notin Records /\ None \notin Txs /\ None \notin Digests
Files == [rest : 0 .. MaxEdits, v13 : Records \cup {None}]
Stages == {"begun", "cleared", "armed", "waiting", "landed", "temp", "rename", "recorded"}

\* A run that is over: whether it said that it had sent nothing, and whether
\* it had.
Ended(note, sent) == [pc |-> "over", note |-> note, sent |-> sent]
Over == run.pc = "over"
Runs == [pc : Stages, mode : {"dry", "deploy", "verify"}, snapshot : Files,
         data : Payloads, commit : Commits, digest : Digests \cup {None},
         nonce : Nonces \cup {None}, tx : Txs \cup {None}, address : Nonces \cup {None},
         started : BOOLEAN, sent : BOOLEAN]

\* buildOwnerCalls, in the order they are to be signed: the token account of
\* the wrapper's mint before the first destination.
BuildOwnerCalls(bridge, usdc) ==
  <<[fn |-> "ensureBridgeAta", to |-> bridge, of |-> usdc],
    [fn |-> "enableCctpDomain", to |-> bridge, of |-> ETHEREUM_DOMAIN]>>

TypeOK ==
  /\ mined \in Seq([tx : Txs, ok : BOOLEAN]) /\ Len(mined) <= MaxNonce + 1
  /\ pool \subseteq Txs
  /\ touched \subseteq Nonces
  /\ file \in Files
  /\ printed \subseteq Digests
  /\ announced \subseteq Nonces
  /\ ownerCalls \in {<< >>} \cup {BuildOwnerCalls(a, w) : a \in Nonces, w \in Wrappers}
  /\ run \in Runs \cup [pc : {"over"}, note : BOOLEAN, sent : BOOLEAN]

Init ==
  /\ mined = << >> /\ pool = {} /\ touched = {}
  /\ file = [rest |-> 0, v13 |-> None]
  /\ printed = {} /\ announced = {} /\ ownerCalls = << >>
  /\ run = Ended(FALSE, FALSE)

chain == <<mined, pool, touched>>
papers == <<printed, announced, ownerCalls>>

-----------------------------------------------------------------------------
(* What the node answers                                                   *)

\* getTransactionCount("pending"): the node may or may not know what is
\* pending.
PendingNonces == {n \in Nonces : n >= Len(mined) /\
  \A k \in Len(mined) .. n - 1 : \E t \in pool : t.nonce = k}

\* There is a contract of the deploy key at this address.
Live(a) == a < Len(mined) /\ mined[a + 1].ok /\ mined[a + 1].tx.data # Other

\* usdcFromDeployments: the wrapper with its mint, None if the file has none.
UsdcFromDeployments(f) == UsdcOf[f.rest]

-----------------------------------------------------------------------------
(* runFlow, up to its first transaction                                    *)

\* The owner rule, on what v12's owner() read as (None: not readable).  A
\* dry run only warns of another owner.
OwnerRule(i, v12, lenient) == i.guardian # v12 /\ (lenient \/ i.owner = v12)

\* deployDigest: of the bytes, with the roles in them, and the nonce (the
\* chain and the deploy key are the same throughout).
DeployDigest(data, n) == [nonce |-> n, data |-> data]

SameSources(commit, head) == SourcesOf[commit] = SourcesOf[head]

\* No run goes on, and the roles and the bytecode of this one pass.
Admitted(i, head, src) == Over /\ RolesFit(i) /\ <<src, head>> \in Builds

\* Step 3: the file is read once, and refused if it has the entry.
\* What the mode does not take is undefined.
Begin(mode, i, head, src, commit, digest, t, a) ==
  /\ file.v13 = None
  /\ UsdcFromDeployments(file) # None
  /\ run' = [pc |-> "begun", mode |-> mode, snapshot |-> file,
             data |-> DeployData(src, UsdcFromDeployments(file), i),
             commit |-> commit, digest |-> digest, nonce |-> None, tx |-> t, address |-> a,
             started |-> FALSE, sent |-> FALSE]
  /\ UNCHANGED <<chain, file, papers>>

BeginDryRun(i, head, src, v12) ==
  /\ OwnerRule(i, v12, TRUE)
  /\ Begin("dry", i, head, src, head, None, None, None)

\* The operator's part, as the script prints it: a digest is used for
\* another nonce only after every earlier announced one went to something
\* that is not the contract (external).
MayRetry(n) == \A u \in announced : u = n \/ (u < Len(mined) /\ ~Live(u))

BeginDeploy(i, head, src, v12, differs, d) ==
  /\ d \in printed /\ MayRetry(d.nonce)
  /\ OwnerRule(i, v12, differs)
  /\ Begin("deploy", i, head, src, head, d, None, None)

\* --verify-existing a --deploy-tx t --source-commit commit.
BeginVerify(i, head, src, v12, differs, t, a, commit) ==
  /\ OwnerRule(i, v12, differs)
  /\ SameSources(commit, head)
  /\ Begin("verify", i, head, src, commit, None, t, a)

At(pc) == run.pc = pc

\* An error, from any check or call: the script ends, and says whether this
\* run sent nothing.
Fail ==
  /\ ~Over
  /\ run' = Ended(~run.started, run.sent)
  /\ UNCHANGED <<chain, file, papers>>

\* The process dies.
Crash ==
  /\ ~Over
  /\ run' = Ended(FALSE, run.sent)
  /\ UNCHANGED <<chain, file, papers>>

\* A dry run prints the digest of its bytes and of the nonce it read.
DryRun(n) ==
  /\ At("begun") /\ run.mode = "dry"
  /\ n \in PendingNonces
  /\ printed' = printed \cup {DeployDigest(run.data, n)}
  /\ Cardinality(printed') <= MaxDigests
  /\ run' = Ended(FALSE, FALSE)
  /\ UNCHANGED <<chain, file, announced, ownerCalls>>

\* A deploy compares the digest, and announces what it is about to send.
Clear(n) ==
  /\ At("begun") /\ run.mode = "deploy"
  /\ n \in PendingNonces
  /\ run.digest = DeployDigest(run.data, n)
  /\ announced' = announced \cup {n}
  /\ run' = [run EXCEPT !.pc = "cleared", !.nonce = n]
  /\ UNCHANGED <<chain, file, printed, ownerCalls>>

-----------------------------------------------------------------------------
(* deps.deploy                                                             *)

\* Mutant: what was checked before is trusted.
ArmUnchecked(n) ==
  /\ At("cleared")
  /\ n \in PendingNonces
  /\ run' = [run EXCEPT !.pc = "armed", !.nonce = n, !.started = TRUE]
  /\ UNCHANGED <<chain, file, papers>>

\* Mutant: the error path is switched after the wallet has answered.
ArmLate(n) ==
  /\ At("cleared")
  /\ n \in PendingNonces
  /\ AssertRubiconV13DeploySend(TRUE, "send", run.digest = DeployDigest(run.data, n))
  /\ run' = [run EXCEPT !.pc = "armed"]
  /\ UNCHANGED <<chain, file, papers>>

\* The boundary reads the nonce again, the guard wants the digest of what is
\* about to be sent, and the flow's error path is switched before the send.
Arm(n) ==
  /\ At("cleared")
  /\ n \in PendingNonces
  /\ AssertRubiconV13DeploySend(TRUE, "send", run.digest = DeployDigest(run.data, n))
  /\ run' = [run EXCEPT !.pc = "armed", !.started = TRUE]
  /\ UNCHANGED <<chain, file, papers>>

\* Mutant: the wallet chooses the nonce.
SendAnyNonce(t) ==
  /\ At("armed")
  /\ t.nonce \in PendingNonces /\ t.data = run.data /\ t.copy = 0

\* The transaction the wallet makes.
SendNonce(t) ==
  /\ At("armed")
  /\ t.nonce = run.nonce /\ t.data = run.data /\ t.copy = 0

\* The wallet hands it over, unless the nonce is spent by now.
Send(t) ==
  /\ SendNonce(t) /\ t.nonce >= Len(mined)
  /\ pool' = pool \cup {t}
  /\ run' = [run EXCEPT !.pc = "waiting", !.tx = t, !.sent = TRUE]
  /\ UNCHANGED <<mined, touched, file, papers>>

\* It answers with an error although it did.
SendUnheard(t) ==
  /\ SendNonce(t) /\ t.nonce >= Len(mined)
  /\ pool' = pool \cup {t}
  /\ run' = Ended(~run.started, TRUE)
  /\ UNCHANGED <<mined, touched, file, papers>>

\* The receipt is of what was mined under that nonce.  It must have created
\* a contract, at the predicted address.
Receipt ==
  /\ At("waiting")
  /\ run.tx.nonce < Len(mined)
  /\ Live(run.tx.nonce) /\ run.tx.nonce = run.nonce
  /\ run' = [run EXCEPT !.pc = "landed", !.tx = mined[run.nonce + 1].tx]
  /\ UNCHANGED <<chain, file, papers>>

-----------------------------------------------------------------------------
(* The rest of runFlow                                                     *)

\* Mutant: the bytes are not compared.
TxFitsAnyData(t, a, data, nonce) ==
  /\ Live(a) /\ t = mined[a + 1].tx
  /\ nonce # None => t.nonce = nonce

\* Mutant: a recovery is held to a nonce it does not know.
TxFitsKnownNonce(t, a, data, nonce) ==
  /\ Live(a) /\ t = mined[a + 1].tx
  /\ t.data = data
  /\ t.nonce = nonce

\* deployTxProblems finds none: a mined creation of that address by the
\* deploy key, with exactly these bytes and, when one is known, that nonce.
TxFits(t, a, data, nonce) ==
  /\ Live(a) /\ t = mined[a + 1].tx
  /\ t.data = data
  /\ nonce # None => t.nonce = nonce

\* fetchMinedDeploy, within its retries: the node knows the transaction and
\* its block.
FetchMinedDeploy(t) == \E k \in 1 .. Len(mined) : mined[k].tx = t

\* Step 4v.
FetchMined ==
  /\ At("begun") /\ run.mode = "verify"
  /\ FetchMinedDeploy(run.tx)
  /\ TxFits(run.tx, run.address, run.data, None)
  /\ run' = [run EXCEPT !.pc = "landed", !.started = TRUE]
  /\ UNCHANGED <<chain, file, papers>>

\* verifyDeployment: roles as asked for, and nothing done yet.
ReadsBack(t) ==
  /\ t.nonce \notin touched
  /\ t.data.usdc = run.data.usdc
  /\ t.data.owner = run.data.owner /\ t.data.guardian = run.data.guardian
  /\ DeployKey \notin {t.data.owner, t.data.guardian}

\* verifyWithRetry, within its retries: there is code, and it reads back.
VerifyWithRetry(t) == Live(t.nonce) /\ ReadsBack(t)

\* Step 5b.  A fresh deploy then looks at the transaction that was mined.
ReadBack ==
  /\ At("landed")
  /\ VerifyWithRetry(run.tx)
  /\ run.mode = "deploy" =>
       FetchMinedDeploy(run.tx) /\ TxFits(run.tx, run.tx.nonce, run.data, run.nonce)
  /\ run' = [run EXCEPT !.pc = "temp"]
  /\ UNCHANGED <<chain, file, papers>>

\* Step 6, in the file store: the temp file is only made if the file is as
\* it was read.
WriteTemp ==
  /\ At("temp")
  /\ file = run.snapshot
  /\ run' = [run EXCEPT !.pc = "rename"]
  /\ UNCHANGED <<chain, file, papers>>

\* Mutant: the address is taken from the options.
RecordAsked ==
  [address |-> run.address, tx |-> run.tx, owner |-> run.data.owner,
   guardian |-> run.data.guardian, commit |-> run.commit]

Record ==
  [address |-> run.tx.nonce, tx |-> run.tx, owner |-> run.data.owner,
   guardian |-> run.data.guardian, commit |-> run.commit]

\* Mutant: the second look is left out.
RenameBlind ==
  /\ At("rename")
  /\ file' = [run.snapshot EXCEPT !.v13 = Record]
  /\ run' = [run EXCEPT !.pc = "recorded"]
  /\ UNCHANGED <<chain, papers>>

\* The last look and the rename, which the threat model takes as one.
Rename ==
  /\ At("rename")
  /\ file = run.snapshot
  /\ file' = [run.snapshot EXCEPT !.v13 = Record]
  /\ run' = [run EXCEPT !.pc = "recorded"]
  /\ UNCHANGED <<chain, papers>>

\* The file has changed or cannot be written: the run prints the record for
\* a merge by hand.  (Bound: that is done at once or never, and it replaces
\* no record.)
WriteFails ==
  /\ At("temp") \/ At("rename")
  /\ \/ UNCHANGED file
     \/ file.v13 = None /\ file' = [file EXCEPT !.v13 = Record]
  /\ run' = Ended(FALSE, run.sent)
  /\ UNCHANGED <<chain, papers>>

\* Step 7.
PrintOwnerCalls ==
  /\ At("recorded")
  /\ ownerCalls' = BuildOwnerCalls(run.tx.nonce, run.data.usdc)
  /\ run' = Ended(FALSE, run.sent)
  /\ UNCHANGED <<chain, file, printed, announced>>

-----------------------------------------------------------------------------
(* The deploy key, the chain and the team (external)                       *)

\* The deploy key sends something else.
SendOther(n) ==
  /\ n \in PendingNonces
  /\ pool' = pool \cup {[nonce |-> n, data |-> Other, copy |-> 0]}
  /\ Cardinality(pool') <= MaxPool
  /\ UNCHANGED <<mined, touched, file, papers, run>>

\* What is pending is repriced, cancelled, or replaced by another build.
Replacements(data) ==
  {data, Other} \cup {[data EXCEPT !.src = src] : src \in IF data = Other THEN {} ELSE Sources}

Replace(t, data) ==
  /\ t \in pool
  /\ data \in Replacements(t.data)
  /\ pool' = pool \cup {[t EXCEPT !.data = data, !.copy = 1]}
  /\ Cardinality(pool') <= MaxPool
  /\ UNCHANGED <<mined, touched, file, papers, run>>

\* A transaction is mined, with success or not; those of its nonce are gone.
Mine(t, ok) ==
  /\ t \in pool /\ t.nonce = Len(mined)
  /\ mined' = Append(mined, [tx |-> t, ok |-> ok])
  /\ pool' = {u \in pool : u.nonce # t.nonce}
  /\ UNCHANGED <<touched, file, papers, run>>

Forget(t) ==
  /\ t \in pool
  /\ pool' = pool \ {t}
  /\ UNCHANGED <<mined, touched, file, papers, run>>

\* The owner or the guardian acts on a contract.
Touch(a) ==
  /\ Live(a)
  /\ touched' = touched \cup {a}
  /\ UNCHANGED <<mined, pool, file, papers, run>>

\* Somebody edits the rest of the file.
Edit ==
  /\ file.rest < MaxEdits
  /\ file' = [file EXCEPT !.rest = @ + 1]
  /\ UNCHANGED <<chain, papers, run>>

-----------------------------------------------------------------------------
\* One of the three modes of the command.
Started(given, i, head, src, v12) ==
  LET differs == OWNER_DIFFERS_FLAG \in given IN
  \/ ModeOf(given) = "dry" /\ BeginDryRun(i, head, src, v12)
  \/ /\ ModeOf(given) = "deploy"
     /\ \E d \in printed : BeginDeploy(i, head, src, v12, differs, d)
  \/ /\ ModeOf(given) = "verify"
     /\ \E t \in pool \cup {mined[k].tx : k \in 1 .. Len(mined)}, a \in Nonces, commit \in Commits :
          BeginVerify(i, head, src, v12, differs, t, a, commit)

\* What a started run may do next.
Steps ==
  \/ \E n \in Nonces : DryRun(n) \/ Clear(n) \/ Arm(n)
  \/ At("armed") /\ \E t \in Txs : Send(t) \/ SendUnheard(t)
  \/ Receipt \/ FetchMined \/ ReadBack \/ WriteTemp \/ Rename
  \/ WriteFails \/ PrintOwnerCalls
  \/ Fail \/ Crash

Next ==
  \/ \E i \in Intents, head \in Commits, src \in Sources :
       /\ Admitted(i, head, src)
       /\ \E given \in Commands, v12 \in {V12Owner, None} : Started(given, i, head, src, v12)
  \/ Steps
  \/ \E n \in Nonces : SendOther(n) \/ Touch(n)
  \/ \E t \in pool : Forget(t) \/ \E ok \in BOOLEAN : Mine(t, ok)
  \/ \E t \in pool : \E data \in Replacements(t.data) : Replace(t, data)
  \/ Edit

Spec == Init /\ [][Next]_vars

\* A run comes to an end; the operator recovers what landed; no call fails
\* for ever.
Recover(a) ==
  \E i \in Intents, head \in Commits :
    /\ Live(a)
    /\ mined[a + 1].tx.data = DeployData(SourcesOf[head], UsdcFromDeployments(file), i)
    /\ Admitted(i, head, SourcesOf[head])
    /\ BeginVerify(i, head, SourcesOf[head], V12Owner, TRUE, mined[a + 1].tx, a, head)
Fairness ==
  /\ WF_vars(Steps)
  /\ \A a \in Nonces : SF_vars(Recover(a))
  /\ SF_vars(FetchMined) /\ SF_vars(ReadBack) /\ SF_vars(WriteTemp) /\ SF_vars(Rename)
LiveSpec == Spec /\ Fairness

-----------------------------------------------------------------------------
(* Properties                                                              *)

\* An operator who does what the script prints never has two live V13
\* contracts, whatever was lost, replaced, repeated or never heard of.
AtMostOne == \A a, b \in Nonces : Live(a) /\ Live(b) => a = b

\* Whatever a run sends is, nonce included, what a dry run had shown.
ApprovedOnly == \A t \in pool \cup {mined[k].tx : k \in 1 .. Len(mined)} :
  t.data # Other /\ t.copy = 0 => [nonce |-> t.nonce, data |-> t.data] \in printed

\* The entry tells the truth: the transaction was mined, with the bytes of
\* that commit's sources and these roles, and made that contract; and what
\* the owner is asked to sign goes to that contract and its USDC.
RecordTrue ==
  /\ file.v13 # None =>
       LET r == file.v13
       IN  /\ Live(r.address) /\ mined[r.address + 1].tx = r.tx
           /\ r.tx.data = DeployData(SourcesOf[r.commit], r.tx.data.usdc, r)
  /\ ownerCalls # << >> =>
       /\ file.v13 # None
       /\ ownerCalls = BuildOwnerCalls(file.v13.address, file.v13.tx.data.usdc)

\* A run adds the entry to the file as it is at that moment, once; it loses
\* no edit and replaces no entry, and the contract it adds was built on the
\* USDC wrapper that very file names, however long ago it was deployed (a
\* merge by hand may add another).
FileKept == [][ file'.v13 # file.v13 =>
  /\ file.v13 = None /\ file'.rest = file.rest
  /\ Rename => file'.v13.tx.data.usdc = UsdcFromDeployments(file') ]_vars

\* A run that says it sent nothing has sent nothing.
RefusalHonest == Over /\ run.note => ~run.sent

\* A deploy that landed can always be recorded, whatever went wrong after
\* it, until somebody acts on the contract or the file names another USDC
\* wrapper: a recovery builds the bytes anew from the file as it is then.
RecoveryWorks == \A a \in Nonces :
  Live(a) /\ mined[a + 1].tx.data.guardian # V12Owner
    ~> \/ file.v13 # None \/ a \in touched
       \/ Live(a) /\ UsdcFromDeployments(file) # mined[a + 1].tx.data.usdc

-----------------------------------------------------------------------------
(* The inductive invariant                                                 *)

\* Nonces are used in order.
ChainSound ==
  /\ \A k \in 1 .. Len(mined) : mined[k].tx.nonce = k - 1
  /\ \A t \in pool : t.nonce >= Len(mined)

\* Creations come from announced sends, and at most one of those is open or
\* has succeeded.
Settled(u) == u < Len(mined) /\ ~Live(u)
Announced ==
  /\ \A t \in pool : t.data # Other => t.nonce \in announced
  /\ \A a \in Nonces : Live(a) => a \in announced
  /\ \A u, v \in announced : u = v \/ Settled(u) \/ Settled(v)

\* A creation of the deploy key that is mined as this run has it.
Found(t) == Live(t.nonce) /\ mined[t.nonce + 1].tx = t

RunSound ==
  ~Over =>
    /\ run.sent => run.started
    /\ run.pc = "armed" => run.started
    /\ run.snapshot.v13 = None
    /\ run.data.src = SourcesOf[run.commit]
    /\ run.data.usdc = UsdcFromDeployments(run.snapshot)
    /\ run.mode = "deploy" => run.digest \in printed
    /\ run.pc = "begun" /\ run.mode = "deploy" => MayRetry(run.digest.nonce)
    /\ run.pc \in {"cleared", "armed"} =>
         /\ run.mode = "deploy" /\ run.nonce \in announced
         /\ run.digest = [nonce |-> run.nonce, data |-> run.data]
    /\ run.pc = "waiting" => run.mode = "deploy" /\ run.nonce \in announced
    /\ run.pc = "landed" => Found(run.tx) /\ (run.mode = "verify" => run.tx.data = run.data)
    /\ run.mode = "verify" => run.address \in Nonces
    /\ run.pc \in {"landed", "temp", "rename", "recorded"} =>
         run.mode \in {"deploy", "verify"} /\ run.tx \in Txs
    /\ run.pc \in {"temp", "rename", "recorded"} => Found(run.tx) /\ run.tx.data = run.data
    /\ run.pc = "recorded" => file.v13 = Record

DeployInv ==
  /\ TypeOK /\ ChainSound /\ Announced /\ RunSound
  /\ ApprovedOnly /\ RecordTrue /\ RefusalHonest
=============================================================================
