------------------------ MODULE RubiconDeploy_proofs ------------------------
(***************************************************************************)
(* For any commits, people, intents and bounds: an operator who does what  *)
(* the script prints gets at most one contract, nothing is sent that no    *)
(* dry run showed, and the entry of the file is true and written once.     *)
(***************************************************************************)
EXTENDS RubiconDeploy, SequenceTheorems, TLAPS

LEMMA InitInv == Init => DeployInv
<1> SUFFICES ASSUME Init PROVE DeployInv
  OBVIOUS
<1>1. TypeOK
  BY DeployAssumption DEF Init, TypeOK, Files, Ended
<1>2. ChainSound /\ Announced
  <2>1. mined = << >> /\ Len(mined) = 0 /\ pool = {} /\ announced = {}
    BY DEF Init
  <2>2. \A a \in Nonces : ~Live(a)
    BY <2>1, DeployAssumption DEF Live, Nonces
  <2> QED BY <2>1, <2>2 DEF ChainSound, Announced
<1>3. RunSound /\ RefusalHonest /\ ApprovedOnly /\ RecordTrue
  BY DEF Init, RunSound, RefusalHonest, ApprovedOnly, RecordTrue, Over, Ended
<1> QED BY <1>1, <1>2, <1>3 DEF DeployInv

\* A run that goes on has all of its fields.
LEMMA Running ==
  ASSUME TypeOK, ~Over
  PROVE  run \in Runs
  BY DEF TypeOK, Over

LEMMA MinedTx ==
  ASSUME TypeOK, NEW k \in 1 .. Len(mined)
  PROVE  mined[k] \in [tx : Txs, ok : BOOLEAN] /\ mined[k].tx \in Txs
<1>1. mined \in Seq([tx : Txs, ok : BOOLEAN])
  BY DEF TypeOK
<1>2. mined[k] \in [tx : Txs, ok : BOOLEAN]
  BY <1>1, ElementOfSeq
<1> QED BY <1>2

-----------------------------------------------------------------------------
(* Steps of the process                                                    *)

\* A step that leaves the chain and the file alone.
LEMMA ProcessKeeps ==
  ASSUME DeployInv, UNCHANGED <<chain, file, announced, ownerCalls>>, printed \subseteq printed',
         TypeOK', RunSound', RefusalHonest'
  PROVE  DeployInv'
<1>1. ChainSound' /\ Announced' /\ RecordTrue'
  BY DEF DeployInv, chain, ChainSound, Announced, Settled, Live, RecordTrue
<1>2. ApprovedOnly'
  BY DEF DeployInv, chain, ApprovedOnly
<1> QED BY <1>1, <1>2 DEF DeployInv

\* The end of a run.
LEMMA EndKeeps ==
  ASSUME DeployInv, ~Over, NEW note \in BOOLEAN, NEW sent \in BOOLEAN, note => ~sent,
         run' = Ended(note, sent), TypeOK' \/ UNCHANGED <<chain, file, papers>>
  PROVE  TypeOK' /\ RunSound' /\ RefusalHonest'
  BY DEF DeployInv, TypeOK, RunSound, RefusalHonest, Over, Ended, chain, papers

\* What is admitted was compiled from the sources of its commit, for two
\* accounts without code.
LEMMA AdmittedFact ==
  ASSUME NEW i \in Intents, NEW head \in Commits, NEW src \in Sources,
         Admitted(i, head, src)
  PROVE  src = SourcesOf[head] /\ i.owner \in People /\ i.guardian \in People
<1>1. src = SourcesOf[head]
  <2>1. PICK c \in SourceOk : <<src, head>> = <<c.bytecode, c.head>>
    BY DEF Admitted, Builds
  <2>2. c.bytecode = SourcesOf[c.head]
    BY DEF SourceOk, Compiled, ContractsClean, CheckBuildProvenance, CheckDependencySources
  <2> QED BY <2>1, <2>2
<1>2. i.owner \in People /\ i.guardian \in People
  BY ChecksAssumption DEF Admitted, RolesFit, ValidateRoles, HasCode
<1> QED BY <1>1, <1>2

LEMMA BeginKeeps ==
  ASSUME DeployInv, NEW mode \in {"dry", "deploy", "verify"}, NEW i \in Intents,
         NEW head \in Commits, NEW src \in Sources, NEW commit \in Commits,
         NEW digest \in Digests \cup {None}, NEW t \in Txs \cup {None},
         NEW a \in Nonces \cup {None},
         mode = "deploy" => digest \in printed /\ MayRetry(digest.nonce),
         mode = "verify" => a \in Nonces,
         SourcesOf[commit] = SourcesOf[head],
         Admitted(i, head, src), Begin(mode, i, head, src, commit, digest, t, a)
  PROVE  DeployInv'
<1>1. /\ run' = [pc |-> "begun", mode |-> mode, snapshot |-> file,
                 data |-> DeployData(src, UsdcFromDeployments(file), i),
                 commit |-> commit, digest |-> digest, nonce |-> None, tx |-> t,
                 address |-> a, started |-> FALSE, sent |-> FALSE]
      /\ UNCHANGED <<chain, file, papers>>
      /\ file.v13 = None /\ UsdcFromDeployments(file) # None /\ src = SourcesOf[head]
  BY AdmittedFact DEF Begin
<1>2. /\ i.owner \in People /\ i.guardian \in People /\ file \in Files
      /\ UsdcFromDeployments(file) \in Wrappers
  BY <1>1, AdmittedFact, DeployAssumption DEF DeployInv, TypeOK, Files, UsdcFromDeployments
<1>3. run' \in Runs
  BY <1>1, <1>2 DEF Runs, Stages, Payloads, DeployData
<1>4. TypeOK'
  BY <1>1, <1>3 DEF DeployInv, TypeOK, chain, papers
<1>5. RunSound' /\ RefusalHonest'
  BY <1>1 DEF RunSound, RefusalHonest, Over, MayRetry, Live, chain, papers, DeployData
<1> QED BY <1>1, <1>4, <1>5, ProcessKeeps DEF papers

LEMMA StartKeeps ==
  ASSUME DeployInv, NEW given \in Commands, NEW i \in Intents, NEW head \in Commits, NEW src \in Sources,
         NEW v12 \in {V12Owner, None}, Admitted(i, head, src), Started(given, i, head, src, v12)
  PROVE  DeployInv'
<1>1. CASE BeginDryRun(i, head, src, v12)
  BY <1>1, BeginKeeps DEF BeginDryRun
<1>2. ASSUME NEW differs, NEW d \in printed,
             BeginDeploy(i, head, src, v12, differs, d)
      PROVE  DeployInv'
  <2>1. d \in Digests
    BY DEF DeployInv, TypeOK
  <2> QED BY <1>2, <2>1, BeginKeeps DEF BeginDeploy
<1>3. ASSUME NEW differs, NEW a \in Nonces, NEW commit \in Commits,
             NEW t \in pool \cup {mined[k].tx : k \in 1 .. Len(mined)},
             BeginVerify(i, head, src, v12, differs, t, a, commit)
      PROVE  DeployInv'
  <2>1. t \in Txs
    BY MinedTx DEF DeployInv, TypeOK
  <2> QED BY <1>3, <2>1, BeginKeeps DEF BeginVerify, SameSources
<1> QED BY <1>1, <1>2, <1>3 DEF Started

LEMMA DryRunKeeps ==
  ASSUME DeployInv, NEW n \in Nonces, DryRun(n)
  PROVE  DeployInv'
<1>1. ~Over /\ run \in Runs
  BY Running DEF DeployInv, DryRun, At, Over
<1>2. run' = Ended(FALSE, FALSE) /\ UNCHANGED <<chain, file, announced, ownerCalls>>
  BY DEF DryRun
<1>3. printed' = printed \cup {[nonce |-> n, data |-> run.data]} /\ printed' \subseteq Digests
  BY <1>1 DEF DryRun, DeployDigest, DeployInv, TypeOK, Digests, Runs
<1>4. TypeOK'
  BY <1>2, <1>3 DEF DeployInv, TypeOK, chain, Ended
<1>5. RunSound' /\ RefusalHonest'
  BY <1>1, <1>2, <1>4, EndKeeps
<1> QED BY <1>2, <1>3, <1>4, <1>5, ProcessKeeps

\* Announcing a nonce: every other one announced before is settled.
LEMMA ClearKeeps ==
  ASSUME DeployInv, NEW n \in Nonces, Clear(n)
  PROVE  DeployInv'
<1>1. ~Over /\ run \in Runs
  BY Running DEF DeployInv, Clear, At, Over
<1>2. /\ run.pc = "begun" /\ run.mode = "deploy"
      /\ run.digest = [nonce |-> n, data |-> run.data]
      /\ announced' = announced \cup {n}
      /\ run' = [run EXCEPT !.pc = "cleared", !.nonce = n]
      /\ UNCHANGED <<mined, pool, touched, file, printed, ownerCalls>>
  BY DEF Clear, At, chain, DeployDigest
<1>3. /\ run' \in Runs
      /\ run'.pc = "cleared" /\ run'.nonce = n /\ run'.mode = "deploy"
      /\ run'.data = run.data /\ run'.digest = run.digest /\ run'.commit = run.commit
      /\ run'.snapshot = run.snapshot /\ run'.sent = run.sent /\ run'.started = run.started
      /\ run'.address = run.address
  BY <1>1, <1>2 DEF Runs, Stages
<1>4. TypeOK'
  BY <1>2, <1>3 DEF DeployInv, TypeOK
<1>5. \A u \in announced : u = n \/ Settled(u)
  BY <1>1, <1>2 DEF DeployInv, RunSound, MayRetry, Settled
<1>6. Announced'
  BY <1>2, <1>5 DEF DeployInv, Announced, Settled, Live
<1>7. RunSound' /\ RefusalHonest'
  BY <1>1, <1>2, <1>3 DEF DeployInv, RunSound, RefusalHonest, Over
<1>8. ChainSound' /\ ApprovedOnly' /\ RecordTrue'
  BY <1>2 DEF DeployInv, ChainSound, ApprovedOnly, RecordTrue, Live
<1> QED BY <1>4, <1>6, <1>7, <1>8 DEF DeployInv

LEMMA ArmKeeps ==
  ASSUME DeployInv, NEW n \in Nonces, Arm(n)
  PROVE  DeployInv'
<1>1. ~Over /\ run \in Runs
  BY Running DEF DeployInv, Arm, At, Over
<1>2. /\ run.pc = "cleared" /\ run' = [run EXCEPT !.pc = "armed", !.started = TRUE]
      /\ UNCHANGED <<chain, file, papers>>
  BY DEF Arm, At
<1>3. /\ run' \in Runs
      /\ run'.pc = "armed" /\ run'.address = run.address /\ run'.nonce = run.nonce /\ run'.mode = run.mode
      /\ run'.data = run.data /\ run'.digest = run.digest /\ run'.commit = run.commit
      /\ run'.snapshot = run.snapshot /\ run'.started
  BY <1>1, <1>2 DEF Runs, Stages
<1>4. TypeOK'
  BY <1>2, <1>3 DEF DeployInv, TypeOK, chain, papers
<1>5. RunSound' /\ RefusalHonest'
  BY <1>1, <1>2, <1>3 DEF DeployInv, RunSound, RefusalHonest, Over, papers
<1> QED BY <1>2, <1>4, <1>5, ProcessKeeps DEF papers

\* What a send adds to the pool is announced and was shown.
LEMMA SentFact ==
  ASSUME DeployInv, NEW t \in Txs, SendNonce(t), t.nonce >= Len(mined), ~Over,
         pool' = pool \cup {t}, UNCHANGED <<mined, touched, file, papers>>
  PROVE  /\ ChainSound' /\ Announced' /\ ApprovedOnly' /\ RecordTrue'
         /\ t.nonce = run.nonce
<1>1. /\ t.nonce = run.nonce /\ t.data = run.data
      /\ run.nonce \in announced /\ run.digest \in printed
      /\ run.digest = [nonce |-> run.nonce, data |-> run.data]
  BY DEF SendNonce, At, DeployInv, RunSound
<1>2. ChainSound' /\ RecordTrue'
  BY DEF DeployInv, ChainSound, RecordTrue, Live, papers
<1>3. Announced'
  BY <1>1 DEF DeployInv, Announced, Settled, Live, papers
<1>4. ApprovedOnly'
  BY <1>1 DEF DeployInv, ApprovedOnly, papers
<1> QED BY <1>1, <1>2, <1>3, <1>4

LEMMA SendKeeps ==
  ASSUME DeployInv, NEW t \in Txs, Send(t) \/ SendUnheard(t)
  PROVE  DeployInv'
<1>1. ~Over /\ run \in Runs
  BY Running DEF DeployInv, Send, SendUnheard, SendNonce, At, Over
<1>2. /\ SendNonce(t) /\ t.nonce >= Len(mined) /\ pool' = pool \cup {t}
      /\ UNCHANGED <<mined, touched, file, papers>> /\ run.pc = "armed"
  BY DEF Send, SendUnheard, SendNonce, At
<1>3. ChainSound' /\ Announced' /\ ApprovedOnly' /\ RecordTrue' /\ t.nonce = run.nonce
  BY <1>1, <1>2, SentFact
<1>4. run.started /\ run.mode = "deploy" /\ run.nonce \in announced
  BY <1>1, <1>2 DEF DeployInv, RunSound
<1>5. CASE run' = [run EXCEPT !.pc = "waiting", !.tx = t, !.sent = TRUE]
  <2>1. /\ run' \in Runs
        /\ run'.pc = "waiting" /\ run'.mode = run.mode
        /\ run'.data = run.data /\ run'.digest = run.digest /\ run'.commit = run.commit
        /\ run'.snapshot = run.snapshot /\ run'.started = run.started
        /\ run'.nonce = run.nonce /\ run'.address = run.address
    BY <1>1, <1>5 DEF Runs, Stages
  <2>2. TypeOK'
    BY <1>2, <2>1 DEF DeployInv, TypeOK, papers
  <2>3. RunSound' /\ RefusalHonest'
    BY <1>1, <1>2, <1>4, <2>1 DEF DeployInv, RunSound, RefusalHonest, Over, papers
  <2> QED BY <1>3, <2>2, <2>3 DEF DeployInv
<1>6. CASE run' = Ended(~run.started, TRUE)
  <2>1. run' = Ended(FALSE, TRUE)
    BY <1>4, <1>6
  <2>2. TypeOK'
    BY <1>2, <2>1 DEF DeployInv, TypeOK, papers, Ended
  <2>3. RunSound' /\ RefusalHonest'
    BY <1>1, <2>1, <2>2, EndKeeps
  <2> QED BY <1>3, <2>2, <2>3 DEF DeployInv
<1> QED BY <1>5, <1>6 DEF Send, SendUnheard

\* What is mined under the nonce of a contract is its creation.
LEMMA LiveFound ==
  ASSUME DeployInv, NEW a \in Nonces, Live(a)
  PROVE  mined[a + 1].tx \in Txs /\ mined[a + 1].tx.nonce = a /\ Found(mined[a + 1].tx)
<1>1. a + 1 \in 1 .. Len(mined) /\ (a + 1) - 1 = a
  <2>1. a \in Nat /\ Len(mined) \in Nat /\ a < Len(mined)
    BY LenProperties DEF DeployInv, TypeOK, Nonces, Live
  <2> QED BY <2>1
<1>2. mined[a + 1].tx \in Txs
  BY <1>1, MinedTx DEF DeployInv
<1>3. mined[a + 1].tx.nonce = a
  BY <1>1 DEF DeployInv, ChainSound
<1> QED BY <1>2, <1>3 DEF Found

LEMMA ReceiptKeeps ==
  ASSUME DeployInv, Receipt
  PROVE  DeployInv'
<1>1. ~Over /\ run \in Runs /\ run.pc = "waiting" /\ run.mode = "deploy"
  BY Running DEF DeployInv, RunSound, Receipt, At, Over
<1>2. /\ run' = [run EXCEPT !.pc = "landed", !.tx = mined[run.nonce + 1].tx]
      /\ UNCHANGED <<chain, file, papers>>
      /\ Live(run.nonce) /\ run.tx.nonce < Len(mined) /\ run.tx.nonce = run.nonce
  BY DEF Receipt
<1>3. run.nonce \in Nonces
  BY <1>1 DEF DeployInv, RunSound, TypeOK
<1>4. mined[run.nonce + 1].tx \in Txs /\ Found(mined[run.nonce + 1].tx)
  BY <1>2, <1>3, LiveFound
<1>5. PICK t \in Txs : t = mined[run.nonce + 1].tx /\ Found(t)
  BY <1>4
<1>6. /\ run' \in Runs
      /\ run'.pc = "landed" /\ run'.address = run.address /\ run'.tx = t
      /\ run'.mode = run.mode /\ run'.sent = run.sent /\ run'.started = run.started
      /\ run'.data = run.data /\ run'.digest = run.digest /\ run'.commit = run.commit
      /\ run'.snapshot = run.snapshot
  BY <1>1, <1>2, <1>5 DEF Runs, Stages
<1>7. TypeOK'
  BY <1>2, <1>6 DEF DeployInv, TypeOK, chain, papers
<1>8. Found(t)'
  BY <1>2, <1>5 DEF Found, Live, chain
<1>9. RunSound' /\ RefusalHonest'
  BY <1>1, <1>2, <1>6, <1>8 DEF DeployInv, RunSound, RefusalHonest, Over, papers
<1> QED BY <1>2, <1>7, <1>9, ProcessKeeps DEF papers

\* A recovery starts from a creation with the bytes of its commit.
LEMMA FetchMinedKeeps ==
  ASSUME DeployInv, FetchMined
  PROVE  DeployInv'
<1>1. ~Over /\ run \in Runs /\ run.pc = "begun" /\ run.mode = "verify"
  BY Running DEF DeployInv, FetchMined, At, Over
<1>2. /\ run' = [run EXCEPT !.pc = "landed", !.started = TRUE]
      /\ UNCHANGED <<chain, file, papers>>
      /\ Live(run.address) /\ run.tx = mined[run.address + 1].tx /\ run.tx.data = run.data
  BY DEF FetchMined, TxFits
<1>3. run.address \in Nonces
  BY <1>1 DEF DeployInv, RunSound
<1>4. Found(run.tx) /\ run.tx \in Txs
  BY <1>2, <1>3, LiveFound
<1>5. /\ run' \in Runs
      /\ run'.pc = "landed" /\ run'.address = run.address /\ run'.tx = run.tx
      /\ run'.mode = run.mode /\ run'.sent = run.sent /\ run'.started
      /\ run'.data = run.data /\ run'.digest = run.digest /\ run'.commit = run.commit
      /\ run'.snapshot = run.snapshot
  BY <1>1, <1>2 DEF Runs, Stages
<1>6. TypeOK'
  BY <1>2, <1>5 DEF DeployInv, TypeOK, chain, papers
<1>7. Found(run.tx)'
  BY <1>2, <1>4, <1>5 DEF Found, Live, chain
<1>8. RunSound' /\ RefusalHonest'
  BY <1>1, <1>2, <1>4, <1>5, <1>7 DEF DeployInv, RunSound, RefusalHonest, Over, papers
<1> QED BY <1>2, <1>6, <1>8, ProcessKeeps DEF papers

\* A fresh deploy has compared the bytes by now, a recovery had before.
LEMMA ReadBackKeeps ==
  ASSUME DeployInv, ReadBack
  PROVE  DeployInv'
<1>1. ~Over /\ run \in Runs /\ run.pc = "landed" /\ run.mode \in {"deploy", "verify"}
  BY Running DEF DeployInv, RunSound, ReadBack, At, Over
<1>2. /\ run' = [run EXCEPT !.pc = "temp"]
      /\ UNCHANGED <<chain, file, papers>>
      /\ Found(run.tx) /\ run.tx.data = run.data
  BY <1>1 DEF ReadBack, TxFits, DeployInv, RunSound
<1>3. /\ run' \in Runs
      /\ run'.pc = "temp" /\ run'.address = run.address /\ run'.tx = run.tx
      /\ run'.mode = run.mode /\ run'.sent = run.sent /\ run'.started = run.started
      /\ run'.data = run.data /\ run'.digest = run.digest /\ run'.commit = run.commit
      /\ run'.snapshot = run.snapshot
  BY <1>1, <1>2 DEF Runs, Stages
<1>4. TypeOK'
  BY <1>2, <1>3 DEF DeployInv, TypeOK, chain, papers
<1>5. RunSound' /\ RefusalHonest'
  BY <1>1, <1>2, <1>3
     DEF DeployInv, RunSound, RefusalHonest, Over, chain, papers, Found, Live
<1> QED BY <1>2, <1>4, <1>5, ProcessKeeps DEF papers

LEMMA WriteTempKeeps ==
  ASSUME DeployInv, WriteTemp
  PROVE  DeployInv'
<1>1. ~Over /\ run \in Runs /\ run.pc = "temp"
  BY Running DEF DeployInv, WriteTemp, At, Over
<1>2. run' = [run EXCEPT !.pc = "rename"] /\ UNCHANGED <<chain, file, papers>>
  BY DEF WriteTemp
<1>3. /\ run' \in Runs
      /\ run'.pc = "rename" /\ run'.address = run.address /\ run'.tx = run.tx
      /\ run'.mode = run.mode /\ run'.sent = run.sent /\ run'.started = run.started
      /\ run'.data = run.data /\ run'.digest = run.digest /\ run'.commit = run.commit
      /\ run'.snapshot = run.snapshot
  BY <1>1, <1>2 DEF Runs, Stages
<1>4. TypeOK'
  BY <1>2, <1>3 DEF DeployInv, TypeOK, chain, papers
<1>5. RunSound' /\ RefusalHonest'
  BY <1>1, <1>2, <1>3
     DEF DeployInv, RunSound, RefusalHonest, Over, chain, papers, Found, Live
<1> QED BY <1>2, <1>4, <1>5, ProcessKeeps DEF papers

\* A true entry, by a run or by hand, in a file that has none.
LEMMA EntryKeeps ==
  ASSUME DeployInv, run \in Runs, run.pc \in {"temp", "rename"}, file.v13 = None,
         file' = [file EXCEPT !.v13 = Record], UNCHANGED <<chain, papers>>
  PROVE  /\ file' \in Files /\ file'.v13 = Record /\ file'.rest = file.rest
         /\ Record.tx = run.tx /\ RecordTrue'
<1>1. ~Over
  BY DEF Over
<1>2. /\ Found(run.tx) /\ run.tx.data = run.data
      /\ run.data.src = SourcesOf[run.commit]
      /\ run.tx \in Txs /\ run.tx.nonce \in Nonces
  BY <1>1 DEF DeployInv, RunSound, Txs
<1>3. /\ Record \in Records
      /\ Record.address = run.tx.nonce /\ Record.tx = run.tx
      /\ Record.owner = run.data.owner /\ Record.guardian = run.data.guardian
      /\ Record.commit = run.commit
  BY <1>2 DEF Record, Records, Runs, Payloads
<1>4. file \in Files
  BY DEF DeployInv, TypeOK
<1>5. file' \in Files /\ file'.v13 = Record /\ file'.rest = file.rest
  BY <1>3, <1>4 DEF Files
<1>6. ownerCalls' = << >>
  BY DEF DeployInv, RecordTrue, papers
<1>7. run.data = DeployData(SourcesOf[run.commit], run.data.usdc, Record)
  BY <1>2, <1>3 DEF Runs, Payloads, DeployData
<1>8. RecordTrue'
  BY <1>2, <1>3, <1>5, <1>6, <1>7 DEF RecordTrue, Found, Live, chain
<1> QED BY <1>3, <1>5, <1>8

\* The one step in which a run writes the entry.
LEMMA RenameKeeps ==
  ASSUME DeployInv, Rename
  PROVE  /\ DeployInv' /\ file.v13 = None /\ file'.rest = file.rest
         /\ file'.v13.tx.data.usdc = UsdcFromDeployments(file')
<1>1. ~Over /\ run \in Runs /\ run.pc = "rename"
  BY Running DEF DeployInv, Rename, At, Over
<1>2. /\ file = run.snapshot
      /\ file' = [file EXCEPT !.v13 = Record]
      /\ run' = [run EXCEPT !.pc = "recorded"]
      /\ UNCHANGED <<chain, papers>>
  BY DEF Rename
<1>3. /\ Found(run.tx) /\ run.tx.data = run.data /\ file.v13 = None
      /\ run.data.usdc = UsdcFromDeployments(file)
  BY <1>1, <1>2 DEF DeployInv, RunSound
<1>4. /\ file' \in Files /\ file'.v13 = Record /\ file'.rest = file.rest
      /\ Record.tx = run.tx /\ RecordTrue'
  BY <1>1, <1>2, <1>3, EntryKeeps
<1>5. /\ run' \in Runs
      /\ run'.pc = "recorded" /\ run'.address = run.address /\ run'.tx = run.tx
      /\ run'.mode = run.mode /\ run'.sent = run.sent /\ run'.started = run.started
      /\ run'.data = run.data /\ run'.digest = run.digest /\ run'.commit = run.commit
      /\ run'.snapshot = run.snapshot
  BY <1>1, <1>2 DEF Runs, Stages
<1>6. TypeOK'
  BY <1>2, <1>4, <1>5 DEF DeployInv, TypeOK, chain, papers
<1>7. ChainSound' /\ Announced' /\ ApprovedOnly'
  BY <1>2 DEF DeployInv, ChainSound, Announced, Settled, Live, ApprovedOnly, chain, papers
<1>8. Record' = Record
  BY <1>5 DEF Record
<1>9. RunSound' /\ RefusalHonest'
  BY <1>1, <1>2, <1>4, <1>5, <1>8
     DEF DeployInv, RunSound, RefusalHonest, Over, chain, papers, Found, Live
<1>10. file'.v13.tx.data.usdc = UsdcFromDeployments(file')
  BY <1>3, <1>4 DEF UsdcFromDeployments
<1> QED BY <1>3, <1>4, <1>6, <1>7, <1>9, <1>10 DEF DeployInv

\* The file may be left as it is, or get the entry by hand.
LEMMA WriteFailsKeeps ==
  ASSUME DeployInv, WriteFails
  PROVE  DeployInv' /\ (UNCHANGED file \/ (file.v13 = None /\ file'.rest = file.rest))
<1>1. ~Over /\ run \in Runs /\ run.pc \in {"temp", "rename"}
  BY Running DEF DeployInv, WriteFails, At, Over
<1>2. run' = Ended(FALSE, run.sent) /\ UNCHANGED <<chain, papers>> /\ run.sent \in BOOLEAN
  BY <1>1 DEF WriteFails, Runs
<1>3. CASE UNCHANGED file
  <2>1. TypeOK' /\ RunSound' /\ RefusalHonest'
    BY <1>1, <1>2, <1>3, EndKeeps
  <2> QED BY <1>2, <1>3, <2>1, ProcessKeeps DEF papers
<1>4. CASE file.v13 = None /\ file' = [file EXCEPT !.v13 = Record]
  <2>1. file' \in Files /\ file'.rest = file.rest /\ RecordTrue'
    BY <1>1, <1>2, <1>4, EntryKeeps
  <2>2. TypeOK'
    BY <1>2, <2>1 DEF DeployInv, TypeOK, chain, papers, Ended
  <2>3. RunSound' /\ RefusalHonest'
    BY <1>1, <1>2, <2>2, EndKeeps
  <2>4. ChainSound' /\ Announced' /\ ApprovedOnly'
    BY <1>2 DEF DeployInv, ChainSound, Announced, Settled, Live, ApprovedOnly, chain, papers
  <2> QED BY <1>4, <2>1, <2>2, <2>3, <2>4 DEF DeployInv
<1> QED BY <1>3, <1>4 DEF WriteFails

\* The entry is the one this run wrote, so the calls go to its contract.
LEMMA PrintOwnerCallsKeeps ==
  ASSUME DeployInv, PrintOwnerCalls
  PROVE  DeployInv'
<1>1. ~Over /\ run \in Runs /\ run.pc = "recorded"
  BY Running DEF DeployInv, PrintOwnerCalls, At, Over
<1>2. /\ ownerCalls' = BuildOwnerCalls(run.tx.nonce, run.data.usdc)
      /\ run' = Ended(FALSE, run.sent) /\ run.sent \in BOOLEAN
      /\ UNCHANGED <<mined, pool, touched, file, printed, announced>>
  BY <1>1 DEF PrintOwnerCalls, chain, Runs
<1>3. /\ file.v13 = Record /\ run.tx.data = run.data
      /\ run.tx \in Txs /\ run.tx.nonce \in Nonces /\ run.data.usdc \in Wrappers
  BY <1>1 DEF DeployInv, RunSound, Txs, Runs, Payloads
<1>4. Record.address = run.tx.nonce /\ Record.tx = run.tx /\ Record # None
  <2>1. Record \in Records /\ Record.address = run.tx.nonce /\ Record.tx = run.tx
    BY <1>1, <1>3 DEF Record, Records, Runs, Payloads
  <2> QED BY <2>1, RecordAssumption
<1>5. TypeOK'
  BY <1>2, <1>3 DEF DeployInv, TypeOK, Ended
<1>6. RunSound' /\ RefusalHonest'
  BY <1>1, <1>2, <1>5, EndKeeps
<1>7. RecordTrue'
  BY <1>2, <1>3, <1>4 DEF DeployInv, RecordTrue, Live
<1>8. ChainSound' /\ Announced' /\ ApprovedOnly'
  BY <1>2 DEF DeployInv, ChainSound, Announced, Settled, Live, ApprovedOnly
<1> QED BY <1>5, <1>6, <1>7, <1>8 DEF DeployInv

LEMMA StopKeeps ==
  ASSUME DeployInv, Fail \/ Crash
  PROVE  DeployInv'
<1>1. ~Over /\ run \in Runs
  BY Running DEF DeployInv, Fail, Crash
<1>2. UNCHANGED <<chain, file, papers>>
  BY DEF Fail, Crash
<1>3. run.sent \in BOOLEAN /\ run.started \in BOOLEAN /\ (run.sent => run.started)
  BY <1>1 DEF Runs, DeployInv, RunSound
<1>4. TypeOK' /\ RunSound' /\ RefusalHonest'
  <2>1. CASE run' = Ended(~run.started, run.sent)
    BY <1>1, <1>2, <1>3, <2>1, EndKeeps
  <2>2. CASE run' = Ended(FALSE, run.sent)
    BY <1>1, <1>2, <1>3, <2>2, EndKeeps
  <2> QED BY <2>1, <2>2 DEF Fail, Crash
<1> QED BY <1>2, <1>4, ProcessKeeps DEF papers

-----------------------------------------------------------------------------
(* Steps of the deploy key, the chain and the team                         *)

\* What a run knows does not depend on what is pending.
LEMMA PoolKeeps ==
  ASSUME DeployInv, UNCHANGED <<mined, touched, file, papers, run>>,
         pool' \subseteq Txs,
         \A t \in pool' : t.nonce >= Len(mined),
         \A t \in pool' \ pool : t.data = Other \/ (t.copy # 0 /\ t.nonce \in announced)
  PROVE  DeployInv'
<1>1. TypeOK' /\ ChainSound'
  BY DEF DeployInv, TypeOK, ChainSound, papers
<1>2. Announced'
  BY DEF DeployInv, Announced, Settled, Live, papers
<1>3. ApprovedOnly'
  BY DEF DeployInv, ApprovedOnly, papers
<1>4. RunSound'
  BY DEF DeployInv, RunSound, Over, MayRetry, Found, Live, papers, Record
<1>5. RecordTrue' /\ RefusalHonest'
  BY DEF DeployInv, RecordTrue, RefusalHonest, Over, Live, papers
<1> QED BY <1>1, <1>2, <1>3, <1>4, <1>5 DEF DeployInv

LEMMA SendOtherKeeps ==
  ASSUME DeployInv, NEW n \in Nonces, SendOther(n)
  PROVE  DeployInv'
<1> DEFINE t == [nonce |-> n, data |-> Other, copy |-> 0]
<1>1. pool' = pool \cup {t} /\ n >= Len(mined) /\ UNCHANGED <<mined, touched, file, papers, run>>
  BY DEF SendOther, PendingNonces
<1>2. t \in Txs /\ t.nonce = n /\ t.data = Other
  BY DEF Txs
<1>3. pool' \subseteq Txs
  BY <1>1, <1>2 DEF DeployInv, TypeOK
<1>4. \A u \in pool' : u.nonce >= Len(mined)
  BY <1>1, <1>2 DEF DeployInv, ChainSound
<1> QED BY <1>1, <1>2, <1>3, <1>4, PoolKeeps

\* Only what was a creation is replaced by one.
LEMMA ReplaceKeeps ==
  ASSUME DeployInv, NEW t \in pool, NEW data \in Replacements(t.data), Replace(t, data)
  PROVE  DeployInv'
<1> DEFINE u == [t EXCEPT !.data = data, !.copy = 1]
<1>1. pool' = pool \cup {u} /\ UNCHANGED <<mined, touched, file, papers, run>>
  BY DEF Replace
<1>2. t \in Txs /\ t.nonce >= Len(mined)
  BY DEF DeployInv, TypeOK, ChainSound
<1>4. data \in Payloads \cup {Other} /\ (data = Other \/ t.data # Other)
  BY <1>2 DEF Replacements, Txs, Payloads
<1>3. u \in Txs /\ u.nonce = t.nonce /\ u.data = data /\ u.copy = 1
  BY <1>2, <1>4 DEF Txs
<1> HIDE DEF u
<1>5. u.data = Other \/ u.nonce \in announced
  BY <1>3, <1>4 DEF DeployInv, Announced
<1>6. pool' \subseteq Txs
  BY <1>1, <1>3 DEF DeployInv, TypeOK
<1>7. \A v \in pool' : v.nonce >= Len(mined)
  BY <1>1, <1>2, <1>3 DEF DeployInv, ChainSound
<1>8. \A v \in pool' \ pool : v.data = Other \/ (v.copy # 0 /\ v.nonce \in announced)
  BY <1>1, <1>3, <1>5
<1> QED BY <1>1, <1>6, <1>7, <1>8, PoolKeeps

LEMMA ForgetKeeps ==
  ASSUME DeployInv, NEW t \in pool, Forget(t)
  PROVE  DeployInv'
<1>1. pool' \subseteq pool /\ UNCHANGED <<mined, touched, file, papers, run>>
  BY DEF Forget
<1>2. pool' \subseteq Txs /\ \A v \in pool' : v.nonce >= Len(mined)
  BY <1>1 DEF DeployInv, TypeOK, ChainSound
<1> QED BY <1>1, <1>2, PoolKeeps

\* The chain only grows.
LEMMA Grows ==
  ASSUME TypeOK, NEW t \in Txs, NEW ok \in BOOLEAN, t.nonce = Len(mined),
         mined' = Append(mined, [tx |-> t, ok |-> ok])
  PROVE  /\ mined' \in Seq([tx : Txs, ok : BOOLEAN])
         /\ Len(mined) \in Nat /\ Len(mined') = Len(mined) + 1
         /\ \A k \in 1 .. Len(mined) : mined'[k] = mined[k]
         /\ mined'[Len(mined) + 1] = [tx |-> t, ok |-> ok]
         /\ \A a \in Nonces : a < Len(mined) => (Live(a)' <=> Live(a))
<1>1. mined \in Seq([tx : Txs, ok : BOOLEAN]) /\ [tx |-> t, ok |-> ok] \in [tx : Txs, ok : BOOLEAN]
  BY DEF TypeOK
<1>2. /\ mined' \in Seq([tx : Txs, ok : BOOLEAN])
      /\ Len(mined) \in Nat /\ Len(mined') = Len(mined) + 1
      /\ \A k \in 1 .. Len(mined) : mined'[k] = mined[k]
      /\ mined'[Len(mined) + 1] = [tx |-> t, ok |-> ok]
  BY <1>1, AppendProperties, LenProperties
<1>3. \A a \in Nonces : a < Len(mined) => (Live(a)' <=> Live(a))
  <2> SUFFICES ASSUME NEW a \in Nonces, a < Len(mined) PROVE Live(a)' <=> Live(a)
    OBVIOUS
  <2>1. a + 1 \in 1 .. Len(mined) /\ a < Len(mined')
    BY <1>2 DEF Nonces
  <2> QED BY <1>2, <2>1 DEF Live
<1> QED BY <1>2, <1>3

LEMMA MineKeeps ==
  ASSUME DeployInv, NEW t \in pool, NEW ok \in BOOLEAN, Mine(t, ok)
  PROVE  DeployInv'
<1> DEFINE L == Len(mined)
<1>1. /\ t \in Txs /\ t.nonce = L /\ L \in Nonces
      /\ mined' = Append(mined, [tx |-> t, ok |-> ok])
      /\ pool' = {u \in pool : u.nonce # t.nonce}
      /\ UNCHANGED <<touched, file, printed, announced, ownerCalls, run>>
  BY DEF Mine, DeployInv, TypeOK, Txs, papers
<1>2. /\ mined' \in Seq([tx : Txs, ok : BOOLEAN])
      /\ L \in Nat /\ Len(mined') = L + 1
      /\ \A k \in 1 .. L : mined'[k] = mined[k]
      /\ mined'[L + 1] = [tx |-> t, ok |-> ok]
      /\ \A a \in Nonces : a < L => (Live(a)' <=> Live(a))
  BY <1>1, Grows DEF DeployInv
<1>3. \A a \in Nonces : a < L => a + 1 \in 1 .. L /\ mined'[a + 1] = mined[a + 1]
  BY <1>2 DEF Nonces
<1>4. TypeOK'
  BY <1>1, <1>2, DeployAssumption DEF DeployInv, TypeOK, Nonces
<1>5. ChainSound'
  <2>1. \A k \in 1 .. Len(mined') : mined'[k].tx.nonce = k - 1
    BY <1>1, <1>2 DEF DeployInv, ChainSound
  <2>2. \A u \in pool' : u.nonce >= Len(mined')
    BY <1>1, <1>2 DEF DeployInv, ChainSound, TypeOK, Txs, Nonces
  <2> QED BY <2>1, <2>2 DEF ChainSound
<1>6. \A a \in Nonces : Live(a)' => Live(a) \/ (a = L /\ t.data # Other)
  BY <1>2 DEF Live, Nonces
<1>7. \A a \in Nonces : Live(a) => Live(a)' /\ a < L
  BY <1>2 DEF Live
<1>8. \A u \in Nonces : Settled(u) => Settled(u)'
  BY <1>2 DEF Settled, Nonces
<1>9. Announced'
  <2>1. announced \subseteq Nonces
    BY DEF DeployInv, TypeOK
  <2>2. \A u \in pool' : u.data # Other => u.nonce \in announced'
    BY <1>1 DEF DeployInv, Announced
  <2>3. \A a \in Nonces : Live(a)' => a \in announced'
    BY <1>1, <1>6 DEF DeployInv, Announced
  <2>4. \A u, v \in announced' : u = v \/ Settled(u)' \/ Settled(v)'
    BY <1>1, <1>8, <2>1 DEF DeployInv, Announced
  <2> QED BY <2>2, <2>3, <2>4 DEF Announced
<1>10. ApprovedOnly'
  <2> SUFFICES ASSUME NEW u \in pool' \cup {mined'[k].tx : k \in 1 .. Len(mined')},
                      u.data # Other, u.copy = 0
               PROVE  [nonce |-> u.nonce, data |-> u.data] \in printed'
    BY DEF ApprovedOnly
  <2>1. u \in pool \cup {mined[k].tx : k \in 1 .. L}
    <3>1. CASE u \in pool'
      BY <1>1, <3>1
    <3>2. ASSUME NEW k \in 1 .. Len(mined'), u = mined'[k].tx
          PROVE  u \in pool \cup {mined[j].tx : j \in 1 .. L}
      <4>1. CASE k = L + 1
        BY <1>1, <1>2, <3>2, <4>1
      <4>2. CASE k \in 1 .. L
        BY <1>2, <3>2, <4>2
      <4> QED BY <1>2, <4>1, <4>2
    <3> QED BY <3>1, <3>2
  <2> QED BY <1>1, <2>1 DEF DeployInv, ApprovedOnly
<1>11. RecordTrue'
  <2> SUFFICES ASSUME file.v13 # None PROVE RecordTrue'
    BY <1>1 DEF DeployInv, RecordTrue
  <2>1. PICK a \in Nonces : a = file.v13.address
    BY DEF DeployInv, TypeOK, Files, Records
  <2>2. Live(a)' /\ a < L /\ mined[a + 1].tx = file.v13.tx
    BY <1>7, <2>1 DEF DeployInv, RecordTrue
  <2>3. mined'[a + 1] = mined[a + 1]
    BY <1>3, <2>1, <2>2
  <2> QED BY <1>1, <2>1, <2>2, <2>3 DEF DeployInv, RecordTrue
<1>12. RunSound'
  <2> SUFFICES ASSUME ~Over PROVE RunSound'
    BY <1>1 DEF RunSound, Over
  <2>1. run \in Runs
    BY Running DEF DeployInv
  <2>2. ASSUME run.tx \in Txs, Found(run.tx) PROVE Found(run.tx)'
    BY <1>1, <1>3, <1>7, <2>2 DEF Found, Txs
  <2>3. ASSUME run.digest \in Digests, MayRetry(run.digest.nonce)
        PROVE  MayRetry(run.digest.nonce)'
    <3>1. \A u \in announced : u = run.digest.nonce \/ Settled(u)
      BY <2>3 DEF MayRetry, Settled
    <3>2. \A u \in announced' : u = run.digest.nonce \/ Settled(u)'
      BY <1>1, <1>8, <3>1 DEF DeployInv, TypeOK
    <3> QED BY <1>1, <3>2 DEF MayRetry, Settled
  <2>4. run.mode = "deploy" => run.digest \in Digests
    BY DEF DeployInv, RunSound, TypeOK
  <2> QED BY <1>1, <2>2, <2>3, <2>4 DEF DeployInv, RunSound, Over, Record
<1>13. RefusalHonest'
  BY <1>1 DEF DeployInv, RefusalHonest, Over
<1> QED BY <1>4, <1>5, <1>9, <1>10, <1>11, <1>12, <1>13 DEF DeployInv

LEMMA TeamKeeps ==
  ASSUME DeployInv, Edit \/ \E a \in Nonces : Touch(a)
  PROVE  DeployInv'
<1>1. /\ UNCHANGED <<mined, pool, printed, announced, ownerCalls, run>>
      /\ touched' \subseteq Nonces /\ file' \in Files /\ file'.v13 = file.v13
  BY DeployAssumption DEF Edit, Touch, chain, papers, DeployInv, TypeOK, Files
<1>2. TypeOK' /\ ChainSound' /\ ApprovedOnly'
  BY <1>1 DEF DeployInv, TypeOK, ChainSound, ApprovedOnly
<1>3. Announced' /\ RecordTrue'
  BY <1>1 DEF DeployInv, Announced, RecordTrue, Settled, Live
<1>4. RunSound' /\ RefusalHonest'
  BY <1>1 DEF DeployInv, RunSound, RefusalHonest, Over, MayRetry, Found, Live, Record
<1> QED BY <1>2, <1>3, <1>4 DEF DeployInv

-----------------------------------------------------------------------------
(* The theorems                                                            *)

LEMMA NextInv == DeployInv /\ [Next]_vars => DeployInv'
<1> SUFFICES ASSUME DeployInv, [Next]_vars PROVE DeployInv'
  OBVIOUS
<1>1. ASSUME NEW given \in Commands, NEW i \in Intents, NEW head \in Commits,
             NEW src \in Sources, NEW v12 \in {V12Owner, None}, Admitted(i, head, src),
             Started(given, i, head, src, v12)
      PROVE  DeployInv'
  BY <1>1, StartKeeps
<1>2. CASE Steps
  BY <1>2, DryRunKeeps, ClearKeeps, ArmKeeps, SendKeeps, ReceiptKeeps, FetchMinedKeeps,
     ReadBackKeeps, WriteTempKeeps, RenameKeeps, WriteFailsKeeps, PrintOwnerCallsKeeps,
     StopKeeps DEF Steps
<1>3. ASSUME NEW n \in Nonces, SendOther(n) \/ Touch(n) PROVE DeployInv'
  BY <1>3, SendOtherKeeps, TeamKeeps
<1>4. ASSUME NEW t \in pool, Forget(t) \/ \E ok \in BOOLEAN : Mine(t, ok)
      PROVE  DeployInv'
  BY <1>4, ForgetKeeps, MineKeeps
<1>5. ASSUME NEW t \in pool, NEW data \in Replacements(t.data), Replace(t, data)
      PROVE  DeployInv'
  BY <1>5, ReplaceKeeps
<1>6. CASE Edit
  BY <1>6, TeamKeeps
<1>7. CASE UNCHANGED vars
  <2>1. UNCHANGED <<mined, pool, touched, file, printed, announced, ownerCalls, run>>
    BY <1>7 DEF vars
  <2>2. TypeOK' /\ ChainSound' /\ ApprovedOnly' /\ Announced' /\ RecordTrue'
    BY <2>1 DEF DeployInv, TypeOK, ChainSound, ApprovedOnly, Announced, RecordTrue, Settled, Live
  <2>3. RunSound' /\ RefusalHonest'
    BY <2>1 DEF DeployInv, RunSound, RefusalHonest, Over, MayRetry, Found, Live, Record
  <2> QED BY <2>2, <2>3 DEF DeployInv
<1> QED BY <1>1, <1>2, <1>3, <1>4, <1>5, <1>6, <1>7 DEF Next

\* The parts of DeployInv hold in every state a run, the deploy key, the
\* chain and the team can get to.
THEOREM DeployInvariant == Spec => []DeployInv
<1> QED BY InitInv, NextInv, PTL DEF Spec

\* All values are of their types.
THEOREM DeployTypes == Spec => []TypeOK
<1>1. DeployInv => TypeOK
  BY DEF DeployInv
<1> QED BY <1>1, DeployInvariant, PTL

\* Two contracts of the deploy key are one: both are announced, and of two
\* announced nonces one has settled.
THEOREM NeverTwo == Spec => []AtMostOne
<1>1. DeployInv => AtMostOne
  BY DEF DeployInv, Announced, Settled, AtMostOne
<1> QED BY <1>1, DeployInvariant, PTL

\* Nothing is sent by a run that no dry run had shown.
THEOREM SendsApproved == Spec => []ApprovedOnly
<1>1. DeployInv => ApprovedOnly
  BY DEF DeployInv
<1> QED BY <1>1, DeployInvariant, PTL

\* The entry is true of the chain.
THEOREM RecordIsTrue == Spec => []RecordTrue
<1>1. DeployInv => RecordTrue
  BY DEF DeployInv
<1> QED BY <1>1, DeployInvariant, PTL

\* A refusal that says nothing was sent is right.
THEOREM RefusalIsHonest == Spec => []RefusalHonest
<1>1. DeployInv => RefusalHonest
  BY DEF DeployInv
<1> QED BY <1>1, DeployInvariant, PTL

\* The entry is written once, into the file as it is then: the file is the
\* snapshot, which had none, and the bytes were made from the snapshot.
THEOREM FileIsKept == Spec => FileKept
<1> DEFINE Kept == file'.v13 # file.v13 =>
             /\ file.v13 = None /\ file'.rest = file.rest
             /\ Rename => file'.v13.tx.data.usdc = UsdcFromDeployments(file')
<1>1. DeployInv /\ [Next]_vars => [Kept]_vars
  <2> SUFFICES ASSUME DeployInv, Next PROVE Kept
    BY DEF vars
  <2>1. CASE Rename
    BY <2>1, RenameKeeps
  <2>2. CASE Edit
    BY <2>2 DEF Edit, DeployInv, TypeOK, Files
  <2>3. CASE UNCHANGED file
    BY <2>3
  <2>9. ASSUME WriteFails, ~Rename PROVE Kept
    BY <2>9, WriteFailsKeeps
  <2>4. ASSUME NEW given \in Commands, NEW i \in Intents, NEW head \in Commits,
               NEW src \in Sources, NEW v12 \in {V12Owner, None},
               Admitted(i, head, src), Started(given, i, head, src, v12)
        PROVE  UNCHANGED file
    BY <2>4 DEF Started, BeginDryRun, BeginDeploy, BeginVerify, Begin
  <2>5. Steps => Rename \/ WriteFails \/ UNCHANGED file
    BY DEF Steps, DryRun, Clear, Arm, Send, SendUnheard, Receipt, FetchMined, ReadBack,
           WriteTemp, PrintOwnerCalls, Fail, Crash
  <2>6. ASSUME NEW n \in Nonces, SendOther(n) \/ Touch(n) PROVE UNCHANGED file
    BY <2>6 DEF SendOther, Touch
  <2>7. ASSUME NEW t \in pool, Forget(t) \/ \E ok \in BOOLEAN : Mine(t, ok)
        PROVE  UNCHANGED file
    BY <2>7 DEF Forget, Mine
  <2>8. ASSUME NEW t \in pool, NEW data \in Replacements(t.data), Replace(t, data)
        PROVE  UNCHANGED file
    BY <2>8 DEF Replace
  <2> QED BY <2>1, <2>2, <2>3, <2>4, <2>5, <2>6, <2>7, <2>8, <2>9 DEF Next
<1> QED BY <1>1, DeployInvariant, PTL DEF Spec, FileKept
=============================================================================
