------------------------- MODULE OracleRecords_proofs -------------------------
(***************************************************************************)
(* For any seeds, terminals, command lines and number of gateways: the     *)
(* recorded block belongs to one gateway, and the published history counts *)
(* down and names who replaced whom.                                       *)
(***************************************************************************)
EXTENDS OracleRecords, SequenceTheorems, TLAPS

(* The history of a contract                                               *)

LEMMA MajorsTop ==
  ASSUME NEW vs, History(vs)
  PROVE  NextMajor(vs) \in Nat \ {0} /\ \A i \in 1 .. Len(vs) : NextMajor(vs) > vs[i].major
<1> DEFINE majors == {0} \cup {vs[i].major : i \in 1 .. Len(vs)}
<1>1. Len(vs) \in Nat /\ \A i \in 1 .. Len(vs) : vs[i] \in Versions
  BY ElementOfSeq DEF History
<1>2. \A i \in 1 .. Len(vs) : vs[i].major \in Nat /\ vs[i].major > 0
  BY <1>1 DEF Versions
<1>3. \E m \in majors : \A k \in majors : k <= m
  <2>1. CASE Len(vs) = 0
    BY <2>1
  <2>2. CASE Len(vs) # 0
    <3>1. 1 \in 1 .. Len(vs) /\ vs[1].major \in majors
      BY <1>1, <2>2
    <3>2. \A i \in 1 .. Len(vs) : vs[i].major <= vs[1].major
      BY <1>2, <3>1 DEF History
    <3> QED BY <1>2, <3>1, <3>2
  <2> QED BY <2>1, <2>2
<1> DEFINE top == CHOOSE m \in majors : \A k \in majors : k <= m
<1>4. top \in majors /\ \A k \in majors : k <= top
  BY <1>3
<1>5. NextMajor(vs) = 1 + top
  BY DEF NextMajor
<1>6. top \in Nat
  <2>1. majors \subseteq Nat
    BY <1>2
  <2> HIDE DEF majors, top
  <2> QED BY <1>4, <2>1
<1> HIDE DEF top
<1>7. \A i \in 1 .. Len(vs) : vs[i].major <= top
  BY <1>4
<1> QED BY <1>2, <1>5, <1>6, <1>7

\* The newest version goes in front, all others are retired.
LEMMA UpdateSound ==
  ASSUME NEW vs, NEW a \in Nat, History(vs)
  PROVE  LET us == Update(vs, a) IN History(us) /\ us # << >> /\ us[1].address = a
<1>1. Len(vs) \in Nat /\ \A i \in 1 .. Len(vs) : vs[i] \in Versions
  BY ElementOfSeq DEF History
<1>2. CASE \E i \in LiveIn(vs) : vs[i].address = a /\ \A j \in LiveIn(vs) : i <= j
  <2>1. Update(vs, a) = vs
    BY <1>2 DEF Update
  <2>2. 1 \in 1 .. Len(vs) /\ vs[1].address = a
    BY <1>2 DEF LiveIn, History
  <2> QED BY <1>1, <2>1, <2>2
<1>3. CASE ~(\E i \in LiveIn(vs) : vs[i].address = a /\ \A j \in LiveIn(vs) : i <= j)
  <2> DEFINE v  == Version(a, NextMajor(vs))
             rs == Retire(vs, a)
             us == <<v>> \o rs
  <2>1. Update(vs, a) = us
    BY <1>3 DEF Update
  <2>2. v \in Versions /\ v.address = a /\ v.status = "live" /\ v.major = NextMajor(vs)
    BY MajorsTop DEF Version, Versions
  <2>3. ASSUME NEW i \in 1 .. Len(vs)
        PROVE  /\ rs[i] \in Versions /\ rs[i].status = "retired"
               /\ rs[i].address = vs[i].address /\ rs[i].major = vs[i].major
               /\ rs[i].replacedBy = IF i = 1 THEN a ELSE vs[i].replacedBy
    <3>1. vs[i] \in Versions /\ (vs[i].status = "live" <=> i = 1)
      BY <1>1 DEF History
    <3>2. rs[i] = IF i = 1 THEN [vs[i] EXCEPT !.status = "retired", !.replacedBy = a] ELSE vs[i]
      BY <3>1 DEF Retire
    <3> QED BY <3>1, <3>2 DEF Versions
  <2>4. rs \in Seq(Versions) /\ Len(rs) = Len(vs)
    <3>1. rs \in [1 .. Len(vs) -> Versions]
      BY <2>3 DEF Retire
    <3> QED BY <1>1, <3>1
  <2> HIDE DEF v, rs
  <2>5. <<v>> \in Seq(Versions) /\ Len(<<v>>) = 1 /\ <<v>>[1] = v
    BY <2>2
  <2>6. us \in Seq(Versions) /\ Len(us) = Len(vs) + 1
    BY <1>1, <2>4, <2>5, ConcatProperties
  <2>7. us[1] = v /\ \A i \in 2 .. Len(us) : us[i] = rs[i - 1]
    BY <1>1, <2>4, <2>5, <2>6, ConcatProperties
  <2> HIDE DEF us
  <2>8. ASSUME NEW i \in 1 .. Len(us) PROVE us[i].status = "live" <=> i = 1
    <3>1. CASE i = 1
      BY <2>2, <2>7, <3>1
    <3>2. CASE i # 1
      <4>1. i - 1 \in 1 .. Len(vs) /\ us[i] = rs[i - 1]
        BY <1>1, <2>6, <2>7, <3>2
      <4> QED BY <2>3, <3>2, <4>1
    <3> QED BY <3>1, <3>2
  <2>9. ASSUME NEW i \in 1 .. Len(us), NEW j \in 1 .. Len(us), i < j
        PROVE  us[i].major > us[j].major
    <3>1. j - 1 \in 1 .. Len(vs) /\ us[j].major = vs[j - 1].major
      BY <1>1, <2>3, <2>6, <2>7, <2>9
    <3>2. CASE i = 1
      BY <2>2, <2>7, <3>1, <3>2, MajorsTop
    <3>3. CASE i # 1
      <4>1. i - 1 \in 1 .. Len(vs) /\ us[i].major = vs[i - 1].major /\ i - 1 < j - 1
        BY <1>1, <2>3, <2>6, <2>7, <2>9, <3>3
      <4> QED BY <3>1, <4>1 DEF History
    <3> QED BY <3>2, <3>3
  <2>10. ASSUME NEW i \in 1 .. Len(us), i > 1
         PROVE  us[i].replacedBy = us[i - 1].address
    <3>1. i - 1 \in 1 .. Len(vs) /\ us[i] = rs[i - 1]
      BY <1>1, <2>6, <2>7, <2>10
    <3>2. CASE i = 2
      BY <2>2, <2>3, <2>7, <3>1, <3>2
    <3>3. CASE i # 2
      <4>1. i - 2 \in 1 .. Len(vs) /\ i - 1 > 1 /\ us[i - 1] = rs[i - 2] /\ (i - 1) - 1 = i - 2
        BY <1>1, <2>6, <2>7, <2>10, <3>3
      <4>2. rs[i - 1].replacedBy = vs[i - 1].replacedBy /\ rs[i - 2].address = vs[i - 2].address
        BY <2>3, <3>1, <3>3, <4>1
      <4>3. vs[i - 1].replacedBy = vs[i - 2].address
        BY <3>1, <4>1 DEF History
      <4> QED BY <3>1, <4>1, <4>2, <4>3
    <3> QED BY <3>2, <3>3
  <2>11. us # << >> /\ us[1].address = a
    BY <1>1, <2>2, <2>6, <2>7
  <2> QED BY <2>1, <2>6, <2>8, <2>9, <2>10, <2>11 DEF History
<1> QED BY <1>2, <1>3

-----------------------------------------------------------------------------
(* The steps                                                               *)

\* The chain only ever gains factories and adapters.
Grows == factories' \in Nat /\ factories <= factories' /\ adapters \subseteq adapters'

LEMMA RunStays ==
  ASSUME factories \in Nat, Grows, NEW r, RunTrue(r)
  PROVE  RunTrue(r)'
BY DEF Grows, RunTrue, Of

LEMMA IdleTrue == RunTrue(Idle)'
BY DEF RunTrue, Idle

LEMMA FileStays ==
  ASSUME OracleInv, Grows, UNCHANGED file
  PROVE  FileTrue'
BY DEF OracleInv, Grows, FileTrue, HasGateway, Of

\* One terminal moves.
LEMMA GoesKeeps ==
  ASSUME OracleInv, Grows, NEW p \in Ops, NEW r, Goes(p, r), RunTrue(r)', FileTrue',
         UNCHANGED <<contracts, oracle>>
  PROVE  OracleInv'
<1>1. run' = [q \in Ops |-> run'[q]] /\ run'[p] = r /\ \A q \in Ops \ {p} : run'[q] = run[q]
  BY DEF Goes, OracleInv
<1>2. ASSUME NEW q \in Ops PROVE RunTrue(run[q])'
  <2>1. CASE q = p
    BY <1>1, <2>1 DEF RunTrue, Of
  <2>2. CASE q # p
    <3>1. RunTrue(run[q]) /\ run'[q] = run[q]
      BY <1>1, <2>2 DEF OracleInv
    <3> QED BY <3>1, RunStays DEF OracleInv, RunTrue, Of
  <2> QED BY <2>1, <2>2
<1>3. \A n \in MANAGED_CONTRACTS :
        /\ History(contracts[n])'
        /\ oracle' # None => contracts'[n] # << >> /\ contracts'[n][1].address = oracle'
  BY DEF OracleInv, History
<1> QED BY <1>1, <1>2, <1>3 DEF OracleInv, Grows

\* No terminal moves, nor does the registry.
LEMMA Still ==
  ASSUME OracleInv, UNCHANGED <<factories, adapters>>
  PROVE  Grows
BY DEF OracleInv, Grows

LEMMA InitInv == Init => OracleInv
<1> SUFFICES ASSUME Init PROVE OracleInv
  OBVIOUS
<1>1. \A p \in Ops : RunTrue(run[p])
  BY DEF Init, RunTrue, Idle
<1>2. FileTrue
  BY DEF Init, FileTrue, HasGateway
<1>3. History(NoVersions)
  BY DEF History, NoVersions
<1> QED BY <1>1, <1>2, <1>3 DEF Init, OracleInv

\* The deployment of a gateway.
LEMMA DeploymentKeeps ==
  ASSUME OracleInv, NEW p \in Ops,
         (\E force \in BOOLEAN : StartDeploy(p, force)) \/ DeployGateway(p) \/ RecordGateway(p)
  PROVE  OracleInv'
<1>1. CASE \E force \in BOOLEAN : StartDeploy(p, force)
  <2>1. PICK r : r = [Idle EXCEPT !.pc = "deploy"]
    OBVIOUS
  <2>2. Goes(p, r) /\ UNCHANGED <<factories, adapters, file, contracts, oracle>>
    BY <1>1, <2>1 DEF StartDeploy
  <2>3. RunTrue(r)'
    BY <2>1 DEF RunTrue, Idle
  <2> QED BY <2>2, <2>3, Still, FileStays, GoesKeeps
<1>2. CASE DeployGateway(p)
  <2>1. PICK r : r = [Idle EXCEPT !.pc = "record", !.factory = factories + 1]
    OBVIOUS
  <2>2. Goes(p, r) /\ factories' = factories + 1 /\ UNCHANGED <<adapters, file, contracts, oracle>>
    BY <1>2, <2>1 DEF DeployGateway
  <2>3. Grows
    BY <2>2 DEF OracleInv, Grows
  <2>4. r = [pc |-> "record", factory |-> factories + 1, got |-> {}, at |-> 0]
    BY <2>1 DEF Idle
  <2>5. RunTrue(r)'
    BY <2>2, <2>4 DEF RunTrue, OracleInv
  <2> QED BY <2>2, <2>3, <2>5, FileStays, GoesKeeps
<1>3. CASE RecordGateway(p)
  <2>1. run[p].factory \in 1 .. factories
    BY <1>3 DEF RecordGateway, At, OracleInv, RunTrue
  <2>2. FileTrue'
    BY <1>3, <2>1 DEF RecordGateway, FileTrue, Block, HasGateway
  <2> QED BY <1>3, <2>2, Still, IdleTrue, GoesKeeps DEF RecordGateway
<1> QED BY <1>1, <1>2, <1>3

\* A run of the seeding that goes on, with what it found among its results.
LEMMA AdvanceKeeps ==
  ASSUME OracleInv, Grows, NEW p \in Ops, run[p].pc \in {"look", "create"},
         NEW found, found \subseteq {Current(run[p])} \cap adapters',
         Goes(p, Advance(run[p], found)), UNCHANGED <<file, contracts, oracle>>
  PROVE  OracleInv'
<1>1. PICK o : o = run[p]
  OBVIOUS
<1>2. PICK r : r = Advance(o, found)
  OBVIOUS
<1>3. o = [pc |-> o.pc, factory |-> o.factory, got |-> o.got, at |-> o.at]
      /\ o.factory \in 1 .. factories /\ o.got \subseteq Of(o.factory)
  BY <1>1 DEF OracleInv, RunTrue
<1>4. \A f \in found : f \in adapters' /\ f.factory = o.factory
  BY <1>1 DEF Current, FeedOf
<1>5. r.pc = "look" /\ r.factory = o.factory /\ r.got = o.got \cup found
      /\ r = [pc |-> r.pc, factory |-> r.factory, got |-> r.got, at |-> r.at]
  BY <1>2, <1>3 DEF Advance
<1>6. RunTrue(r)'
  BY <1>3, <1>4, <1>5 DEF RunTrue, Grows, Of, OracleInv
<1> QED BY <1>1, <1>2, <1>6, FileStays, GoesKeeps

LEMMA SeedingKeeps ==
  ASSUME OracleInv, NEW p \in Ops,
         StartSeeding(p) \/ LookUp(p) \/ Create(p) \/ SeedFails(p) \/ RecordFeeds(p)
  PROVE  OracleInv'
<1>1. CASE StartSeeding(p)
  <2>1. PICK r : r = [Idle EXCEPT !.pc = "look", !.factory = file.factory,
                                  !.at = TaskFrom(file.factory, {}, 1)]
    OBVIOUS
  <2>2. Goes(p, r) /\ HasGateway /\ UNCHANGED <<factories, adapters, file, contracts, oracle>>
    BY <1>1, <2>1 DEF StartSeeding
  <2>3. file.factory \in 1 .. factories
    BY <2>2 DEF OracleInv, FileTrue
  <2>4. r.pc = "look" /\ r.factory = file.factory /\ r.got = {}
        /\ r = [pc |-> r.pc, factory |-> r.factory, got |-> r.got, at |-> r.at]
    BY <2>1 DEF Idle
  <2>5. RunTrue(r)'
    BY <2>2, <2>3, <2>4 DEF RunTrue
  <2> QED BY <2>2, <2>5, Still, FileStays, GoesKeeps
<1>2. CASE LookUp(p)
  <2>1. run[p].pc \in {"look", "create"} /\ UNCHANGED <<factories, adapters, file, contracts, oracle>>
    BY <1>2 DEF LookUp, Working, At
  <2>2. CASE Current(run[p]) \in adapters
    <3>1. Goes(p, Advance(run[p], {Current(run[p])}))
      BY <1>2, <2>2 DEF LookUp
    <3> QED BY <2>1, <2>2, <3>1, Still, AdvanceKeeps
  <2>3. CASE Current(run[p]) \notin adapters
    <3>1. PICK o, r : o = run[p] /\ r = [o EXCEPT !.pc = "create"]
      OBVIOUS
    <3>2. Goes(p, r)
      BY <1>2, <2>3, <3>1 DEF LookUp
    <3>3. o = [pc |-> o.pc, factory |-> o.factory, got |-> o.got, at |-> o.at]
          /\ o.factory \in 1 .. factories /\ o.got \subseteq Of(o.factory)
      BY <2>1, <3>1 DEF OracleInv, RunTrue
    <3>4. RunTrue(r)'
      BY <2>1, <3>1, <3>3 DEF RunTrue, Of
    <3> QED BY <2>1, <3>2, <3>4, Still, FileStays, GoesKeeps
  <2> QED BY <2>2, <2>3
<1>3. CASE Create(p)
  <2>1. run[p].pc \in {"look", "create"} /\ UNCHANGED <<factories, file, contracts, oracle>>
    BY <1>3 DEF Create, At
  <2>2. \/ adapters' = adapters \cup {Current(run[p])} /\ Goes(p, Advance(run[p], {Current(run[p])}))
        \/ adapters \subseteq adapters' /\ Goes(p, Advance(run[p], {}))
    BY <1>3 DEF Create
  <2>3. Grows
    BY <2>1, <2>2 DEF Grows, OracleInv
  <2> QED BY <2>1, <2>2, <2>3, AdvanceKeeps
<1>4. CASE SeedFails(p)
  <2>1. run[p].pc \in {"look", "create"} /\ Goes(p, Advance(run[p], {}))
        /\ UNCHANGED <<factories, adapters, file, contracts, oracle>>
    BY <1>4 DEF SeedFails, Working, At
  <2> QED BY <2>1, Still, AdvanceKeeps
<1>5. CASE RecordFeeds(p)
  <2>1. run[p].factory \in 1 .. factories /\ run[p].got \subseteq Of(run[p].factory)
    BY <1>5 DEF RecordFeeds, At, OracleInv, RunTrue
  <2>2. FileTrue'
    BY <1>5, <2>1 DEF RecordFeeds, FileTrue, Block, HasGateway, Of
  <2> QED BY <1>5, <2>2, Still, IdleTrue, GoesKeeps DEF RecordFeeds
<1> QED BY <1>1, <1>2, <1>3, <1>4, <1>5

LEMMA CrashKeeps ==
  ASSUME OracleInv, NEW p \in Ops, Crash(p)
  PROVE  OracleInv'
BY Still, FileStays, IdleTrue, GoesKeeps DEF Crash

\* The registry is published: every managed contract gets the factory.
LEMMA EmitKeeps ==
  ASSUME OracleInv, EmitRegistryUpdate
  PROVE  OracleInv'
<1>1. file.factory \in Nat
  BY DEF EmitRegistryUpdate, OracleInv, FileTrue
<1>2. ASSUME NEW n \in MANAGED_CONTRACTS
      PROVE  /\ History(contracts'[n]) /\ contracts'[n] # << >>
             /\ contracts'[n][1].address = oracle'
  <2>1. PICK vs : vs = contracts[n]
    OBVIOUS
  <2>2. History(vs) /\ contracts'[n] = Update(vs, file.factory) /\ oracle' = file.factory
    BY <2>1 DEF EmitRegistryUpdate, OracleInv, BuildContracts, BuildOracle
  <2> QED BY <1>1, <2>2, UpdateSound
<1>3. FileTrue' /\ \A p \in Ops : RunTrue(run[p])'
  BY DEF EmitRegistryUpdate, OracleInv, FileTrue, HasGateway, RunTrue, Of
<1>4. \A n \in MANAGED_CONTRACTS : History(contracts[n])'
  BY <1>2 DEF History
<1> QED BY <1>2, <1>3, <1>4 DEF EmitRegistryUpdate, OracleInv

LEMMA StepKeeps == OracleInv /\ [Next]_vars => OracleInv'
<1> SUFFICES ASSUME OracleInv, [Next]_vars PROVE OracleInv'
  OBVIOUS
<1>1. CASE UNCHANGED vars \/ GetsHealthy
  <2>1. UNCHANGED <<factories, adapters, file, run, contracts, oracle>>
    BY <1>1 DEF vars, GetsHealthy
  <2> QED BY <2>1 DEF OracleInv, FileTrue, HasGateway, RunTrue, Of, History
<1>2. CASE EmitRegistryUpdate
  BY <1>2, EmitKeeps
<1>3. CASE \E p \in Ops : \/ \E force \in BOOLEAN : StartDeploy(p, force)
                         \/ StartSeeding(p) \/ Step(p) \/ SeedFails(p) \/ Crash(p)
  BY <1>3, DeploymentKeeps, SeedingKeeps, CrashKeeps DEF Step
<1> QED BY <1>1, <1>2, <1>3 DEF Next

LEMMA OracleInvariant == Spec => []OracleInv
BY InitInv, StepKeeps, PTL DEF Spec

-----------------------------------------------------------------------------
\* However scripts overlap, the block that is recorded is of one gateway.
THEOREM AlwaysOneGateway == Spec => []OneGateway
<1>1. OracleInv => OneGateway
  BY DEF OracleInv, FileTrue, OneGateway, Of
<1> QED BY <1>1, OracleInvariant, PTL

\* Whatever is published when, the history of a contract is in order.
THEOREM HistoryAlwaysSound == Spec => []HistorySound
<1>1. OracleInv => HistorySound
  <2> SUFFICES ASSUME OracleInv, NEW n \in MANAGED_CONTRACTS, NEW vs, vs = contracts[n]
               PROVE  /\ LiveIn(vs) = {1} \cap (1 .. Len(vs))
                      /\ \A i \in 1 .. Len(vs) - 1 :
                           vs[i].major > vs[i + 1].major /\ vs[i + 1].replacedBy = vs[i].address
                      /\ oracle # None => vs[1].address = oracle
    BY DEF HistorySound
  <2>1. History(vs) /\ Len(vs) \in Nat
    BY DEF OracleInv, History
  <2>2. LiveIn(vs) = {1} \cap (1 .. Len(vs))
    BY <2>1 DEF History, LiveIn
  <2>3. ASSUME NEW i \in 1 .. Len(vs) - 1
        PROVE  vs[i].major > vs[i + 1].major /\ vs[i + 1].replacedBy = vs[i].address
    <3>1. i \in 1 .. Len(vs) /\ i + 1 \in 1 .. Len(vs) /\ i < i + 1 /\ i + 1 > 1 /\ (i + 1) - 1 = i
      BY <2>1
    <3> QED BY <2>1, <3>1 DEF History
  <2> QED BY <2>2, <2>3 DEF OracleInv
<1> QED BY <1>1, OracleInvariant, PTL
=============================================================================
