-------------------------- MODULE BridgeAdmin_proofs --------------------------
(***************************************************************************)
(* For any domains, people and rails: the three copies of the destination  *)
(* list stay in step, no destination has the wrong recipient format, and   *)
(* the contract implements DestinationList.  For any lists, registries,    *)
(* items and mints: what the scripts over the contract send and claim is   *)
(* right, whoever acts in between.                                         *)
(***************************************************************************)
EXTENDS BridgeAdminLog, DomainOps, SequenceTheorems, FiniteSetTheorems, WellFoundedInduction, TLAPS

LEMMA InitInv == AdminInit => AdminInv
<1> SUFFICES ASSUME AdminInit PROVE AdminInv
  OBVIOUS
<1>1. AdminTypeOK
  BY AdminAssumption DEF AdminInit, AdminTypeOK, NoDest, Dests
<1>2. ListSound
  BY DEF AdminInit, ListSound
<1>3. FormatFits
  BY DEF AdminInit, FormatFits, NoDest
<1> QED BY <1>1, <1>2, <1>3 DEF AdminInv

\* A step that leaves the list alone keeps the invariant if it keeps types.
LEMMA ListKept ==
  ASSUME AdminInv, UNCHANGED list, AdminTypeOK'
  PROVE  AdminInv'
  BY DEF AdminInv, list, ListSound, FormatFits

LEMMA EnableKeeps ==
  ASSUME AdminInv, NEW s \in People, NEW d \in Domains, NEW kind \in 0 .. 3,
         EnableCctpDomain(s, d, kind)
  PROVE  AdminInv'
<1> USE DEF AdminInv
<1>1. /\ dest' = [dest EXCEPT ![d] = [rtm |-> d, kind |-> kind]]
      /\ UNCHANGED <<circle, paused, owner, pendingOwner, guardian>>
      /\ d \notin Refused
      /\ kind = IF d \in EvmChains THEN RECIPIENT_EVM ELSE RECIPIENT_RAW32
  BY DEF EnableCctpDomain, KindFits, EvmShaped, Pda, roles
<1>2. dest' \in [Domains -> Dests]
  BY <1>1 DEF AdminTypeOK, Dests
<1>3. \A e \in Domains : dest'[e] = IF e = d THEN [rtm |-> d, kind |-> kind] ELSE dest[e]
  BY <1>1 DEF AdminTypeOK
<1>4. FormatFits'
  BY <1>1, <1>3 DEF FormatFits
<1>5. CASE index[d] = 0
  <2>1. /\ domains' = Append(domains, d)
        /\ index' = [index EXCEPT ![d] = Len(domains) + 1]
    BY <1>5 DEF EnableCctpDomain
  <2>2. domains \in Seq(Domains) /\ index \in [Domains -> Nat]
    BY DEF AdminTypeOK
  <2>3. /\ domains' \in Seq(Domains) /\ Len(domains') = Len(domains) + 1
        /\ Len(domains) \in Nat
        /\ \A i \in 1 .. Len(domains) : domains'[i] = domains[i] /\ domains[i] \in Domains
        /\ domains'[Len(domains) + 1] = d
    BY <2>1, <2>2, AppendProperties, LenProperties, ElementOfSeq
  <2>4. index' \in [Domains -> Nat]
    BY <2>1, <2>2, <2>3
  <2>5. \A e \in Domains : index'[e] = IF e = d THEN Len(domains) + 1 ELSE index[e]
    BY <2>1, <2>2
  <2>6. AdminTypeOK'
    BY <1>1, <1>2, <2>3, <2>4 DEF AdminTypeOK
  <2>7. \A i \in 1 .. Len(domains') : index'[domains'[i]] = i
    <3> TAKE i \in 1 .. Len(domains')
    <3>1. CASE i = Len(domains) + 1
      BY <3>1, <2>3, <2>5
    <3>2. CASE i \in 1 .. Len(domains)
      BY <3>2, <1>5, <2>3, <2>5 DEF ListSound
    <3> QED BY <3>1, <3>2, <2>3
  <2>8. \A e \in Domains :
          IF index'[e] = 0 THEN dest'[e] = NoDest
          ELSE /\ index'[e] \in 1 .. Len(domains') /\ domains'[index'[e]] = e
               /\ dest'[e].rtm = e
    <3> TAKE e \in Domains
    <3>1. CASE e = d
      BY <3>1, <1>3, <2>3, <2>5
    <3>2. CASE e # d
      BY <3>2, <1>3, <2>2, <2>3, <2>5 DEF ListSound, Pda
    <3> QED BY <3>1, <3>2
  <2>9. ListSound'
    BY <2>7, <2>8 DEF ListSound, Pda
  <2> QED BY <1>4, <2>6, <2>9
<1>6. CASE index[d] # 0
  <2>1. UNCHANGED <<domains, index>>
    BY <1>6 DEF EnableCctpDomain
  <2>2. AdminTypeOK'
    BY <1>1, <1>2, <2>1 DEF AdminTypeOK
  <2>3. ListSound'
    BY <1>3, <1>6, <2>1 DEF ListSound, Pda
  <2> QED BY <1>4, <2>2, <2>3
<1> QED BY <1>5, <1>6

LEMMA DisableKeeps ==
  ASSUME AdminInv, NEW s \in People, NEW d \in Domains, DisableCctpDomain(s, d)
  PROVE  AdminInv'
<1> DEFINE last == Len(domains)
           moved == domains[last]
<1>1. /\ domains \in Seq(Domains) /\ index \in [Domains -> Nat] /\ dest \in [Domains -> Dests]
      /\ last \in Nat
      /\ \A i \in 1 .. last : domains[i] \in Domains
  BY LenProperties, ElementOfSeq DEF AdminInv, AdminTypeOK
<1>2. /\ \A i \in 1 .. last : index[domains[i]] = i
      /\ \A e \in Domains : index[e] # 0 =>
           index[e] \in 1 .. last /\ domains[index[e]] = e /\ dest[e].rtm = e
      /\ \A e \in Domains : index[e] = 0 => dest[e] = NoDest
  BY DEF AdminInv, ListSound, Pda
<1>3. index[d] \in 1 .. last /\ domains[index[d]] = d
  BY <1>2 DEF DisableCctpDomain
<1>4. last >= 1 /\ moved \in Domains /\ index[moved] = last
  BY <1>1, <1>2, <1>3
<1>5. /\ domains' = [k \in 1 .. last - 1 |-> IF k = index[d] THEN moved ELSE domains[k]]
      /\ index' = [[index EXCEPT ![moved] = index[d]] EXCEPT ![d] = 0]
      /\ dest' = [dest EXCEPT ![d] = NoDest]
      /\ UNCHANGED <<circle, paused, owner, pendingOwner, guardian>>
  BY DEF DisableCctpDomain, SwapAndPop, roles
<1> HIDE DEF last, moved
<1>6. \A k \in 1 .. last - 1 : domains'[k] \in Domains
                              /\ domains'[k] = IF k = index[d] THEN moved ELSE domains[k]
  BY <1>1, <1>4, <1>5
<1>7. domains' \in Seq(Domains) /\ Len(domains') = last - 1
  <2>1. last - 1 \in Nat
    BY <1>1, <1>4
  <2>2. domains' \in [1 .. last - 1 -> Domains]
    BY <1>5, <1>6
  <2> QED BY <2>1, <2>2, SeqDef, LenProperties
<1>8. /\ index' \in [Domains -> Nat]
      /\ \A e \in Domains : index'[e] = IF e = d THEN 0
                                        ELSE IF e = moved THEN index[d] ELSE index[e]
  BY <1>1, <1>3, <1>4, <1>5
<1>9. /\ dest' \in [Domains -> Dests]
      /\ \A e \in Domains : dest'[e] = IF e = d THEN NoDest ELSE dest[e]
  BY <1>1, <1>5 DEF NoDest, Dests
<1>10. AdminTypeOK'
  BY <1>5, <1>7, <1>8, <1>9 DEF AdminInv, AdminTypeOK
<1>11. FormatFits'
  BY <1>9 DEF AdminInv, FormatFits, NoDest
<1>12. \A i \in 1 .. last - 1 : index'[domains'[i]] = i
  <2> TAKE i \in 1 .. last - 1
  <2>1. CASE i = index[d]
    BY <2>1, <1>1, <1>3, <1>4, <1>6, <1>8
  <2>2. CASE i # index[d]
    <3>1. domains'[i] = domains[i] /\ domains[i] \in Domains /\ index[domains[i]] = i
      BY <2>2, <1>1, <1>2, <1>6
    <3>2. domains[i] # d /\ domains[i] # moved
      BY <2>2, <3>1, <1>1, <1>4
    <3> QED BY <3>1, <3>2, <1>8
  <2> QED BY <2>1, <2>2
<1>13. \A e \in Domains :
         IF index'[e] = 0 THEN dest'[e] = NoDest
         ELSE /\ index'[e] \in 1 .. last - 1 /\ domains'[index'[e]] = e
              /\ dest'[e].rtm = e
  <2> TAKE e \in Domains
  <2>1. CASE e = d
    BY <2>1, <1>8, <1>9
  <2>2. CASE e # d /\ e = moved
    <3>1. index[d] # last
      BY <2>2, <1>3 DEF moved
    <3>2. index[d] \in 1 .. last - 1
      BY <3>1, <1>1, <1>3
    <3>3. index'[e] = index[d] /\ index[e] # 0
      BY <2>2, <1>4, <1>8
    <3>4. dest'[e] = dest[e] /\ dest[e].rtm = e
      BY <2>2, <3>3, <1>2, <1>9
    <3> QED BY <2>2, <3>2, <3>3, <3>4, <1>6
  <2>3. CASE e # d /\ e # moved
    <3>1. index'[e] = index[e] /\ dest'[e] = dest[e]
      BY <2>3, <1>8, <1>9
    <3>2. CASE index[e] # 0
      <4>1. index[e] \in 1 .. last /\ domains[index[e]] = e /\ dest[e].rtm = e
        BY <3>2, <1>2
      <4>2. index[e] # last /\ index[e] # index[d]
        BY <2>3, <4>1, <1>3 DEF moved
      <4>3. index[e] \in 1 .. last - 1
        BY <4>1, <4>2, <1>1
      <4> QED BY <3>1, <4>1, <4>2, <4>3, <1>6
    <3> QED BY <3>1, <3>2, <1>2
  <2> QED BY <2>1, <2>2, <2>3
<1>14. ListSound'
  BY <1>7, <1>12, <1>13 DEF ListSound, Pda
<1> QED BY <1>10, <1>11, <1>14 DEF AdminInv

LEMMA NextInv == AdminInv /\ [AdminNext]_adminVars => AdminInv'
<1> SUFFICES ASSUME AdminInv, [AdminNext]_adminVars PROVE AdminInv'
  OBVIOUS
<1>1. ASSUME NEW s \in People, NEW d \in Domains, NEW kind \in 0 .. 3,
             EnableCctpDomain(s, d, kind)
      PROVE  AdminInv'
  BY <1>1, EnableKeeps
<1>2. ASSUME NEW s \in People, NEW d \in Domains, DisableCctpDomain(s, d)
      PROVE  AdminInv'
  BY <1>2, DisableKeeps
<1>3. ASSUME NEW s \in People, NEW r \in Rails, PauseRail(s, r) \/ UnpauseRail(s, r)
      PROVE  AdminInv'
  BY <1>3, ListKept DEF AdminInv, AdminTypeOK, PauseRail, UnpauseRail, list, roles
<1>4. ASSUME NEW s \in People, NEW p \in People \cup {Zero},
             SetGuardian(s, p) \/ TransferOwnership(s, p)
      PROVE  AdminInv'
  BY <1>4, ListKept DEF AdminInv, AdminTypeOK, SetGuardian, TransferOwnership, list
<1>5. ASSUME NEW s \in People, AcceptOwnership(s)
      PROVE  AdminInv'
  BY <1>5, ListKept DEF AdminInv, AdminTypeOK, AcceptOwnership, list
<1>6. ASSUME NEW d \in Domains, CircleChanges(d)
      PROVE  AdminInv'
  BY <1>6, ListKept DEF AdminInv, AdminTypeOK, CircleChanges, list, roles
<1>7. CASE UNCHANGED adminVars
  BY <1>7, ListKept DEF AdminInv, AdminTypeOK, adminVars, list, roles
<1> QED BY <1>1, <1>2, <1>3, <1>4, <1>5, <1>6, <1>7 DEF AdminNext, AdminCall

\* The types, the agreement of array, index and records, and the recipient
\* format of every destination hold in every reachable state.
THEOREM AdminInvariant == AdminSpec => []AdminInv
<1>1. AdminInit => AdminInv
  BY InitInv
<1>2. AdminInv /\ [AdminNext]_adminVars => AdminInv'
  BY NextInv
<1> QED BY <1>1, <1>2, PTL DEF AdminSpec

\* The variables keep their types.
THEOREM AdminTypes == AdminSpec => []AdminTypeOK
<1>1. AdminInv => AdminTypeOK
  BY DEF AdminInv
<1> QED BY <1>1, AdminInvariant, PTL

\* enable and disable keep _cctpDomains, _cctpDomainIndex and _cctpDest one
\* set, for any number of domains.
THEOREM ListAlwaysSound == AdminSpec => []ListSound
<1>1. AdminInv => ListSound
  BY DEF AdminInv
<1> QED BY <1>1, AdminInvariant, PTL

\* No burn can use a recipient format the destination chain does not read,
\* nor go to a refused domain.
THEOREM FormatAlwaysFits == AdminSpec => []FormatFits
<1>1. AdminInv => FormatFits
  BY DEF AdminInv
<1> QED BY <1>1, AdminInvariant, PTL

-----------------------------------------------------------------------------
(* The refinement                                                          *)

\* What the view shows is what a burn reads.
LEMMA ListedIsDest ==
  AdminInv => /\ ListedKinds = [d \in Domains |-> dest[d].kind]
              /\ \A d \in Domains : index[d] = 0 <=> dest[d].kind = RECIPIENT_NONE
<1> SUFFICES ASSUME AdminInv, NEW d \in Domains
             PROVE  /\ ListedKinds[d] = dest[d].kind
                    /\ index[d] = 0 <=> dest[d].kind = RECIPIENT_NONE
  BY DEF ListedKinds
<1>1. /\ domains \in Seq(Domains)
      /\ \A i \in 1 .. Len(domains) : index[domains[i]] = i
  BY DEF AdminInv, AdminTypeOK, ListSound
<1>2. CASE index[d] = 0
  <2>1. dest[d] = NoDest
    BY <1>2 DEF AdminInv, ListSound
  <2>2. ~ \E i \in 1 .. Len(domains) : domains[i] = d
    BY <1>1, <1>2, LenProperties
  <2> QED BY <1>2, <2>1, <2>2 DEF ListedKinds, NoDest
<1>3. CASE index[d] # 0
  <2>1. index[d] \in 1 .. Len(domains) /\ domains[index[d]] = d /\ dest[d].rtm = d
    BY <1>3 DEF AdminInv, ListSound, Pda
  <2>2. dest[d].kind # RECIPIENT_NONE
    BY <2>1, AdminAssumption
    DEF AdminInv, FormatFits, RECIPIENT_NONE, RECIPIENT_EVM, RECIPIENT_RAW32
  <2> QED BY <1>3, <2>1, <2>2 DEF ListedKinds
<1> QED BY <1>2, <1>3

LEMMA StepRefines ==
  AdminInv /\ AdminInv' /\ [LogNext]_logVars => [Destinations!Next]_Destinations!vars
<1> SUFFICES ASSUME AdminInv, AdminInv', [LogNext]_logVars
             PROVE  [Destinations!Next]_Destinations!vars
  OBVIOUS
<1>0. /\ ListedKinds = [d \in Domains |-> dest[d].kind]
      /\ \A d \in Domains : index[d] = 0 <=> dest[d].kind = RECIPIENT_NONE
  BY ListedIsDest
<1>1. ListedKinds' = [d \in Domains |-> dest'[d].kind]
  <2>1. (AdminInv => ListedKinds = [d \in Domains |-> dest[d].kind])'
    BY ListedIsDest, PTL
  <2> QED BY <2>1
<1>2. dest \in [Domains -> Dests]
  BY DEF AdminInv, AdminTypeOK
<1>3. UNCHANGED dest => UNCHANGED ListedKinds
  BY <1>0, <1>1
<1>4. ASSUME NEW s \in People, NEW d \in Domains, NEW kind \in 0 .. 3,
             EnableCctpDomain(s, d, kind), by' = s
      PROVE  Destinations!Next
  <2>1. /\ s = owner /\ d \in Domains \ Refused
        /\ dest' = [dest EXCEPT ![d] = [rtm |-> d, kind |-> kind]]
        /\ kind = Formats[d]
        /\ by' = s /\ UNCHANGED <<paused, owner, pendingOwner, guardian>>
    BY <1>4 DEF EnableCctpDomain, OnlyOwner, KindFits, EvmShaped, Pda, Formats, roles
  <2>2. ListedKinds' = [ListedKinds EXCEPT ![d] = Formats[d]]
    BY <1>0, <1>1, <1>2, <2>1
  <2>3. Destinations!Open(s, d)
    BY <2>1, <2>2 DEF Destinations!Open, Destinations!ByOwner
  <2> QED BY <2>1, <2>3 DEF Destinations!Next
<1>5. ASSUME NEW s \in People, NEW d \in Domains, DisableCctpDomain(s, d), by' = s
      PROVE  Destinations!Next
  <2>1. /\ s \in {owner, guardian} /\ index[d] # 0
        /\ dest' = [dest EXCEPT ![d] = NoDest]
        /\ by' = s /\ UNCHANGED <<paused, owner, pendingOwner, guardian>>
    BY <1>5 DEF DisableCctpDomain, OwnerOrGuardian, roles
  <2>2. /\ ListedKinds[d] # RECIPIENT_NONE
        /\ ListedKinds' = [ListedKinds EXCEPT ![d] = RECIPIENT_NONE]
    BY <1>0, <1>1, <1>2, <2>1 DEF NoDest
  <2>3. Destinations!Close(s, d)
    BY <2>1, <2>2 DEF Destinations!Close, Destinations!ByKeeper
  <2> QED BY <2>3 DEF Destinations!Next
<1>6. ASSUME NEW s \in People, NEW r \in Rails, PauseRail(s, r), by' = s
      PROVE  Destinations!Next
  <2>1. Destinations!Stop(s, r)
    BY <1>3, <1>6 DEF PauseRail, OwnerOrGuardian, list, roles, Destinations!Stop,
                      Destinations!ByKeeper
  <2> QED BY <2>1 DEF Destinations!Next
<1>7. ASSUME NEW s \in People, NEW r \in Rails, UnpauseRail(s, r), by' = s
      PROVE  Destinations!Next
  <2>1. Destinations!Restart(s, r)
    BY <1>3, <1>7 DEF UnpauseRail, OnlyOwner, list, roles, Destinations!Restart,
                      Destinations!ByOwner
  <2> QED BY <2>1 DEF Destinations!Next
<1>8. ASSUME NEW s \in People, NEW p \in People \cup {Zero}, SetGuardian(s, p), by' = s
      PROVE  Destinations!Next
  <2>1. Destinations!Appoint(s, p)
    BY <1>3, <1>8 DEF SetGuardian, OnlyOwner, list, Destinations!Appoint
  <2> QED BY <2>1 DEF Destinations!Next
<1>9. ASSUME NEW s \in People, NEW p \in People \cup {Zero}, TransferOwnership(s, p), by' = s
      PROVE  Destinations!Next
  <2>1. Destinations!Name(s, p)
    BY <1>3, <1>9 DEF TransferOwnership, OnlyOwner, list, Destinations!Name,
                      Destinations!ByOwner
  <2> QED BY <2>1 DEF Destinations!Next
<1>10. ASSUME NEW s \in People, AcceptOwnership(s), by' = s
       PROVE  Destinations!Next
  <2>1. Destinations!TakeOver(s)
    BY <1>3, <1>10 DEF AcceptOwnership, list, Destinations!TakeOver
  <2> QED BY <2>1 DEF Destinations!Next
<1>11. ASSUME \/ \E d \in Domains : CircleChanges(d) /\ UNCHANGED by
              \/ UNCHANGED logVars
       PROVE  UNCHANGED Destinations!vars
  BY <1>3, <1>11 DEF CircleChanges, logVars, adminVars, list, roles, Destinations!vars
<1> QED BY <1>4, <1>5, <1>6, <1>7, <1>8, <1>9, <1>10, <1>11 DEF LogNext, AdminCall

\* The invariant holds whoever is logged.
LEMMA LogInvariant == LogSpec => []AdminInv
<1>1. LogInit => AdminInit
  BY DEF LogInit
<1>2. [LogNext]_logVars => [AdminNext]_adminVars
  BY DEF LogNext, AdminNext, logVars
<1> QED BY <1>1, <1>2, AdminInvariant, PTL DEF LogSpec, AdminSpec

\* The three copies, pushed and popped, behave as the one map of
\* DestinationList, and nobody opens, closes, stops, restarts, appoints or
\* takes over who may not.
THEOREM AdminImplements == LogSpec => ImplementsDestinationList
<1>1. LogInit => Destinations!Init
  BY DEF LogInit, AdminInit, Destinations!Init, ListedKinds
<1>2. AdminInv /\ AdminInv' /\ [LogNext]_logVars => [Destinations!Next]_Destinations!vars
  BY StepRefines
<1> QED BY <1>1, <1>2, LogInvariant, PTL
   DEF LogSpec, Destinations!Spec, ImplementsDestinationList

-----------------------------------------------------------------------------
(* Sets in a list and in order                                             *)

\* Every set of naturals that is not empty has a least element.
LEMMA LeastNatural ==
  ASSUME NEW T \in SUBSET Nat, T # {}
  PROVE  \E x \in T : \A y \in T : x <= y
<1> DEFINE R == {ss \in Nat \X Nat : ss[1] < ss[2]}
<1>1. IsWellFoundedOn(R, Nat)
  BY NatLessThanWellFounded, Zenon DEF OpToRel
<1> HIDE DEF R
<1>2. PICK x \in T : \A y \in T : <<y, x>> \notin R
  BY <1>1, WFMin
<1>3. \A y \in T : ~ (y < x)
  BY <1>2 DEF R
<1> QED BY <1>3

\* A list as long as a set, of its elements, no one twice, has them all.
LEMMA ListsAll ==
  ASSUME NEW S, IsFiniteSet(S), NEW s \in [1 .. Cardinality(S) -> S],
         \A i, j \in 1 .. Cardinality(S) : s[i] = s[j] => i = j
  PROVE  /\ s \in Seq(S) /\ Len(s) = Cardinality(S)
         /\ Range(s) = S
<1> DEFINE n == Cardinality(S)
<1>1. n \in Nat
  BY FS_CardinalityType
<1>2. s \in Seq(S) /\ Len(s) = n
  BY <1>1, SeqDef, LenProperties
<1>3. IsFiniteSet(1 .. n) /\ Cardinality(1 .. n) = n
  BY <1>1, FS_Interval
<1>4. s \in Injection(1 .. n, S)
  BY DEF Injection, IsInjective
<1>5. s \in Surjection(1 .. n, S)
  BY <1>3, <1>4, FS_Injection
<1>6. Range(s) = S
  BY <1>5 DEF Range, Surjection
<1> QED BY <1>2, <1>6

LEMMA AllInSome ==
  ASSUME NEW S, IsFiniteSet(S)
  PROVE  SetToSeq(S) \in Seq(S) /\ Range(SetToSeq(S)) = S
<1>1. PICK f \in Bijection(1 .. Cardinality(S), S) : TRUE
  BY FS_CardinalityType DEF ExistsBijection
<1>2. f \in [1 .. Cardinality(S) -> S] /\ IsInjective(f)
  BY <1>1 DEF Bijection, Injection
<1>3. SetToSeq(S) \in [1 .. Cardinality(S) -> S] /\ IsInjective(SetToSeq(S))
  BY <1>2 DEF SetToSeq
<1>4. \A i, j \in 1 .. Cardinality(S) : SetToSeq(S)[i] = SetToSeq(S)[j] => i = j
  BY <1>3 DEF IsInjective
<1> QED BY <1>3, <1>4, ListsAll

\* Entries with different domains can be put in the order of their domains.
LEMMA AllInOrder ==
  ASSUME NEW S, IsFiniteSet(S), \A e \in S : e.domain \in Nat,
         \A e, f \in S : e.domain = f.domain => e = f
  PROVE  /\ InOrder(S) \in Seq(S) /\ Len(InOrder(S)) = Cardinality(S)
         /\ Range(InOrder(S)) = S
<1> DEFINE n == Cardinality(S)
           upTo(e) == {f \in S : f.domain <= e.domain}
           rank == [e \in S |-> Cardinality(upTo(e))]
           ordered(s) == \A i, j \in DOMAIN s : i < j => s[i].domain < s[j].domain
<1>1. n \in Nat /\ IsFiniteSet(1 .. n) /\ Cardinality(1 .. n) = n
  BY FS_CardinalityType, FS_Interval
<1>2. \A e \in S : IsFiniteSet(upTo(e)) /\ Cardinality(upTo(e)) \in 1 .. n
  <2> TAKE e \in S
  <2>1. IsFiniteSet(upTo(e)) /\ Cardinality(upTo(e)) <= n
    BY FS_Subset
  <2>2. e \in upTo(e)
    OBVIOUS
  <2>3. Cardinality(upTo(e)) \in Nat /\ Cardinality(upTo(e)) # 0
    BY <2>1, <2>2, FS_CardinalityType, FS_EmptySet
  <2> QED BY <1>1, <2>1, <2>3
<1>3. \A e, f \in S : e.domain < f.domain => rank[e] < rank[f]
  <2> SUFFICES ASSUME NEW e \in S, NEW f \in S, e.domain < f.domain PROVE rank[e] < rank[f]
    OBVIOUS
  <2>1. upTo(e) \in SUBSET upTo(f) /\ upTo(e) # upTo(f) /\ IsFiniteSet(upTo(f))
    <3>1. f \in upTo(f) /\ f \notin upTo(e)
      OBVIOUS
    <3>2. upTo(e) \subseteq upTo(f)
      OBVIOUS
    <3> QED BY <3>1, <3>2, <1>2
  <2>2. rank[e] = Cardinality(upTo(e)) /\ rank[f] = Cardinality(upTo(f))
    OBVIOUS
  <2> HIDE DEF upTo
  <2>3. Cardinality(upTo(e)) <= Cardinality(upTo(f)) /\ Cardinality(upTo(e)) # Cardinality(upTo(f))
    BY <2>1, FS_Subset
  <2> QED BY <1>2, <2>2, <2>3
<1>4. rank \in [S -> 1 .. n]
  BY <1>2
<1>5. \A e, f \in S : rank[e] = rank[f] => e = f
  <2> SUFFICES ASSUME NEW e \in S, NEW f \in S, rank[e] = rank[f], e # f PROVE FALSE
    OBVIOUS
  <2>1. e.domain < f.domain \/ f.domain < e.domain
    OBVIOUS
  <2>2. rank[e] < rank[f] \/ rank[f] < rank[e]
    BY <2>1, <1>3
  <2>3. rank[e] \in Int /\ rank[f] \in Int
    BY <1>4
  <2> QED BY <2>2, <2>3
<1> HIDE DEF rank, upTo
<1>6. rank \in Surjection(S, 1 .. n)
  <2>1. rank \in Injection(S, 1 .. n)
    BY <1>4, <1>5 DEF Injection, IsInjective
  <2> QED BY <2>1, <1>1, FS_Injection
<1> DEFINE sorted == [i \in 1 .. n |-> CHOOSE e \in S : rank[e] = i]
<1>7. \A i \in 1 .. n : sorted[i] \in S /\ rank[sorted[i]] = i
  BY <1>6 DEF Surjection
<1> HIDE DEF n
<1>8. sorted \in [1 .. n -> S]
  BY <1>7
<1>9. ordered(sorted)
  <2> SUFFICES ASSUME NEW i \in 1 .. n, NEW j \in 1 .. n, i < j
               PROVE  sorted[i].domain < sorted[j].domain
    OBVIOUS
  <2>1. sorted[i] \in S /\ sorted[j] \in S /\ rank[sorted[i]] = i /\ rank[sorted[j]] = j
    BY <1>7
  <2> HIDE DEF sorted
  <2>2. ~ (sorted[j].domain < sorted[i].domain)
    BY <2>1, <1>3
  <2>3. sorted[i].domain # sorted[j].domain
    BY <2>1
  <2> QED BY <2>1, <2>2, <2>3
<1> HIDE DEF sorted
<1>10. \E s \in [1 .. n -> S] : ordered(s)
  BY <1>8, <1>9
<1>11. InOrder(S) \in [1 .. n -> S] /\ ordered(InOrder(S))
  <2>1. InOrder(S) = CHOOSE s \in [1 .. n -> S] : ordered(s)
    BY DEF InOrder, n
  <2> HIDE DEF ordered
  <2> QED BY <2>1, <1>10
<1>12. \A i, j \in 1 .. n : InOrder(S)[i] = InOrder(S)[j] => i = j
  <2> SUFFICES ASSUME NEW i \in 1 .. n, NEW j \in 1 .. n, InOrder(S)[i] = InOrder(S)[j], i # j
               PROVE  FALSE
    OBVIOUS
  <2>1. i < j \/ j < i
    BY <1>1
  <2>2. InOrder(S)[i] \in S /\ InOrder(S)[i].domain < InOrder(S)[i].domain
    BY <1>11, <2>1
  <2> QED BY <2>2
<1> QED BY <1>11, <1>12, ListsAll DEF n

-----------------------------------------------------------------------------
(* Lists                                                                   *)

\* What is done first and what is left.
LEMMA FirstAndRest ==
  ASSUME NEW X, NEW s \in Seq(X), s # << >>
  PROVE  /\ Head(s) \in X /\ Tail(s) \in Seq(X)
         /\ Len(s) \in Nat \ {0} /\ Len(Tail(s)) = Len(s) - 1
         /\ Head(s) = s[1]
         /\ \A i \in 1 .. Len(s) - 1 : Tail(s)[i] = s[i + 1]
         /\ Range(s) = {Head(s)} \cup Range(Tail(s))
         /\ Tail(s) = << >> <=> Len(s) = 1
<1>1. /\ Head(s) \in X /\ Tail(s) \in Seq(X)
      /\ Len(s) \in Nat \ {0} /\ Len(Tail(s)) = Len(s) - 1
      /\ \A i \in 1 .. Len(s) - 1 : Tail(s)[i] = s[i + 1]
  BY HeadTailProperties, EmptySeq
<1>2. Head(s) = s[1]
  OBVIOUS
<1>3. DOMAIN s = 1 .. Len(s) /\ DOMAIN Tail(s) = 1 .. Len(s) - 1
  BY <1>1, LenProperties
<1>4. ASSUME NEW x \in Range(s) PROVE x = Head(s) \/ x \in Range(Tail(s))
  <2>1. PICK i \in 1 .. Len(s) : x = s[i]
    BY <1>3 DEF Range
  <2>2. CASE i = 1
    BY <2>1, <2>2, <1>2
  <2>3. CASE i # 1
    <3>1. i - 1 \in 1 .. Len(s) - 1 /\ Tail(s)[i - 1] = s[(i - 1) + 1] /\ (i - 1) + 1 = i
      BY <2>3, <1>1
    <3> QED BY <3>1, <2>1, <1>3 DEF Range
  <2> QED BY <2>2, <2>3
<1>5. Head(s) \in Range(s)
  BY <1>1, <1>2, <1>3 DEF Range
<1>6. ASSUME NEW x \in Range(Tail(s)) PROVE x \in Range(s)
  <2>1. PICK i \in 1 .. Len(s) - 1 : x = Tail(s)[i]
    BY <1>3 DEF Range
  <2>2. i + 1 \in 1 .. Len(s) /\ x = s[i + 1]
    BY <2>1, <1>1
  <2> QED BY <2>2, <1>3 DEF Range
<1>7. Tail(s) = << >> <=> Len(s) = 1
  <2>1. \A t \in Seq(X) : IF t = << >> THEN Len(t) = 0 ELSE Len(t) # 0
    BY EmptySeq
  <2>2. IF Tail(s) = << >> THEN Len(Tail(s)) = 0 ELSE Len(Tail(s)) # 0
    BY <1>1, <2>1
  <2> QED BY <1>1, <2>2
<1> QED BY <1>1, <1>2, <1>4, <1>5, <1>6, <1>7

LEMMA RangeOf ==
  ASSUME NEW X, NEW s \in Seq(X)
  PROVE  /\ Range(s) = {s[i] : i \in 1 .. Len(s)}
         /\ Range(s) \subseteq X
         /\ Len(s) \in Nat
         /\ s = << >> <=> Range(s) = {}
<1>1. Len(s) \in Nat /\ DOMAIN s = 1 .. Len(s) /\ s \in [1 .. Len(s) -> X]
  BY LenProperties
<1>2. Range(s) = {s[i] : i \in 1 .. Len(s)}
  BY <1>1 DEF Range
<1>3. Range(s) \subseteq X
  BY <1>1, <1>2
<1>4. s # << >> => 1 \in 1 .. Len(s)
  BY EmptySeq
<1>5. s = << >> => Len(s) = 0
  BY EmptySeq
<1> QED BY <1>1, <1>2, <1>3, <1>4, <1>5

LEMMA BothParts ==
  ASSUME NEW X, NEW s \in Seq(X), NEW t \in Seq(X)
  PROVE  s \o t \in Seq(X) /\ Range(s \o t) = Range(s) \cup Range(t)
<1>1. /\ s \o t \in Seq(X) /\ Len(s \o t) = Len(s) + Len(t)
      /\ \A i \in 1 .. Len(s) + Len(t) : (s \o t)[i] = IF i <= Len(s) THEN s[i] ELSE t[i - Len(s)]
      /\ Len(s) \in Nat /\ Len(t) \in Nat
  BY ConcatProperties, LenProperties
<1>2. /\ Range(s) = {s[i] : i \in 1 .. Len(s)} /\ Range(t) = {t[i] : i \in 1 .. Len(t)}
      /\ Range(s \o t) = {(s \o t)[i] : i \in 1 .. Len(s) + Len(t)}
  <2>1. \A u \in Seq(X) : Range(u) = {u[i] : i \in 1 .. Len(u)}
    BY RangeOf
  <2> QED BY <1>1, <2>1
<1>3. ASSUME NEW x \in Range(s \o t) PROVE x \in Range(s) \cup Range(t)
  <2>1. PICK i \in 1 .. Len(s) + Len(t) : x = IF i <= Len(s) THEN s[i] ELSE t[i - Len(s)]
    BY <1>1, <1>2
  <2>2. IF i <= Len(s) THEN i \in 1 .. Len(s) ELSE i - Len(s) \in 1 .. Len(t)
    BY <1>1
  <2> QED BY <1>2, <2>1, <2>2
<1>4. ASSUME NEW x \in Range(s) PROVE x \in Range(s \o t)
  <2>1. PICK i \in 1 .. Len(s) : x = s[i]
    BY <1>2
  <2>2. i \in 1 .. Len(s) + Len(t) /\ (s \o t)[i] = x
    BY <1>1, <2>1
  <2> QED BY <1>2, <2>2
<1>5. ASSUME NEW x \in Range(t) PROVE x \in Range(s \o t)
  <2>1. PICK i \in 1 .. Len(t) : x = t[i]
    BY <1>2
  <2>2. /\ i + Len(s) \in 1 .. Len(s) + Len(t) /\ ~ (i + Len(s) <= Len(s))
        /\ (i + Len(s)) - Len(s) = i
    BY <1>1
  <2>3. (s \o t)[i + Len(s)] = x
    BY <1>1, <2>1, <2>2
  <2> QED BY <1>2, <2>2, <2>3
<1> QED BY <1>1, <1>3, <1>4, <1>5

-----------------------------------------------------------------------------
(* What is wanted                                                          *)

LEMMA Picked ==
  ASSUME NEW cs \in Seq(Entries), NEW i \in 1 .. Len(cs)
  PROVE  \E j \in Repeats(cs, i) :
           /\ Pick(cs, i) = cs[j]
           /\ \A k \in Repeats(cs, i) : Counts(cs[k]) => Counts(cs[j])
<1> DEFINE live == {j \in Repeats(cs, i) : Counts(cs[j])}
<1>1. Repeats(cs, i) \subseteq Nat /\ i \in Repeats(cs, i)
  BY LenProperties DEF Repeats
<1>2. CASE live = {}
  <2>1. Pick(cs, i) = cs[i]
    BY <1>2 DEF Pick
  <2> QED BY <1>1, <1>2, <2>1
<1>3. CASE live # {}
  <2>1. live \in SUBSET Nat
    BY <1>1
  <2>2. \E j \in live : \A k \in live : j <= k
    BY <1>3, <2>1, LeastNatural
  <2> DEFINE first == CHOOSE j \in live : \A k \in live : j <= k
  <2>3. first \in live
    BY <2>2
  <2>4. Pick(cs, i) = cs[first]
    BY <1>3 DEF Pick
  <2> QED BY <2>3, <2>4
<1> QED BY <1>2, <1>3

LEMMA FirstOf ==
  ASSUME NEW cs \in Seq(Entries), NEW k \in 1 .. Len(cs)
  PROVE  \E i \in Firsts(cs) : k \in Repeats(cs, i)
<1> DEFINE same == {i \in 1 .. k : k \in Repeats(cs, i)}
<1>1. Len(cs) \in Nat
  BY LenProperties
<1>2. k \in same /\ same \in SUBSET Nat
  BY <1>1 DEF Repeats
<1>3. PICK i \in same : \A j \in same : i <= j
  BY <1>2, LeastNatural
<1>4. i \in 1 .. Len(cs) /\ i \in 1 .. k /\ k \in Repeats(cs, i)
  BY <1>1, <1>3
<1>5. ASSUME NEW j \in 1 .. i - 1, i \in Repeats(cs, j) PROVE FALSE
  <2>1. j \in 1 .. k /\ j < i
    BY <1>1, <1>4
  <2>2. cs[j].chain # None /\ cs[i].chain = cs[j].chain
    BY <1>1, <1>4, <1>5, <2>1 DEF Repeats
  <2>3. k \in j .. Len(cs) /\ (k = i \/ cs[k].chain = cs[i].chain)
    BY <1>1, <1>4, <2>1 DEF Repeats
  <2>4. k \in Repeats(cs, j)
    BY <2>2, <2>3 DEF Repeats
  <2>5. i <= j
    BY <1>3, <2>1, <2>4
  <2> QED BY <2>1, <2>5, <1>1, <1>4
<1> QED BY <1>4, <1>5 DEF Firsts

LEMMA CandidatesAre ==
  ASSUME NEW r \in Registries
  PROVE  /\ Candidates(r) \in Seq(Entries)
         /\ Range(Candidates(r)) = ({r.sourceEvm} \ {None}) \cup Range(r.sourceEvms)
<1>1. r.sourceEvms \in Seq(Entries) /\ r.sourceEvm \in {None} \cup Entries
  BY DEF Registries
<1>2. CASE r.sourceEvm = None
  <2>1. Candidates(r) = r.sourceEvms
    BY <1>1, <1>2, ConcatEmptySeq DEF Candidates
  <2> QED BY <1>1, <1>2, <2>1
<1>3. CASE r.sourceEvm # None
  <2> DEFINE one == <<r.sourceEvm>>
  <2>1. one \in Seq(Entries) /\ Len(one) = 1 /\ one[1] = r.sourceEvm
    BY <1>1, <1>3
  <2>2. Candidates(r) = one \o r.sourceEvms
    BY <1>3 DEF Candidates
  <2> HIDE DEF one
  <2>3. Range(one) = {one[i] : i \in 1 .. Len(one)}
    BY <2>1, RangeOf
  <2>4. Range(one) = {r.sourceEvm}
    BY <2>1, <2>3
  <2>5. one \o r.sourceEvms \in Seq(Entries) /\ Range(one \o r.sourceEvms) = Range(one) \cup Range(r.sourceEvms)
    BY <1>1, <2>1, BothParts
  <2> QED BY <1>3, <2>2, <2>4, <2>5
<1> QED BY <1>2, <1>3

\* Of the registries that agree, the merge takes exactly what is written.
LEMMA MergeIsWritten ==
  ASSUME RegistriesAgree, NEW c \in Commands, c.registry # None
  PROVE  DomainsFromRegistry(c.registry) = {[domain |-> e.domain, kind |-> e.kind] : e \in LiveEntries(c.registry)}
<1> DEFINE r == c.registry
           cs == Candidates(r)
           entry(e) == [domain |-> e.domain, kind |-> e.kind]
<1>1. r \in Registries
  BY DomainOpsAssumption
<1>2. cs \in Seq(Entries) /\ LiveEntries(r) = {e \in Range(cs) : Counts(e)}
  BY <1>1, CandidatesAre DEF LiveEntries
<1>3. Range(cs) = {cs[i] : i \in 1 .. Len(cs)} /\ Len(cs) \in Nat
  BY <1>2, RangeOf
<1>4. \A e, f \in LiveEntries(r) : e.chain # None /\ e.chain = f.chain => entry(e) = entry(f)
  BY DEF RegistriesAgree
<1>5. DomainsFromRegistry(r) = {entry(Pick(cs, i)) : i \in Taken(r)}
  BY DEF DomainsFromRegistry
<1>6. Taken(r) = {i \in Firsts(cs) : Counts(Pick(cs, i))}
  BY DEF Taken
<1> HIDE DEF cs, r, entry
<1>7. ASSUME NEW i \in Taken(r) PROVE \E e \in LiveEntries(r) : entry(Pick(cs, i)) = entry(e)
  <2>1. i \in 1 .. Len(cs) /\ Counts(Pick(cs, i))
    BY <1>6 DEF Firsts
  <2>2. PICK j \in Repeats(cs, i) : Pick(cs, i) = cs[j]
    BY <1>2, <2>1, Picked
  <2>3. j \in 1 .. Len(cs)
    BY <1>3, <2>1 DEF Repeats
  <2> QED BY <1>2, <1>3, <2>1, <2>2, <2>3
<1>8. ASSUME NEW e \in LiveEntries(r) PROVE \E i \in Taken(r) : entry(e) = entry(Pick(cs, i))
  <2>1. PICK k \in 1 .. Len(cs) : e = cs[k]
    BY <1>2, <1>3
  <2>2. Counts(cs[k])
    BY <1>2, <2>1
  <2>3. PICK i \in Firsts(cs) : k \in Repeats(cs, i)
    BY <1>2, FirstOf
  <2>4. i \in 1 .. Len(cs)
    BY DEF Firsts
  <2>5. PICK j \in Repeats(cs, i) : Pick(cs, i) = cs[j] /\ Counts(cs[j])
    BY <1>2, <2>2, <2>3, <2>4, Picked
  <2>6. i \in Taken(r)
    BY <1>6, <2>3, <2>5
  <2>7. j \in 1 .. Len(cs) /\ cs[j] \in LiveEntries(r)
    BY <1>2, <1>3, <2>4, <2>5 DEF Repeats
  <2>8. CASE j = k
    BY <2>1, <2>5, <2>6, <2>8
  <2>9. CASE j # k
    <3>1. cs[j].chain = cs[k].chain /\ cs[j].chain # None
      BY <2>3, <2>5, <2>9 DEF Repeats
    <3>2. entry(cs[j]) = entry(cs[k])
      BY <1>4, <2>1, <2>7, <3>1
    <3> QED BY <2>1, <2>5, <2>6, <3>2
  <2> QED BY <2>8, <2>9
<1>9. DomainsFromRegistry(r) = {entry(e) : e \in LiveEntries(r)}
  BY <1>5, <1>7, <1>8
<1> QED BY <1>9 DEF r, entry

\* An accepted command: what is parsed is what is written, each domain once.
LEMMA ParsedIsWritten ==
  ASSUME RegistriesAgree, asked \in Commands, asked \notin Refusals
  PROVE  /\ Parsed[asked] = Wanted
         /\ Wanted \subseteq [domain : Domains, kind : Kinds]
         /\ \A w, v \in Wanted : w.domain = v.domain => w = v
<1>1. Parsed[asked] = ParseCommand(asked) /\ ~CommandFails(asked) /\ Wanted = Written(asked)
  BY DEF Parsed, Refusals, Wanted, WantedIn
<1>2. CASE asked.registry # None
  <2> DEFINE r == asked.registry
             cs == Candidates(r)
             entry(e) == [domain |-> e.domain, kind |-> e.kind]
  <2>1. r \in Registries /\ ~RegistryFails(r)
    BY <1>1, <1>2, DomainOpsAssumption DEF CommandFails
  <2>2. Wanted = DomainsFromRegistry(r) /\ Parsed[asked] = DomainsFromRegistry(r)
    BY <1>1, <1>2, MergeIsWritten DEF Written, ParseCommand
  <2>3. DomainsFromRegistry(r) = {entry(Pick(cs, i)) : i \in Taken(r)}
    BY DEF DomainsFromRegistry
  <2>4. Wanted = {entry(e) : e \in LiveEntries(r)}
    BY <1>1, <1>2 DEF Written
  <2>5. \A e \in LiveEntries(r) : e \in Entries /\ e.domain # None
    BY <2>1, CandidatesAre, RangeOf DEF LiveEntries, Counts
  <2>6. Wanted \subseteq [domain : Domains, kind : Kinds]
    BY <2>4, <2>5 DEF Entries
  <2>7. \A i, j \in Taken(r) : i # j => Pick(cs, i).domain # Pick(cs, j).domain
    BY <2>1 DEF RegistryFails
  <2>8. \A w, v \in Wanted : w.domain = v.domain => w = v
    BY <2>2, <2>3, <2>7
  <2> QED BY <2>2, <2>6, <2>8
<1>3. CASE asked.registry = None
  <2> DEFINE s == asked.spec
             entry(e) == [domain |-> e.domain, kind |-> IF e.kind = None THEN RECIPIENT_EVM ELSE e.kind]
             Given == [domain : Domains, kind : {None} \cup Kinds]
  <2>1. s # None /\ ~SpecFails(s)
    BY <1>1, <1>3 DEF CommandFails
  <2>2. s \in Seq(Given)
    BY <2>1, DomainOpsAssumption
  <2>3. Wanted = {entry(e) : e \in Range(s)} /\ Parsed[asked] = Wanted
    BY <1>1, <1>3 DEF Written, ParseCommand, ParseDomainSpec
  <2> HIDE DEF s, Given
  <2>4. Range(s) = {s[i] : i \in 1 .. Len(s)} /\ Range(s) \subseteq Given
    BY <2>2, RangeOf
  <2>5. Wanted \subseteq [domain : Domains, kind : Kinds]
    BY <2>3, <2>4 DEF Kinds, Given
  <2>6. \A i, j \in 1 .. Len(s) : i # j => s[i].domain # s[j].domain
    BY <2>1 DEF SpecFails
  <2>7. \A w, v \in Wanted : w.domain = v.domain => w = v
    BY <2>3, <2>4, <2>6
  <2> QED BY <2>3, <2>5, <2>7
<1> QED BY <1>2, <1>3

-----------------------------------------------------------------------------
(* The plan                                                                *)

LEMMA ListedFinite == IsFiniteSet(Listed)
<1> DEFINE K == {RECIPIENT_NONE} \cup Kinds
           make == [p \in Domains \X K |-> [domain |-> p[1], kind |-> p[2]]]
<1>1. IsFiniteSet(K)
  <2>1. IsFiniteSet({RECIPIENT_NONE})
    BY FS_Singleton
  <2>2. IsFiniteSet({RECIPIENT_NONE} \cup {RECIPIENT_EVM})
    BY <2>1, FS_AddElement
  <2>3. IsFiniteSet(({RECIPIENT_NONE} \cup {RECIPIENT_EVM}) \cup {RECIPIENT_RAW32})
    BY <2>2, FS_AddElement
  <2>4. K = ({RECIPIENT_NONE} \cup {RECIPIENT_EVM}) \cup {RECIPIENT_RAW32}
    BY DEF Kinds
  <2> QED BY <2>3, <2>4
<1> HIDE DEF K
<1>2. IsFiniteSet(Domains \X K)
  BY <1>1, DomainOpsAssumption, FS_Product
<1>3. make \in Surjection(Domains \X K, Listed)
  <2>1. make \in [Domains \X K -> Listed]
    BY DEF Listed, K
  <2>2. ASSUME NEW e \in Listed PROVE \E p \in Domains \X K : make[p] = e
    <3>1. <<e.domain, e.kind>> \in Domains \X K
      BY DEF Listed, K
    <3>2. make[<<e.domain, e.kind>>] = e
      BY <3>1 DEF Listed
    <3> QED BY <3>1, <3>2
  <2> HIDE DEF make
  <2> QED BY <2>1, <2>2 DEF Surjection
<1> QED BY <1>2, <1>3, FS_Surjection

\* One call for each entry, whatever the order.
LEMMA CallsAre ==
  ASSUME NEW fn \in {"enable", "disable"}, NEW S \in SUBSET Listed,
         \A e, f \in S : e.domain = f.domain => e = f
  PROVE  /\ Call(fn, S) \in Seq(Calls)
         /\ Range(Call(fn, S)) = {[fn |-> fn, domain |-> e.domain, kind |-> e.kind] : e \in S}
<1> DEFINE s == InOrder(S)
           call(e) == [fn |-> fn, domain |-> e.domain, kind |-> e.kind]
<1>1. IsFiniteSet(S) /\ \A e \in S : e.domain \in Nat
  BY ListedFinite, FS_Subset, DomainOpsAssumption DEF Listed
<1>2. s \in Seq(S) /\ Range(s) = S
  BY <1>1, AllInOrder
<1>3. Call(fn, S) = [i \in 1 .. Len(s) |-> call(s[i])]
  BY DEF Call
<1>4. \A e \in S : call(e) \in Calls
  BY DEF Listed, Calls
<1> HIDE DEF s, call
<1>5. Len(s) \in Nat /\ Range(s) = {s[i] : i \in 1 .. Len(s)}
  BY <1>2, RangeOf
<1>6. Call(fn, S) \in [1 .. Len(s) -> Calls]
  BY <1>2, <1>3, <1>4, <1>5
<1>7. Call(fn, S) \in Seq(Calls)
  BY <1>5, <1>6, SeqDef
<1>8. Range(Call(fn, S)) = {call(s[i]) : i \in 1 .. Len(s)}
  BY <1>3 DEF Range
<1>9. Range(Call(fn, S)) = {call(e) : e \in S}
  BY <1>2, <1>5, <1>8
<1> QED BY <1>7, <1>9 DEF call

\* The calls of a plan: an enable for each entry that is wanted as it is not,
\* a disable for each domain that is not wanted, and none at all only for a
\* list that is what is wanted.
LEMMA PlanIs ==
  ASSUME NEW W \in SUBSET Listed, NEW C \in SUBSET Listed,
         \A w, v \in W : w.domain = v.domain => w = v,
         \A e, f \in C : e.domain = f.domain => e = f
  PROVE  LET plan == PlanDomainChanges(W, C)
         IN  /\ plan \in Seq(Calls)
             /\ \A c \in Range(plan) : IF c.fn = "enable" THEN [domain |-> c.domain, kind |-> c.kind] \in W
                                       ELSE \A w \in W : w.domain # c.domain
             /\ \A w \in W : w \in C \/ Enables(w, plan)
             /\ \A e \in C : e \in W \/ \E c \in Range(plan) : c.domain = e.domain
             /\ plan = << >> => W = C
<1> DEFINE gone == {e \in C : \A w \in W : w.domain # e.domain}
           plan == PlanDomainChanges(W, C)
           on(e) == [fn |-> "enable", domain |-> e.domain, kind |-> e.kind]
           off(e) == [fn |-> "disable", domain |-> e.domain, kind |-> e.kind]
<1>1. /\ Call("enable", W \ C) \in Seq(Calls) /\ Range(Call("enable", W \ C)) = {on(e) : e \in W \ C}
      /\ Call("disable", gone) \in Seq(Calls) /\ Range(Call("disable", gone)) = {off(e) : e \in gone}
  <2>1. /\ W \ C \in SUBSET Listed /\ \A e, f \in W \ C : e.domain = f.domain => e = f
        /\ gone \in SUBSET Listed /\ \A e, f \in gone : e.domain = f.domain => e = f
    OBVIOUS
  <2> HIDE DEF gone
  <2> QED BY <2>1, CallsAre
<1>2. plan = Call("enable", W \ C) \o Call("disable", gone)
  BY DEF PlanDomainChanges
<1>3. plan \in Seq(Calls) /\ Range(plan) = {on(e) : e \in W \ C} \cup {off(e) : e \in gone}
  <2> DEFINE first == Call("enable", W \ C)
             then == Call("disable", gone)
  <2>1. first \in Seq(Calls) /\ then \in Seq(Calls)
    BY <1>1
  <2> HIDE DEF first, then
  <2>2. first \o then \in Seq(Calls) /\ Range(first \o then) = Range(first) \cup Range(then)
    BY <2>1, BothParts
  <2> HIDE DEF plan, gone, on, off
  <2> QED BY <1>1, <1>2, <2>2 DEF first, then
<1> HIDE DEF plan
<1>4. ASSUME NEW c \in Range(plan)
      PROVE  IF c.fn = "enable" THEN [domain |-> c.domain, kind |-> c.kind] \in W
             ELSE \A w \in W : w.domain # c.domain
  <2>1. CASE \E e \in W \ C : c = on(e)
    <3>1. PICK e \in W \ C : c = on(e)
      BY <2>1
    <3>2. [domain |-> e.domain, kind |-> e.kind] = e
      BY DEF Listed
    <3> QED BY <3>1, <3>2
  <2>2. CASE \E e \in gone : c = off(e)
    BY <2>2
  <2> QED BY <1>3, <2>1, <2>2
<1>5. ASSUME NEW w \in W, w \notin C PROVE Enables(w, plan)
  BY <1>3, <1>5 DEF Enables
<1>6. ASSUME NEW e \in C, e \notin W PROVE \E c \in Range(plan) : c.domain = e.domain
  <2>1. CASE \E w \in W : w.domain = e.domain
    <3>1. PICK w \in W : w.domain = e.domain
      BY <2>1
    <3>2. w \in W \ C
      BY <1>6, <3>1
    <3>3. on(w) \in Range(plan) /\ on(w).domain = e.domain
      BY <1>3, <3>1, <3>2
    <3> QED BY <3>3
  <2>2. CASE \A w \in W : w.domain # e.domain
    <3>1. off(e) \in Range(plan) /\ off(e).domain = e.domain
      BY <1>3, <2>2
    <3> QED BY <3>1
  <2> QED BY <2>1, <2>2
<1>7. plan = << >> => W = C
  <2>1. plan = << >> => Range(plan) = {}
    BY <1>3, RangeOf
  <2> QED BY <2>1, <1>5, <1>6 DEF Enables
<1> QED BY <1>3, <1>4, <1>5, <1>6, <1>7 DEF plan

-----------------------------------------------------------------------------
(* What is open                                                            *)

LEMMA OpenIs ==
  AdminInv =>
    /\ Open = {[domain |-> d, kind |-> dest[d].kind] : d \in {x \in Domains : dest[x].kind # RECIPIENT_NONE}}
    /\ Open \subseteq Listed
    /\ \A e, f \in Open : e.domain = f.domain => e = f
    /\ \A e \in Open : e.kind # RECIPIENT_NONE
<1> SUFFICES ASSUME AdminInv
             PROVE  /\ Open = {[domain |-> d, kind |-> dest[d].kind] :
                                 d \in {x \in Domains : dest[x].kind # RECIPIENT_NONE}}
                    /\ Open \subseteq Listed
                    /\ \A e, f \in Open : e.domain = f.domain => e = f
                    /\ \A e \in Open : e.kind # RECIPIENT_NONE
  OBVIOUS
<1>1. Open = {[domain |-> d, kind |-> dest[d].kind] : d \in {x \in Domains : dest[x].kind # RECIPIENT_NONE}}
  BY ListedIsDest DEF Open
<1>2. \A d \in Domains : dest[d].kind \in {RECIPIENT_NONE} \cup Kinds
  BY DEF AdminInv, AdminTypeOK, Dests, Kinds
<1> QED BY <1>1, <1>2 DEF Listed

\* The same of the next state.
LEMMA OpenWillBe ==
  AdminInv' => Open' = {[domain |-> d, kind |-> dest'[d].kind] : d \in {x \in Domains : dest'[x].kind # RECIPIENT_NONE}}
<1>1. (AdminInv => Open = {[domain |-> d, kind |-> dest[d].kind] :
                             d \in {x \in Domains : dest[x].kind # RECIPIENT_NONE}})'
  <2>1. AdminInv => Open = {[domain |-> d, kind |-> dest[d].kind] :
                             d \in {x \in Domains : dest[x].kind # RECIPIENT_NONE}}
    BY OpenIs
  <2> QED BY <2>1, PTL
<1> QED BY <1>1

LEMMA EnableOpens ==
  ASSUME AdminInv, AdminInv', NEW d \in Domains, NEW kind \in Kinds, EnableCctpDomain(Operator, d, kind)
  PROVE  Open' = {e \in Open : e.domain # d} \cup {[domain |-> d, kind |-> kind]}
<1>1. Open = {[domain |-> x, kind |-> dest[x].kind] : x \in {y \in Domains : dest[y].kind # RECIPIENT_NONE}}
  BY OpenIs
<1>2. Open' = {[domain |-> x, kind |-> dest'[x].kind] : x \in {y \in Domains : dest'[y].kind # RECIPIENT_NONE}}
  BY OpenWillBe
<1>3. /\ \A x \in Domains : dest'[x].kind = IF x = d THEN kind ELSE dest[x].kind
      /\ kind # RECIPIENT_NONE
  BY DEF AdminInv, AdminTypeOK, EnableCctpDomain, Kinds, RECIPIENT_NONE, RECIPIENT_EVM, RECIPIENT_RAW32
<1> QED BY <1>1, <1>2, <1>3

LEMMA DisableCloses ==
  ASSUME AdminInv, AdminInv', NEW d \in Domains, DisableCctpDomain(Operator, d)
  PROVE  Open' = {e \in Open : e.domain # d}
<1>1. Open = {[domain |-> x, kind |-> dest[x].kind] : x \in {y \in Domains : dest[y].kind # RECIPIENT_NONE}}
  BY OpenIs
<1>2. Open' = {[domain |-> x, kind |-> dest'[x].kind] : x \in {y \in Domains : dest'[y].kind # RECIPIENT_NONE}}
  BY OpenWillBe
<1>3. \A x \in Domains : dest'[x].kind = IF x = d THEN RECIPIENT_NONE ELSE dest[x].kind
  BY DEF AdminInv, AdminTypeOK, DisableCctpDomain, NoDest
<1> QED BY <1>1, <1>2, <1>3

-----------------------------------------------------------------------------
(* The scripts                                                             *)

LEMMA TasksAre ==
  /\ Tasks("idle") = {} /\ Tasks("list") = {}
  /\ Tasks("kinds") = Domains /\ Tasks("circle") = Listed /\ Tasks("send") = Calls
  /\ Tasks("allow") = Items /\ Tasks("verify") = Items
  /\ Tasks("ata") = BridgedMints /\ Tasks("poll") = BridgedMints
  BY DEF Tasks

\* A script that ends keeps the invariant if what it claims is true.
LEMMA Ending ==
  ASSUME AdminInv', asked' \in Commands, NEW res \in {None} \cup Results, Ends(res), ResultHonest'
  PROVE  OpsInv'
<1>1. op' = [pc |-> "idle", check |-> FALSE, may |-> FALSE, todo |-> << >>, onChain |-> {},
             drift |-> FALSE, result |-> res]
  BY DEF Ends, Idle
<1>2. OpsTypeOK'
  <2>1. << >> \in Seq(Tasks("idle"))
    BY EmptySeq
  <2> QED BY <1>1, <2>1 DEF OpsTypeOK, Stages
<1>3. OnCourse'
  BY <1>1 DEF OnCourse, At
<1>4. Holds'
  BY <1>1 DEF Holds, At
<1> QED BY <1>2, <1>3, <1>4 DEF OpsInv

\* One that ends without a claim always does.
LEMMA EndsSilently ==
  ASSUME AdminInv', asked' \in Commands, Ends(None)
  PROVE  OpsInv'
<1>1. op'.result = None
  BY DEF Ends, Idle
<1>2. ResultHonest'
  BY <1>1, DomainOpsAssumption DEF ResultHonest, Results
<1> QED BY <1>2, Ending

LEMMA OpsInitInv == ASSUME OpsInit PROVE OpsInv
<1>1. AdminInv /\ asked \in Commands
  BY InitInv DEF OpsInit
<1>2. op = [pc |-> "idle", check |-> FALSE, may |-> FALSE, todo |-> << >>, onChain |-> {},
            drift |-> FALSE, result |-> None]
  BY DEF OpsInit, Idle
<1>3. OpsTypeOK
  <2>1. << >> \in Seq(Tasks("idle"))
    BY EmptySeq
  <2> QED BY <1>1, <1>2, <2>1 DEF OpsTypeOK, Stages
<1>4. OnCourse /\ Holds
  BY <1>2 DEF OnCourse, Holds, At
<1>5. ResultHonest
  BY <1>2, DomainOpsAssumption DEF ResultHonest, Results
<1> QED BY <1>1, <1>3, <1>4, <1>5 DEF OpsInv

\* What only depends on what the operator asked, and on the list.
LEMMA WantedKept == ASSUME UNCHANGED asked PROVE UNCHANGED Wanted
  BY DEF Wanted

LEMMA OpenKept == ASSUME UNCHANGED list PROVE UNCHANGED Open
  BY DEF Open, list

LEMMA OthersKeep ==
  ASSUME OpsInv, Others
  PROVE  OpsInv'
<1>1. AdminInv' /\ UNCHANGED <<chainId, asked>>
  <2>1. [AdminNext]_adminVars
    BY DEF Others
  <2> QED BY <2>1, NextInv DEF OpsInv, Others, world
<1>2. op' = [op EXCEPT !.result = None] /\ quiet' = At("idle")
  BY DEF Others
<1>3. OpsTypeOK'
  BY <1>1, <1>2 DEF OpsInv, OpsTypeOK
<1>4. ~At("idle") => op' = op
  BY <1>2 DEF OpsInv, OpsTypeOK, OnCourse
<1>5. UNCHANGED Wanted
  BY <1>1, WantedKept
<1>6. OnCourse'
  <2>1. CASE At("idle")
    BY <2>1, <1>1, <1>2 DEF OpsInv, OpsTypeOK, OnCourse, At
  <2>2. CASE ~At("idle")
    BY <2>2, <1>1, <1>4, <1>5 DEF OpsInv, OnCourse, At
  <2> QED BY <2>1, <2>2
<1>7. Holds'
  BY <1>2 DEF OpsInv, OpsTypeOK, Holds, At
<1>8. ResultHonest'
  <2>1. op'.result = None
    BY <1>2 DEF OpsInv, OpsTypeOK
  <2> QED BY <2>1, DomainOpsAssumption DEF ResultHonest, Results
<1> QED BY <1>1, <1>3, <1>6, <1>7, <1>8 DEF OpsInv

LEMMA DomainsStart ==
  ASSUME OpsInv, NEW m \in {"check", "send", "print"}, NEW net \in Networks \cup {None}, StartDomains(m, net)
  PROVE  OpsInv'
<1>1. /\ op' = [pc |-> "list", check |-> m = "check", may |-> CanSend(m, net), todo |-> << >>,
                onChain |-> {}, drift |-> FALSE, result |-> None]
      /\ asked \notin Refusals /\ UNCHANGED <<adminVars, chainId, asked>>
  BY DEF StartDomains, Starts, Idle, world
<1>2. AdminInv'
  BY <1>1, NextInv DEF OpsInv
<1>3. CanSend(m, net) \in BOOLEAN /\ (CanSend(m, net) => JudgeChain(chainId, {}))
  BY DEF CanSend, SendableOn
<1>4. OpsTypeOK'
  <2>1. << >> \in Seq(Tasks("list"))
    BY EmptySeq
  <2> QED BY <1>1, <1>3, <2>1 DEF OpsInv, OpsTypeOK, Stages
<1>5. OnCourse' /\ Holds' /\ ResultHonest'
  BY <1>1, <1>3 DEF OnCourse, Holds, ResultHonest, At, JudgeChain
<1> QED BY <1>2, <1>4, <1>5 DEF OpsInv

LEMMA OthersStart ==
  ASSUME OpsInv, StartAllow \/ StartAtas
  PROVE  OpsInv'
<1>1. UNCHANGED <<adminVars, chainId, asked>> /\ AssertTestnetSend(chainId)
  BY DEF StartAllow, StartAtas, Starts, world, OwnerOnTestnet
<1>2. AdminInv'
  BY <1>1, NextInv DEF OpsInv
<1>3. CASE StartAllow
  <2>1. op' = [pc |-> "allow", check |-> FALSE, may |-> FALSE, todo |-> SetToSeq(Items), onChain |-> {},
               drift |-> FALSE, result |-> None]
    BY <1>3 DEF StartAllow, Starts, Idle
  <2>2. SetToSeq(Items) \in Seq(Tasks("allow")) /\ Range(SetToSeq(Items)) = Items
    BY AllInSome, TasksAre, DomainOpsAssumption
  <2>3. OpsTypeOK'
    BY <1>1, <2>1, <2>2 DEF OpsInv, OpsTypeOK, Stages
  <2>4. OnCourse' /\ Holds' /\ ResultHonest'
    BY <1>1, <2>1, <2>2 DEF OnCourse, Holds, ResultHonest, At, AssertTestnetSend, JudgeChain
  <2> QED BY <1>2, <2>3, <2>4 DEF OpsInv
<1>4. CASE StartAtas
  <2>1. op' = [pc |-> "ata", check |-> FALSE, may |-> FALSE, todo |-> SetToSeq(BridgedMints), onChain |-> {},
               drift |-> FALSE, result |-> None]
    BY <1>4 DEF StartAtas, Starts, Idle
  <2>2. IsFiniteSet(BridgedMints)
    BY DomainOpsAssumption, FS_Subset DEF BridgedMints
  <2>3. SetToSeq(BridgedMints) \in Seq(Tasks("ata")) /\ Range(SetToSeq(BridgedMints)) = BridgedMints
    BY <2>2, AllInSome, TasksAre
  <2>4. OpsTypeOK'
    BY <1>1, <2>1, <2>3 DEF OpsInv, OpsTypeOK, Stages
  <2>5. OnCourse' /\ Holds' /\ ResultHonest'
    BY <1>1, <2>1, <2>3 DEF OnCourse, Holds, ResultHonest, At, AssertTestnetSend, JudgeChain
  <2> QED BY <1>2, <2>4, <2>5 DEF OpsInv
<1> QED BY <1>3, <1>4

-----------------------------------------------------------------------------
(* enable-cctp-domains.ts, read by read *)

LEMMA ReadListKeeps ==
  ASSUME OpsInv, ReadList
  PROVE  OpsInv'
<1>1. /\ At("list") /\ op' = [op EXCEPT !.pc = "kinds", !.todo = domains]
      /\ UNCHANGED <<adminVars, chainId, asked>>
  BY DEF ReadList, world
<1>2. AdminInv'
  BY <1>1, NextInv DEF OpsInv
<1>3. /\ domains \in Seq(Domains)
      /\ \A i \in 1 .. Len(domains) : index[domains[i]] = i
      /\ \A d \in Domains : index[d] # 0 => index[d] \in 1 .. Len(domains) /\ domains[index[d]] = d
  BY DEF OpsInv, AdminInv, AdminTypeOK, ListSound
<1>4. Range(domains) = {domains[i] : i \in 1 .. Len(domains)} /\ Range(domains) \subseteq Domains
  BY <1>3, RangeOf
<1>5. Range(domains) = {x \in Domains : index[x] # 0}
  BY <1>3, <1>4
<1>6. Open = {[domain |-> d, kind |-> dest[d].kind] : d \in Range(domains)}
  BY <1>5 DEF Open
<1>7. UNCHANGED <<Open, dest>>
  BY <1>1, OpenKept DEF adminVars, list
<1>8. OpsTypeOK'
  BY <1>1, <1>3, TasksAre DEF OpsInv, OpsTypeOK, Stages
<1>9. /\ op.onChain = {} /\ op.result = None /\ op'.pc = "kinds" /\ op'.todo = domains
      /\ op'.onChain = op.onChain /\ op'.may = op.may /\ op'.result = op.result
  BY <1>1 DEF OpsInv, OpsTypeOK, OnCourse, At
<1>10. OnCourse'
  BY <1>1, <1>3, <1>9 DEF OpsInv, OnCourse, At
<1>11. Holds' /\ ResultHonest'
  BY <1>6, <1>7, <1>9 DEF Holds, ResultHonest, At
<1> QED BY <1>2, <1>8, <1>10, <1>11 DEF OpsInv

LEMMA ReadKindKeeps ==
  ASSUME OpsInv, ReadKind
  PROVE  OpsInv'
<1> DEFINE d == Head(op.todo)
           read(x) == [domain |-> x, kind |-> dest[x].kind]
<1>1. /\ At("kinds") /\ op.todo # << >>
      /\ op' = [op EXCEPT !.todo = Tail(@), !.onChain = @ \cup {read(d)}]
      /\ UNCHANGED <<adminVars, chainId, asked, quiet>>
  BY DEF ReadKind, world
<1>2. AdminInv'
  BY <1>1, NextInv DEF OpsInv
<1>3. /\ op.todo \in Seq(Domains) /\ op.onChain \subseteq Listed
      /\ op'.todo = Tail(op.todo) /\ op'.onChain = op.onChain \cup {read(d)}
      /\ op'.pc = "kinds" /\ op'.may = op.may /\ op'.result = op.result
      /\ op'.check = op.check /\ op'.drift = op.drift
  BY <1>1, TasksAre DEF OpsInv, OpsTypeOK, At
<1>4. /\ d \in Domains /\ Tail(op.todo) \in Seq(Domains)
      /\ Len(op.todo) \in Nat \ {0} /\ Len(Tail(op.todo)) = Len(op.todo) - 1
      /\ d = op.todo[1]
      /\ \A i \in 1 .. Len(op.todo) - 1 : Tail(op.todo)[i] = op.todo[i + 1]
      /\ Range(op.todo) = {d} \cup Range(Tail(op.todo))
  BY <1>1, <1>3, FirstAndRest
<1>5. read(d) \in Listed
  BY <1>4 DEF Listed, OpsInv, AdminInv, AdminTypeOK, Dests, Kinds
<1>6. OpsTypeOK'
  <2>1. op'.todo \in Seq(Tasks(op'.pc)) /\ op'.onChain \in SUBSET Listed
    BY <1>3, <1>4, <1>5, TasksAre
  <2> QED BY <1>1, <2>1 DEF OpsInv, OpsTypeOK
<1> HIDE DEF d
<1>7. d \notin Range(Tail(op.todo))
  <2> SUFFICES ASSUME d \in Range(Tail(op.todo)) PROVE FALSE
    OBVIOUS
  <2>1. Range(Tail(op.todo)) = {Tail(op.todo)[i] : i \in 1 .. Len(op.todo) - 1}
    BY <1>4, RangeOf
  <2>2. PICK i \in 1 .. Len(op.todo) - 1 : d = op.todo[i + 1]
    BY <1>4, <2>1
  <2>3. \A x, y \in 1 .. Len(op.todo) : op.todo[x] = op.todo[y] => x = y
    BY <1>1 DEF OpsInv, OnCourse
  <2>4. i + 1 \in 1 .. Len(op.todo) /\ 1 \in 1 .. Len(op.todo) /\ i + 1 # 1
    BY <1>4
  <2> QED BY <1>4, <2>2, <2>3, <2>4
<1>8. OnCourse'
  <2>1. \A i, j \in 1 .. Len(op'.todo) : op'.todo[i] = op'.todo[j] => i = j
    <3>1. \A i, j \in 1 .. Len(op.todo) : op.todo[i] = op.todo[j] => i = j
      BY <1>1 DEF OpsInv, OnCourse
    <3>2. \A i \in 1 .. Len(op.todo) - 1 : i + 1 \in 1 .. Len(op.todo)
      BY <1>4
    <3>3. ASSUME NEW i \in 1 .. Len(op.todo) - 1, NEW j \in 1 .. Len(op.todo) - 1,
                 Tail(op.todo)[i] = Tail(op.todo)[j]
          PROVE  i = j
      <4>1. i + 1 = j + 1
        BY <1>4, <3>1, <3>2, <3>3
      <4> QED BY <4>1
    <3> QED BY <1>3, <1>4, <3>3
  <2>2. \A e \in op.onChain : e.domain # d /\ e.domain \notin Range(Tail(op.todo))
    BY <1>1, <1>4 DEF OpsInv, OnCourse
  <2>3. \A e, f \in op'.onChain : e.domain = f.domain => e = f
    BY <1>1, <1>3, <2>2 DEF OpsInv, OnCourse
  <2>4. \A e \in op'.onChain : e.domain \notin Range(op'.todo)
    BY <1>3, <1>7, <2>2
  <2> QED BY <1>1, <1>3, <2>1, <2>3, <2>4 DEF OpsInv, OnCourse, At
<1>9. Holds'
  <2>1. UNCHANGED <<Open, dest>>
    BY <1>1, OpenKept DEF adminVars, list
  <2>2. quiet => Open = op.onChain \cup {read(x) : x \in Range(op.todo)}
    BY <1>1 DEF OpsInv, Holds
  <2>3. quiet => Open = op'.onChain \cup {read(x) : x \in Range(op'.todo)}
    BY <1>3, <1>4, <2>2
  <2> QED BY <1>1, <1>3, <2>1, <2>3 DEF Holds, At
<1>10. ResultHonest'
  BY <1>3 DEF ResultHonest, At
<1> QED BY <1>2, <1>6, <1>8, <1>9, <1>10 DEF OpsInv

LEMMA DecideKeeps ==
  ASSUME RegistriesAgree, OpsInv, Decide
  PROVE  OpsInv'
<1> DEFINE W == Parsed[asked]
           C == op.onChain
           plan == PlanDomainChanges(W, C)
<1>1. /\ At("kinds") /\ op.todo = << >>
      /\ UNCHANGED <<adminVars, chainId, asked, quiet>>
  BY DEF Decide, world
<1>2. AdminInv' /\ asked' \in Commands
  BY <1>1, NextInv DEF OpsInv, OpsTypeOK
<1>3. UNCHANGED <<Open, Wanted, circle>>
  BY <1>1, OpenKept, WantedKept DEF adminVars
<1>4. /\ W = Wanted /\ Wanted \subseteq Listed
      /\ \A w, v \in Wanted : w.domain = v.domain => w = v
  <2>1. asked \in Commands /\ asked \notin Refusals
    BY <1>1 DEF OpsInv, OpsTypeOK, OnCourse, At
  <2>2. [domain : Domains, kind : Kinds] \subseteq Listed
    BY DEF Listed
  <2> QED BY <2>1, <2>2, ParsedIsWritten
<1>5. C \in SUBSET Listed /\ \A e, f \in C : e.domain = f.domain => e = f
  BY <1>1 DEF OpsInv, OpsTypeOK, OnCourse
<1>6. /\ plan \in Seq(Calls)
      /\ \A c \in Range(plan) : IF c.fn = "enable" THEN [domain |-> c.domain, kind |-> c.kind] \in Wanted
                                ELSE \A w \in Wanted : w.domain # c.domain
      /\ \A w \in Wanted : w \in C \/ Enables(w, plan)
      /\ \A e \in C : e \in Wanted \/ \E c \in Range(plan) : c.domain = e.domain
      /\ plan = << >> => Wanted = C
  <2> HIDE DEF W, C
  <2>1. W \in SUBSET Listed /\ \A w, v \in W : w.domain = v.domain => w = v
    BY <1>4
  <2>2. /\ plan \in Seq(Calls)
        /\ \A c \in Range(plan) : IF c.fn = "enable" THEN [domain |-> c.domain, kind |-> c.kind] \in W
                                  ELSE \A w \in W : w.domain # c.domain
        /\ \A w \in W : w \in C \/ Enables(w, plan)
        /\ \A e \in C : e \in W \/ \E c \in Range(plan) : c.domain = e.domain
        /\ plan = << >> => W = C
    BY <1>5, <2>1, PlanIs, Zenon
  <2> QED BY <1>4, <2>2
<1>7. quiet => Open = C
  <2>1. Range(op.todo) = {}
    BY <1>1, RangeOf, EmptySeq
  <2> QED BY <1>1, <2>1 DEF OpsInv, Holds
<1> HIDE DEF W, C, plan
<1>8. CASE op' = [op EXCEPT !.pc = "circle", !.drift = plan # << >>, !.todo = InOrder(op.onChain), !.onChain = {}]
  <2>1. /\ op'.pc = "circle" /\ op'.drift = (plan # << >>) /\ op'.todo = InOrder(C) /\ op'.onChain = {}
        /\ op'.may = op.may /\ op'.result = op.result /\ op'.check = op.check
    BY <1>8 DEF OpsInv, OpsTypeOK, C
  <2>2. IsFiniteSet(C) /\ \A e \in C : e.domain \in Nat
    BY <1>5, ListedFinite, FS_Subset, DomainOpsAssumption DEF Listed
  <2>3. InOrder(C) \in Seq(C) /\ Range(InOrder(C)) = C
    BY <1>5, <2>2, AllInOrder
  <2>4. InOrder(C) \in Seq(Tasks("circle"))
    BY <1>5, <2>3, SeqMonotonic, TasksAre
  <2>5. OpsTypeOK'
    BY <1>2, <1>8, <2>1, <2>4 DEF OpsInv, OpsTypeOK, Stages
  <2>6. OnCourse'
    BY <1>1, <2>1 DEF OpsInv, OnCourse, At
  <2>7. Holds'
    BY <1>1, <1>3, <1>6, <1>7, <2>1, <2>3 DEF Holds, At
  <2>8. ResultHonest'
    BY <2>1 DEF ResultHonest, At
  <2> QED BY <1>2, <2>5, <2>6, <2>7, <2>8 DEF OpsInv
<1>9. CASE plan = << >> /\ Ends("inSync")
  <2>1. op'.result = "inSync"
    BY <1>9 DEF Ends, Idle
  <2>2. ResultHonest'
    BY <1>1, <1>3, <1>6, <1>7, <1>9, <2>1 DEF ResultHonest
  <2> QED BY <1>2, <1>9, <2>2, Ending DEF Results
<1>10. CASE /\ plan # << >> /\ op.may
            /\ op' = [op EXCEPT !.pc = "send", !.todo = plan, !.onChain = {}]
  <2>1. /\ op'.pc = "send" /\ op'.todo = plan /\ op'.onChain = {}
        /\ op'.may = op.may /\ op'.result = op.result /\ op'.check = op.check /\ op'.drift = op.drift
    BY <1>10 DEF OpsInv, OpsTypeOK
  <2>2. OpsTypeOK'
    <3>1. plan \in Seq(Tasks("send"))
      BY <1>6, TasksAre
    <3> QED BY <1>2, <1>10, <2>1, <3>1 DEF OpsInv, OpsTypeOK, Stages
  <2>3. OnCourse'
    BY <1>1, <1>3, <1>6, <1>10, <2>1 DEF OpsInv, OnCourse, At
  <2>4. Holds'
    BY <1>1, <1>3, <1>6, <1>7, <2>1 DEF Holds, At, Enables
  <2>5. ResultHonest'
    BY <2>1 DEF ResultHonest, At
  <2> QED BY <1>2, <2>2, <2>3, <2>4, <2>5 DEF OpsInv
<1>11. CASE Ends(None)
  BY <1>2, <1>11, EndsSilently
<1> QED BY <1>8, <1>9, <1>10, <1>11 DEF Decide, W, C, plan

LEMMA CheckCircleKeeps ==
  ASSUME OpsInv, CheckCircle
  PROVE  OpsInv'
<1>1. At("circle") /\ UNCHANGED <<adminVars, chainId, asked, quiet>>
  BY DEF CheckCircle, world
<1>2. AdminInv' /\ asked' \in Commands
  BY <1>1, NextInv DEF OpsInv, OpsTypeOK
<1>3. UNCHANGED <<Open, Wanted, circle>>
  BY <1>1, OpenKept, WantedKept DEF adminVars
<1>4. op.todo \in Seq(Listed)
  BY <1>1, TasksAre DEF OpsInv, OpsTypeOK, At
<1>5. quiet /\ ~op.drift => Open = Wanted /\ \A e \in Open : e \in Range(op.todo) \/ Served(e)
  BY <1>1 DEF OpsInv, Holds
<1>6. UNCHANGED circle => \A e : Served(e)' = Served(e)
  BY DEF Served, KindFits, EvmShaped
<1>7. CASE op.todo = << >> /\ op.drift
  <2>1. Ends(None)
    BY <1>7 DEF CheckCircle
  <2> QED BY <1>2, <2>1, EndsSilently
<1>8. CASE op.todo = << >> /\ ~op.drift
  <2>1. Ends("checked")
    BY <1>8 DEF CheckCircle
  <2>2. op'.result = "checked"
    BY <2>1 DEF Ends, Idle
  <2>3. Range(op.todo) = {}
    BY <1>4, <1>8, RangeOf
  <2>4. ResultHonest'
    BY <1>1, <1>3, <1>5, <1>8, <2>2, <2>3 DEF ResultHonest, Served, KindFits, EvmShaped
  <2> QED BY <1>2, <2>1, <2>4, Ending DEF Results
<1>9. CASE op.todo # << >>
  <2> DEFINE e == Head(op.todo)
  <2>1. op' = [op EXCEPT !.todo = Tail(@), !.drift = @ \/ CircleProblem(e)]
    BY <1>9 DEF CheckCircle
  <2>2. /\ e \in Listed /\ Tail(op.todo) \in Seq(Listed)
        /\ Range(op.todo) = {e} \cup Range(Tail(op.todo))
    BY <1>4, <1>9, FirstAndRest
  <2> HIDE DEF e
  <2>3. /\ op'.pc = op.pc /\ op'.todo = Tail(op.todo) /\ op'.drift = (op.drift \/ CircleProblem(e))
        /\ op'.onChain = op.onChain /\ op'.may = op.may /\ op'.result = op.result /\ op'.check = op.check
        /\ op'.pc = "circle"
    BY <1>1, <2>1 DEF OpsInv, OpsTypeOK, At
  <2>4. OpsTypeOK'
    <3>1. Tail(op.todo) \in Seq(Tasks("circle")) /\ (op.drift \/ CircleProblem(e)) \in BOOLEAN
      BY <2>2, TasksAre
    <3> QED BY <1>2, <2>1, <2>3, <3>1 DEF OpsInv, OpsTypeOK
  <2>5. OnCourse'
    BY <1>1, <2>3 DEF OpsInv, OnCourse, At
  <2>6. e \in Open /\ ~CircleProblem(e) => Served(e)
    <3>1. e \in Open => e.kind # RECIPIENT_NONE
      BY OpenIs DEF OpsInv
    <3> QED BY <3>1, <2>2 DEF CircleProblem, FetchSolanaAccount, Served, KindFits, Listed, Kinds
  <2>7. Holds'
    BY <1>1, <1>3, <1>5, <2>2, <2>3, <2>6 DEF Holds, At, Served, KindFits, EvmShaped
  <2>8. ResultHonest'
    BY <2>3 DEF ResultHonest, At
  <2> QED BY <1>2, <2>4, <2>5, <2>7, <2>8 DEF OpsInv
<1> QED BY <1>7, <1>8, <1>9

\* A call that goes through: what it leaves undone is the rest of the plan,
\* and it opens nothing but what is wanted and closes nothing that is.
LEMMA SentCall ==
  ASSUME RegistriesAgree, OpsInv, AdminInv', At("send"), UNCHANGED asked,
         LET c == Head(op.todo)
         IN  \/ c.fn = "enable" /\ EnableCctpDomain(Operator, c.domain, c.kind)
             \/ c.fn = "disable" /\ DisableCctpDomain(Operator, c.domain)
  PROVE  /\ \A w \in Wanted : w \in Open => w \in Open'
         /\ \A e \in Open' : e \in Open \/ e \in Wanted
         /\ quiet => /\ \A w \in Wanted : w \in Open' \/ Enables(w, Tail(op.todo))
                     /\ \A e \in Open' : e \in Wanted \/ \E x \in Range(Tail(op.todo)) : x.domain = e.domain
<1> DEFINE c == Head(op.todo)
<1>1. op.todo \in Seq(Calls) /\ op.todo # << >>
  BY TasksAre DEF OpsInv, OpsTypeOK, OnCourse, At
<1>2. c \in Calls /\ Range(op.todo) = {c} \cup Range(Tail(op.todo))
  BY <1>1, FirstAndRest
<1>3. IF c.fn = "enable" THEN [domain |-> c.domain, kind |-> c.kind] \in Wanted
      ELSE \A w \in Wanted : w.domain # c.domain
  BY <1>2 DEF OpsInv, OnCourse
<1>4. quiet => /\ \A w \in Wanted : w \in Open \/ Enables(w, op.todo)
               /\ \A e \in Open : e \in Wanted \/ \E x \in Range(op.todo) : x.domain = e.domain
  BY DEF OpsInv, Holds
<1>5. /\ Wanted \subseteq [domain : Domains, kind : Kinds]
      /\ \A w, v \in Wanted : w.domain = v.domain => w = v
  <2>1. asked \in Commands /\ asked \notin Refusals
    BY DEF OpsInv, OpsTypeOK, OnCourse, At
  <2> QED BY <2>1, ParsedIsWritten
<1> HIDE DEF c
<1>6. CASE c.fn = "enable" /\ EnableCctpDomain(Operator, c.domain, c.kind)
  <2> DEFINE n == [domain |-> c.domain, kind |-> c.kind]
  <2>1. n \in Wanted /\ n.domain = c.domain /\ n.kind = c.kind
    BY <1>3, <1>6
  <2>2. c.domain \in Domains /\ c.kind \in Kinds
    BY <1>5, <2>1
  <2>3. Open' = {e \in Open : e.domain # c.domain} \cup {n}
    BY <1>6, <2>2, EnableOpens DEF OpsInv
  <2> HIDE DEF n
  <2>4. ASSUME NEW w \in Wanted PROVE w \in Open' \/ (w.domain # c.domain /\ (w \in Open => w \in Open'))
    BY <1>5, <2>1, <2>3
  <2>5. ASSUME NEW w \in Wanted, w.domain # c.domain, Enables(w, op.todo) PROVE Enables(w, Tail(op.todo))
    BY <1>2, <2>5 DEF Enables
  <2>6. ASSUME quiet, NEW e \in Open' PROVE e \in Wanted \/ \E x \in Range(Tail(op.todo)) : x.domain = e.domain
    BY <1>2, <1>4, <2>1, <2>3, <2>6
  <2> QED BY <1>4, <2>1, <2>3, <2>4, <2>5, <2>6
<1>7. CASE c.fn = "disable" /\ DisableCctpDomain(Operator, c.domain)
  <2>1. \A w \in Wanted : w.domain # c.domain
    BY <1>3, <1>7
  <2>2. c.domain \in Domains
    BY <1>2 DEF Calls
  <2>3. Open' = {e \in Open : e.domain # c.domain}
    BY <1>7, <2>2, DisableCloses DEF OpsInv
  <2>4. ASSUME NEW w \in Wanted, Enables(w, op.todo) PROVE Enables(w, Tail(op.todo))
    BY <1>2, <1>7, <2>4 DEF Enables
  <2> QED BY <1>2, <1>4, <2>1, <2>3, <2>4
<1> QED BY <1>6, <1>7 DEF c

LEMMA SendAdmin ==
  ASSUME OpsInv, Send
  PROVE  AdminInv'
<1>1. At("send") /\ op.todo # << >> /\ op.todo \in Seq(Calls)
  BY TasksAre DEF OpsInv, OpsTypeOK, At, Send
<1>2. Head(op.todo) \in Calls
  BY <1>1, FirstAndRest
<1> DEFINE c == Head(op.todo)
<1>3. c.domain \in Domains /\ c.kind \in 0 .. 3
  BY <1>2 DEF Calls, Kinds, RECIPIENT_NONE, RECIPIENT_EVM, RECIPIENT_RAW32
<1>4. \/ EnableCctpDomain(Operator, c.domain, c.kind) \/ DisableCctpDomain(Operator, c.domain)
      \/ UNCHANGED adminVars
  BY DEF Send
<1> HIDE DEF c
<1>5. CASE EnableCctpDomain(Operator, c.domain, c.kind)
  BY <1>3, <1>5, EnableKeeps, DomainOpsAssumption DEF OpsInv
<1>6. CASE DisableCctpDomain(Operator, c.domain)
  BY <1>3, <1>6, DisableKeeps, DomainOpsAssumption DEF OpsInv
<1>7. CASE UNCHANGED adminVars
  BY <1>7, NextInv DEF OpsInv
<1> QED BY <1>4, <1>5, <1>6, <1>7

LEMMA SendKeeps ==
  ASSUME RegistriesAgree, OpsInv, Send
  PROVE  OpsInv'
<1> DEFINE c == Head(op.todo)
           done == \/ c.fn = "enable" /\ EnableCctpDomain(Operator, c.domain, c.kind)
                   \/ c.fn = "disable" /\ DisableCctpDomain(Operator, c.domain)
<1>1. /\ At("send") /\ op.todo # << >> /\ op.todo \in Seq(Calls)
      /\ UNCHANGED <<chainId, asked, quiet>>
  BY TasksAre DEF OpsInv, OpsTypeOK, At, Send, world
<1>2. AdminInv' /\ asked' \in Commands
  BY <1>1, SendAdmin DEF OpsInv, OpsTypeOK
<1>3. /\ Tail(op.todo) \in Seq(Calls) /\ Len(op.todo) \in Nat \ {0}
      /\ Range(op.todo) = {c} \cup Range(Tail(op.todo))
      /\ Tail(op.todo) = << >> <=> Len(op.todo) = 1
  BY <1>1, FirstAndRest
<1>4. UNCHANGED Wanted
  BY <1>1, WantedKept
<1>5. done \/ Ends(None)
  BY DEF Send
<1>6. ASSUME done
      PROVE  quiet => /\ \A w \in Wanted : w \in Open' \/ Enables(w, Tail(op.todo))
                      /\ \A e \in Open' : e \in Wanted \/ \E x \in Range(Tail(op.todo)) : x.domain = e.domain
  BY <1>1, <1>2, <1>6, SentCall
<1>7. done => \/ Len(op.todo) = 1 /\ Ends("sent")
              \/ Len(op.todo) # 1 /\ op' = [op EXCEPT !.todo = Tail(@)]
              \/ Ends(None)
  BY DEF Send
<1> HIDE DEF done, c
<1>8. CASE done /\ Len(op.todo) = 1 /\ Ends("sent")
  <2>1. Range(Tail(op.todo)) = {}
    <3>1. Tail(op.todo) = << >>
      BY <1>3, <1>8
    <3> QED BY <1>3, <3>1, RangeOf
  <2>2. quiet => Open' = Wanted
    BY <1>2, <1>6, <1>8, <2>1 DEF Enables
  <2>3. op'.result = "sent"
    BY <1>8 DEF Ends, Idle
  <2>4. ResultHonest'
    BY <1>1, <1>4, <2>2, <2>3 DEF ResultHonest
  <2> QED BY <1>2, <1>8, <2>4, Ending DEF Results
<1>9. CASE done /\ Len(op.todo) # 1 /\ op' = [op EXCEPT !.todo = Tail(@)]
  <2>1. /\ op'.pc = "send" /\ op'.pc = op.pc /\ op'.todo = Tail(op.todo) /\ op'.onChain = op.onChain
        /\ op'.may = op.may /\ op'.result = op.result /\ op'.check = op.check /\ op'.drift = op.drift
    BY <1>1, <1>9 DEF OpsInv, OpsTypeOK, At
  <2>2. OpsTypeOK'
    <3>1. Tail(op.todo) \in Seq(Tasks("send"))
      BY <1>3, TasksAre
    <3> QED BY <1>2, <1>9, <2>1, <3>1 DEF OpsInv, OpsTypeOK
  <2>3. Tail(op.todo) # << >>
    BY <1>3, <1>9
  <2>4. OnCourse'
    BY <1>1, <1>3, <1>4, <2>1, <2>3 DEF OpsInv, OnCourse, At
  <2>5. Holds'
    BY <1>1, <1>4, <1>6, <1>9, <2>1 DEF Holds, At, Enables
  <2>6. ResultHonest'
    BY <2>1 DEF ResultHonest, At
  <2> QED BY <1>2, <2>2, <2>4, <2>5, <2>6 DEF OpsInv
<1>10. CASE Ends(None)
  BY <1>2, <1>10, EndsSilently
<1> QED BY <1>5, <1>7, <1>8, <1>9, <1>10

-----------------------------------------------------------------------------
(* The other two scripts                                                   *)

\* A stage of theirs, from the next state's list to what it still promises.
LEMMA StageKeeps ==
  ASSUME OpsInv, UNCHANGED <<adminVars, chainId, asked>>,
         op.pc \in {"allow", "verify", "ata", "poll"}, op'.pc \in {"allow", "verify", "ata", "poll"},
         op'.todo \in Seq(Tasks(op'.pc)), op' = [op EXCEPT !.pc = op'.pc, !.todo = op'.todo],
         op'.pc \in {"verify", "poll"} => op'.todo # << >>,
         Holds'
  PROVE  OpsInv'
<1>1. AdminInv'
  BY NextInv DEF OpsInv
<1>2. /\ op'.onChain = op.onChain
      /\ op'.may = op.may /\ op'.result = op.result /\ op'.check = op.check /\ op'.drift = op.drift
  BY DEF OpsInv, OpsTypeOK
<1>3. OpsTypeOK'
  BY <1>2 DEF OpsInv, OpsTypeOK, Stages
<1>4. OnCourse'
  BY <1>2 DEF OpsInv, OnCourse, At
<1>5. ResultHonest'
  BY DEF ResultHonest, At
<1> QED BY <1>1, <1>3, <1>4, <1>5 DEF OpsInv

LEMMA AllowKeeps ==
  ASSUME OpsInv, Allow \/ AllowVerify \/ AllowEnds
  PROVE  OpsInv'
<1> DEFINE x == Head(op.todo)
           rest == Tail(op.todo)
<1>1. op.pc \in {"allow", "verify"} /\ UNCHANGED <<adminVars, chainId, asked, quiet>>
  BY DEF Allow, AllowVerify, AllowEnds, At, world
<1>2. op.todo \in Seq(Items) /\ (op.todo = << >> => Range(op.todo) = {})
  BY <1>1, TasksAre, RangeOf DEF OpsInv, OpsTypeOK
<1>3. op.todo # << >> => rest \in Seq(Items) /\ Range(op.todo) = {x} \cup Range(rest)
  BY <1>2, FirstAndRest
<1>4. quiet => Items \subseteq allowed \cup Range(op.todo)
  BY <1>1 DEF OpsInv, Holds
<1>5. AdminInv' /\ asked' \in Commands
  BY <1>1, NextInv DEF OpsInv, OpsTypeOK
<1> HIDE DEF x, rest
<1>6. CASE Ends(None)
  BY <1>5, <1>6, EndsSilently
<1>7. CASE AllowEnds
  <2>1. op.todo = << >> /\ Ends("allowed") /\ UNCHANGED allowed
    BY <1>7 DEF AllowEnds
  <2>2. op'.result = "allowed"
    BY <2>1 DEF Ends, Idle
  <2>3. ResultHonest'
    BY <1>1, <1>2, <1>4, <2>1, <2>2 DEF ResultHonest
  <2> QED BY <1>5, <2>1, <2>3, Ending DEF Results
\* An item that is allowed leaves the list.
<1>8. CASE /\ op.todo # << >> /\ x \in allowed /\ UNCHANGED allowed
           /\ op' = [op EXCEPT !.pc = "allow", !.todo = rest]
  <2>1. op'.pc = "allow" /\ op'.todo = rest
    BY <1>8 DEF OpsInv, OpsTypeOK
  <2>2. op'.todo \in Seq(Tasks(op'.pc))
    BY <1>3, <1>8, <2>1, TasksAre
  <2>3. Holds'
    BY <1>1, <1>3, <1>4, <1>8, <2>1 DEF Holds, At
  <2> QED BY <1>1, <1>8, <2>1, <2>2, <2>3, StageKeeps
<1>9. CASE /\ op.todo # << >> /\ allowed' = allowed \cup {x}
           /\ op' = [op EXCEPT !.pc = "verify"]
  <2>1. op'.pc = "verify" /\ op'.todo = op.todo
    BY <1>9 DEF OpsInv, OpsTypeOK
  <2>2. op' = [op EXCEPT !.pc = op'.pc, !.todo = op'.todo]
    BY <1>9, <2>1 DEF OpsInv, OpsTypeOK
  <2>3. op'.todo \in Seq(Tasks(op'.pc))
    BY <1>2, <2>1, TasksAre
  <2>4. Holds'
    BY <1>1, <1>4, <1>9, <2>1 DEF Holds, At
  <2> QED BY <1>1, <1>9, <2>1, <2>2, <2>3, <2>4, StageKeeps
<1>10. Allow => \/ Ends(None)
                \/ /\ op.todo # << >> /\ x \in allowed /\ UNCHANGED allowed
                   /\ op' = [op EXCEPT !.pc = "allow", !.todo = rest]
                \/ /\ op.todo # << >> /\ allowed' = allowed \cup {x}
                   /\ op' = [op EXCEPT !.pc = "verify"]
  <2> SUFFICES ASSUME Allow, At("allow") /\ op.todo # << >>, ~Ends(None)
               PROVE  \/ /\ x \in allowed /\ UNCHANGED allowed
                         /\ op' = [op EXCEPT !.pc = "allow", !.todo = rest]
                      \/ /\ allowed' = allowed \cup {x}
                         /\ op' = [op EXCEPT !.pc = "verify"]
    BY DEF Allow
  <2>1. CASE x \in allowed /\ op' = [op EXCEPT !.todo = rest] /\ UNCHANGED allowed
    BY <2>1 DEF At, OpsInv, OpsTypeOK
  <2>2. CASE SetAllowed(Operator, x, TRUE) /\ op' = [op EXCEPT !.pc = "verify"]
    BY <2>2 DEF SetAllowed
  <2> QED BY <2>1, <2>2 DEF Allow, x, rest
<1>11. AllowVerify => \/ Ends(None)
                      \/ /\ op.todo # << >> /\ x \in allowed /\ UNCHANGED allowed
                         /\ op' = [op EXCEPT !.pc = "allow", !.todo = rest]
  BY DEF AllowVerify, x, rest, At, OpsInv, OnCourse
<1> QED BY <1>6, <1>7, <1>8, <1>9, <1>10, <1>11

LEMMA AtaKeeps ==
  ASSUME OpsInv, Ata \/ AtaPoll \/ AtaEnds
  PROVE  OpsInv'
<1> DEFINE x == Head(op.todo)
           rest == Tail(op.todo)
<1>1. op.pc \in {"ata", "poll"} /\ UNCHANGED <<adminVars, chainId, asked, quiet>>
  BY DEF Ata, AtaPoll, AtaEnds, At, world
<1>2. op.todo \in Seq(BridgedMints) /\ (op.todo = << >> => Range(op.todo) = {})
  BY <1>1, TasksAre, RangeOf DEF OpsInv, OpsTypeOK
<1>3. op.todo # << >> => rest \in Seq(BridgedMints) /\ Range(op.todo) = {x} \cup Range(rest)
  BY <1>2, FirstAndRest
<1>4. quiet => /\ At("ata") => BridgedMints \subseteq atas \cup Range(op.todo)
               /\ At("poll") => BridgedMints \subseteq atas \cup Range(rest)
  BY DEF OpsInv, Holds
<1>5. AdminInv' /\ asked' \in Commands
  BY <1>1, NextInv DEF OpsInv, OpsTypeOK
<1> HIDE DEF x, rest
<1>6. CASE Ends(None)
  BY <1>5, <1>6, EndsSilently
<1>7. CASE AtaEnds
  <2>1. At("ata") /\ op.todo = << >> /\ Ends("atas") /\ UNCHANGED atas
    BY <1>7 DEF AtaEnds
  <2>2. op'.result = "atas"
    BY <2>1 DEF Ends, Idle
  <2>3. ResultHonest'
    BY <1>1, <1>2, <1>4, <2>1, <2>2 DEF ResultHonest
  <2> QED BY <1>5, <2>1, <2>3, Ending DEF Results
<1>8. CASE /\ op.todo # << >> /\ (x \in atas \/ At("poll")) /\ UNCHANGED atas
           /\ op' = [op EXCEPT !.pc = "ata", !.todo = rest]
  <2>1. op'.pc = "ata" /\ op'.todo = rest
    BY <1>8 DEF OpsInv, OpsTypeOK
  <2>2. op'.todo \in Seq(Tasks(op'.pc))
    BY <1>3, <1>8, <2>1, TasksAre
  <2>3. Holds'
    BY <1>1, <1>3, <1>4, <1>8, <2>1 DEF Holds, At
  <2> QED BY <1>1, <1>8, <2>1, <2>2, <2>3, StageKeeps
<1>9. CASE /\ op.todo # << >> /\ At("ata") /\ atas' = atas \cup {x}
           /\ op' = [op EXCEPT !.pc = "poll"]
  <2>1. op'.pc = "poll" /\ op'.todo = op.todo
    BY <1>9 DEF OpsInv, OpsTypeOK
  <2>2. op' = [op EXCEPT !.pc = op'.pc, !.todo = op'.todo]
    BY <1>9, <2>1 DEF OpsInv, OpsTypeOK
  <2>3. op'.todo \in Seq(Tasks(op'.pc))
    BY <1>2, <2>1, TasksAre
  <2>4. Holds'
    BY <1>1, <1>3, <1>4, <1>9, <2>1 DEF Holds, At, rest
  <2> QED BY <1>1, <1>9, <2>1, <2>2, <2>3, <2>4, StageKeeps
<1>10. Ata => \/ Ends(None)
              \/ /\ op.todo # << >> /\ x \in atas /\ UNCHANGED atas
                 /\ op' = [op EXCEPT !.pc = "ata", !.todo = rest]
              \/ /\ op.todo # << >> /\ At("ata") /\ atas' = atas \cup {x}
                 /\ op' = [op EXCEPT !.pc = "poll"]
  <2> SUFFICES ASSUME Ata, At("ata") /\ op.todo # << >>, ~Ends(None)
               PROVE  \/ /\ x \in atas /\ UNCHANGED atas
                         /\ op' = [op EXCEPT !.pc = "ata", !.todo = rest]
                      \/ /\ atas' = atas \cup {x}
                         /\ op' = [op EXCEPT !.pc = "poll"]
    BY DEF Ata
  <2>1. CASE x \in atas /\ op' = [op EXCEPT !.todo = rest] /\ UNCHANGED atas
    BY <2>1 DEF At, OpsInv, OpsTypeOK
  <2> QED BY <2>1 DEF Ata, x, rest
<1>11. AtaPoll => \/ Ends(None)
                  \/ /\ op.todo # << >> /\ At("poll") /\ UNCHANGED atas
                     /\ op' = [op EXCEPT !.pc = "ata", !.todo = rest]
  BY DEF AtaPoll, rest, At, OpsInv, OnCourse
<1> QED BY <1>6, <1>7, <1>8, <1>9, <1>10, <1>11

LEMMA OpsNextInv ==
  ASSUME RegistriesAgree, OpsInv, [OpsNext]_opsVars
  PROVE  OpsInv'
<1>1. CASE Step
  BY <1>1, ReadListKeeps, ReadKindKeeps, DecideKeeps, CheckCircleKeeps, SendKeeps, AllowKeeps, AtaKeeps
  DEF Step
<1>2. CASE Dies
  <2>1. AdminInv' /\ asked' \in Commands /\ Ends(None)
    BY <1>2, NextInv DEF OpsInv, OpsTypeOK, Dies, world
  <2> QED BY <2>1, EndsSilently
<1>3. CASE Settles \/ UNCHANGED opsVars
  <2>1. UNCHANGED <<adminVars, chainId, asked, allowed, atas, op, quiet>>
    BY <1>3 DEF Settles, opsVars, world
  <2>2. AdminInv'
    BY <2>1, NextInv DEF OpsInv
  <2>3. UNCHANGED <<Open, Wanted, circle, dest>>
    BY <2>1, OpenKept, WantedKept DEF adminVars, list
  <2>4. OpsTypeOK' /\ OnCourse'
    BY <2>1, <2>3 DEF OpsInv, OpsTypeOK, OnCourse, At
  <2>5. Holds'
    BY <2>1, <2>3 DEF OpsInv, Holds, At, Served, Enables, KindFits, EvmShaped
  <2>6. ResultHonest'
    BY <2>1, <2>3 DEF OpsInv, ResultHonest, At, KindFits, EvmShaped
  <2> QED BY <2>2, <2>4, <2>5, <2>6 DEF OpsInv
<1> QED BY <1>1, <1>2, <1>3, OthersKeep, DomainsStart, OthersStart DEF OpsNext

\* The types, the course of a script and what it relies on.
THEOREM OpsInvariant ==
  ASSUME RegistriesAgree
  PROVE  OpsSpec => []OpsInv
<1>1. OpsInit => OpsInv
  BY OpsInitInv
<1>2. OpsInv /\ [OpsNext]_opsVars => OpsInv'
  BY OpsNextInv
<1> QED BY <1>1, <1>2, PTL DEF OpsSpec

\* A result printed by one of the scripts is true unless somebody else has
\* acted since it began, for any registry whose entries agree, any number of
\* destinations, items and mints.
THEOREM ResultsAreHonest ==
  ASSUME RegistriesAgree
  PROVE  OpsSpec => []ResultHonest
<1>1. OpsInv => ResultHonest
  BY DEF OpsInv
<1> QED BY <1>1, OpsInvariant, PTL

\* A script in the middle of its run stays as it is when anybody else acts.
LEMMA OwnStep ==
  ASSUME OpsInv, OpsNext, ~At("idle"), op' # op
  PROVE  Step \/ Dies
<1>1. Others => op' = op
  BY DEF Others, OpsInv, OpsTypeOK, OnCourse, At
<1> QED BY <1>1 DEF OpsNext, StartDomains, StartAllow, StartAtas, Starts, Settles

\* Whoever acts in between, no script sends to a mainnet, and the one for the
\* destinations opens only what is wanted and closes nothing that is.
THEOREM SendsOnlyTowards ==
  ASSUME RegistriesAgree
  PROVE  OpsSpec => SendsTowards
<1> DEFINE noMainnet == <<list, allowed, atas>>' # <<list, allowed, atas>> => chainId \notin MainnetIds
           closer == list' # list => /\ \A w \in Wanted : w \in Open => w \in Open'
                                     /\ \A e \in Open' : e \in Open \/ e \in Wanted
           towards == ~At("idle") /\ op' # op =>
             /\ <<list, allowed, atas>>' # <<list, allowed, atas>> => chainId \notin MainnetIds
             /\ list' # list =>
                  /\ \A w \in Wanted : w \in Open => w \in Open'
                  /\ \A e \in Open' : e \in Open \/ e \in Wanted
<1>1. ASSUME OpsInv, [OpsNext]_opsVars PROVE [towards]_opsVars
  <2> SUFFICES ASSUME OpsNext, ~At("idle"), op' # op
               PROVE  noMainnet /\ closer
    BY <1>1
  <2>1. Step \/ Dies
    BY <1>1, OwnStep
  <2>2. UNCHANGED adminVars => UNCHANGED list
    BY DEF adminVars, list
  <2>3. CASE Send
    <3>1. At("send") /\ UNCHANGED <<asked, allowed, atas>>
      BY <2>3 DEF Send, world
    <3>2. CASE UNCHANGED list
      BY <3>1, <3>2
    <3>3. CASE ~UNCHANGED list
      <4>1. LET c == Head(op.todo)
            IN  \/ c.fn = "enable" /\ EnableCctpDomain(Operator, c.domain, c.kind)
                \/ c.fn = "disable" /\ DisableCctpDomain(Operator, c.domain)
        BY <2>2, <2>3, <3>3 DEF Send
      <4>2. AdminInv'
        BY <1>1, <2>3, SendAdmin
      <4>3. closer
        BY <1>1, <3>1, <4>1, <4>2, SentCall
      <4>4. JudgeChain(chainId, {})
        BY <1>1, <3>1 DEF OpsInv, OnCourse
      <4> QED BY <4>3, <4>4 DEF JudgeChain
    <3> QED BY <3>2, <3>3
  <2>4. CASE Allow \/ Ata
    <3>1. UNCHANGED list
      BY <2>2, <2>4 DEF Allow, Ata
    <3>2. chainId \notin MainnetIds
      BY <1>1, <2>4 DEF OpsInv, OnCourse, Allow, Ata, At, AssertTestnetSend, JudgeChain
    <3> QED BY <3>1, <3>2
  <2>5. CASE \/ ReadList \/ ReadKind \/ Decide \/ CheckCircle
             \/ AllowVerify \/ AllowEnds \/ AtaPoll \/ AtaEnds \/ Dies
    <3>1. UNCHANGED <<list, allowed, atas>>
      BY <2>2, <2>5 DEF ReadList, ReadKind, Decide, CheckCircle, AllowVerify, AllowEnds, AtaPoll, AtaEnds, Dies
    <3> QED BY <3>1
  <2> QED BY <2>1, <2>3, <2>4, <2>5 DEF Step
<1>2. OpsSpec => [][towards]_opsVars
  BY <1>1, OpsInvariant, PTL DEF OpsSpec
<1> QED BY <1>2 DEF SendsTowards
=============================================================================
