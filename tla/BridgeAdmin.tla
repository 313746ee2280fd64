----------------------------- MODULE BridgeAdmin -----------------------------
(***************************************************************************)
(* The owner-managed half of RomeBridgeWithdraw                            *)
(* (contracts/bridge/RomeBridgeWithdraw.sol): the list of CCTP             *)
(* destinations, the pause mask, the guardian and the two-step handover.   *)
(*                                                                         *)
(* The list is kept three times: an array of domains, a 1-based index into *)
(* it, and the destination records that a burn reads.  enable and disable  *)
(* keep them in step by push and swap-and-pop.                             *)
(***************************************************************************)
EXTENDS Integers, Sequences

CONSTANTS Domains,   \* Circle domain numbers
          Refused,   \* DOMAIN_SOLANA, DOMAIN_BNB, DOMAIN_STELLAR
          EvmChains, \* the domains whose chain uses 20-byte addresses
          NoPda,     \* bytes32(0)
          People,    \* addresses that send transactions
          Zero,      \* address(0)
          Rails      \* CCTP, WORMHOLE, TO_SOLANA

RECIPIENT_NONE == 0
RECIPIENT_EVM == 1
RECIPIENT_RAW32 == 2

ASSUME AdminAssumption ==
  /\ Refused \subseteq Domains
  /\ EvmChains \subseteq Domains
  /\ NoPda \notin Domains
  /\ Zero \notin People

VARIABLES circle,        \* external: domains with a RemoteTokenMessenger account
          dest,          \* _cctpDest
          domains,       \* _cctpDomains
          index,         \* _cctpDomainIndex
          paused,        \* _pausedMask, as the set of rails whose bit is set
          owner, pendingOwner, guardian

list == <<dest, domains, index>>
roles == <<owner, pendingOwner, guardian>>
adminVars == <<circle, list, paused, roles>>

\* The PDA of a domain is derived from its number: one each.
Pda(d) == d
NoDest == [rtm |-> NoPda, kind |-> RECIPIENT_NONE]
Dests == [rtm : Domains \cup {NoPda}, kind : {RECIPIENT_NONE, RECIPIENT_EVM, RECIPIENT_RAW32}]

AdminTypeOK ==
  /\ circle \subseteq Domains
  /\ dest \in [Domains -> Dests]
  /\ domains \in Seq(Domains)
  /\ index \in [Domains -> Nat]
  /\ paused \subseteq Rails
  /\ owner \in People
  /\ pendingOwner \in People \cup {Zero}
  /\ guardian \in People \cup {Zero}

AdminInit ==
  /\ circle \in SUBSET Domains
  /\ dest = [d \in Domains |-> NoDest]
  /\ domains = << >>
  /\ index = [d \in Domains |-> 0]
  /\ paused = {}
  /\ owner \in People
  /\ pendingOwner = Zero
  /\ guardian \in People \cup {Zero}

-----------------------------------------------------------------------------
OnlyOwner(s) == s = owner
OwnerOrGuardian(s) == s \in {owner, guardian}

\* Circle's record shows a 20-byte messenger exactly on an EVM chain.
EvmShaped(d) == d \in EvmChains

\* Mutant: the test for RAW32 is forgotten.
KindFitsOneSided(d, kind) ==
  /\ kind \in {RECIPIENT_EVM, RECIPIENT_RAW32}
  /\ kind = RECIPIENT_EVM => EvmShaped(d)

\* The shape tests of enableCctpDomain.
KindFits(d, kind) ==
  /\ kind \in {RECIPIENT_EVM, RECIPIENT_RAW32}
  /\ kind = RECIPIENT_EVM => EvmShaped(d)
  /\ kind = RECIPIENT_RAW32 => ~EvmShaped(d)

\* enableCctpDomain: _readRemoteTokenMessenger reverts unless Circle's
\* account is there.  A domain that is already listed is only rewritten.
EnableCctpDomain(s, d, kind) ==
  /\ OnlyOwner(s)
  /\ d \notin Refused
  /\ d \in circle
  /\ KindFits(d, kind)
  /\ dest' = [dest EXCEPT ![d] = [rtm |-> Pda(d), kind |-> kind]]
  /\ IF index[d] = 0
     THEN /\ domains' = Append(domains, d)
          /\ index' = [index EXCEPT ![d] = Len(domains) + 1]
     ELSE UNCHANGED <<domains, index>>
  /\ UNCHANGED <<circle, paused, roles>>

\* Mutant: the index of the domain that fills the gap is not updated.
SwapAndPopStale(d) ==
  LET last == Len(domains)
  IN  /\ domains' = [k \in 1 .. last - 1 |-> IF k = index[d] THEN domains[last] ELSE domains[k]]
      /\ index' = [index EXCEPT ![d] = 0]

\* The last domain fills the gap; d leaves the array and the index.
SwapAndPop(d) ==
  LET last == Len(domains)
  IN  /\ domains' = [k \in 1 .. last - 1 |-> IF k = index[d] THEN domains[last] ELSE domains[k]]
      /\ index' = [[index EXCEPT ![domains[last]] = index[d]] EXCEPT ![d] = 0]

DisableCctpDomain(s, d) ==
  /\ OwnerOrGuardian(s)
  /\ index[d] # 0
  /\ SwapAndPop(d)
  /\ dest' = [dest EXCEPT ![d] = NoDest]
  /\ UNCHANGED <<circle, paused, roles>>

PauseRail(s, r) ==
  /\ OwnerOrGuardian(s)
  /\ r \notin paused
  /\ paused' = paused \cup {r}
  /\ UNCHANGED <<circle, list, roles>>

\* Mutant: the guardian may restart what it stopped.
UnpauseRailByKeeper(s, r) ==
  /\ OwnerOrGuardian(s)
  /\ r \in paused
  /\ paused' = paused \ {r}
  /\ UNCHANGED <<circle, list, roles>>

UnpauseRail(s, r) ==
  /\ OnlyOwner(s)
  /\ r \in paused
  /\ paused' = paused \ {r}
  /\ UNCHANGED <<circle, list, roles>>

SetGuardian(s, g) ==
  /\ OnlyOwner(s)
  /\ guardian' = g
  /\ UNCHANGED <<circle, list, paused, owner, pendingOwner>>

\* Mutant: one step instead of two.
TransferOwnershipAtOnce(s, p) ==
  /\ OnlyOwner(s)
  /\ owner' = p
  /\ UNCHANGED <<circle, list, paused, pendingOwner, guardian>>

TransferOwnership(s, p) ==
  /\ OnlyOwner(s)
  /\ pendingOwner' = p
  /\ UNCHANGED <<circle, list, paused, owner, guardian>>

AcceptOwnership(s) ==
  /\ s = pendingOwner
  /\ owner' = s
  /\ pendingOwner' = Zero
  /\ UNCHANGED <<circle, list, paused, guardian>>

\* Circle adds or removes the account of a domain, at any time (external).
CircleChanges(d) ==
  /\ circle' = IF d \in circle THEN circle \ {d} ELSE circle \cup {d}
  /\ UNCHANGED <<list, paused, roles>>

AdminCall(s) ==
  \/ \E d \in Domains, kind \in 0 .. 3 : EnableCctpDomain(s, d, kind)
  \/ \E d \in Domains : DisableCctpDomain(s, d)
  \/ \E r \in Rails : PauseRail(s, r) \/ UnpauseRail(s, r)
  \/ \E p \in People \cup {Zero} : SetGuardian(s, p) \/ TransferOwnership(s, p)
  \/ AcceptOwnership(s)

AdminNext ==
  \/ \E s \in People : AdminCall(s)
  \/ \E d \in Domains : CircleChanges(d)

AdminSpec == AdminInit /\ [][AdminNext]_adminVars

-----------------------------------------------------------------------------
(* Properties                                                              *)

\* Array, index and records describe one set: the index inverts the array,
\* and a burn finds a record exactly for the domains cctpDomains() lists.
ListSound ==
  /\ \A i \in 1 .. Len(domains) : index[domains[i]] = i
  /\ \A d \in Domains :
       IF index[d] = 0 THEN dest[d] = NoDest
       ELSE /\ index[d] \in 1 .. Len(domains) /\ domains[index[d]] = d
            /\ dest[d].rtm = Pda(d)

\* A domain that can be burnt to has the recipient format of its chain, and
\* is none of those this contract cannot serve.
FormatFits == \A d \in Domains :
  dest[d].rtm # NoPda =>
    /\ d \notin Refused
    /\ dest[d].kind = IF d \in EvmChains THEN RECIPIENT_EVM ELSE RECIPIENT_RAW32

AdminInv == AdminTypeOK /\ ListSound /\ FormatFits
=============================================================================
