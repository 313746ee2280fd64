---------------------------- MODULE BridgeEgress ----------------------------
(***************************************************************************)
(* The value paths of RomeBridgeWithdraw                                   *)
(* (contracts/bridge/RomeBridgeWithdraw.sol) on top of its admin half.     *)
(*                                                                         *)
(* Every burn pulls the user's tokens, as the user's SPL delegate, into an *)
(* account the bridge owns and shares among all users, and hands them on   *)
(* from there to Circle or to Wormhole.  The message that tells the other  *)
(* chain is an account whose address is derived from a counter of the      *)
(* user, so the counter must never come back to a value it was used with.  *)
(*                                                                         *)
(* A transaction that makes a CPI is one Solana transaction: it happens at *)
(* once or not at all, unless its EVM half is reverted after a CPI and the *)
(* platform keeps what was done on Solana (`torn').                        *)
(***************************************************************************)
EXTENDS BridgeAdmin

CONSTANTS Users,                      \* addresses that burn
          Bridge, Wallet,             \* the bridge; a Solana wallet
          CCTP, WORMHOLE, TO_SOLANA,  \* enum Rail
          Mints, Usdc,
          Native,       \* mints native to Solana, the others are Wormhole's
          Grain,        \* 10 ** (decimals - 8), or 1 up to 8 decimals
          WhChains,     \* Wormhole chain ids
          ZeroKey, Padded, Raw,  \* recipients: zero, 20 bytes left-padded, 32 bytes
          U64Max,
          Amounts,      \* amounts that calls name
          Funds,        \* tokens of each mint a user starts with
          MaxBurns      \* bound on burnNonce

Holders == Users \cup {Bridge, Wallet}

ASSUME EgressAssumption ==
  /\ Rails = {CCTP, WORMHOLE, TO_SOLANA}
  /\ CCTP # WORMHOLE
  /\ Users \subseteq People /\ Bridge \notin People /\ Wallet \notin People
  /\ Bridge # Wallet
  /\ Usdc \in Mints /\ Native \subseteq Mints
  /\ Grain \in [Mints -> Nat \ {0}]
  /\ U64Max \in Nat /\ Amounts \subseteq Nat \ {0} /\ Funds \in [Mints -> Nat] /\ MaxBurns \in Nat
  /\ ZeroKey # Padded /\ Raw # Padded /\ ZeroKey # Raw

VARIABLES wormholeMintAllowed, wormholeTargetChainAllowed, burnNonce,
          bal,       \* Solana: tokens in the ATA of each holder, per mint
          grant,     \* Solana: what the bridge may pull from each user
          whGrant,   \* Solana: what Wormhole may take from the bridge's ATA
          bridgeAtas, walletAtas,   \* Solana: mints whose ATA exists
          messages,  \* Solana: message accounts, each with what it says
          donated,   \* history: tokens sent to the bridge's ATA directly
          torn       \* history: CPIs outlived their EVM transaction

allow == <<wormholeMintAllowed, wormholeTargetChainAllowed>>
egressVars == <<allow, burnNonce, bal, grant, whGrant, bridgeAtas, walletAtas,
                messages, donated, torn>>
vars == <<adminVars, egressVars>>

Keys == {ZeroKey, Padded, Raw}
MessageSet == [rail : {CCTP, WORMHOLE}, user : Users, nonce : Nat, mint : Mints,
               amount : Nat, chain : Domains \cup WhChains, to : Keys]

TypeOK ==
  /\ AdminTypeOK
  /\ wormholeMintAllowed \subseteq Mints
  /\ wormholeTargetChainAllowed \subseteq WhChains
  /\ burnNonce \in [Users -> Nat]
  /\ bal \in [Holders -> [Mints -> Nat]]
  /\ grant \in [Users -> [Mints -> Nat]]
  /\ whGrant \in [Mints -> Nat]
  /\ bridgeAtas \subseteq Mints /\ walletAtas \subseteq Mints
  /\ messages \subseteq MessageSet
  /\ donated \in [Mints -> Nat]
  /\ torn \in BOOLEAN

Init ==
  /\ AdminInit
  /\ wormholeMintAllowed \in SUBSET Mints           \* the seeds
  /\ wormholeTargetChainAllowed \in SUBSET WhChains
  /\ burnNonce = [u \in Users |-> 0]
  /\ bal = [h \in Holders |-> [m \in Mints |-> IF h \in Users THEN Funds[m] ELSE 0]]
  /\ grant = [u \in Users |-> [m \in Mints |-> 0]]
  /\ whGrant = [m \in Mints |-> 0]
  /\ bridgeAtas = {} /\ walletAtas = {}
  /\ messages = {}
  /\ donated = [m \in Mints |-> 0]
  /\ torn = FALSE

-----------------------------------------------------------------------------
(* One outbound transfer                                                   *)

\* Mutant: the grant counts, the balance does not.
CanPullUnbacked(u, m, v) == v <= grant[u][m] /\ m \in bridgeAtas

\* The balance test, and _pullToBridge: transfer_spl of the user's tokens, the bridge as delegate.
CanPull(u, m, v) ==
  /\ v <= bal[u][m] /\ v <= grant[u][m]
  /\ m \in bridgeAtas

\* The tokens left the user; `out' of them also left the bridge.
Move(u, m, v, out) ==
  /\ bal' = [[bal EXCEPT ![u][m] = @ - v] EXCEPT ![Bridge][m] = @ + v - out]
  /\ grant' = [grant EXCEPT ![u][m] = @ - v]

\* A transfer from the user's account to another one.
Pay(u, h, m, v) == bal' = [[bal EXCEPT ![u][m] = @ - v] EXCEPT ![h][m] = @ + v]

Message(rail, u, m, out, chain, to) ==
  [rail |-> rail, user |-> u, nonce |-> burnNonce[u], mint |-> m, amount |-> out,
   chain |-> chain, to |-> to]

\* The account derived from the salt (rail, user, burnNonce[user]) is free.
SaltUnused(rail, u) ==
  \A msg \in messages : ~(msg.rail = rail /\ msg.user = u /\ msg.nonce = burnNonce[u])

\* Mutant: the counter of the user stands still.
CountKept(u) == UNCHANGED burnNonce

\* burnNonce[user] = nonce + 1
Count(u) == burnNonce' = [burnNonce EXCEPT ![u] = @ + 1]

\* What Wormhole may still take once it took `out' of the v it was granted.
Leftover(rail, m, v, out) ==
  whGrant' = IF rail = WORMHOLE THEN [whGrant EXCEPT ![m] = v - out] ELSE whGrant

\* The tail of _burnUSDC, burnToWormhole and transferNativeToWormhole: pull,
\* grant Wormhole its share (no such step for Circle), count, and the CPI,
\* which takes `out' from the bridge's account and writes the message.
Deliver(rail, u, m, v, out, chain, to) ==
  /\ CanPull(u, m, v)
  /\ SaltUnused(rail, u)
  /\ burnNonce[u] < MaxBurns
  /\ Move(u, m, v, out)
  /\ Leftover(rail, m, v, out)
  /\ messages' = messages \cup {Message(rail, u, m, out, chain, to)}
  /\ \/ Count(u) /\ torn' = torn
     \/ UNCHANGED burnNonce /\ torn' = TRUE
  /\ UNCHANGED <<adminVars, allow, bridgeAtas, walletAtas, donated>>

\* The EVM half is reverted after the pull, and perhaps after the grant.
StopHalfway(rail, u, m, v) ==
  /\ CanPull(u, m, v)
  /\ Move(u, m, v, 0)
  /\ \/ UNCHANGED whGrant
     \/ Leftover(rail, m, v, 0)
  /\ torn' = TRUE
  /\ UNCHANGED <<adminVars, allow, burnNonce, bridgeAtas, walletAtas, messages, donated>>

Outbound(rail, u, m, v, out, chain, to) ==
  \/ Deliver(rail, u, m, v, out, chain, to)
  \/ StopHalfway(rail, u, m, v)

\* Mutant: the entry point asks about the rail only.
CctpOpenToAny(d, kind, to) ==
  CCTP \notin paused /\ dest[d].rtm # NoPda /\ to # ZeroKey

\* The guards of _burnUSDC.
CctpOpen(d, kind, to) ==
  /\ CCTP \notin paused
  /\ dest[d].rtm # NoPda
  /\ dest[d].kind = kind
  /\ to # ZeroKey

\* Circle takes a burn to a chain it knows; that it does not any more shows
\* after the pull.
Burn(u, v, to, d) ==
  \/ d \in circle /\ Deliver(CCTP, u, Usdc, v, v, d, to)
  \/ StopHalfway(CCTP, u, Usdc, v)

\* burnUSDC left-pads an address.
BurnUSDC(u, v, to, d) ==
  /\ to \in {ZeroKey, Padded}
  /\ CctpOpen(d, RECIPIENT_EVM, to)
  /\ v <= U64Max
  /\ Burn(u, v, to, d)

BurnUSDCToBytes32(u, v, to, d) ==
  /\ CctpOpen(d, RECIPIENT_RAW32, to)
  /\ v <= U64Max
  /\ Burn(u, v, to, d)

\* Mutant: the switch of the other burn path is consulted.
WormholeOpenBehindCctp(m, c, to) ==
  /\ CCTP \notin paused
  /\ m \in wormholeMintAllowed
  /\ c \in wormholeTargetChainAllowed
  /\ to # ZeroKey

\* The guards that both Wormhole paths share.
WormholeOpen(m, c, to) ==
  /\ WORMHOLE \notin paused
  /\ m \in wormholeMintAllowed
  /\ c \in wormholeTargetChainAllowed
  /\ to # ZeroKey

\* burnToWormhole: transfer_wrapped burns an asset of another chain, which
\* never has more than 8 decimals here.
BurnToWormhole(u, m, v, to, c) ==
  /\ WormholeOpen(m, c, to)
  /\ v <= U64Max
  /\ m \notin Native
  /\ Outbound(WORMHOLE, u, m, v, v, c, to)

\* Mutant: a remainder below 8 decimals is let through.
AlignedAny(m, v) == v >= 0

\* amount % granularity == 0
Aligned(m, v) == v % Grain[m] = 0

\* transferNativeToWormhole: transfer_native takes whole grains only.
TransferNativeToWormhole(u, m, v, to, c) ==
  /\ WormholeOpen(m, c, to)
  /\ v <= U64Max
  /\ Aligned(m, v)
  /\ m \in Native
  /\ Outbound(WORMHOLE, u, m, v, v - (v % Grain[m]), c, to)

\* bridgeOutToSolana: from the user to the wallet, no stop at the bridge.
BridgeOutToSolana(u, m, v, to) ==
  /\ TO_SOLANA \notin paused
  /\ to # ZeroKey
  /\ v <= U64Max
  /\ m \in walletAtas
  /\ v <= bal[u][m] /\ v <= grant[u][m]
  /\ Pay(u, Wallet, m, v)
  /\ grant' = [grant EXCEPT ![u][m] = @ - v]
  /\ UNCHANGED <<adminVars, allow, burnNonce, whGrant, bridgeAtas, walletAtas,
                messages, donated, torn>>

EnsureRecipientAta(m, to) ==
  /\ TO_SOLANA \notin paused
  /\ to # ZeroKey
  /\ walletAtas' = walletAtas \cup {m}
  /\ UNCHANGED <<adminVars, allow, burnNonce, bal, grant, whGrant, bridgeAtas,
                messages, donated, torn>>

EnsureBridgeAta(s, m) ==
  /\ OnlyOwner(s)
  /\ bridgeAtas' = bridgeAtas \cup {m}
  /\ UNCHANGED <<adminVars, allow, burnNonce, bal, grant, whGrant, walletAtas,
                messages, donated, torn>>

-----------------------------------------------------------------------------
(* The Wormhole lists, keyed on the mint of the wrapper they are given     *)

SetWormholeAssetAllowed(s, m, allowed) ==
  /\ OnlyOwner(s)
  /\ wormholeMintAllowed' = IF allowed THEN wormholeMintAllowed \cup {m}
                            ELSE wormholeMintAllowed \ {m}
  /\ UNCHANGED <<adminVars, wormholeTargetChainAllowed, burnNonce, bal, grant, whGrant,
                bridgeAtas, walletAtas, messages, donated, torn>>

SetWormholeTargetChainAllowed(s, c, allowed) ==
  /\ OnlyOwner(s)
  /\ wormholeTargetChainAllowed' = IF allowed THEN wormholeTargetChainAllowed \cup {c}
                                   ELSE wormholeTargetChainAllowed \ {c}
  /\ UNCHANGED <<adminVars, wormholeMintAllowed, burnNonce, bal, grant, whGrant,
                bridgeAtas, walletAtas, messages, donated, torn>>

-----------------------------------------------------------------------------
(* What users do on Solana themselves (external)                           *)

\* approve_spl: the one delegate slot of the ATA goes to the bridge, with n,
\* or to somebody else (n = 0).
ApproveSpl(u, m, n) ==
  /\ grant' = [grant EXCEPT ![u][m] = n]
  /\ UNCHANGED <<adminVars, allow, burnNonce, bal, whGrant, bridgeAtas, walletAtas,
                messages, donated, torn>>

\* Anybody may send tokens to the bridge's account.
Donate(u, m, v) ==
  /\ m \in bridgeAtas /\ v <= bal[u][m]
  /\ Pay(u, Bridge, m, v)
  /\ donated' = [donated EXCEPT ![m] = @ + v]
  /\ UNCHANGED <<adminVars, allow, burnNonce, grant, whGrant, bridgeAtas, walletAtas,
                messages, torn>>

Next ==
  \/ AdminNext /\ UNCHANGED egressVars
  \/ \E u \in Users, v \in Amounts, to \in Keys, d \in Domains :
       BurnUSDC(u, v, to, d) \/ BurnUSDCToBytes32(u, v, to, d)
  \/ \E u \in Users, m \in Mints, v \in Amounts, to \in Keys, c \in WhChains :
       BurnToWormhole(u, m, v, to, c) \/ TransferNativeToWormhole(u, m, v, to, c)
  \/ \E u \in Users, m \in Mints, v \in Amounts, to \in Keys : BridgeOutToSolana(u, m, v, to)
  \/ \E m \in Mints, to \in Keys : EnsureRecipientAta(m, to)
  \/ \E s \in People, m \in Mints : EnsureBridgeAta(s, m)
  \/ \E s \in People, m \in Mints, b \in BOOLEAN : SetWormholeAssetAllowed(s, m, b)
  \/ \E s \in People, c \in WhChains, b \in BOOLEAN : SetWormholeTargetChainAllowed(s, c, b)
  \/ \E u \in Users, m \in Mints, n \in Amounts \cup {0} : ApproveSpl(u, m, n)
  \/ \E u \in Users, m \in Mints, v \in Amounts : Donate(u, m, v)

Spec == Init /\ [][Next]_vars

-----------------------------------------------------------------------------
(* Properties                                                              *)

\* The shared account of the bridge keeps nothing of a user, whatever rail
\* the tokens took, and Wormhole keeps no right over it: every pull is handed
\* on in full.  Only a transaction torn in two can leave something behind.
NothingStranded == ~torn => \A m \in Mints : bal[Bridge][m] = donated[m] /\ whGrant[m] = 0

\* The next message of every user has an address of its own: no burn, on any
\* rail, finds its message account already in use.
NextMessageFree == ~torn => \A u \in Users : SaltUnused(CCTP, u) /\ SaltUnused(WORMHOLE, u)

\* Every message bears a number its user has counted past.
NoncesSpent == ~torn => \A msg \in messages : msg.nonce < burnNonce[msg.user]

\* No USDC is burnt towards a recipient its chain cannot pay, however often
\* the domain was enabled, disabled and enabled again: on an EVM chain the
\* recipient is an address, and no refused domain was ever used.
RecipientsFit == \A msg \in messages : msg.rail = CCTP =>
  /\ msg.chain \in Domains \ Refused
  /\ msg.to # ZeroKey
  /\ msg.chain \in EvmChains => msg.to = Padded

\* The emergency stop holds for every way out: while a rail is paused no
\* message and no token leaves by it, and while both burn rails are paused no
\* tokens of users are collected for a burn.
PausedMeansStopped ==
  [][ /\ \A msg \in messages' \ messages : msg.rail \notin paused
      /\ TO_SOLANA \in paused => bal'[Wallet] = bal[Wallet]
      /\ {CCTP, WORMHOLE} \subseteq paused =>
           \A m \in Mints : bal'[Bridge][m] - donated'[m] = bal[Bridge][m] - donated[m] ]_vars

EgressInv ==
  TypeOK /\ ListSound /\ FormatFits /\ NothingStranded /\ NoncesSpent /\ RecipientsFit
=============================================================================
