------------------------- MODULE BridgeEgress_proofs -------------------------
(***************************************************************************)
(* For any users, mints, chains and amounts: the shared account of the     *)
(* bridge keeps nothing of anybody, no message account is used twice, no   *)
(* USDC goes to a recipient its chain cannot pay, and a paused rail is     *)
(* shut.  The invariant of the admin half is used as it stands.            *)
(***************************************************************************)
EXTENDS BridgeEgress, BridgeAdmin_proofs

LEMMA EgressInit == Init => EgressInv
<1> SUFFICES ASSUME Init PROVE EgressInv
  OBVIOUS
<1>1. AdminInv
  BY InitInv DEF Init
<1>2. TypeOK
  BY <1>1, EgressAssumption DEF Init, TypeOK, AdminInv, Holders
<1>3. NothingStranded /\ NoncesSpent /\ RecipientsFit
  BY EgressAssumption DEF Init, NothingStranded, NoncesSpent, RecipientsFit, Holders
<1> QED BY <1>1, <1>2, <1>3 DEF AdminInv, EgressInv

\* Pull and hand on: what is left at the bridge is v - out.
LEMMA MoveFact ==
  ASSUME TypeOK, NEW u \in Users, NEW m \in Mints, NEW v \in Nat, NEW out \in Nat,
         out <= v, v <= bal[u][m], v <= grant[u][m], Move(u, m, v, out)
  PROVE  /\ bal' \in [Holders -> [Mints -> Nat]]
         /\ grant' \in [Users -> [Mints -> Nat]]
         /\ bal'[Bridge][m] = bal[Bridge][m] + v - out
         /\ \A n \in Mints \ {m} : bal'[Bridge][n] = bal[Bridge][n]
         /\ bal'[Wallet] = bal[Wallet]
<1>1. /\ u \in Holders /\ Bridge \in Holders /\ Wallet \in Holders
      /\ u # Bridge /\ u # Wallet /\ Bridge # Wallet
  BY EgressAssumption DEF Holders
<1>2. bal \in [Holders -> [Mints -> Nat]] /\ grant \in [Users -> [Mints -> Nat]]
  BY DEF TypeOK
<1>3. /\ bal' = [h \in Holders |-> [n \in Mints |->
                   IF h = u /\ n = m THEN bal[h][n] - v
                   ELSE IF h = Bridge /\ n = m THEN bal[h][n] + v - out
                   ELSE bal[h][n]]]
      /\ grant' = [x \in Users |-> [n \in Mints |->
                   IF x = u /\ n = m THEN grant[x][n] - v ELSE grant[x][n]]]
  BY <1>1, <1>2 DEF Move
<1>4. /\ bal[u][m] - v \in Nat /\ grant[u][m] - v \in Nat
      /\ bal[Bridge][m] + v - out \in Nat
      /\ \A h \in Holders, n \in Mints : bal[h][n] \in Nat
      /\ \A x \in Users, n \in Mints : grant[x][n] \in Nat
  BY <1>1, <1>2
<1>5. bal' \in [Holders -> [Mints -> Nat]] /\ grant' \in [Users -> [Mints -> Nat]]
  BY <1>3, <1>4
<1>6. bal'[Wallet] = bal[Wallet]
  <2>1. bal'[Wallet] = [n \in Mints |-> bal[Wallet][n]]
    BY <1>1, <1>3
  <2> QED BY <1>1, <1>2, <2>1
<1> QED BY <1>1, <1>3, <1>5, <1>6

\* A burn that hands on everything it pulls, to a recipient that fits.
LEMMA DeliverKeeps ==
  ASSUME EgressInv, NEW rail \in {CCTP, WORMHOLE}, NEW u \in Users, NEW m \in Mints,
         NEW v \in Nat, NEW chain \in Domains \cup WhChains, NEW to \in Keys,
         Deliver(rail, u, m, v, v, chain, to),
         rail = CCTP => /\ chain \in Domains \ Refused
                        /\ to # ZeroKey
                        /\ chain \in EvmChains => to = Padded
  PROVE  EgressInv'
<1> DEFINE msg == Message(rail, u, m, v, chain, to)
<1>0. /\ TypeOK /\ NothingStranded /\ NoncesSpent /\ RecipientsFit
      /\ ListSound /\ FormatFits
  BY DEF EgressInv
<1>1. /\ v <= bal[u][m] /\ v <= grant[u][m] /\ Move(u, m, v, v)
      /\ Leftover(rail, m, v, v)
      /\ messages' = messages \cup {msg}
      /\ \/ Count(u) /\ torn' = torn
         \/ UNCHANGED burnNonce /\ torn' = TRUE
      /\ UNCHANGED <<adminVars, allow, bridgeAtas, walletAtas, donated>>
  BY DEF Deliver, CanPull
<1>2. /\ bal' \in [Holders -> [Mints -> Nat]] /\ grant' \in [Users -> [Mints -> Nat]]
      /\ \A n \in Mints : bal'[Bridge][n] = bal[Bridge][n]
  <2>1. bal[Bridge][m] + v - v = bal[Bridge][m]
    BY <1>0, EgressAssumption DEF TypeOK, Holders
  <2> QED BY <1>0, <1>1, <2>1, MoveFact
<1>3. whGrant' \in [Mints -> Nat] /\ \A n \in Mints : whGrant'[n] \in {whGrant[n], 0}
  BY <1>0, <1>1 DEF TypeOK, Leftover
<1>4. /\ msg \in MessageSet /\ msg.nonce = burnNonce[u] /\ msg.user = u
      /\ msg.rail = rail /\ msg.chain = chain /\ msg.to = to
  BY <1>0 DEF TypeOK, Message, MessageSet
<1>5. /\ burnNonce' \in [Users -> Nat]
      /\ ~torn' => /\ ~torn
                   /\ burnNonce'[u] = burnNonce[u] + 1
                   /\ \A x \in Users \ {u} : burnNonce'[x] = burnNonce[x]
      /\ torn' \in BOOLEAN
  <2>0. burnNonce \in [Users -> Nat] /\ torn \in BOOLEAN
    BY <1>0 DEF TypeOK
  <2>1. CASE Count(u) /\ torn' = torn
    BY <2>0, <2>1 DEF Count
  <2>2. CASE UNCHANGED burnNonce /\ torn' = TRUE
    BY <2>0, <2>2
  <2> QED BY <1>1, <2>1, <2>2
<1>6. TypeOK'
  BY <1>0, <1>1, <1>2, <1>3, <1>4, <1>5
     DEF TypeOK, AdminTypeOK, adminVars, list, roles, allow
<1>7. NothingStranded'
  BY <1>0, <1>1, <1>2, <1>3, <1>5 DEF NothingStranded
<1>8. NoncesSpent'
  BY <1>0, <1>1, <1>4, <1>5 DEF NoncesSpent, TypeOK, MessageSet
<1>9. RecipientsFit'
  BY <1>0, <1>1, <1>4 DEF RecipientsFit
<1>10. ListSound' /\ FormatFits'
  BY <1>0, <1>1 DEF ListSound, FormatFits, adminVars, list
<1> QED BY <1>6, <1>7, <1>8, <1>9, <1>10 DEF EgressInv

\* A burn torn in two excuses itself.
LEMMA StopKeeps ==
  ASSUME EgressInv, NEW rail \in {CCTP, WORMHOLE}, NEW u \in Users, NEW m \in Mints,
         NEW v \in Nat, StopHalfway(rail, u, m, v)
  PROVE  EgressInv'
<1>0. TypeOK /\ RecipientsFit /\ ListSound /\ FormatFits
  BY DEF EgressInv
<1>1. /\ v <= bal[u][m] /\ v <= grant[u][m] /\ Move(u, m, v, 0)
      /\ (UNCHANGED whGrant) \/ Leftover(rail, m, v, 0)
      /\ torn' = TRUE
      /\ UNCHANGED <<adminVars, allow, burnNonce, bridgeAtas, walletAtas, messages, donated>>
  BY DEF StopHalfway, CanPull
<1>2. bal' \in [Holders -> [Mints -> Nat]] /\ grant' \in [Users -> [Mints -> Nat]]
  BY <1>0, <1>1, MoveFact
<1>3. whGrant' \in [Mints -> Nat]
  BY <1>0, <1>1 DEF TypeOK, Leftover
<1>4. TypeOK'
  BY <1>0, <1>1, <1>2, <1>3 DEF TypeOK, AdminTypeOK, adminVars, list, roles, allow
<1> QED BY <1>0, <1>1, <1>4
        DEF EgressInv, NothingStranded, NoncesSpent, RecipientsFit, ListSound, FormatFits,
            adminVars, list

\* What a burn asks of its destination is what its recipient needs.
LEMMA CctpFits ==
  ASSUME EgressInv, NEW d \in Domains, NEW to \in Keys,
         \/ to \in {ZeroKey, Padded} /\ CctpOpen(d, RECIPIENT_EVM, to)
         \/ CctpOpen(d, RECIPIENT_RAW32, to)
  PROVE  /\ d \in Domains \ Refused
         /\ to # ZeroKey
         /\ d \in EvmChains => to = Padded
<1>1. FormatFits
  BY DEF EgressInv
<1> QED BY <1>1 DEF FormatFits, CctpOpen, RECIPIENT_EVM, RECIPIENT_RAW32

\* Aligned amounts are taken whole.
LEMMA AlignedIsWhole ==
  ASSUME NEW m \in Mints, NEW v \in Nat, Aligned(m, v)
  PROVE  v - (v % Grain[m]) = v
  BY DEF Aligned

LEMMA WholeOutbound ==
  ASSUME NEW u \in Users, NEW m \in Mints, NEW v \in Amounts, NEW to \in Keys,
         NEW c \in WhChains, BurnToWormhole(u, m, v, to, c) \/ TransferNativeToWormhole(u, m, v, to, c)
  PROVE  Outbound(WORMHOLE, u, m, v, v, c, to)
<1>1. CASE BurnToWormhole(u, m, v, to, c)
  BY <1>1 DEF BurnToWormhole
<1>2. CASE TransferNativeToWormhole(u, m, v, to, c)
  <2>1. Aligned(m, v) /\ Outbound(WORMHOLE, u, m, v, v - (v % Grain[m]), c, to)
    BY <1>2 DEF TransferNativeToWormhole
  <2>2. v - (v % Grain[m]) = v
    BY <2>1, EgressAssumption, AlignedIsWhole
  <2> QED BY <2>1, <2>2
<1> QED BY <1>1, <1>2

LEMMA CctpKeeps ==
  ASSUME EgressInv, NEW u \in Users, NEW v \in Amounts, NEW to \in Keys, NEW d \in Domains,
         BurnUSDC(u, v, to, d) \/ BurnUSDCToBytes32(u, v, to, d)
  PROVE  EgressInv'
<1>0. v \in Nat /\ Usdc \in Mints
  BY EgressAssumption
<1>1. /\ d \in Domains \ Refused
      /\ to # ZeroKey
      /\ d \in EvmChains => to = Padded
  BY CctpFits DEF BurnUSDC, BurnUSDCToBytes32
<1>2. Outbound(CCTP, u, Usdc, v, v, d, to)
  BY DEF BurnUSDC, BurnUSDCToBytes32, Burn, Outbound
<1>3. CASE Deliver(CCTP, u, Usdc, v, v, d, to)
  BY <1>0, <1>1, <1>3, DeliverKeeps
<1>4. CASE StopHalfway(CCTP, u, Usdc, v)
  BY <1>0, <1>4, StopKeeps
<1> QED BY <1>2, <1>3, <1>4 DEF Outbound

LEMMA WormholeKeeps ==
  ASSUME EgressInv, NEW u \in Users, NEW m \in Mints, NEW v \in Amounts, NEW to \in Keys,
         NEW c \in WhChains, BurnToWormhole(u, m, v, to, c) \/ TransferNativeToWormhole(u, m, v, to, c)
  PROVE  EgressInv'
<1>0. v \in Nat /\ WORMHOLE # CCTP
  BY EgressAssumption
<1>1. Outbound(WORMHOLE, u, m, v, v, c, to)
  BY WholeOutbound
<1>2. CASE Deliver(WORMHOLE, u, m, v, v, c, to)
  BY <1>0, <1>2, DeliverKeeps
<1>3. CASE StopHalfway(WORMHOLE, u, m, v)
  BY <1>0, <1>3, StopKeeps
<1> QED BY <1>1, <1>2, <1>3 DEF Outbound

\* Tokens that go from the user to somebody else.
LEMMA PaidFact ==
  ASSUME TypeOK, NEW u \in Users, NEW h \in {Bridge, Wallet}, NEW m \in Mints, NEW v \in Nat,
         v <= bal[u][m], Pay(u, h, m, v)
  PROVE  /\ bal' \in [Holders -> [Mints -> Nat]]
         /\ bal'[h] = [n \in Mints |-> IF n = m THEN bal[h][n] + v ELSE bal[h][n]]
         /\ \A g \in {Bridge, Wallet} \ {h} : bal'[g] = bal[g]
<1>1. /\ u \in Holders /\ Bridge \in Holders /\ Wallet \in Holders
      /\ u # Bridge /\ u # Wallet /\ Bridge # Wallet
  BY EgressAssumption DEF Holders
<1>2. bal \in [Holders -> [Mints -> Nat]]
  BY DEF TypeOK
<1>3. bal' = [x \in Holders |-> [n \in Mints |->
                IF x = u /\ n = m THEN bal[x][n] - v
                ELSE IF x = h /\ n = m THEN bal[x][n] + v
                ELSE bal[x][n]]]
  BY <1>1, <1>2 DEF Pay
<1>4. /\ bal[u][m] - v \in Nat
      /\ \A x \in Holders, n \in Mints : bal[x][n] \in Nat /\ bal[x][n] + v \in Nat
  BY <1>1, <1>2
<1>5. \A g \in {Bridge, Wallet} \ {h} : bal'[g] = bal[g]
  <2> TAKE g \in {Bridge, Wallet} \ {h}
  <2>1. bal'[g] = [n \in Mints |-> bal[g][n]]
    BY <1>1, <1>3
  <2> QED BY <1>1, <1>2, <2>1
<1>6. bal' \in [Holders -> [Mints -> Nat]]
  <2>1. ASSUME NEW x \in Holders, NEW n \in Mints
        PROVE  (IF x = u /\ n = m THEN bal[x][n] - v
                ELSE IF x = h /\ n = m THEN bal[x][n] + v
                ELSE bal[x][n]) \in Nat
    BY <1>4
  <2>2. ASSUME NEW x \in Holders PROVE bal'[x] \in [Mints -> Nat]
    BY <1>3, <2>1
  <2>3. bal' = [x \in Holders |-> bal'[x]]
    BY <1>3
  <2> QED BY <2>2, <2>3
<1>7. h \in Holders /\ h # u
  BY <1>1
<1>8. bal'[h] = [n \in Mints |-> IF n = m THEN bal[h][n] + v ELSE bal[h][n]]
  BY <1>3, <1>7
<1> QED BY <1>5, <1>6, <1>8

LEMMA ToSolanaKeeps ==
  ASSUME EgressInv, NEW u \in Users, NEW m \in Mints, NEW v \in Amounts, NEW to \in Keys,
         BridgeOutToSolana(u, m, v, to)
  PROVE  EgressInv'
<1>0. TypeOK /\ v \in Nat
  BY EgressAssumption DEF EgressInv
<1>1. /\ bal' \in [Holders -> [Mints -> Nat]]
      /\ bal'[Bridge] = bal[Bridge]
  BY <1>0, PaidFact, EgressAssumption DEF BridgeOutToSolana
<1>2. grant' \in [Users -> [Mints -> Nat]]
  <2>1. /\ grant \in [Users -> [Mints -> Nat]] /\ v <= grant[u][m]
        /\ grant' = [grant EXCEPT ![u][m] = @ - v]
    BY <1>0 DEF BridgeOutToSolana, TypeOK
  <2>2. grant[u][m] - v \in Nat /\ \A x \in Users, n \in Mints : grant[x][n] \in Nat
    BY <1>0, <2>1
  <2>3. grant' = [x \in Users |-> [n \in Mints |->
                   IF x = u /\ n = m THEN grant[x][n] - v ELSE grant[x][n]]]
    BY <2>1
  <2> QED BY <2>2, <2>3
<1>3. TypeOK'
  BY <1>0, <1>1, <1>2
     DEF BridgeOutToSolana, TypeOK, AdminTypeOK, adminVars, list, roles, allow
<1> QED BY <1>1, <1>3
        DEF BridgeOutToSolana, EgressInv, NothingStranded, NoncesSpent, RecipientsFit,
            ListSound, FormatFits, adminVars, list

LEMMA DonateKeeps ==
  ASSUME EgressInv, NEW u \in Users, NEW m \in Mints, NEW v \in Amounts, Donate(u, m, v)
  PROVE  EgressInv'
<1>0. TypeOK /\ NothingStranded /\ v \in Nat
  BY EgressAssumption DEF EgressInv
<1>1. /\ bal' \in [Holders -> [Mints -> Nat]]
      /\ bal'[Bridge][m] = bal[Bridge][m] + v
      /\ \A n \in Mints \ {m} : bal'[Bridge][n] = bal[Bridge][n]
  <2>1. v <= bal[u][m] /\ Pay(u, Bridge, m, v)
    BY DEF Donate
  <2>2. Bridge \in {Bridge, Wallet}
    OBVIOUS
  <2>3. /\ bal' \in [Holders -> [Mints -> Nat]]
        /\ bal'[Bridge] = [n \in Mints |-> IF n = m THEN bal[Bridge][n] + v ELSE bal[Bridge][n]]
    BY <1>0, <2>1, <2>2, PaidFact
  <2> QED BY <2>3
<1>2. /\ donated' \in [Mints -> Nat]
      /\ donated'[m] = donated[m] + v
      /\ \A n \in Mints \ {m} : donated'[n] = donated[n]
  BY <1>0 DEF Donate, TypeOK
<1>3. TypeOK'
  BY <1>0, <1>1, <1>2
     DEF Donate, TypeOK, AdminTypeOK, adminVars, list, roles, allow
<1>4. NothingStranded'
  BY <1>0, <1>1, <1>2 DEF NothingStranded, Donate
<1> QED BY <1>3, <1>4
        DEF Donate, EgressInv, NoncesSpent, RecipientsFit, ListSound, FormatFits,
            adminVars, list

\* Steps that move no token of the bridge and write no message.
LEMMA StillKeeps ==
  ASSUME EgressInv, TypeOK',
         UNCHANGED <<list, burnNonce, bal, whGrant, messages, donated, torn>>
  PROVE  EgressInv'
  BY DEF EgressInv, NothingStranded, NoncesSpent, RecipientsFit, ListSound, FormatFits, list

LEMMA SmallKeeps ==
  ASSUME EgressInv,
         \/ \E m \in Mints, to \in Keys : EnsureRecipientAta(m, to)
         \/ \E s \in People, m \in Mints : EnsureBridgeAta(s, m)
         \/ \E s \in People, m \in Mints, b \in BOOLEAN : SetWormholeAssetAllowed(s, m, b)
         \/ \E s \in People, c \in WhChains, b \in BOOLEAN : SetWormholeTargetChainAllowed(s, c, b)
         \/ \E u \in Users, m \in Mints, n \in Amounts \cup {0} : ApproveSpl(u, m, n)
  PROVE  EgressInv'
<1>0. TypeOK /\ Amounts \subseteq Nat
  BY EgressAssumption DEF EgressInv
<1>1. UNCHANGED <<list, burnNonce, bal, whGrant, messages, donated, torn>>
  BY DEF EnsureRecipientAta, EnsureBridgeAta, SetWormholeAssetAllowed,
         SetWormholeTargetChainAllowed, ApproveSpl, adminVars
<1>2. UNCHANGED adminVars
  BY DEF EnsureRecipientAta, EnsureBridgeAta, SetWormholeAssetAllowed,
         SetWormholeTargetChainAllowed, ApproveSpl
<1>3. /\ grant' \in [Users -> [Mints -> Nat]]
      /\ wormholeMintAllowed' \subseteq Mints /\ wormholeTargetChainAllowed' \subseteq WhChains
      /\ bridgeAtas' \subseteq Mints /\ walletAtas' \subseteq Mints
  <2>0. /\ grant \in [Users -> [Mints -> Nat]]
        /\ wormholeMintAllowed \subseteq Mints /\ wormholeTargetChainAllowed \subseteq WhChains
        /\ bridgeAtas \subseteq Mints /\ walletAtas \subseteq Mints
    BY <1>0 DEF TypeOK
  <2>1. CASE \E m \in Mints, to \in Keys : EnsureRecipientAta(m, to)
    BY <2>0, <2>1 DEF EnsureRecipientAta, allow
  <2>2. CASE \E s \in People, m \in Mints : EnsureBridgeAta(s, m)
    BY <2>0, <2>2 DEF EnsureBridgeAta, allow
  <2>3. CASE \E s \in People, m \in Mints, b \in BOOLEAN : SetWormholeAssetAllowed(s, m, b)
    BY <2>0, <2>3 DEF SetWormholeAssetAllowed
  <2>4. CASE \E s \in People, c \in WhChains, b \in BOOLEAN : SetWormholeTargetChainAllowed(s, c, b)
    BY <2>0, <2>4 DEF SetWormholeTargetChainAllowed
  <2>5. ASSUME NEW u \in Users, NEW m \in Mints, NEW n \in Amounts \cup {0}, ApproveSpl(u, m, n)
        PROVE  /\ grant' \in [Users -> [Mints -> Nat]]
               /\ wormholeMintAllowed' \subseteq Mints
               /\ wormholeTargetChainAllowed' \subseteq WhChains
               /\ bridgeAtas' \subseteq Mints /\ walletAtas' \subseteq Mints
    <3>1. grant' = [grant EXCEPT ![u][m] = n] /\ n \in Nat
      BY <1>0, <2>5 DEF ApproveSpl
    <3>2. grant' = [x \in Users |-> [k \in Mints |->
                     IF x = u /\ k = m THEN n ELSE grant[x][k]]]
      BY <2>0, <3>1
    <3>3. grant' \in [Users -> [Mints -> Nat]]
      BY <2>0, <3>1, <3>2
    <3> QED BY <2>0, <2>5, <3>3 DEF ApproveSpl, allow
  <2> QED BY <2>1, <2>2, <2>3, <2>4, <2>5
<1>4. TypeOK'
  BY <1>0, <1>1, <1>2, <1>3 DEF TypeOK, AdminTypeOK, adminVars, list, roles
<1> QED BY <1>1, <1>4, StillKeeps

LEMMA AdminKeeps ==
  ASSUME EgressInv, [AdminNext]_adminVars, UNCHANGED egressVars
  PROVE  EgressInv'
<1>0. TypeOK /\ AdminInv
  BY DEF EgressInv, TypeOK, AdminInv
<1>1. AdminInv'
  BY <1>0, NextInv
<1>2. TypeOK'
  BY <1>0, <1>1 DEF TypeOK, AdminInv, egressVars, allow
<1> QED BY <1>1, <1>2
        DEF EgressInv, AdminInv, NothingStranded, NoncesSpent, RecipientsFit, egressVars

LEMMA EgressNext == EgressInv /\ [Next]_vars => EgressInv'
<1> SUFFICES ASSUME EgressInv, [Next]_vars PROVE EgressInv'
  OBVIOUS
<1>1. CASE AdminNext /\ UNCHANGED egressVars
  BY <1>1, AdminKeeps
<1>2. ASSUME NEW u \in Users, NEW v \in Amounts, NEW to \in Keys, NEW d \in Domains,
             BurnUSDC(u, v, to, d) \/ BurnUSDCToBytes32(u, v, to, d)
      PROVE  EgressInv'
  BY <1>2, CctpKeeps
<1>3. ASSUME NEW u \in Users, NEW m \in Mints, NEW v \in Amounts, NEW to \in Keys, NEW c \in WhChains,
             BurnToWormhole(u, m, v, to, c) \/ TransferNativeToWormhole(u, m, v, to, c)
      PROVE  EgressInv'
  BY <1>3, WormholeKeeps
<1>4. ASSUME NEW u \in Users, NEW m \in Mints, NEW v \in Amounts, NEW to \in Keys,
             BridgeOutToSolana(u, m, v, to)
      PROVE  EgressInv'
  BY <1>4, ToSolanaKeeps
<1>5. ASSUME NEW u \in Users, NEW m \in Mints, NEW v \in Amounts, Donate(u, m, v)
      PROVE  EgressInv'
  BY <1>5, DonateKeeps
<1>6. CASE UNCHANGED vars
  BY <1>6, AdminKeeps DEF vars
<1> QED BY <1>1, <1>2, <1>3, <1>4, <1>5, <1>6, SmallKeeps DEF Next

THEOREM EgressInvariant == Spec => []EgressInv
<1> QED BY EgressInit, EgressNext, PTL DEF Spec

\* The variables keep their types.
THEOREM EgressTypes == Spec => []TypeOK
<1>1. EgressInv => TypeOK
  BY DEF EgressInv
<1> QED BY <1>1, EgressInvariant, PTL

\* Whatever burns run, in whatever order and on whatever rail, the account
\* the bridge shares among its users keeps nothing of theirs, and Wormhole
\* keeps no right over it, as long as no transaction is torn.
THEOREM NothingEverStranded == Spec => []NothingStranded
<1>1. EgressInv => NothingStranded
  BY DEF EgressInv
<1> QED BY <1>1, EgressInvariant, PTL

\* No burn is ever blocked by a message account of an earlier one.
THEOREM MessagesNeverCollide == Spec => []NextMessageFree
<1>1. EgressInv => NextMessageFree
  <2> SUFFICES ASSUME EgressInv, ~torn, NEW u \in Users, NEW msg \in messages,
                      msg.user = u, msg.nonce = burnNonce[u]
               PROVE  FALSE
    BY DEF NextMessageFree, SaltUnused
  <2>1. burnNonce[u] \in Nat /\ burnNonce[u] < burnNonce[u]
    BY DEF EgressInv, TypeOK, NoncesSpent
  <2> QED BY <2>1
<1> QED BY <1>1, EgressInvariant, PTL

\* No USDC is burnt towards a recipient its chain cannot pay.
THEOREM RecipientsAlwaysFit == Spec => []RecipientsFit
<1>1. EgressInv => RecipientsFit
  BY DEF EgressInv
<1> QED BY <1>1, EgressInvariant, PTL

-----------------------------------------------------------------------------
(* The pause                                                               *)

Stopped ==
  /\ \A msg \in messages' \ messages : msg.rail \notin paused
  /\ TO_SOLANA \in paused => bal'[Wallet] = bal[Wallet]
  /\ {CCTP, WORMHOLE} \subseteq paused =>
       \A m \in Mints : bal'[Bridge][m] - donated'[m] = bal[Bridge][m] - donated[m]

LEMMA OutboundStops ==
  ASSUME EgressInv, NEW rail \in {CCTP, WORMHOLE}, NEW u \in Users, NEW m \in Mints,
         NEW v \in Nat, NEW chain, NEW to, rail \notin paused,
         Outbound(rail, u, m, v, v, chain, to)
  PROVE  Stopped
<1>0. TypeOK
  BY DEF EgressInv
<1>1. ~({CCTP, WORMHOLE} \subseteq paused)
  OBVIOUS
<1>2. CASE Deliver(rail, u, m, v, v, chain, to)
  <2>1. /\ v <= bal[u][m] /\ v <= grant[u][m] /\ Move(u, m, v, v)
        /\ messages' = messages \cup {Message(rail, u, m, v, chain, to)}
    BY <1>2 DEF Deliver, CanPull
  <2>2. bal'[Wallet] = bal[Wallet]
    BY <1>0, <2>1, MoveFact
  <2> QED BY <1>1, <2>1, <2>2 DEF Stopped, Message
<1>3. CASE StopHalfway(rail, u, m, v)
  <2>1. /\ v <= bal[u][m] /\ v <= grant[u][m] /\ Move(u, m, v, 0)
        /\ messages' = messages
    BY <1>3 DEF StopHalfway, CanPull
  <2>2. bal'[Wallet] = bal[Wallet]
    BY <1>0, <2>1, MoveFact
  <2> QED BY <1>1, <2>1, <2>2 DEF Stopped
<1> QED BY <1>2, <1>3 DEF Outbound

LEMMA PayStops ==
  ASSUME EgressInv, NEW u \in Users, NEW m \in Mints, NEW v \in Amounts,
         \/ \E to \in Keys : BridgeOutToSolana(u, m, v, to)
         \/ Donate(u, m, v)
  PROVE  Stopped
<1>0. /\ TypeOK /\ v \in Nat /\ Bridge # Wallet
      /\ bal[Bridge] \in [Mints -> Nat] /\ donated \in [Mints -> Nat]
  BY EgressAssumption DEF EgressInv, TypeOK, Holders
<1>1. CASE \E to \in Keys : BridgeOutToSolana(u, m, v, to)
  <2>1. /\ v <= bal[u][m] /\ Pay(u, Wallet, m, v)
        /\ TO_SOLANA \notin paused /\ messages' = messages /\ donated' = donated
    BY <1>1 DEF BridgeOutToSolana
  <2>2. bal'[Bridge] = bal[Bridge]
    BY <1>0, <2>1, PaidFact
  <2> QED BY <2>1, <2>2 DEF Stopped
<1>2. CASE Donate(u, m, v)
  <2>1. /\ v <= bal[u][m] /\ Pay(u, Bridge, m, v)
        /\ messages' = messages /\ donated' = [donated EXCEPT ![m] = @ + v]
    BY <1>2 DEF Donate
  <2>2. /\ bal'[Wallet] = bal[Wallet]
        /\ bal'[Bridge] = [n \in Mints |-> IF n = m THEN bal[Bridge][n] + v ELSE bal[Bridge][n]]
    BY <1>0, <2>1, PaidFact
  <2>3. donated' = [n \in Mints |-> IF n = m THEN donated[n] + v ELSE donated[n]]
    BY <1>0, <2>1
  <2>4. ASSUME NEW n \in Mints
        PROVE  bal'[Bridge][n] - donated'[n] = bal[Bridge][n] - donated[n]
    <3>1. bal[Bridge][n] \in Nat /\ donated[n] \in Nat
      BY <1>0
    <3>2. CASE n = m
      BY <1>0, <2>2, <2>3, <3>1, <3>2
    <3>3. CASE n # m
      BY <2>2, <2>3, <3>3
    <3> QED BY <3>2, <3>3
  <2> QED BY <2>1, <2>2, <2>4 DEF Stopped
<1> QED BY <1>1, <1>2

LEMMA EgressStops == EgressInv /\ [Next]_vars => Stopped
<1> SUFFICES ASSUME EgressInv, [Next]_vars PROVE Stopped
  OBVIOUS
<1>0. Amounts \subseteq Nat /\ Usdc \in Mints
  BY EgressAssumption
<1>1. ASSUME UNCHANGED <<bal, donated, messages>>
      PROVE  Stopped
  BY <1>1 DEF Stopped
<1>2. ASSUME NEW u \in Users, NEW v \in Amounts, NEW to \in Keys, NEW d \in Domains,
             BurnUSDC(u, v, to, d) \/ BurnUSDCToBytes32(u, v, to, d)
      PROVE  Stopped
  <2>1. CCTP \notin paused /\ Outbound(CCTP, u, Usdc, v, v, d, to)
    BY <1>2 DEF BurnUSDC, BurnUSDCToBytes32, Burn, Outbound, CctpOpen
  <2> QED BY <1>0, <2>1, OutboundStops
<1>3. ASSUME NEW u \in Users, NEW m \in Mints, NEW v \in Amounts, NEW to \in Keys, NEW c \in WhChains,
             BurnToWormhole(u, m, v, to, c) \/ TransferNativeToWormhole(u, m, v, to, c)
      PROVE  Stopped
  <2>1. WORMHOLE \notin paused /\ Outbound(WORMHOLE, u, m, v, v, c, to)
    BY <1>3, WholeOutbound DEF BurnToWormhole, TransferNativeToWormhole, WormholeOpen
  <2> QED BY <1>0, <2>1, OutboundStops
<1>4. CASE \/ AdminNext /\ UNCHANGED egressVars
           \/ \E m \in Mints, to \in Keys : EnsureRecipientAta(m, to)
           \/ \E s \in People, m \in Mints : EnsureBridgeAta(s, m)
           \/ \E s \in People, m \in Mints, b \in BOOLEAN : SetWormholeAssetAllowed(s, m, b)
           \/ \E s \in People, c \in WhChains, b \in BOOLEAN : SetWormholeTargetChainAllowed(s, c, b)
           \/ \E u \in Users, m \in Mints, n \in Amounts \cup {0} : ApproveSpl(u, m, n)
           \/ UNCHANGED vars
  BY <1>1, <1>4 DEF EnsureRecipientAta, EnsureBridgeAta, SetWormholeAssetAllowed,
       SetWormholeTargetChainAllowed, ApproveSpl, egressVars, vars
<1> QED BY <1>2, <1>3, <1>4, PayStops DEF Next

\* While a rail is paused nothing leaves by it, and while both burn rails are
\* nothing is collected, whatever else users and administrators do.
THEOREM PauseAlwaysStops == Spec => PausedMeansStopped
<1>1. EgressInv /\ [Next]_vars => [Stopped]_vars
  BY EgressStops
<1> QED BY <1>1, EgressInvariant, PTL DEF Spec, PausedMeansStopped, Stopped
=============================================================================
